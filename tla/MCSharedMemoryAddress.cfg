SPECIFICATION Spec
CONSTANTS
  Server = {s1}
  Device = {d1, d2}
INVARIANT
  AddressIsAPointer
CHECK_DEADLOCK FALSE
