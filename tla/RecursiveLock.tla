---------------------------- MODULE RecursiveLock ----------------------------
(***************************************************************************)
(* What a recursive mutex promises: one thread at a time owns it, and owns *)
(* it as often as it has locked it and not unlocked it again.              *)
(***************************************************************************)
EXTENDS Integers

CONSTANT Thread

VARIABLE held  \* how often each thread owns the mutex

Init == held = [t \in Thread |-> 0]

Change(t) == held'[t] \in Nat /\ held' = [held EXCEPT ![t] = held'[t]]

Acquire(t) ==
  /\ \A u \in Thread \ {t} : held[u] = 0
  /\ Change(t) /\ held'[t] > held[t]

Release(t) == Change(t) /\ held'[t] < held[t]

Next == \E t \in Thread : Acquire(t) \/ Release(t)

Spec == Init /\ [][Next]_held

=============================================================================
