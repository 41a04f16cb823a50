------------------------- MODULE SharedMemoryProofs -------------------------
(***************************************************************************)
(* Theorems about SharedMemory, for any set of servers and of devices.     *)
(***************************************************************************)
EXTENDS SharedMemory, TLAPS

(* A server past ftruncate has a segment of full size.                     *)
Opened ==
  \A s \in Server :
    /\ spc[s] \in {"opened", "sized", "capturing"} => sfd[s] \in Segment
    /\ spc[s] \in {"sized", "capturing"} => sfd[s] \in sized

(* Somebody who has not removed it since opened the segment of the name.   *)
NameIsHeld ==
  name # None =>
    \E s \in Server :
      spc[s] \in {"opened", "sized", "capturing", "broken", "killed"}

OneSegment ==
  (\A s \in Server : spc[s] \notin {"removed", "cleared"}) =>
    created <= 1 /\ name = created

(* Who is to blame for a segment without its size.                         *)
HalfMade ==
  \A g \in Segment \ sized :
    \E s \in Server : sfd[s] = g /\ spc[s] \in {"opened", "broken"}

SharedMemoryInv == TypeOK /\ Opened /\ NameIsHeld /\ OneSegment /\ HalfMade

-----------------------------------------------------------------------------

LEMMA SharedMemoryInitInv == Init => SharedMemoryInv
BY DEF Init, SharedMemoryInv, TypeOK, Opened, NameIsHeld, OneSegment,
       HalfMade, Segment, None, NotOpen

LEMMA ServerStepType ==
  ASSUME TypeOK, Opened, NEW s \in Server, ServerStep(s)
  PROVE  TypeOK'
<1> USE DEF TypeOK, Segment, None, NotOpen, ServerGo, segments, mayaVars
<1>1. CASE Refuse(s)
  BY <1>1 DEF Refuse
<1>2. CASE stringless_clear(s)
  BY <1>2 DEF stringless_clear, Unlink
<1>3. CASE ShmOpen(s)
  BY <1>3 DEF ShmOpen
<1>4. CASE Ftruncate(s)
  BY <1>4 DEF Ftruncate, Opened
<1>5. CASE FtruncateFails(s)
  BY <1>5 DEF FtruncateFails
<1>6. CASE Capture(s)
  BY <1>6 DEF Capture
<1>7. CASE Finish(s)
  BY <1>7 DEF Finish, Unlink
<1>8. CASE Die(s)
  BY <1>8 DEF Die
<1> QED BY <1>1, <1>2, <1>3, <1>4, <1>5, <1>6, <1>7, <1>8 DEF ServerStep

LEMMA ServerStepInv ==
  ASSUME SharedMemoryInv, NEW s \in Server, ServerStep(s)
  PROVE  SharedMemoryInv'
<1>0. TypeOK'
  BY ServerStepType DEF SharedMemoryInv
<1> USE DEF SharedMemoryInv, TypeOK, Segment, None, NotOpen, ServerGo,
            segments, mayaVars
<1>1. CASE Refuse(s)
  BY <1>0, <1>1 DEF Refuse, Opened, NameIsHeld, OneSegment, HalfMade
<1>2. CASE stringless_clear(s)
  BY <1>0, <1>2 DEF stringless_clear, Unlink, Opened, NameIsHeld, OneSegment,
                    HalfMade
<1>3. CASE ShmOpen(s)
  <2>1. Opened'
    BY <1>0, <1>3 DEF ShmOpen, Opened
  <2>2. NameIsHeld'
    BY <1>0, <1>3 DEF ShmOpen, NameIsHeld
  <2>3. OneSegment'
    BY <1>0, <1>3 DEF ShmOpen, OneSegment
  <2>4. HalfMade'
    BY <1>0, <1>3 DEF ShmOpen, HalfMade
  <2> QED BY <1>0, <2>1, <2>2, <2>3, <2>4
<1>4. CASE Ftruncate(s)
  <2>1. Opened'
    BY <1>0, <1>4 DEF Ftruncate, Opened
  <2>2. NameIsHeld'
    BY <1>0, <1>4 DEF Ftruncate, NameIsHeld
  <2>3. OneSegment'
    BY <1>0, <1>4 DEF Ftruncate, OneSegment
  <2>4. HalfMade'
    BY <1>0, <1>4 DEF Ftruncate, HalfMade
  <2> QED BY <1>0, <2>1, <2>2, <2>3, <2>4
<1>5. CASE FtruncateFails(s)
  BY <1>0, <1>5 DEF FtruncateFails, Opened, NameIsHeld, OneSegment, HalfMade
<1>6. CASE Capture(s)
  BY <1>0, <1>6 DEF Capture, Opened, NameIsHeld, OneSegment, HalfMade
<1>7. CASE Finish(s)
  BY <1>0, <1>7 DEF Finish, Unlink, Opened, NameIsHeld, OneSegment, HalfMade
<1>8. CASE Die(s)
  BY <1>0, <1>8 DEF Die, Opened, NameIsHeld, OneSegment, HalfMade
<1> QED BY <1>1, <1>2, <1>3, <1>4, <1>5, <1>6, <1>7, <1>8 DEF ServerStep

LEMMA DeviceStepInv ==
  ASSUME SharedMemoryInv, NEW d \in Device, DeviceStep(d)
  PROVE  SharedMemoryInv'
<1>1. UNCHANGED << name, created, sized, spc, sfd >>
  BY DEF DeviceStep, AssignManager, OpenSegment, OpenFails, MapSegment,
         ReadFaults, EndThread, segments, serverVars
<1>2. TypeOK'
  BY <1>1 DEF SharedMemoryInv, TypeOK, Segment, DeviceStep, DeviceGo,
              AssignManager, OpenSegment, OpenFails, MapSegment, ReadFaults,
              EndThread, segments, serverVars, None
<1> QED BY <1>1, <1>2 DEF SharedMemoryInv, Opened, NameIsHeld, OneSegment,
                          HalfMade, Segment

LEMMA SharedMemoryStepInv == SharedMemoryInv /\ [Next]_vars => SharedMemoryInv'
<1> SUFFICES ASSUME SharedMemoryInv, [Next]_vars PROVE SharedMemoryInv'
  OBVIOUS
<1>1. CASE \E s \in Server : ServerStep(s)
  BY <1>1, ServerStepInv
<1>2. CASE \E d \in Device : DeviceStep(d)
  BY <1>2, DeviceStepInv
<1>3. CASE UNCHANGED vars
  BY <1>3 DEF SharedMemoryInv, TypeOK, Opened, NameIsHeld, OneSegment,
              HalfMade, Segment, vars
<1> QED BY <1>1, <1>2, <1>3 DEF Next

(* What holds of every reachable state, whatever processes are started and *)
(* wherever they die: the strengthening the theorems below rest on.        *)
THEOREM SharedMemoryInvariant == Spec => []SharedMemoryInv
BY SharedMemoryInitInv, SharedMemoryStepInv, PTL DEF Spec

(* Descriptors, names and the static reader lead to segments that are      *)
(* there, or nowhere.                                                      *)
THEOREM SharedMemoryTypes == Spec => []TypeOK
<1>1. SharedMemoryInv => TypeOK
  BY DEF SharedMemoryInv
<1> QED BY <1>1, SharedMemoryInvariant, PTL

(* MemoryManager::init and main: a capturing server's stores fit.          *)
THEOREM SharedMemoryStoresFit == Spec => []StoresFit
<1>1. SharedMemoryInv => StoresFit
  BY DEF SharedMemoryInv, Opened, StoresFit
<1> QED BY <1>1, SharedMemoryInvariant, PTL

(* MemoryManager::remove and main: an orderly end leaves no segment.       *)
THEOREM SharedMemoryNothingLeft == Spec => []NothingLeftBehind
<1>1. SharedMemoryInv => NothingLeftBehind
  BY DEF SharedMemoryInv, NameIsHeld, NothingLeftBehind
<1> QED BY <1>1, SharedMemoryInvariant, PTL

(* MemoryManager::init: a restarted server takes over the segment that a   *)
(* dead one left.                                                          *)
THEOREM SharedMemoryRestart == Spec => []RestartTakesOver
<1>1. SharedMemoryInv => RestartTakesOver
  BY DEF SharedMemoryInv, OneSegment, RestartTakesOver, TypeOK, Segment,
         None, NotOpen
<1> QED BY <1>1, SharedMemoryInvariant, PTL

-----------------------------------------------------------------------------
(* With a single device node the descriptor a thread maps is its own.      *)

Attached ==
  \A d \in Device :
    /\ dpc[d] = "opened" => fd \in Segment
    /\ dpc[d] = "looping" => reader \in Segment

LEMMA AttachedStep ==
  ASSUME \A d, e \in Device : d = e, SharedMemoryInv, Attached, [Next]_vars
  PROVE  Attached'
<1>1. CASE \E s \in Server : ServerStep(s)
  <2>1. UNCHANGED mayaVars
    BY <1>1 DEF ServerStep, Refuse, stringless_clear, ShmOpen, Ftruncate,
                FtruncateFails, Capture, Finish, Die
  <2>2. created <= created' /\ created \in Nat /\ created' \in Nat
    BY <1>1 DEF ServerStep, Refuse, stringless_clear, ShmOpen, Ftruncate,
                FtruncateFails, Capture, Finish, Die, Unlink, segments,
                SharedMemoryInv, TypeOK
  <2> QED BY <2>1, <2>2 DEF Attached, Segment, mayaVars
<1>2. CASE \E d \in Device : DeviceStep(d)
  BY <1>2 DEF DeviceStep, DeviceGo, AssignManager, OpenSegment, OpenFails,
              MapSegment, ReadFaults, EndThread, segments, Attached, Segment,
              SharedMemoryInv, TypeOK, None
<1>3. CASE UNCHANGED vars
  BY <1>3 DEF Attached, Segment, vars
<1> QED BY <1>1, <1>2, <1>3 DEF Next

(* threadHandler: a device that is alone in its scene faults only on a     *)
(* segment whose server stopped half way through MemoryManager::init.      *)
THEOREM SharedMemoryFaults ==
  ASSUME \A d, e \in Device : d = e
  PROVE  Spec => FaultsOnlyHalfMade
<1> DEFINE Blamed ==
      maya' # maya =>
        \E s \in Server : sfd[s] = reader /\ spc[s] \in {"opened", "broken"}
<1>1. Init => Attached
  BY DEF Init, Attached
<1>2. SharedMemoryInv /\ Attached /\ [Next]_vars => Attached'
  BY AttachedStep
<1>3. SharedMemoryInv /\ Attached /\ [Next]_vars => [Blamed]_vars
  <2> SUFFICES ASSUME SharedMemoryInv, Attached, Next, maya' # maya
               PROVE  \E s \in Server :
                        sfd[s] = reader /\ spc[s] \in {"opened", "broken"}
    BY DEF vars
  <2>1. PICK d \in Device : ReadFaults(d)
    BY DEF Next, ServerStep, Refuse, stringless_clear, ShmOpen, Ftruncate,
           FtruncateFails, Capture, Finish, Die, mayaVars, DeviceStep,
           AssignManager, OpenSegment, OpenFails, MapSegment, EndThread
  <2>2. reader \in Segment \ sized
    BY <2>1 DEF ReadFaults, Attached
  <2> QED BY <2>2 DEF SharedMemoryInv, HalfMade
<1> QED BY <1>1, <1>2, <1>3, SharedMemoryInvariant, PTL
        DEF Spec, FaultsOnlyHalfMade

=============================================================================
