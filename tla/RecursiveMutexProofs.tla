------------------------ MODULE RecursiveMutexProofs ------------------------
(***************************************************************************)
(* That rmutex and rsignaler are a recursive lock, waiting included, for   *)
(* any number of threads and any depth of nesting.  The inductive          *)
(* invariant adds to rmutex's CONVENTION what a thread that does not run   *)
(* keeps of its nested locks.                                              *)
(***************************************************************************)
EXTENDS RecursiveMutex, TLAPS

(* The members of the mutex and what the threads know of it.               *)
LockTypes ==
  /\ count \in 0 .. MaxDepth
  /\ thread_id \in Thread \cup {NoThread}
  /\ pc \in [Thread -> Place]
  /\ times \in [Thread -> 0 .. MaxDepth]
  /\ depth \in [Thread -> 0 .. MaxDepth]
  /\ calls \in 0 .. MaxCalls

(* A thread on its way back to the mutex will lock it as often as the code *)
(* outside believes.                                                       *)
Remembered == \A t \in Thread : pc[t] # "running" => depth[t] = times[t]

CoreInv == LockTypes /\ Convention /\ Remembered

UserTypes ==
  /\ has_been_destroyed \in BOOLEAN
  /\ testing \subseteq Thread
  /\ told \in BOOLEAN

(* What a thread has found stays so until it calls wait(): it owns the     *)
(* mutex, and nobody can change it without.                                *)
TestHolds ==
  \A t \in testing : pc[t] = "running" /\ depth[t] > 0 /\ ~has_been_destroyed

ToldIsSo == told => has_been_destroyed

UserInv == UserTypes /\ TestHolds /\ ToldIsSo /\ NobodySleepsOn

MutexInv == CoreInv /\ UserInv

-----------------------------------------------------------------------------

(* A signal moves threads from asleep to awake, and no other.              *)
LEMMA SignalledMoves ==
  ASSUME NEW where \in [Thread -> Place],
         NEW asleep \in Place, NEW awake \in Place,
         NEW after \in Signalled(where, asleep, awake)
  PROVE  /\ after \in [Thread -> Place]
         /\ \A u \in Thread :
              \/ after[u] = where[u]
              \/ where[u] = asleep /\ after[u] = awake
BY DEF Signalled

LEMMA InitCoreInv == RecursiveMutexAssumption /\ Init => CoreInv
BY DEF RecursiveMutexAssumption, Init, CoreInv, LockTypes, Place, Convention,
       Remembered, held

(* lock(), or a thread that tries again: what Own does to an invariant     *)
(* that holds of the depth the thread has asked for.                       *)
LEMMA OwnCoreInv ==
  ASSUME RecursiveMutexAssumption, CoreInv,
         NEW t \in Thread, NEW n \in 0 .. MaxDepth, NEW from,
         Own(t, n, from),
         depth' \in [Thread -> 0 .. MaxDepth],
         \A u \in Thread \ {t} : depth'[u] = depth[u],
         times' \in [Thread -> 0 .. MaxDepth],
         \A u \in Thread \ {t} : times'[u] = times[u],
         times'[t] = n,
         depth'[t] = held[t] + n,
         calls' \in 0 .. MaxCalls
  PROVE  CoreInv'
<1>1. /\ count \in 0 .. MaxDepth /\ count \in Int /\ n \in Int
      /\ MaxDepth \in Nat
      /\ held[t] = IF thread_id = t THEN count ELSE 0
  BY DEF CoreInv, LockTypes, Convention, RecursiveMutexAssumption
<1>2. CASE from # "retry" /\ thread_id = t
  <2>1. /\ pc[t] = from
        /\ pc' = [pc EXCEPT ![t] = "running"]
        /\ count' = count + n /\ thread_id' = t
    BY <1>2 DEF Own, Go, Count
  <2>2. depth'[t] = count + n
    BY <1>1, <1>2
  <2>3. LockTypes'
    BY <1>1, <2>1, <2>2 DEF CoreInv, LockTypes, Place
  <2>4. Convention'
    BY <1>2, <2>1, <2>2 DEF CoreInv, LockTypes, Convention, held
  <2>5. Remembered'
    BY <2>1 DEF CoreInv, LockTypes, Remembered
  <2> QED
    BY <2>3, <2>4, <2>5 DEF CoreInv
<1>3. CASE ~(from # "retry" /\ thread_id = t) /\ count # 0
  <2>1. /\ pc[t] = from
        /\ pc' = [pc EXCEPT ![t] = "queued"]
        /\ count' = count /\ thread_id' = thread_id
    BY <1>3 DEF Own, Go, Taken
  <2>2. thread_id # t /\ held[t] = 0
    <3>1. CASE from = "retry"
      BY <1>1, <1>3, <2>1, <3>1 DEF held
    <3>2. CASE thread_id # t
      BY <1>1, <3>2
    <3> QED
      BY <1>3, <3>1, <3>2
  <2>3. LockTypes'
    BY <2>1 DEF CoreInv, LockTypes, Place
  <2>4. Convention'
    BY <2>1, <2>2 DEF CoreInv, LockTypes, Convention, held
  <2>5. Remembered'
    BY <1>1, <2>1, <2>2 DEF CoreInv, LockTypes, Remembered
  <2> QED
    BY <2>3, <2>4, <2>5 DEF CoreInv
<1>4. CASE ~(from # "retry" /\ thread_id = t) /\ count = 0
  <2>1. /\ pc' = [pc EXCEPT ![t] = "running"]
        /\ count' = n /\ thread_id' = t
    BY <1>4 DEF Own, Go, Claim, Taken
  <2>2. held[t] = 0 /\ \A u \in Thread : held[u] = 0
    BY <1>1, <1>4 DEF CoreInv, Convention
  <2>3. LockTypes'
    BY <2>1 DEF CoreInv, LockTypes, Place
  <2>4. Convention'
    BY <1>1, <2>1, <2>2 DEF CoreInv, LockTypes, Convention, held
  <2>5. Remembered'
    BY <2>1 DEF CoreInv, LockTypes, Remembered
  <2> QED
    BY <2>3, <2>4, <2>5 DEF CoreInv
<1> QED
  BY <1>2, <1>3, <1>4

(* unlock() and the unlocking in wait(): what is left, and who is woken.   *)
LEMMA UncountMoves ==
  ASSUME LockTypes, NEW n \in 0 .. MaxDepth, MaxDepth \in Nat,
         NEW where \in [Thread -> Place],
         Uncount(n, where)
  PROVE  /\ count' = IF count <= n THEN 0 ELSE count - n
         /\ count' \in 0 .. MaxDepth
         /\ pc' \in [Thread -> Place]
         /\ \A u \in Thread : \/ pc'[u] = where[u]
                              \/ where[u] = "queued" /\ pc'[u] = "retry"
<1>1. CASE count <= n
  BY <1>1, SignalledMoves DEF Uncount, Place
<1>2. CASE ~(count <= n)
  BY <1>2 DEF Uncount, LockTypes
<1> QED
  BY <1>1, <1>2

LEMMA lockCoreInv ==
  ASSUME RecursiveMutexAssumption, CoreInv, NEW t \in Thread, NEW n \in Times,
         lock(t, n)
  PROVE  CoreInv'
<1>1. /\ n \in 0 .. MaxDepth /\ Own(t, n, "running")
      /\ times' = [times EXCEPT ![t] = n]
      /\ depth' = [depth EXCEPT ![t] = @ + n]
      /\ depth[t] + n <= MaxDepth
      /\ calls < MaxCalls /\ calls' = calls + 1
  BY DEF lock, Times, RecursiveMutexAssumption
<1>2. pc[t] = "running"
  BY <1>1 DEF Own, Go
<1>3. /\ depth' \in [Thread -> 0 .. MaxDepth]
      /\ times' \in [Thread -> 0 .. MaxDepth]
      /\ calls' \in 0 .. MaxCalls
  BY <1>1 DEF RecursiveMutexAssumption, CoreInv, LockTypes
<1>4. times'[t] = n /\ depth'[t] = held[t] + n
  BY <1>1, <1>2 DEF CoreInv, LockTypes, held
<1>5. \A u \in Thread \ {t} : depth'[u] = depth[u] /\ times'[u] = times[u]
  BY <1>1 DEF CoreInv, LockTypes, Place
<1> QED
  BY <1>1, <1>3, <1>4, <1>5, OwnCoreInv

LEMMA RetryRelockCoreInv ==
  ASSUME RecursiveMutexAssumption, CoreInv, NEW t \in Thread,
         Retry(t) \/ Relock(t)
  PROVE  CoreInv'
<1>1. /\ UNCHANGED << times, depth, calls >>
      /\ Own(t, times[t], "retry") \/ Own(t, times[t], "relock")
      /\ times[t] \in 0 .. MaxDepth
  BY DEF Retry, Relock, CoreInv, LockTypes
<1>2. pc[t] \in {"retry", "relock"}
  BY <1>1 DEF Own, Go
<1>3. depth'[t] = held[t] + times[t] /\ times'[t] = times[t]
  BY <1>1, <1>2 DEF CoreInv, Remembered, held, LockTypes
<1>4. /\ depth' \in [Thread -> 0 .. MaxDepth]
      /\ times' \in [Thread -> 0 .. MaxDepth]
      /\ calls' \in 0 .. MaxCalls
      /\ \A u \in Thread \ {t} : depth'[u] = depth[u] /\ times'[u] = times[u]
  BY <1>1 DEF CoreInv, LockTypes, Place
<1> QED
  BY <1>1, <1>3, <1>4, OwnCoreInv

LEMMA unlockCoreInv ==
  ASSUME RecursiveMutexAssumption, CoreInv, NEW t \in Thread, NEW n \in Times,
         unlock(t, n)
  PROVE  CoreInv'
<1>1. /\ n \in 0 .. MaxDepth /\ MaxDepth \in Nat
      /\ pc[t] = "running" /\ thread_id = t
      /\ Uncount(n, pc)
      /\ depth' = [depth EXCEPT ![t] = IF @ <= n THEN 0 ELSE @ - n]
      /\ UNCHANGED << thread_id, times, calls >>
  BY DEF unlock, Times, RecursiveMutexAssumption
<1>2. LockTypes /\ Convention /\ Remembered
  BY DEF CoreInv
<1>3. /\ count' = IF count <= n THEN 0 ELSE count - n
      /\ count' \in 0 .. MaxDepth
      /\ pc' \in [Thread -> Place]
      /\ \A u \in Thread : \/ pc'[u] = pc[u]
                           \/ pc[u] = "queued" /\ pc'[u] = "retry"
  BY <1>1, <1>2, UncountMoves DEF LockTypes, Place
<1>4. depth[t] = count /\ depth'[t] = count'
  BY <1>1, <1>2, <1>3 DEF LockTypes, Convention, held
<1>5. LockTypes'
  BY <1>1, <1>2, <1>3 DEF LockTypes, Place
<1>6. Convention'
  BY <1>1, <1>2, <1>3, <1>4 DEF LockTypes, Convention, held
<1>7. Remembered'
  BY <1>1, <1>2, <1>3 DEF LockTypes, Remembered
<1> QED
  BY <1>5, <1>6, <1>7 DEF CoreInv

LEMMA waitCoreInv ==
  ASSUME RecursiveMutexAssumption, CoreInv, TestHolds, NEW t \in Thread,
         wait(t)
  PROVE  CoreInv'
<1> DEFINE where == [pc EXCEPT ![t] = "releasing"]
<1>1. /\ MaxDepth \in Nat /\ MaxCalls \in Nat
      /\ calls < MaxCalls /\ calls' = calls + 1
      /\ pc[t] = "running" /\ depth[t] > 0
      /\ times' = [times EXCEPT ![t] = count]
      /\ Uncount(count, where)
      /\ UNCHANGED << thread_id, depth >>
  BY DEF wait, Saved, RecursiveMutexAssumption, TestHolds
<1>2. LockTypes /\ Convention /\ Remembered
  BY DEF CoreInv
<1>3. /\ count \in 0 .. MaxDepth
      /\ where \in [Thread -> Place]
  BY <1>2 DEF LockTypes, Place
<1>4. /\ count' = 0
      /\ pc' \in [Thread -> Place]
      /\ \A u \in Thread : \/ pc'[u] = where[u]
                           \/ where[u] = "queued" /\ pc'[u] = "retry"
  <2> HIDE DEF where
  <2>1. /\ count' = IF count <= count THEN 0 ELSE count - count
        /\ pc' \in [Thread -> Place]
        /\ \A u \in Thread : \/ pc'[u] = where[u]
                             \/ where[u] = "queued" /\ pc'[u] = "retry"
    BY <1>1, <1>2, <1>3, UncountMoves
  <2> QED
    BY <1>3, <2>1
<1>5. thread_id = t /\ depth[t] = count
  BY <1>1, <1>2 DEF LockTypes, Convention, held
<1>6. LockTypes'
  BY <1>1, <1>2, <1>3, <1>4 DEF LockTypes, Place
<1>7. Convention'
  BY <1>1, <1>2, <1>4, <1>5 DEF LockTypes, Convention, held
<1>8. Remembered'
  BY <1>1, <1>2, <1>3, <1>4, <1>5 DEF LockTypes, Remembered
<1> QED
  BY <1>6, <1>7, <1>8 DEF CoreInv

(* The steps that move threads which wait for one another and touch        *)
(* neither the mutex nor what its owner believes.                          *)
LEMMA WaitingCoreInv ==
  ASSUME CoreInv, NEW t \in Thread,
         \/ Sleep(t) \/ Wake(t) \/ signal(t) \/ broadcast(t) \/ Spurious(t)
         \/ wait_until_closed(t) \/ close_window(t)
  PROVE  CoreInv'
<1>1. LockTypes /\ Convention /\ Remembered
  BY DEF CoreInv
<1>2. UNCHANGED << count, thread_id, times, depth, calls >>
  BY DEF Sleep, Wake, signal, broadcast, Spurious, wait_until_closed,
         close_window
<1>3. /\ pc' \in [Thread -> Place]
      /\ \A u \in Thread : pc'[u] = "running" <=> pc[u] = "running"
  <2>1. CASE Sleep(t) \/ Wake(t) \/ Spurious(t)
    BY <1>1, <2>1 DEF LockTypes, Sleep, Wake, Spurious, Go, Place
  <2>2. CASE signal(t)
    BY <1>1, <2>2, SignalledMoves DEF LockTypes, signal, Place
  <2>3. CASE broadcast(t)
    BY <1>1, <2>3 DEF LockTypes, broadcast, Place
  <2>4. CASE wait_until_closed(t) \/ close_window(t)
    BY <1>1, <2>4 DEF LockTypes, wait_until_closed, close_window
  <2> QED
    BY <2>1, <2>2, <2>3, <2>4
<1> QED
  BY <1>1, <1>2, <1>3 DEF CoreInv, LockTypes, Convention, Remembered, held

LEMMA NextCoreInv ==
  RecursiveMutexAssumption /\ MutexInv /\ [Next]_vars => CoreInv'
<1> SUFFICES ASSUME RecursiveMutexAssumption, CoreInv, TestHolds, [Next]_vars
             PROVE  CoreInv'
  BY DEF MutexInv, UserInv
<1>1. CASE UNCHANGED vars
  BY <1>1 DEF vars, CoreInv, LockTypes, Convention, Remembered, held
<1>2. ASSUME NEW t \in Thread, NEW n \in Times, lock(t, n)
      PROVE  CoreInv'
  BY <1>2, lockCoreInv
<1>3. ASSUME NEW t \in Thread, NEW n \in Times, unlock(t, n)
      PROVE  CoreInv'
  BY <1>3, unlockCoreInv
<1>4. ASSUME NEW t \in Thread, Retry(t) \/ Relock(t)
      PROVE  CoreInv'
  BY <1>4, RetryRelockCoreInv
<1>5. ASSUME NEW t \in Thread, wait(t)
      PROVE  CoreInv'
  BY <1>5, waitCoreInv
<1>6. ASSUME NEW t \in Thread,
             \/ Sleep(t) \/ Wake(t) \/ signal(t) \/ broadcast(t) \/ Spurious(t)
             \/ wait_until_closed(t) \/ close_window(t)
      PROVE  CoreInv'
  BY <1>6, WaitingCoreInv
<1> QED
  BY <1>1, <1>2, <1>3, <1>4, <1>5, <1>6 DEF Next

(* Two threads that run cannot both be inside.                             *)
LEMMA OneInside ==
  ASSUME CoreInv, NEW t \in Thread, NEW u \in Thread,
         pc[t] = "running", depth[t] > 0, pc[u] = "running", depth[u] > 0
  PROVE  t = u
<1>1. held[t] # 0 /\ held[u] # 0
  BY DEF held, CoreInv, LockTypes
<1> QED
  BY <1>1 DEF CoreInv, Convention

(* A step that sets nothing the users of the signaler share, leaves those  *)
(* who have tested where they are, and puts nobody to sleep.               *)
LEMMA UserInvKept ==
  ASSUME UserInv, UNCHANGED user,
         \A t \in testing : pc'[t] = pc[t] /\ depth'[t] = depth[t],
         \A t \in Thread : \/ pc'[t] = pc[t]
                           \/ pc'[t] \notin {"releasing", "waiting"}
                           \/ pc[t] = "releasing"
  PROVE  UserInv'
<1>1. UserTypes' /\ ToldIsSo'
  BY DEF UserInv, user, UserTypes, ToldIsSo
<1>2. TestHolds'
  BY DEF UserInv, user, TestHolds, UserTypes
<1>3. NobodySleepsOn'
  BY DEF UserInv, user, NobodySleepsOn
<1> QED
  BY <1>1, <1>2, <1>3 DEF UserInv

(* lock(), or a thread that tries again: a tester does neither.            *)
LEMMA OwnUserInv ==
  ASSUME MutexInv, UNCHANGED user, NEW t \in Thread \ testing,
         NEW n, NEW from, Own(t, n, from),
         \A u \in Thread \ {t} : depth'[u] = depth[u]
  PROVE  UserInv'
<1>1. /\ pc \in [Thread -> Place] /\ testing \subseteq Thread /\ UserInv
      /\ \E to \in {"running", "queued"} : pc' = [pc EXCEPT ![t] = to]
  BY DEF MutexInv, CoreInv, LockTypes, UserInv, UserTypes, Own, Go
<1> QED
  BY <1>1, UserInvKept

LEMMA NextUserInv ==
  RecursiveMutexAssumption /\ MutexInv /\ [Next]_vars => UserInv'
<1> SUFFICES ASSUME RecursiveMutexAssumption, MutexInv, [Next]_vars
             PROVE  UserInv'
  OBVIOUS
<1>1. /\ CoreInv /\ UserInv /\ LockTypes
      /\ MaxDepth \in Nat
      /\ pc \in [Thread -> Place] /\ testing \subseteq Thread
      /\ depth \in [Thread -> 0 .. MaxDepth]
      /\ \A u \in testing : pc[u] = "running"
  BY DEF MutexInv, CoreInv, LockTypes, UserInv, UserTypes, TestHolds,
         RecursiveMutexAssumption
<1>2. CASE UNCHANGED vars
  BY <1>1, <1>2, UserInvKept DEF vars
<1>3. ASSUME NEW t \in Thread, NEW n \in Times, lock(t, n)
      PROVE  UserInv'
  <2>1. /\ t \notin testing /\ Own(t, n, "running") /\ UNCHANGED user
        /\ \A u \in Thread \ {t} : depth'[u] = depth[u]
    BY <1>1, <1>3 DEF lock
  <2> QED
    BY <2>1, OwnUserInv
<1>4. ASSUME NEW t \in Thread, Retry(t) \/ Relock(t)
      PROVE  UserInv'
  <2>1. /\ t \notin testing /\ UNCHANGED << user, depth >>
        /\ \E from : Own(t, times[t], from)
    BY <1>1, <1>4 DEF Retry, Relock, Own, Go
  <2> QED
    BY <2>1, OwnUserInv
<1>5. ASSUME NEW t \in Thread, NEW n \in Times, unlock(t, n)
      PROVE  UserInv'
  <2>1. /\ n \in 0 .. MaxDepth /\ t \notin testing /\ UNCHANGED user
        /\ Uncount(n, pc)
        /\ \A u \in Thread \ {t} : depth'[u] = depth[u]
    BY <1>1, <1>5 DEF unlock, Times
  <2>2. \A u \in Thread : \/ pc'[u] = pc[u]
                          \/ pc[u] = "queued" /\ pc'[u] = "retry"
    BY <1>1, <2>1, UncountMoves
  <2> QED
    BY <1>1, <2>1, <2>2, UserInvKept
<1>6. ASSUME NEW t \in Thread, wait(t)
      PROVE  UserInv'
  <2> DEFINE where == [pc EXCEPT ![t] = "releasing"]
  <2>1. /\ t \in testing /\ testing' = testing \ {t}
        /\ count \in 0 .. MaxDepth /\ Uncount(count, where)
        /\ UNCHANGED << depth, has_been_destroyed, told >>
    BY <1>1, <1>6 DEF wait, Saved, LockTypes
  <2>2. where \in [Thread -> Place]
    BY <1>1 DEF Place
  <2>3. \A u \in Thread : \/ pc'[u] = where[u]
                          \/ where[u] = "queued" /\ pc'[u] = "retry"
    <3> HIDE DEF where
    <3> QED
      BY <1>1, <2>1, <2>2, UncountMoves
  <2>4. ~has_been_destroyed /\ ~told
    BY <1>1, <2>1 DEF UserInv, TestHolds, ToldIsSo
  <2>5. UserTypes' /\ ToldIsSo' /\ NobodySleepsOn'
    BY <1>1, <2>1, <2>4 DEF UserInv, UserTypes, ToldIsSo, NobodySleepsOn
  <2>6. TestHolds'
    BY <1>1, <2>1, <2>3, <2>4 DEF UserInv, TestHolds
  <2> QED
    BY <2>5, <2>6 DEF UserInv
<1>7. ASSUME NEW t \in Thread, Sleep(t) \/ Wake(t) \/ Spurious(t)
      PROVE  UserInv'
  BY <1>1, <1>7, UserInvKept DEF Sleep, Wake, Spurious, Go
<1>8. ASSUME NEW t \in Thread, signal(t)
      PROVE  UserInv'
  <2>1. \A u \in Thread : \/ pc'[u] = pc[u]
                          \/ pc[u] = "waiting" /\ pc'[u] = "woken"
    BY <1>1, <1>8, SignalledMoves DEF signal, Place
  <2> QED
    BY <1>1, <1>8, <2>1, UserInvKept DEF signal
<1>9. ASSUME NEW t \in Thread, broadcast(t)
      PROVE  UserInv'
  <2>1. /\ \A u \in Thread : /\ pc[u] # "releasing"
                              /\ pc'[u] = IF pc[u] = "waiting" THEN "woken"
                                          ELSE pc[u]
        /\ told' = has_been_destroyed
        /\ UNCHANGED << depth, has_been_destroyed, testing >>
    BY <1>9 DEF broadcast, MutexFree
  <2>2. UserTypes' /\ ToldIsSo' /\ TestHolds'
    BY <1>1, <2>1 DEF UserInv, UserTypes, ToldIsSo, TestHolds
  <2>3. NobodySleepsOn'
    BY <1>1, <2>1 DEF UserInv, TestHolds, NobodySleepsOn
  <2> QED
    BY <2>2, <2>3 DEF UserInv
<1>10. ASSUME NEW t \in Thread, wait_until_closed(t)
       PROVE  UserInv'
  BY <1>1, <1>10 DEF wait_until_closed, Inside, UserInv, UserTypes, TestHolds,
                     ToldIsSo, NobodySleepsOn
<1>11. ASSUME NEW t \in Thread, close_window(t)
       PROVE  UserInv'
  <2>1. /\ pc[t] = "running" /\ depth[t] > 0 /\ t \notin testing
        /\ ~has_been_destroyed /\ has_been_destroyed' = TRUE
        /\ UNCHANGED << pc, depth, testing, told >>
    BY <1>11 DEF close_window, Inside
  <2>2. testing = {}
    BY <1>1, <2>1, OneInside DEF UserInv, TestHolds
  <2> QED
    BY <1>1, <2>1, <2>2 DEF UserInv, UserTypes, TestHolds, ToldIsSo,
                            NobodySleepsOn
<1> QED
  BY <1>2, <1>3, <1>4, <1>5, <1>6, <1>7, <1>8, <1>9, <1>10, <1>11 DEF Next

LEMMA InitMutexInv == RecursiveMutexAssumption /\ Init => MutexInv
BY InitCoreInv DEF MutexInv, Init, UserInv, UserTypes, TestHolds, ToldIsSo,
                   NobodySleepsOn

LEMMA NextMutexInv ==
  RecursiveMutexAssumption /\ MutexInv /\ [Next]_vars => MutexInv'
BY NextCoreInv, NextUserInv DEF MutexInv

-----------------------------------------------------------------------------

(* rmutex keeps its types ...                                              *)
THEOREM MutexTypes ==
  ASSUME RecursiveMutexAssumption
  PROVE  Spec => []TypeOK
<1>1. MutexInv => TypeOK
  BY DEF MutexInv, CoreInv, UserInv, LockTypes, UserTypes, TypeOK
<1> QED
  BY <1>1, InitMutexInv, NextMutexInv, PTL DEF Spec

(* ... and its CONVENTION: the members always say who owns the mutex and   *)
(* how often, although unlock() leaves thread_id behind and threads sleep  *)
(* in wait() with nested locks.                                            *)
THEOREM MutexConvention ==
  ASSUME RecursiveMutexAssumption
  PROVE  Spec => []Convention
<1>1. MutexInv => Convention
  BY DEF MutexInv, CoreInv
<1> QED
  BY <1>1, InitMutexInv, NextMutexInv, PTL DEF Spec

(* No wake-up is lost.  A thread tests has_been_destroyed while it owns    *)
(* the recursive mutex, so nobody sets it between the test and wait();     *)
(* and wait() holds the signaler's own mutex until the thread sleeps, so   *)
(* nobody broadcasts between its unlocking and its falling asleep.         *)
THEOREM MutexHeard ==
  ASSUME RecursiveMutexAssumption
  PROVE  Spec => []NobodySleepsOn
<1>1. MutexInv => NobodySleepsOn
  BY DEF MutexInv, UserInv
<1> QED
  BY <1>1, InitMutexInv, NextMutexInv, PTL DEF Spec

-----------------------------------------------------------------------------
(* The refinement.  By the CONVENTION the owner's count is all there is to *)
(* know, and a step gives the mutex to another thread only if it is free.  *)

LEMMA HeldIsCount ==
  ASSUME MutexInv
  PROVE  held = [t \in Thread |-> IF thread_id = t THEN count ELSE 0]
BY DEF MutexInv, CoreInv, Convention, held

LEMMA OwnerMoves ==
  [Next]_vars =>
    thread_id' = thread_id \/ (count = 0 /\ thread_id' \in Thread)
BY DEF Next, vars, lock, unlock, Retry, wait, Sleep, Wake, Relock, signal,
       broadcast, Spurious, wait_until_closed, close_window, Own, Count, Claim,
       Taken

LEMMA NextLock ==
  ASSUME MutexInv, MutexInv', [Next]_vars, RecursiveMutexAssumption
  PROVE  [Lock!Next]_held
<1>1. /\ held = [t \in Thread |-> IF thread_id = t THEN count ELSE 0]
      /\ held' = [t \in Thread |-> IF thread_id' = t THEN count' ELSE 0]
  BY HeldIsCount DEF MutexInv, CoreInv, Convention, held
<1>2. count \in Nat /\ count' \in Nat
  BY DEF MutexInv, CoreInv, LockTypes, RecursiveMutexAssumption
<1> HIDE DEF held
<1>3. CASE thread_id' = thread_id /\ thread_id \in Thread
  <2>1. \A u \in Thread \ {thread_id} : held[u] = 0 /\ held'[u] = 0
    BY <1>1, <1>3
  <2>2. held[thread_id] = count /\ held'[thread_id] = count'
    BY <1>1, <1>3
  <2>3. Lock!Change(thread_id)
    BY <1>1, <1>2, <1>3, <2>1, <2>2 DEF Lock!Change
  <2>4. CASE count' > count
    BY <1>3, <2>1, <2>2, <2>3, <2>4 DEF Lock!Next, Lock!Acquire
  <2>5. CASE count' < count
    BY <1>3, <2>2, <2>3, <2>5 DEF Lock!Next, Lock!Release
  <2>6. CASE count' = count
    BY <1>1, <1>3, <2>6
  <2> QED
    BY <1>2, <2>4, <2>5, <2>6
<1>4. CASE thread_id' = thread_id /\ thread_id \notin Thread
  BY <1>1, <1>4
<1>5. CASE count = 0 /\ thread_id' \in Thread
  <2> DEFINE t == thread_id'
  <2>1. /\ \A u \in Thread : held[u] = 0
        /\ \A u \in Thread \ {t} : held'[u] = 0
        /\ held'[t] = count'
    BY <1>1, <1>5
  <2>2. Lock!Change(t)
    BY <1>1, <1>2, <1>5, <2>1 DEF Lock!Change
  <2>3. CASE count' > 0
    <3>1. held'[t] > held[t]
      BY <1>5, <2>1, <2>3
    <3>2. Lock!Acquire(t)
      BY <2>1, <2>2, <3>1 DEF Lock!Acquire
    <3> QED
      BY <1>5, <3>2 DEF Lock!Next
  <2>4. CASE count' = 0
    BY <1>1, <1>5, <2>4
  <2> QED
    BY <1>2, <2>3, <2>4
<1> QED
  BY <1>3, <1>4, <1>5, OwnerMoves

(* rmutex and rsignaler together are a recursive lock: no thread ever gets *)
(* the mutex while another owns it, and wait() gives back all nested locks *)
(* and takes them again.                                                   *)
THEOREM MutexRefinesLock ==
  ASSUME RecursiveMutexAssumption
  PROVE  Spec => IsRecursiveLock
<1>1. Init => Lock!Init
  BY DEF Init, Lock!Init, held
<1>2. MutexInv /\ MutexInv' /\ [Next]_vars => [Lock!Next]_held
  BY NextLock
<1> QED
  BY <1>1, <1>2, InitMutexInv, NextMutexInv, PTL
  DEF Spec, IsRecursiveLock, Lock!Spec

=============================================================================
