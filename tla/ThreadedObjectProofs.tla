------------------------- MODULE ThreadedObjectProofs -------------------------
(***************************************************************************)
(* What a threaded_object keeps whatever order start, restart, pause,      *)
(* stop, wait and the end of its thread come in, for any number of objects *)
(* and clients.                                                            *)
(***************************************************************************)
EXTENDS ThreadedObject, TLAPS

(* Until thread() begins again a restart is still to be seen: in a turn    *)
(* that has not called thread(), or in should_respawn_.                    *)
Respawning ==
  \A o \in owed : is_alive[o] /\ (tpc[o] \in {"created", "turn"}
                                    \/ should_respawn[o])

ObjectInv ==
  TypeOK /\ AliveIsThread /\ AsleepIsPaused /\ WaitIsWoken /\ Respawning

-----------------------------------------------------------------------------

LEMMA InitObjectInv == ThreadedObjectAssumption /\ Init => ObjectInv
BY DEF ThreadedObjectAssumption, Init, ObjectInv, TypeOK, AliveIsThread,
       AsleepIsPaused, WaitIsWoken, Respawning

(* start and restart, which differ in the respawn.                         *)
LEMMA StartedObjectInv ==
  ASSUME ThreadedObjectAssumption, ObjectInv, NEW o \in Object,
         start(o) \/ restart(o)
  PROVE  ObjectInv'
<1>1. /\ TypeOK /\ AliveIsThread /\ AsleepIsPaused /\ WaitIsWoken /\ Respawning
      /\ Nobody \notin Object
  BY DEF ObjectInv, ThreadedObjectAssumption
<1>2. /\ is_alive' = [is_alive EXCEPT ![o] = TRUE]
      /\ is_running' = [is_running EXCEPT ![o] = TRUE]
      /\ should_stop' = [should_stop EXCEPT ![o] = FALSE]
      /\ waits' = waits
      /\ awake' = awake \cup {c \in Client : waits[c] = o}
      /\ tpc' = [Spawned(o) EXCEPT ![o] = IF @ = "asleep" THEN "woken" ELSE @]
  BY DEF start, restart, Started, Set, Broadcast
<1>3. /\ tpc' \in [Object -> {"none", "created", "turn", "in thread", "asleep",
                             "woken", "returned"}]
      /\ \A u \in Object \ {o} : tpc'[u] = tpc[u]
      /\ tpc'[o] = IF ~is_alive[o] THEN "created"
                   ELSE IF tpc[o] = "asleep" THEN "woken" ELSE tpc[o]
  <2>1. CASE is_alive[o]
    BY <1>1, <1>2, <2>1 DEF Spawned, TypeOK
  <2>2. CASE ~is_alive[o]
    BY <1>1, <1>2, <2>2 DEF Spawned, TypeOK
  <2> QED
    BY <2>1, <2>2
<1>4. \/ should_respawn' = should_respawn /\ owed' = owed
      \/ /\ should_respawn' = [should_respawn EXCEPT ![o] = is_alive[o]]
         /\ owed' = owed \cup {o}
  BY DEF start, restart, Set
<1>5. TypeOK'
  BY <1>1, <1>2, <1>3, <1>4 DEF TypeOK
<1>6. AliveIsThread'
  BY <1>1, <1>2, <1>3 DEF TypeOK, AliveIsThread
<1>7. AsleepIsPaused'
  <2>1. tpc'[o] # "asleep"
    BY <1>3
  <2>2. \A u \in Object \ {o} : /\ tpc'[u] = tpc[u]
                              /\ is_running'[u] = is_running[u]
                              /\ should_stop'[u] = should_stop[u]
    BY <1>1, <1>2, <1>3 DEF TypeOK
  <2> QED
    BY <1>1, <2>1, <2>2 DEF AsleepIsPaused
<1>8. WaitIsWoken'
  BY <1>1, <1>2 DEF TypeOK, WaitIsWoken
<1>9. Respawning'
  <2>1. /\ is_alive'[o] = TRUE
        /\ \A u \in Object \ {o} : is_alive'[u] = is_alive[u]
        /\ owed \subseteq Object
    BY <1>1, <1>2 DEF TypeOK
  <2>2. ~is_alive[o] => tpc'[o] = "created"
    BY <1>3
  <2>3. is_alive[o] /\ tpc[o] \in {"created", "turn"} =>
          tpc'[o] \in {"created", "turn"}
    BY <1>3
  <2>4. CASE should_respawn' = should_respawn /\ owed' = owed
    <3>1. ASSUME NEW u \in owed, u # o
          PROVE  is_alive'[u] /\ (tpc'[u] \in {"created", "turn"}
                                    \/ should_respawn'[u])
      <4>1. is_alive[u] /\ (tpc[u] \in {"created", "turn"} \/ should_respawn[u])
        BY <1>1 DEF Respawning
      <4>2. is_alive'[u] = is_alive[u] /\ tpc'[u] = tpc[u]
        BY <1>3, <2>1, <3>1
      <4> QED
        BY <2>4, <4>1, <4>2
    <3>2. ASSUME o \in owed
          PROVE  is_alive'[o] /\ (tpc'[o] \in {"created", "turn"}
                                    \/ should_respawn'[o])
      BY <1>1, <2>1, <2>3, <2>4, <3>2 DEF Respawning
    <3> QED
      BY <2>4, <3>1, <3>2 DEF Respawning
  <2>5. CASE /\ should_respawn' = [should_respawn EXCEPT ![o] = is_alive[o]]
             /\ owed' = owed \cup {o}
    <3>1. ASSUME NEW u \in owed, u # o
          PROVE  is_alive'[u] /\ (tpc'[u] \in {"created", "turn"}
                                    \/ should_respawn'[u])
      <4>1. is_alive[u] /\ (tpc[u] \in {"created", "turn"} \/ should_respawn[u])
        BY <1>1 DEF Respawning
      <4>2. /\ is_alive'[u] = is_alive[u] /\ tpc'[u] = tpc[u]
            /\ should_respawn'[u] = should_respawn[u]
        BY <1>1, <1>3, <2>1, <2>5, <3>1 DEF TypeOK
      <4> QED
        BY <4>1, <4>2
    <3>2. is_alive'[o] /\ (tpc'[o] \in {"created", "turn"}
                             \/ should_respawn'[o])
      <4>1. should_respawn'[o] = is_alive[o]
        BY <1>1, <2>5 DEF TypeOK
      <4> QED
        BY <2>1, <2>2, <4>1
    <3> QED
      BY <2>5, <3>1, <3>2 DEF Respawning
  <2> QED
    BY <1>4, <2>4, <2>5
<1> QED
  BY <1>5, <1>6, <1>7, <1>8, <1>9 DEF ObjectInv

(* What only sets flags.                                                   *)
LEMMA FlagsObjectInv ==
  ASSUME ThreadedObjectAssumption, ObjectInv, NEW o \in Object,
         StartFails(o) \/ set_respawn(o) \/ pause(o)
  PROVE  ObjectInv'
<1>1. TypeOK /\ AliveIsThread /\ AsleepIsPaused /\ WaitIsWoken /\ Respawning
  BY DEF ObjectInv
<1>2. /\ UNCHANGED << is_alive, should_stop, tpc, waits, awake, owed >>
      /\ is_running' = is_running \/ is_running' = [is_running EXCEPT ![o] = FALSE]
      /\ \/ should_respawn' = should_respawn
         \/ should_respawn' = [should_respawn EXCEPT ![o] = TRUE]
  BY DEF StartFails, set_respawn, pause, Set
<1>3. TypeOK' /\ AliveIsThread' /\ WaitIsWoken'
  BY <1>1, <1>2 DEF TypeOK, AliveIsThread, WaitIsWoken
<1>4. AsleepIsPaused' /\ Respawning'
  BY <1>1, <1>2 DEF TypeOK, AsleepIsPaused, Respawning
<1> QED
  BY <1>3, <1>4 DEF ObjectInv

LEMMA stopObjectInv ==
  ASSUME ThreadedObjectAssumption, ObjectInv, NEW o \in Object, stop(o)
  PROVE  ObjectInv'
<1>1. /\ TypeOK /\ AliveIsThread /\ AsleepIsPaused /\ WaitIsWoken /\ Respawning
      /\ Nobody \notin Object
  BY DEF ObjectInv, ThreadedObjectAssumption
<1>2. /\ should_stop' = [should_stop EXCEPT ![o] = TRUE]
      /\ is_running' = [is_running EXCEPT ![o] = FALSE]
      /\ should_respawn' = [should_respawn EXCEPT ![o] = FALSE]
      /\ tpc' = [tpc EXCEPT ![o] = IF @ = "asleep" THEN "woken" ELSE @]
      /\ awake' = awake \cup {c \in Client : waits[c] = o}
      /\ owed' = owed \ {o}
      /\ UNCHANGED << is_alive, waits >>
  BY DEF stop, Set, StopTold, Broadcast
<1>3. TypeOK'
  BY <1>1, <1>2 DEF TypeOK
<1>4. AliveIsThread' /\ AsleepIsPaused'
  BY <1>1, <1>2 DEF TypeOK, AliveIsThread, AsleepIsPaused
<1>5. WaitIsWoken' /\ Respawning'
  BY <1>1, <1>2 DEF TypeOK, WaitIsWoken, Respawning
<1> QED
  BY <1>3, <1>4, <1>5 DEF ObjectInv

(* The clients of wait(): who falls asleep there, and who returns.         *)
LEMMA waitObjectInv ==
  ASSUME ThreadedObjectAssumption, ObjectInv, NEW c \in Client,
         WaitAgain(c) \/ \E o \in Object : wait(c, o)
  PROVE  ObjectInv'
<1>1. TypeOK /\ AliveIsThread /\ AsleepIsPaused /\ WaitIsWoken /\ Respawning
  BY DEF ObjectInv
<1>2. /\ UNCHANGED << is_running, is_alive, should_stop, should_respawn, tpc,
                      owed >>
      /\ awake' \subseteq awake \ {c}
      /\ awake \subseteq awake' \cup {c}
      /\ \E o \in Object :
           waits' = [waits EXCEPT ![c] = IF is_alive[o] THEN o ELSE Nobody]
  <2>1. CASE WaitAgain(c)
    <3>1. waits[c] \in Object
      BY <1>1, <2>1 DEF TypeOK, WaitAgain
    <3> QED
      BY <2>1, <3>1 DEF WaitAgain, Returning, flags
  <2>2. CASE \E o \in Object : wait(c, o)
    BY <1>1, <2>2 DEF wait, flags, TypeOK
  <2> QED
    BY <2>1, <2>2
<1>3. PICK o \in Object :
        waits' = [waits EXCEPT ![c] = IF is_alive[o] THEN o ELSE Nobody]
  BY <1>2
<1>4. TypeOK'
  BY <1>1, <1>2, <1>3 DEF TypeOK
<1>5. AliveIsThread' /\ AsleepIsPaused' /\ Respawning'
  BY <1>1, <1>2 DEF AliveIsThread, AsleepIsPaused, Respawning
<1>6. WaitIsWoken'
  BY <1>1, <1>2, <1>3 DEF TypeOK, WaitIsWoken
<1> QED
  BY <1>4, <1>5, <1>6 DEF ObjectInv

(* The thread on its way through its loop, until it ends.                  *)
LEMMA LoopObjectInv ==
  ASSUME ThreadedObjectAssumption, ObjectInv, NEW o \in Object,
         Turn(o) \/ Begin(o) \/ CheckStop(o) \/ Return(o)
  PROVE  ObjectInv'
<1>1. TypeOK /\ AliveIsThread /\ AsleepIsPaused /\ WaitIsWoken /\ Respawning
  BY DEF ObjectInv
<1>2. UNCHANGED << is_running, is_alive, should_stop, waits, awake >>
  BY DEF Turn, Begin, CheckStop, Return, flags
<1>3. CASE Turn(o)
  <2>1. /\ tpc[o] = "created" /\ tpc' = [tpc EXCEPT ![o] = "turn"]
        /\ should_respawn' = [should_respawn EXCEPT ![o] = FALSE]
        /\ owed' = owed
    BY <1>3 DEF Turn, Go, Set
  <2> QED
    BY <1>1, <1>2, <2>1 DEF ObjectInv, TypeOK, AliveIsThread, AsleepIsPaused,
                            WaitIsWoken, Respawning
<1>4. CASE Begin(o)
  <2>1. /\ tpc[o] = "turn" /\ tpc' = [tpc EXCEPT ![o] = "in thread"]
        /\ should_respawn' = should_respawn
        /\ owed' = owed \ {o}
    BY <1>4 DEF Begin, Go, flags
  <2> QED
    BY <1>1, <1>2, <2>1 DEF ObjectInv, TypeOK, AliveIsThread, AsleepIsPaused,
                            WaitIsWoken, Respawning
<1>5. CASE CheckStop(o) \/ Return(o)
  <2>1. /\ tpc[o] \in {"in thread", "woken"}
        /\ \/ tpc' = [tpc EXCEPT ![o] = "returned"]
           \/ tpc' = [tpc EXCEPT ![o] = "in thread"]
           \/ /\ tpc' = [tpc EXCEPT ![o] = "asleep"]
              /\ ~should_stop[o] /\ ~is_running[o]
        /\ should_respawn' = should_respawn /\ owed' = owed
    BY <1>5 DEF CheckStop, Return, Go, flags
  <2>2. TypeOK' /\ AliveIsThread'
    BY <1>1, <1>2, <2>1 DEF TypeOK, AliveIsThread
  <2>3. AsleepIsPaused'
    BY <1>1, <1>2, <2>1 DEF TypeOK, AsleepIsPaused
  <2>4. WaitIsWoken' /\ Respawning'
    BY <1>1, <1>2, <2>1 DEF TypeOK, WaitIsWoken, Respawning
  <2> QED
    BY <2>2, <2>3, <2>4 DEF ObjectInv
<1> QED
  BY <1>3, <1>4, <1>5

(* The end of a turn: another one, or the end of the thread.               *)
LEMMA FinishObjectInv ==
  ASSUME ThreadedObjectAssumption, ObjectInv, NEW o \in Object, Finish(o)
  PROVE  ObjectInv'
<1>1. /\ TypeOK /\ AliveIsThread /\ AsleepIsPaused /\ WaitIsWoken /\ Respawning
      /\ Nobody \notin Object
  BY DEF ObjectInv, ThreadedObjectAssumption
<1>2. tpc[o] = "returned" /\ UNCHANGED << waits, owed, should_respawn >>
  BY DEF Finish, flags
<1>3. CASE should_respawn[o]
  <2>1. /\ tpc' = [tpc EXCEPT ![o] = "created"]
        /\ UNCHANGED << is_running, is_alive, should_stop, awake >>
    BY <1>3 DEF Finish, Respawns, Go, flags
  <2> QED
    BY <1>1, <1>2, <2>1 DEF ObjectInv, TypeOK, AliveIsThread, AsleepIsPaused,
                            WaitIsWoken, Respawning
<1>4. CASE ~should_respawn[o]
  <2>1. /\ is_alive' = [is_alive EXCEPT ![o] = FALSE]
        /\ is_running' = [is_running EXCEPT ![o] = FALSE]
        /\ should_stop' = [should_stop EXCEPT ![o] = FALSE]
        /\ tpc' = [[tpc EXCEPT ![o] = "none"]
                     EXCEPT ![o] = IF @ = "asleep" THEN "woken" ELSE @]
        /\ awake' = awake \cup {c \in Client : waits[c] = o}
    BY <1>4 DEF Finish, Respawns, Dead, Ended, Set, Broadcast
  <2>2. tpc' = [tpc EXCEPT ![o] = "none"]
    BY <1>1, <2>1 DEF TypeOK
  <2>3. o \notin owed
    BY <1>1, <1>2, <1>4 DEF Respawning
  <2>4. TypeOK' /\ AliveIsThread'
    BY <1>1, <1>2, <2>1, <2>2 DEF TypeOK, AliveIsThread
  <2>5. AsleepIsPaused' /\ Respawning'
    BY <1>1, <1>2, <2>1, <2>2, <2>3 DEF TypeOK, AsleepIsPaused, Respawning
  <2>6. WaitIsWoken'
    BY <1>1, <1>2, <2>1 DEF TypeOK, WaitIsWoken
  <2> QED
    BY <2>4, <2>5, <2>6 DEF ObjectInv
<1> QED
  BY <1>3, <1>4

LEMMA NextObjectInv ==
  ThreadedObjectAssumption /\ ObjectInv /\ [Next]_vars => ObjectInv'
<1> SUFFICES ASSUME ThreadedObjectAssumption, ObjectInv, [Next]_vars
             PROVE  ObjectInv'
  OBVIOUS
<1>1. CASE UNCHANGED vars
  BY <1>1 DEF vars, flags, ObjectInv, TypeOK, AliveIsThread, AsleepIsPaused,
              WaitIsWoken, Respawning
<1>2. ASSUME NEW o \in Object, Operation(o)
      PROVE  ObjectInv'
  BY <1>2, StartedObjectInv, FlagsObjectInv, stopObjectInv, waitObjectInv
  DEF Operation
<1>3. ASSUME NEW o \in Object, Helper(o)
      PROVE  ObjectInv'
  BY <1>3, LoopObjectInv, FinishObjectInv DEF Helper
<1>4. ASSUME NEW c \in Client, WaitAgain(c)
      PROVE  ObjectInv'
  BY <1>4, waitObjectInv
<1> QED
  BY <1>1, <1>2, <1>3, <1>4 DEF Next

-----------------------------------------------------------------------------

(* A threaded_object keeps its types ...                                   *)
THEOREM ObjectTypes ==
  ASSUME ThreadedObjectAssumption
  PROVE  Spec => []TypeOK
<1>1. ObjectInv => TypeOK
  BY DEF ObjectInv
<1> QED
  BY <1>1, InitObjectInv, NextObjectInv, PTL DEF Spec

(* ... is_alive() says whether there is a thread ...                       *)
THEOREM ObjectAlive ==
  ASSUME ThreadedObjectAssumption
  PROVE  Spec => []AliveIsThread
<1>1. ObjectInv => AliveIsThread
  BY DEF ObjectInv
<1> QED
  BY <1>1, InitObjectInv, NextObjectInv, PTL DEF Spec

(* ... no restart is lost, one that comes as thread() returns included ... *)
THEOREM ObjectRestart ==
  ASSUME ThreadedObjectAssumption
  PROVE  Spec => []RestartRuns
<1>1. ObjectInv => RestartRuns
  BY DEF ObjectInv, Respawning, RestartRuns
<1> QED
  BY <1>1, InitObjectInv, NextObjectInv, PTL DEF Spec

(* ... and nobody sleeps for longer than it should: neither the thread in  *)
(* should_stop() nor a client in wait().                                   *)
THEOREM ObjectSleepers ==
  ASSUME ThreadedObjectAssumption
  PROVE  Spec => [](AsleepIsPaused /\ WaitIsWoken)
<1>1. ObjectInv => AsleepIsPaused /\ WaitIsWoken
  BY DEF ObjectInv
<1> QED
  BY <1>1, InitObjectInv, NextObjectInv, PTL DEF Spec

(* thread() runs in one thread at a time: a thread is created for an       *)
(* object only when it has none, or by the turn that has ended.            *)
THEOREM ObjectOneThread ==
  ASSUME ThreadedObjectAssumption
  PROVE  Spec => OneThread
<1>1. ObjectInv /\ [Next]_vars =>
        [\A o \in Object : tpc'[o] = "created" =>
           tpc[o] \in {"none", "created", "returned"}]_vars
  <2> SUFFICES ASSUME ObjectInv, Next, NEW o \in Object, tpc'[o] = "created"
               PROVE  tpc[o] \in {"none", "created", "returned"}
    OBVIOUS
  <2>1. TypeOK /\ AliveIsThread
    BY DEF ObjectInv
  <2>2. ASSUME NEW p \in Object, start(p) \/ restart(p)
        PROVE  tpc[o] \in {"none", "created", "returned"}
    BY <2>1, <2>2 DEF TypeOK, AliveIsThread, start, restart, Started,
                      Broadcast, Spawned
  <2>3. ASSUME NEW p \in Object,
               \/ StartFails(p) \/ set_respawn(p) \/ pause(p)
               \/ \E c \in Client : wait(c, p)
        PROVE  tpc[o] \in {"none", "created", "returned"}
    BY <2>3 DEF StartFails, set_respawn, pause, wait
  <2>4. ASSUME NEW p \in Object, stop(p)
        PROVE  tpc[o] \in {"none", "created", "returned"}
    BY <2>1, <2>4 DEF TypeOK, stop, StopTold, Broadcast
  <2>5. ASSUME NEW p \in Object, Turn(p) \/ Begin(p) \/ CheckStop(p) \/ Return(p)
        PROVE  tpc[o] \in {"none", "created", "returned"}
    BY <2>1, <2>5 DEF TypeOK, Turn, Begin, CheckStop, Return, Go
  <2>6. ASSUME NEW p \in Object, Finish(p)
        PROVE  tpc[o] \in {"none", "created", "returned"}
    BY <2>1, <2>6 DEF TypeOK, Finish, Go, Ended, Broadcast
  <2>7. ASSUME NEW c \in Client, WaitAgain(c)
        PROVE  tpc[o] \in {"none", "created", "returned"}
    BY <2>7 DEF WaitAgain
  <2> QED
    BY <2>2, <2>3, <2>4, <2>5, <2>6, <2>7 DEF Next, Operation, Helper
<1> QED
  BY <1>1, InitObjectInv, NextObjectInv, PTL DEF Spec, OneThread

=============================================================================
