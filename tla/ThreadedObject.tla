--------------------------- MODULE ThreadedObject ---------------------------
(***************************************************************************)
(* dlib's threaded_object (ext/dlib/dlib/threads): an object with a thread *)
(* of its own, which other threads start, restart, pause, stop and wait    *)
(* for.  The server's event thread is one, and so are the clock of dlib's  *)
(* timers and every timer.                                                 *)
(*                                                                         *)
(* Every operation happens under the object's mutex m_, which only waiting *)
(* on its condition variable s frees.  The thread itself is one that       *)
(* create_new_thread hands thread_helper to, some time later.              *)
(***************************************************************************)
EXTENDS Integers

CONSTANTS
  Object,  \* the threaded objects
  Client,  \* the threads that use them
  Nobody   \* no object

(* What whoever gives the constants their values has to assume.             *)
ThreadedObjectAssumption == Nobody \notin Object

VARIABLES
  is_running,
  is_alive,
  should_stop,
  should_respawn,
  tpc,    \* where the thread of each object is
  waits,  \* the object a client waits for in wait()
  awake,  \* the clients that were woken there
  owed    \* history: restarts after which thread() has not begun yet

flags == << is_running, is_alive, should_stop, should_respawn >>
vars  == << flags, tpc, waits, awake, owed >>

(* The constructor initializes every member but should_respawn_.           *)
Init ==
  /\ is_running = [o \in Object |-> FALSE]
  /\ is_alive = [o \in Object |-> FALSE]
  /\ should_stop = [o \in Object |-> FALSE]
  /\ should_respawn \in [Object -> BOOLEAN]
  /\ tpc = [o \in Object |-> "none"]
  /\ waits = [c \in Client |-> Nobody]
  /\ awake = {}
  /\ owed = {}

Set(flag, o, value) == flag' = [flag EXCEPT ![o] = value]

(* s.broadcast() wakes the thread out of should_stop and clients of wait().*)
Broadcast(o, where) ==
  /\ tpc' = [where EXCEPT ![o] = IF @ = "asleep" THEN "woken" ELSE @]
  /\ awake' = awake \cup {c \in Client : waits[c] = o}

-----------------------------------------------------------------------------
(* The clients.                                                            *)

(* A thread for an object that has none: thread_helper is handed over.     *)
Spawned(o) == IF is_alive[o] THEN tpc ELSE [tpc EXCEPT ![o] = "created"]

Started(o) ==
  /\ Set(is_alive, o, TRUE)
  /\ Set(is_running, o, TRUE)
  /\ Set(should_stop, o, FALSE)
  /\ Broadcast(o, Spawned(o))

start(o) == Started(o) /\ UNCHANGED << should_respawn, waits, owed >>

(* create_new_thread fails: an exception.                                  *)
StartFails(o) ==
  /\ ~is_alive[o]
  /\ Set(is_running, o, FALSE)
  /\ UNCHANGED << is_alive, should_stop, should_respawn, tpc, waits, awake,
                  owed >>

restart(o) ==
  /\ Set(should_respawn, o, is_alive[o])
  /\ Started(o)
  /\ owed' = owed \cup {o}
  /\ UNCHANGED waits

set_respawn(o) ==
  /\ Set(should_respawn, o, TRUE)
  /\ UNCHANGED << is_running, is_alive, should_stop, tpc, waits, awake, owed >>

pause(o) ==
  /\ Set(is_running, o, FALSE)
  /\ UNCHANGED << is_alive, should_stop, should_respawn, tpc, waits, awake,
                  owed >>

(* Faulty variant of StopTold: a paused thread is not woken.               *)
StopToldNot(o) == UNCHANGED << tpc, awake >>

StopTold(o) == Broadcast(o, tpc)

stop(o) ==
  /\ Set(should_stop, o, TRUE)
  /\ Set(is_running, o, FALSE)
  /\ Set(should_respawn, o, FALSE)
  /\ StopTold(o)
  /\ owed' = owed \ {o}
  /\ UNCHANGED << is_alive, waits >>

(* wait(): at first and whenever woken, return if the thread is gone.      *)
wait(c, o) ==
  /\ waits[c] = Nobody
  /\ waits' = [waits EXCEPT ![c] = IF is_alive[o] THEN o ELSE Nobody]
  /\ UNCHANGED << flags, tpc, awake, owed >>

Returning(c) == awake' = awake \ {c}

WaitAgain(c) ==
  /\ c \in awake
  /\ Returning(c)
  /\ waits' = [waits EXCEPT ![c] = IF is_alive[@] THEN @ ELSE Nobody]
  /\ UNCHANGED << flags, tpc, owed >>

-----------------------------------------------------------------------------
(* The thread: thread_helper, and should_stop called by thread().          *)

Go(o, from, to) == tpc[o] = from /\ tpc' = [tpc EXCEPT ![o] = to]

(* One turn of the loop begins by forgetting the respawn ...               *)
Turn(o) ==
  /\ Go(o, "created", "turn")
  /\ Set(should_respawn, o, FALSE)
  /\ UNCHANGED << is_running, is_alive, should_stop, waits, awake, owed >>

(* ... and calls thread().                                                 *)
Begin(o) ==
  /\ Go(o, "turn", "in thread")
  /\ owed' = owed \ {o}
  /\ UNCHANGED << flags, waits, awake >>

(* should_stop(): sleep while the object is paused and not stopped; if it  *)
(* is stopped, thread() returns.                                           *)
CheckStop(o) ==
  /\ \E from \in {"in thread", "woken"} :
       Go(o, from, IF should_stop[o] THEN "returned"
                   ELSE IF is_running[o] THEN "in thread" ELSE "asleep")
  /\ UNCHANGED << flags, waits, awake, owed >>

(* thread() returns of its own accord.                                     *)
Return(o) ==
  /\ Go(o, "in thread", "returned")
  /\ UNCHANGED << flags, waits, awake, owed >>

(* Faulty variant of Respawns: the respawn is not looked at.               *)
RespawnsNot(o) == FALSE

Respawns(o) == should_respawn[o]

Ended(o) == Broadcast(o, [tpc EXCEPT ![o] = "none"])

Dead(o) == Set(is_alive, o, FALSE)

(* Another turn, or the end of the thread.                                 *)
Finish(o) ==
  /\ tpc[o] = "returned"
  /\ IF Respawns(o)
     THEN Go(o, "returned", "created") /\ UNCHANGED << flags, awake >>
     ELSE /\ Dead(o)
          /\ Set(is_running, o, FALSE)
          /\ Set(should_stop, o, FALSE)
          /\ Ended(o)
          /\ UNCHANGED should_respawn
  /\ UNCHANGED << waits, owed >>

-----------------------------------------------------------------------------

Operation(o) ==
  \/ start(o) \/ StartFails(o) \/ restart(o) \/ set_respawn(o) \/ pause(o)
  \/ stop(o) \/ (\E c \in Client : wait(c, o))

Helper(o) == Turn(o) \/ Begin(o) \/ CheckStop(o) \/ Return(o) \/ Finish(o)

Next ==
  \/ \E o \in Object : Operation(o) \/ Helper(o)
  \/ \E c \in Client : WaitAgain(c)

Spec == Init /\ [][Next]_vars

(* Threads that can run do, and a thread() looks at should_stop now and    *)
(* then; it need not return unless it is told to.                          *)
Fairness ==
  /\ \A o \in Object : /\ WF_vars(Turn(o)) /\ WF_vars(Begin(o))
                       /\ SF_vars(CheckStop(o)) /\ WF_vars(Finish(o))
  /\ \A c \in Client : WF_vars(WaitAgain(c))

-----------------------------------------------------------------------------

TypeOK ==
  /\ is_running \in [Object -> BOOLEAN]
  /\ is_alive \in [Object -> BOOLEAN]
  /\ should_stop \in [Object -> BOOLEAN]
  /\ should_respawn \in [Object -> BOOLEAN]
  /\ tpc \in [Object -> {"none", "created", "turn", "in thread", "asleep",
                         "woken", "returned"}]
  /\ waits \in [Client -> Object \cup {Nobody}]
  /\ awake \subseteq {c \in Client : waits[c] # Nobody}
  /\ owed \subseteq Object

(* is_alive() says whether there is a thread, however start, restart, stop *)
(* and the end of the thread follow each other ...                         *)
AliveIsThread == \A o \in Object : is_alive[o] <=> tpc[o] # "none"

(* ... and thread() "is only executed in one thread at a time": a thread   *)
(* is made only when there is none, or out of the one that has returned.   *)
OneThread ==
  [][\A o \in Object : tpc'[o] = "created" =>
                         tpc[o] \in {"none", "created", "returned"}]_vars

(* No restart is lost: if one comes while thread() runs, is about to begin *)
(* or has just returned, thread() begins once more before the thread ends, *)
(* unless stop() came after it.                                            *)
RestartRuns == \A o \in Object : o \in owed => is_alive[o]

(* A thread asleep in should_stop() is one that is paused and not stopped: *)
(* no order of pause, start and stop leaves it asleep when it should go on.*)
AsleepIsPaused ==
  \A o \in Object : tpc[o] = "asleep" => ~is_running[o] /\ ~should_stop[o]

(* stop() is obeyed, whether the thread runs, sleeps in a pause or has not *)
(* begun, unless a start, restart or set_respawn takes it back.            *)
StopEnds ==
  \A o \in Object :
    should_stop[o] /\ is_alive[o] ~> ~should_stop[o] \/ should_respawn[o]

(* wait() does not miss the end of the thread: a client asleep in it waits *)
(* for a thread that is still there.                                       *)
WaitIsWoken ==
  \A c \in Client : waits[c] # Nobody /\ c \notin awake => is_alive[waits[c]]

=============================================================================
