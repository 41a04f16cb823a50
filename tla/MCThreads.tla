------------------------------ MODULE MCThreads ------------------------------
(***************************************************************************)
(* The parts of dlib whose threads wait for one another, for checking with *)
(* TLC: mutex and signaler, thread pool, threaded object, user events, and *)
(* the life of the window.  They are side by side: a behaviour of this     *)
(* module is one of a single part, the others stay as they began, so that  *)
(* one exploration covers the five without multiplying them.               *)
(***************************************************************************)
EXTENDS UserEvents

CONSTANTS
  Thread, NoThread, MaxDepth, MaxCalls,  \* of RecursiveMutex
  Job, Worker, MainThread,               \* of ThreadPool
  Object, Client, Nobody,                \* of ThreadedObject
  Win, Popup, MaxEvents                  \* of Window

VARIABLES
  part,  \* the part that moves
  count, thread_id, mutex_pc, times, depth, calls,
  has_been_destroyed, testing, told,
  function_pointer, total_count, pool_count, destruct, pool_pc, job, asking,
  created, accepted, called,
  is_running, is_alive, should_stop, should_respawn, tpc, waits, awake, owed,
  window_pc, epc, status, signaled, life, window_table, is_mapped, screen,
  menu, socket, events, heard, segment

Mutex == INSTANCE RecursiveMutex WITH pc <- mutex_pc
Threads == INSTANCE ThreadPool WITH pc <- pool_pc, Main <- MainThread
Objects == INSTANCE ThreadedObject
TheWindow == INSTANCE Window WITH pc <- window_pc

ASSUME ThreadsAssumption ==
  /\ Mutex!RecursiveMutexAssumption /\ Threads!ThreadPoolAssumption
  /\ Objects!ThreadedObjectAssumption /\ TheWindow!WindowAssumption

Parts == {"mutex", "pool", "object", "events", "window"}

mutexVars == << count, thread_id, mutex_pc, times, depth, calls,
                has_been_destroyed, testing, told >>
poolVars == << function_pointer, total_count, pool_count, destruct, pool_pc,
               job, asking, created, accepted, called >>
objectVars == << is_running, is_alive, should_stop, should_respawn, tpc, waits,
                 awake, owed >>
windowVars == << window_pc, epc, status, signaled, life, window_table,
                 is_mapped, screen, menu, socket, events, heard, segment >>
all == << part, mutexVars, poolVars, objectVars, vars, windowVars >>

ThreadsInit ==
  /\ part \in Parts
  /\ Mutex!Init /\ Threads!Init /\ Objects!Init /\ Init /\ TheWindow!Init

MutexNext ==
  /\ part = "mutex" /\ Mutex!Next
  /\ UNCHANGED << part, poolVars, objectVars, vars, windowVars >>

PoolNext ==
  /\ part = "pool" /\ Threads!Next
  /\ UNCHANGED << part, mutexVars, objectVars, vars, windowVars >>

ObjectNext ==
  /\ part = "object" /\ Objects!Next
  /\ UNCHANGED << part, mutexVars, poolVars, vars, windowVars >>

EventsNext ==
  /\ part = "events" /\ Next
  /\ UNCHANGED << part, mutexVars, poolVars, objectVars,
                  windowVars >>

WindowNext ==
  /\ part = "window" /\ TheWindow!Next
  /\ UNCHANGED << part, mutexVars, poolVars, objectVars, vars >>

(* These may stop for good: the program has exited, everything posted is   *)
(* delivered, the server has ended.  The first two never may.              *)
Stop == part \in {"pool", "events", "window"} /\ UNCHANGED all

ThreadsNext ==
  MutexNext \/ PoolNext \/ ObjectNext \/ EventsNext \/ WindowNext \/ Stop

(* The fairness each part states, the mutex none.  What it asks to go on   *)
(* is disabled where the part begins, except in the window: its two        *)
(* threads run whenever they can, if it is the window that moves.          *)
ThreadsSpec ==
  /\ ThreadsInit /\ [][ThreadsNext]_all
  /\ Threads!Fairness /\ Objects!Fairness /\ Fairness
  /\ WF_all(WindowNext /\ TheWindow!Main)
  /\ WF_all(WindowNext /\ TheWindow!EventHandler)

-----------------------------------------------------------------------------
(* What is checked of each part, stated in its module.                     *)

(* rmutex and rsignaler implement a recursive lock.                        *)
IsRecursiveLock == Mutex!IsRecursiveLock

(* No thread sleeps through the end of the window it waits for.            *)
NobodySleepsOn == Mutex!NobodySleepsOn

(* A function left in the pool's slot has a thread coming for it.          *)
SlotHasATaker == Threads!SlotHasATaker

(* A function create_new_thread accepted is called.                        *)
AcceptedRuns == Threads!AcceptedRuns

(* A thread restarted while it ends calls thread() once more.              *)
RestartRuns == Objects!RestartRuns

(* A thread told to stop stops, paused or not.                             *)
StopEnds == Objects!StopEnds

(* No callback of the image window runs on an object half built or half    *)
(* destroyed.                                                              *)
WindowHearsWhileBuilt == TheWindow!WindowHearsWhileBuilt

(* Once its window is closed the server ends, its segment removed.         *)
ServerEnds == TheWindow!ServerEnds

=============================================================================
