----------------------------- MODULE ThreadPool -----------------------------
(***************************************************************************)
(* dlib's threader (ext/dlib/dlib/threads/threads_kernel_shared.cpp): the  *)
(* pool on which the server's event thread, the clock of its timers and    *)
(* the timers run.  create_new_thread leaves a function in one slot for a  *)
(* pooled or a new thread; a thread that has waited too long in the pool   *)
(* ends; when the program exits, the pool is destroyed if it is idle.      *)
(*                                                                         *)
(* Everything but the call of a function happens under data_mutex, which   *)
(* only waiting for a signal frees: what a thread does between two waits   *)
(* is one step.  A thread that is signalled or whose time is up has to get *)
(* the mutex back first, and the others go on until then.                  *)
(***************************************************************************)
EXTENDS Integers, FiniteSets

CONSTANTS
  Job,     \* the functions for which create_new_thread is called, once each
  Worker,  \* bound: the threads that are ever spawned
  Main     \* the thread that runs main()

(* What whoever gives the constants their values has to assume.             *)
ThreadPoolAssumption ==
  /\ 0 \notin Job
  /\ Main \notin Worker

VARIABLES
  function_pointer,  \* the slot: a job or 0
  total_count,
  pool_count,
  destruct,
  pc,        \* where each thread is
  job,       \* what a thread runs
  asking,    \* the job a thread waits to hand over
  created,   \* history: jobs create_new_thread was called for
  accepted,  \* history: jobs for which it returned true
  called     \* history: jobs that were called

slot   == << function_pointer, total_count, pool_count, destruct >>
ghosts == << created, accepted, called >>
vars   == << slot, pc, job, asking, ghosts >>

NoJob == 0

Caller == Worker \cup {Main}

Init ==
  /\ function_pointer = NoJob
  /\ total_count = 0
  /\ pool_count = 0
  /\ destruct = FALSE
  /\ pc = [t \in Caller |-> IF t = Main THEN "busy" ELSE "unborn"]
  /\ job = [w \in Worker |-> NoJob]
  /\ asking = [t \in Caller |-> NoJob]
  /\ created = {}
  /\ accepted = {}
  /\ called = {}

(* signal(): where the threads may be after it, if they were at `where'.   *)
Signalled(where, asleep, awake) ==
  LET sleepers == {t \in Caller : where[t] = asleep} IN
  IF sleepers = {} THEN {where}
  ELSE {[where EXCEPT ![t] = awake] : t \in sleepers}

(* The process is there until main() has returned and its objects are gone.*)
Alive == pc[Main] \notin {"exited", "destroyed"}

-----------------------------------------------------------------------------
(* create_new_thread                                                       *)

(* Faulty variant of Recruit: it counts on a thread that is not there.     *)
RecruitNobody(where) ==
  pc' \in Signalled(where, "pooled", "roused") /\ UNCHANGED total_count

(* A thread for the function: one is spawned, or the pool is signalled.    *)
Recruit(where) ==
  IF pool_count = 0
  THEN /\ \E w \in Worker :
            where[w] = "unborn" /\ pc' = [where EXCEPT ![w] = "born"]
       /\ total_count' = total_count + 1
  ELSE pc' \in Signalled(where, "pooled", "roused") /\ UNCHANGED total_count

(* The slot is empty: it is filled ...                                     *)
Fill(t, j, where) ==
  /\ function_pointer = NoJob
  /\ function_pointer' = j
  /\ Recruit([where EXCEPT ![t] = "busy"])
  /\ accepted' = accepted \cup {j}
  /\ asking' = [asking EXCEPT ![t] = NoJob]
  /\ UNCHANGED << pool_count, destruct, job, called >>

(* ... and emptied again when no thread can be spawned: the call fails.    *)
SpawnFails(t, where) ==
  /\ function_pointer = NoJob
  /\ pool_count = 0
  /\ pc' \in Signalled([where EXCEPT ![t] = "busy"], "blocked", "unblocked")
  /\ asking' = [asking EXCEPT ![t] = NoJob]
  /\ UNCHANGED << slot, job, accepted, called >>

(* The slot is full: wait for data_empty.                                  *)
Block(t, j, where) ==
  /\ function_pointer # NoJob
  /\ pc' = [where EXCEPT ![t] = "blocked"]
  /\ asking' = [asking EXCEPT ![t] = j]
  /\ UNCHANGED << slot, job, accepted, called >>

Submit(t, j) == Fill(t, j, pc) \/ SpawnFails(t, pc) \/ Block(t, j, pc)

create_new_thread(t, j) ==
  /\ Alive /\ pc[t] = "busy"
  /\ j \notin created
  /\ created' = created \cup {j}
  /\ Submit(t, j)

(* Signalled, the caller looks again: another may have come first.         *)
SubmitAgain(t) ==
  /\ Alive /\ pc[t] = "unblocked"
  /\ Submit(t, asking[t])
  /\ UNCHANGED created

-----------------------------------------------------------------------------
(* thread_starter; `pooled' is pool_count as the thread finds it.          *)

Emptied(where) == Signalled(where, "blocked", "unblocked")

(* Leave the pool with the function, empty the slot and call it.           *)
Take(w, pooled) ==
  /\ pool_count' = pooled - 1
  /\ job' = [job EXCEPT ![w] = function_pointer]
  /\ called' = called \cup {function_pointer}
  /\ function_pointer' = NoJob
  /\ pc' \in Emptied([pc EXCEPT ![w] = "busy"])
  /\ UNCHANGED << total_count, destruct, asking, created, accepted >>

Sleep(w, pooled) ==
  /\ pool_count' = pooled
  /\ pc' = [pc EXCEPT ![w] = "pooled"]
  /\ job' = [job EXCEPT ![w] = NoJob]
  /\ UNCHANGED << function_pointer, total_count, destruct, asking, ghosts >>

(* Leave the pool for good, and signal destructed.                         *)
End(w, pooled) ==
  /\ pool_count' = pooled - 1
  /\ total_count' = total_count - 1
  /\ pc' = [pc EXCEPT ![w] = "ended"]
  /\ job' = [job EXCEPT ![w] = NoJob]
  /\ UNCHANGED << function_pointer, destruct, asking, ghosts >>

(* The head of the outer loop: destruct is looked at before the slot.      *)
LoopHead(w, pooled) ==
  IF destruct THEN End(w, pooled)
  ELSE IF function_pointer # NoJob THEN Take(w, pooled)
  ELSE Sleep(w, pooled)

Joined == pool_count + 1

Born(w) == Alive /\ pc[w] = "born" /\ LoopHead(w, Joined)

Roused(w) == Alive /\ pc[w] = "roused" /\ LoopHead(w, pool_count)

(* Faulty variant of GivesUp: it does not look at the slot.                *)
GivesUpBlindly == TRUE

GivesUp == function_pointer = NoJob

(* wait_or_timeout returned false: the thread ends unless there is work.   *)
TimedOut(w) ==
  /\ Alive /\ pc[w] = "timed out"
  /\ IF GivesUp THEN End(w, pool_count) ELSE LoopHead(w, pool_count)

Timeout(w) ==
  /\ Alive /\ pc[w] = "pooled"
  /\ pc' = [pc EXCEPT ![w] = "timed out"]
  /\ UNCHANGED << slot, job, asking, ghosts >>

(* The function returns; here the slot is looked at before destruct.       *)
Return(w) ==
  /\ Alive /\ pc[w] = "busy"
  /\ IF function_pointer # NoJob THEN Take(w, Joined)
     ELSE IF destruct THEN End(w, Joined)
     ELSE Sleep(w, Joined)

-----------------------------------------------------------------------------
(* The end of the program.                                                 *)

Idle == total_count = pool_count

Rouse(where) ==
  [t \in Caller |-> IF where[t] = "pooled" THEN "roused" ELSE where[t]]

(* destruct_if_ready: an idle pool is told to end, otherwise the program   *)
(* ends without it.                                                        *)
destruct_if_ready ==
  /\ pc[Main] = "busy"
  /\ IF Idle
     THEN destruct' = TRUE /\ pc' = Rouse([pc EXCEPT ![Main] = "destructing"])
     ELSE UNCHANGED destruct /\ pc' = [pc EXCEPT ![Main] = "exited"]
  /\ UNCHANGED << function_pointer, total_count, pool_count, job, asking,
                  ghosts >>

(* ~threader: broadcast again, and wait until every thread has ended.      *)
Destroyed ==
  /\ pc[Main] = "destructing"
  /\ total_count = 0
  /\ pc' = [pc EXCEPT ![Main] = "destroyed"]
  /\ UNCHANGED << slot, job, asking, ghosts >>

-----------------------------------------------------------------------------

WorkerStep(w) == Born(w) \/ Roused(w) \/ TimedOut(w) \/ Timeout(w) \/ Return(w)

CallerStep(t) ==
  (\E j \in Job : create_new_thread(t, j)) \/ SubmitAgain(t)

Next ==
  \/ \E w \in Worker : WorkerStep(w)
  \/ \E t \in Caller : CallerStep(t)
  \/ destruct_if_ready \/ Destroyed

Spec == Init /\ [][Next]_vars

(* A thread that can go on does; functions return.  Nothing is assumed of  *)
(* main, of new calls or of the timeout.                                   *)
Fairness ==
  /\ \A w \in Worker : /\ WF_vars(Born(w)) /\ WF_vars(Roused(w))
                       /\ WF_vars(TimedOut(w)) /\ WF_vars(Return(w))
  /\ \A t \in Caller : WF_vars(SubmitAgain(t))
  /\ WF_vars(Destroyed)

-----------------------------------------------------------------------------

In(states) == {w \in Worker : pc[w] \in states}

(* A function in the slot has a thread on its way to it, although the one  *)
(* that was signalled may come late or end: another that finishes, or      *)
(* whose time was up before the signal, looks at the slot as well.         *)
SlotHasATaker ==
  function_pointer # NoJob /\ ~destruct =>
    In({"born", "roused", "timed out"}) # {}

(* A function create_new_thread has accepted is called, as long as the     *)
(* program runs: a wait that times out as the slot is filled does not lose *)
(* it.                                                                     *)
AcceptedRuns ==
  \A j \in Job : j \in accepted ~> j \in called \/ destruct \/ ~Alive

=============================================================================
