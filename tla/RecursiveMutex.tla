--------------------------- MODULE RecursiveMutex ---------------------------
(***************************************************************************)
(* dlib's rmutex and rsignaler (ext/dlib/dlib/threads): the lock under     *)
(* which the server's main loop, its event thread and its timers use the   *)
(* window, and the condition variable on which they wait for one another.  *)
(*                                                                         *)
(* An rmutex is built of a plain mutex, a condition variable s and two     *)
(* members; an rsignaler adds a mutex and a condition variable of its own. *)
(* What a thread does between locking and unlocking the rmutex's plain     *)
(* mutex is one step; that mutex is never held across a wait.  The         *)
(* rsignaler's is: wait() unlocks the rmutex while it holds it.            *)
(*                                                                         *)
(* Threads use the two as base_window does: wait_until_closed locks, and   *)
(* as long as the window is not destroyed it waits; close_window locks,    *)
(* sets has_been_destroyed and broadcasts.  Either may be called under     *)
(* further locks, as long as has_been_destroyed is only touched under one. *)
(*                                                                         *)
(* pthread condition variables may wake a thread for no reason, and which  *)
(* thread a signal wakes is not said.                                      *)
(***************************************************************************)
EXTENDS Integers

CONSTANTS
  Thread,
  NoThread,  \* thread_id(0)
  MaxDepth,  \* bound: how often a thread locks the mutex it owns
  MaxCalls   \* bound: calls of lock and wait

(* What whoever gives the constants their values has to assume.             *)
RecursiveMutexAssumption ==
  /\ NoThread \notin Thread
  /\ MaxDepth \in Nat \ {0}
  /\ MaxCalls \in Nat

VARIABLES
  count,
  thread_id,  \* who owned the mutex last: unlock leaves it
  pc,         \* where each thread is
  times,      \* the argument of its lock(), the lock_count of its wait()
  depth,      \* history: how often it has locked and not unlocked
  calls,      \* how many calls have been made
  has_been_destroyed,
  testing,    \* the threads that found it false and are about to wait
  told        \* history: a broadcast was made after it was set

user == << has_been_destroyed, testing, told >>
vars == << count, thread_id, pc, times, depth, calls, user >>

Init ==
  /\ count = 0
  /\ thread_id = NoThread
  /\ pc = [t \in Thread |-> "running"]
  /\ times = [t \in Thread |-> 0]
  /\ depth = [t \in Thread |-> 0]
  /\ calls = 0
  /\ has_been_destroyed = FALSE
  /\ testing = {}
  /\ told = FALSE

Go(t, from, to) == pc[t] = from /\ pc' = [pc EXCEPT ![t] = to]

-----------------------------------------------------------------------------
(* rmutex                                                                  *)

Count(n) == count' = count + n /\ UNCHANGED thread_id

Claim(t, n) == count' = n /\ thread_id' = t

(* Faulty variant of Taken: a thread that is woken does not look again.    *)
TakenAtFirst(from) == from # "retry" /\ count # 0

(* while (count != 0)                                                      *)
Taken(from) == count # 0

(* lock(n), from its beginning or awake again: a thread that does not own  *)
(* the mutex waits until nobody does.                                      *)
Own(t, n, from) ==
  IF from # "retry" /\ thread_id = t
  THEN Go(t, from, "running") /\ Count(n)
  ELSE IF Taken(from)
  THEN Go(t, from, "queued") /\ UNCHANGED << count, thread_id >>
  ELSE Go(t, from, "running") /\ Claim(t, n)

lock(t, n) ==
  /\ calls < MaxCalls /\ calls' = calls + 1
  /\ t \notin testing
  /\ depth[t] + n <= MaxDepth
  /\ Own(t, n, "running")
  /\ times' = [times EXCEPT ![t] = n]
  /\ depth' = [depth EXCEPT ![t] = @ + n]
  /\ UNCHANGED user

Retry(t) ==
  /\ Own(t, times[t], "retry")
  /\ UNCHANGED << times, depth, calls, user >>

(* signal() of a condition variable wakes one of the threads asleep on it, *)
(* if there is one: where the threads may then be.                         *)
Signalled(where, asleep, awake) ==
  LET sleepers == {u \in Thread : where[u] = asleep} IN
  IF sleepers = {} THEN {where}
  ELSE {[where EXCEPT ![u] = awake] : u \in sleepers}

Uncount(n, where) ==
  IF count <= n
  THEN count' = 0 /\ pc' \in Signalled(where, "queued", "retry")
  ELSE count' = count - n /\ pc' = where

(* unlock(n): nothing happens unless t owned the mutex last.               *)
unlock(t, n) ==
  /\ pc[t] = "running" /\ t \notin testing
  /\ thread_id = t
  /\ Uncount(n, pc)
  /\ depth' = [depth EXCEPT ![t] = IF @ <= n THEN 0 ELSE @ - n]
  /\ UNCHANGED << thread_id, times, calls, user >>

-----------------------------------------------------------------------------
(* rsignaler; its plain mutex is m.                                        *)

(* Faulty variant of MutexFree: wait() does not hold m while it unlocks.   *)
MutexFreeAlways == TRUE

MutexFree == \A t \in Thread : pc[t] # "releasing"

(* lock_count()                                                            *)
Saved == count

(* wait(), called in a loop around it by a thread that owns the mutex:     *)
(* under m it unlocks all its locks ...                                    *)
wait(t) ==
  /\ calls < MaxCalls /\ calls' = calls + 1
  /\ t \in testing /\ testing' = testing \ {t}
  /\ pc[t] = "running"
  /\ MutexFree
  /\ times' = [times EXCEPT ![t] = Saved]
  /\ Uncount(Saved, [pc EXCEPT ![t] = "releasing"])
  /\ UNCHANGED << thread_id, depth, has_been_destroyed, told >>

(* ... falls asleep, which frees m, ...                                    *)
Sleep(t) ==
  /\ Go(t, "releasing", "waiting")
  /\ UNCHANGED << count, thread_id, times, depth, calls, user >>

(* ... and, woken, takes and frees m and locks as often as before.         *)
Wake(t) ==
  /\ MutexFree
  /\ Go(t, "woken", "relock")
  /\ UNCHANGED << count, thread_id, times, depth, calls, user >>

Relock(t) ==
  /\ Own(t, times[t], "relock")
  /\ UNCHANGED << times, depth, calls, user >>

signal(t) ==
  /\ pc[t] = "running" /\ t \notin testing /\ MutexFree
  /\ pc' \in Signalled(pc, "waiting", "woken")
  /\ UNCHANGED << count, thread_id, times, depth, calls, user >>

broadcast(t) ==
  /\ pc[t] = "running" /\ t \notin testing /\ MutexFree
  /\ pc' = [u \in Thread |-> IF pc[u] = "waiting" THEN "woken" ELSE pc[u]]
  /\ told' = has_been_destroyed
  /\ UNCHANGED << count, thread_id, times, depth, calls, has_been_destroyed,
                  testing >>

(* The time of wait_or_timeout is up, or a thread is woken for no reason.  *)
Spurious(t) ==
  /\ Go(t, "queued", "retry") \/ Go(t, "waiting", "woken")
  /\ UNCHANGED << count, thread_id, times, depth, calls, user >>

-----------------------------------------------------------------------------
(* base_window; a thread that locked and has not unlocked may call these.  *)

Inside(t) == pc[t] = "running" /\ depth[t] > 0 /\ t \notin testing

(* wait_until_closed: while (has_been_destroyed == false) ...              *)
wait_until_closed(t) ==
  /\ Inside(t) /\ ~has_been_destroyed
  /\ testing' = testing \cup {t}
  /\ UNCHANGED << count, thread_id, pc, times, depth, calls,
                  has_been_destroyed, told >>

(* close_window, up to its broadcast.                                      *)
close_window(t) ==
  /\ Inside(t) /\ ~has_been_destroyed
  /\ has_been_destroyed' = TRUE
  /\ UNCHANGED << count, thread_id, pc, times, depth, calls, testing, told >>

-----------------------------------------------------------------------------

Times == 1 .. MaxDepth

Next ==
  \E t \in Thread :
    \/ \E n \in Times : lock(t, n) \/ unlock(t, n)
    \/ Retry(t) \/ wait(t) \/ Sleep(t) \/ Wake(t) \/ Relock(t)
    \/ signal(t) \/ broadcast(t) \/ Spurious(t)
    \/ wait_until_closed(t) \/ close_window(t)

Spec == Init /\ [][Next]_vars

-----------------------------------------------------------------------------

(* How often the code outside believes it owns the mutex.                  *)
held == [t \in Thread |-> IF pc[t] = "running" THEN depth[t] ELSE 0]

Place ==
  {"running", "queued", "retry", "releasing", "waiting", "woken", "relock"}

TypeOK ==
  /\ count \in 0 .. MaxDepth
  /\ thread_id \in Thread \cup {NoThread}
  /\ pc \in [Thread -> Place]
  /\ times \in [Thread -> 0 .. MaxDepth]
  /\ depth \in [Thread -> 0 .. MaxDepth]
  /\ calls \in 0 .. MaxCalls
  /\ has_been_destroyed \in BOOLEAN
  /\ testing \subseteq Thread
  /\ told \in BOOLEAN

(* rmutex's CONVENTION, which is also what lets it leave thread_id behind: *)
(* "count == the number of times the thread that owns this mutex has       *)
(* called lock()" and "thread_id == the id of this thread"; a thread that  *)
(* slept in wait() has its nested locks back.                              *)
Convention ==
  \A t \in Thread : held[t] = IF thread_id = t THEN count ELSE 0

(* No thread sleeps through the window's end.  Testing the condition,      *)
(* calling wait(), giving up every nested lock there and falling asleep    *)
(* are separate steps, and setting it and broadcasting are two more: once  *)
(* both have been made no thread is asleep in wait_until_closed, nor on    *)
(* its way to sleep.  That takes the recursive mutex for the test, and the *)
(* signaler's own mutex from the unlocking on.                             *)
NobodySleepsOn ==
  told => \A t \in Thread : /\ t \notin testing
                            /\ pc[t] \notin {"releasing", "waiting"}

(* And so the two classes are a recursive mutex, waiting included.         *)
Lock == INSTANCE RecursiveLock

IsRecursiveLock == Lock!Spec

=============================================================================
