------------------------------- MODULE Timer -------------------------------
(***************************************************************************)
(* dlib's timer and the clock its timers share (ext/dlib/dlib/timer): the  *)
(* scroll bars of the server's window scroll by them while a button is     *)
(* held down.                                                              *)
(*                                                                         *)
(* A timer is a threaded_object.  A running timer has an entry in the      *)
(* clock, tm; when it is due the clock's thread takes the entry out and    *)
(* restarts the timer's thread, which calls the action function and, under *)
(* the clock's mutex gc->m, makes a new entry.  Whoever uses the timer     *)
(* calls start, stop, set_delay_time and clear under the same mutex.       *)
(*                                                                         *)
(* Times are kept relative to now, so that they stay finite: Tick brings   *)
(* every entry, and the end of the clock's sleep, nearer by one.           *)
(***************************************************************************)
EXTENDS Integers, FiniteSetsExt

CONSTANTS
  Object,    \* the timers
  Client,    \* the threads that wait for a timer's thread
  Nobody,
  Delay,     \* the delays used
  MaxDelay,  \* bound: the longest; how late an entry is is counted up to it
  LongNap    \* how long the clock sleeps when it has no entry

ASSUME TimerAssumption ==
  /\ Nobody \notin Object
  /\ Delay \subseteq 1 .. MaxDelay
  /\ MaxDelay \in Delay
  /\ LongNap \in Nat /\ LongNap > MaxDelay

VARIABLES
  is_running, is_alive, should_stop, should_respawn, tpc, waits, awake,
  owed,             \* of threaded_object
  running,          \* the timers that were started
  in_global_clock,  \* the timers with an entry
  due,              \* how far off the entry is; 0 without an entry
  delay,
  clock,            \* the clock's thread
  nap,              \* how long it still sleeps; 0 when it does not
  told,             \* it was signalled in its sleep
  stopping,         \* history: the timer a client's stop_and_wait is for, ...
  quiet             \* ... and the timers that were so stopped

Thread == INSTANCE ThreadedObject

object   == << is_running, is_alive, should_stop, should_respawn, tpc, waits,
               awake, owed >>
times    == << due, delay >>
theClock == << clock, nap, told >>
history  == << stopping, quiet >>
vars == << object, running, in_global_clock, times, theClock, history >>

Init ==
  /\ Thread!Init
  /\ running = {}
  /\ in_global_clock = {}
  /\ due = [t \in Object |-> 0]
  /\ delay = [t \in Object |-> MaxDelay]
  /\ clock = "off"
  /\ nap = 0
  /\ told = FALSE
  /\ stopping = [c \in Client |-> Nobody]
  /\ quiet = {}

-----------------------------------------------------------------------------
(* The clock's entries; gc->m is held by the clock's thread while it fires.*)

ClockMutexFree == clock # "firing"

(* Faulty variant of Earlier: the clock is told of its first entry only.   *)
EarlierIfFirst(when, entries) == entries = {}

(* The thread has to be told when the new entry comes before all others.   *)
Earlier(when, entries) == \A e \in entries : when < due[e]

(* tm.add: an entry for t; the clock's thread is started if it is off.     *)
Enter(t, when, entries) ==
  /\ in_global_clock' = entries \cup {t}
  /\ due' = [due EXCEPT ![t] = when]
  /\ told' = (told \/ (clock = "asleep" /\ Earlier(when, entries)))
  /\ clock' = IF clock = "off" THEN "awake" ELSE clock
  /\ UNCHANGED nap

(* Faulty variant of Unscheduled: the entry stays.                         *)
UnscheduledNot(t) == in_global_clock

Unscheduled(t) == in_global_clock \ {t}

-----------------------------------------------------------------------------
(* The users.                                                              *)

start(t) ==
  /\ ClockMutexFree
  /\ t \notin running
  /\ running' = running \cup {t}
  /\ Enter(t, delay[t], in_global_clock)
  /\ stopping' = [c \in Client |->
                    IF stopping[c] = t THEN Nobody ELSE stopping[c]]
  /\ quiet' = quiet \ {t}
  /\ UNCHANGED << object, delay >>

Stopped(t) == running \ {t}

Stop(t) ==
  /\ ClockMutexFree
  /\ running' = Stopped(t)
  /\ in_global_clock' = Unscheduled(t)
  /\ due' = [due EXCEPT ![t] = 0]
  /\ UNCHANGED << object, theClock >>

stop(t) == Stop(t) /\ UNCHANGED << delay, history >>

DefaultDelay == MaxDelay

clear(t) ==
  /\ Stop(t)
  /\ delay' = [delay EXCEPT ![t] = DefaultDelay]
  /\ UNCHANGED history

(* stop_and_wait, and the destructor's clear(): wait() comes after it.     *)
stop_and_wait(c, t) ==
  /\ waits[c] = Nobody /\ stopping[c] = Nobody
  /\ Stop(t)
  /\ stopping' = [stopping EXCEPT ![c] = t]
  /\ UNCHANGED << delay, quiet >>

(* adjust_delay: an entry is moved by the difference.                      *)
set_delay_time(t, d) ==
  /\ ClockMutexFree
  /\ delay' = [delay EXCEPT ![t] = d]
  /\ IF t \in in_global_clock
     THEN Enter(t, Max({due[t] - delay[t] + d, -MaxDelay}),
                in_global_clock \ {t})
     ELSE UNCHANGED << in_global_clock, due, theClock >>
  /\ UNCHANGED << object, running, history >>

(* wait() of the threaded_object; a client that does not have to sleep, or *)
(* wakes up and need not sleep again, has stopped the timer for good.      *)
Returned(c) ==
  LET t == stopping[c] IN
  IF waits'[c] = Nobody /\ t # Nobody
  THEN quiet' = quiet \cup {t} /\ stopping' = [stopping EXCEPT ![c] = Nobody]
  ELSE UNCHANGED << quiet, stopping >>

Wait(c) ==
  /\ stopping[c] # Nobody
  /\ Thread!wait(c, stopping[c])
  /\ Returned(c)
  /\ UNCHANGED << running, in_global_clock, times, theClock >>

WaitAgain(c) ==
  /\ Thread!WaitAgain(c)
  /\ Returned(c)
  /\ UNCHANGED << running, in_global_clock, times, theClock >>

-----------------------------------------------------------------------------
(* The clock's thread.                                                     *)

(* Faulty variant of Launch: a thread that is still there is left alone.   *)
LaunchStart(t) == Thread!start(t)

Launch(t) == Thread!restart(t)

(* The first entry is due: it is taken out, and the thread restarted if    *)
(* the timer still runs.  The mutex is kept for the next one.              *)
Fire(t) ==
  /\ clock \in {"awake", "firing"}
  /\ t \in in_global_clock
  /\ due[t] <= 0 /\ \A e \in in_global_clock : due[t] <= due[e]
  /\ in_global_clock' = in_global_clock \ {t}
  /\ due' = [due EXCEPT ![t] = 0]
  /\ IF t \in running THEN Launch(t) ELSE UNCHANGED object
  /\ clock' = "firing"
  /\ UNCHANGED << running, delay, nap, told, stopping, quiet >>

(* Nothing is due: sleep until the first entry is.                         *)
Sleep ==
  /\ clock \in {"awake", "firing"}
  /\ \A e \in in_global_clock : due[e] > 0
  /\ clock' = "asleep"
  /\ told' = FALSE
  /\ nap' = Min({due[e] : e \in in_global_clock} \cup {LongNap})
  /\ UNCHANGED << object, running, in_global_clock, times, history >>

Wake ==
  /\ clock = "asleep" /\ (told \/ nap = 0)
  /\ clock' = "awake"
  /\ nap' = 0 /\ told' = FALSE
  /\ UNCHANGED << object, running, in_global_clock, times, history >>

Tick ==
  /\ due' = [t \in Object |-> IF t \in in_global_clock
                              THEN Max({due[t] - 1, -MaxDelay}) ELSE due[t]]
  /\ nap' = Max({nap - 1, 0})
  /\ UNCHANGED << object, running, in_global_clock, delay, clock, told,
                  history >>

-----------------------------------------------------------------------------
(* The timer's thread.                                                     *)

Begin(t) ==
  /\ Thread!Turn(t) \/ Thread!Begin(t)
  /\ UNCHANGED << running, in_global_clock, times, theClock, history >>

(* The action function returns; a timer that still runs gets a new entry   *)
(* in place of one it may have been given meanwhile.                       *)
EndAction(t) ==
  /\ ClockMutexFree
  /\ Thread!Return(t)
  /\ IF t \in running
     THEN Enter(t, delay[t], in_global_clock \ {t})
     ELSE UNCHANGED << in_global_clock, due, theClock >>
  /\ UNCHANGED << running, delay, stopping, quiet >>

Finish(t) ==
  /\ Thread!Finish(t)
  /\ UNCHANGED << running, in_global_clock, times, theClock, history >>

-----------------------------------------------------------------------------

UserStep(t) ==
  \/ start(t) \/ stop(t) \/ clear(t)
  \/ (\E d \in Delay : set_delay_time(t, d))
  \/ (\E c \in Client : stop_and_wait(c, t))

ClientStep(c) == Wait(c) \/ WaitAgain(c)

TimerStep(t) == Begin(t) \/ EndAction(t) \/ Finish(t)

Clock == Sleep \/ Wake \/ (\E t \in Object : Fire(t))

Next ==
  \/ \E t \in Object : UserStep(t) \/ TimerStep(t)
  \/ \E c \in Client : ClientStep(c)
  \/ Clock \/ Tick

Spec == Init /\ [][Next]_vars

-----------------------------------------------------------------------------

(* The clock does not oversleep: whatever entries are made or moved while  *)
(* it sleeps, it has been signalled or its sleep ends before any is due.   *)
NapInTime ==
  clock = "asleep" /\ ~told =>
    \A t \in in_global_clock : nap = 0 \/ nap <= due[t]

(* A timer that runs is never forgotten: it has an entry, or its thread    *)
(* has yet to call the action function and to make one.  (stop and start   *)
(* while the action function runs, and the new entry falling due before    *)
(* the thread is gone, are the case restart() is there for.)               *)
NeverForgotten ==
  \A t \in running :
    \/ t \in in_global_clock
    \/ tpc[t] \in {"created", "turn", "in thread"}
    \/ tpc[t] = "returned" /\ should_respawn[t]

(* After stop_and_wait, and after the destructor, the action function does *)
(* not run and has no entry left, unless the timer was started again.      *)
StoppedIsQuiet ==
  \A t \in quiet : tpc[t] = "none" /\ t \notin in_global_clock

=============================================================================
