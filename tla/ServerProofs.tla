---------------------------- MODULE ServerProofs ----------------------------
(***************************************************************************)
(* What the server's user works it by: timers with the clock behind them,  *)
(* for any number of timers and any delays; a scroll bar of any size; the  *)
(* menu bar, however many events wait; and the command line, however long. *)
(* A timer is a threaded_object: what is proved of these carries over.     *)
(***************************************************************************)
EXTENDS MCServer, SequenceTheorems, FiniteSetTheorems,
  WellFoundedInduction, TLAPS

Objects == INSTANCE ThreadedObjectProofs

TimerTypes ==
  /\ running \subseteq Object /\ in_global_clock \subseteq Object
  /\ due \in [Object -> Int] /\ delay \in [Object -> Delay]
  /\ clock \in {"off", "awake", "asleep", "firing"}
  /\ nap \in Nat /\ told \in BOOLEAN
  /\ stopping \in [Client -> Object \cup {Nobody}] /\ quiet \subseteq Object

(* Only a timer that runs has an entry, and none ever pauses.              *)
Scheduled == in_global_clock \subseteq running
NeverPaused == \A t \in Object : tpc[t] \notin {"asleep", "woken"}

(* A client that has stopped a timer waits for that one, and the timer     *)
(* does not run, unless it was started again.                              *)
Stopping ==
  \A c \in Client :
    /\ stopping[c] \notin running
    /\ waits[c] # Nobody => stopping[c] \in {waits[c], Nobody}

QuietStopped == quiet \cap running = {}

TimerInv ==
  /\ Objects!ObjectInv /\ TimerTypes /\ Scheduled /\ NeverPaused
  /\ Stopping /\ QuietStopped /\ NapInTime /\ NeverForgotten /\ StoppedIsQuiet

-----------------------------------------------------------------------------

(* A set of naturals has a minimum: otherwise a smallest subset of those   *)
(* below one of its elements would lose it with any of its own.            *)
LEMMA MinOfNaturals ==
  ASSUME NEW S \in SUBSET Nat, S # {}
  PROVE  Min(S) \in S /\ \A y \in S : Min(S) <= y
<1> DEFINE HasMin(T) == \E m \in T : \A y \in T : m <= y
<1>1. PICK n \in S : TRUE
  OBVIOUS
<1> DEFINE Low == {y \in S : y <= n}
           Without == {T \in SUBSET Low : T # {} /\ ~HasMin(T)}
<1>2. IsFiniteSet(Low)
  <2>1. n \in Nat /\ \A y \in Low : y \in Nat /\ y <= n
    OBVIOUS
  <2>2. \A y \in Low : y \in 0 .. n
    BY <2>1
  <2>3. IsFiniteSet(0 .. n)
    BY <2>1, FS_Interval
  <2> HIDE DEF Low
  <2> QED
    BY <2>2, <2>3, FS_Subset
<1>3. HasMin(Low)
  <2> SUFFICES ASSUME ~HasMin(Low) PROVE FALSE
    OBVIOUS
  <2>1. IsWellFoundedOn(StrictSubsetOrdering(Low), SUBSET Low)
    BY <1>2, FS_StrictSubsetOrderingWellFounded, FS_FiniteSubsetsOfFinite
  <2>2. Without \subseteq SUBSET Low /\ Without # {}
    <3>1. n \in Low
      BY <1>1
    <3> HIDE DEF Low
    <3> QED
      BY <3>1
  <2>3. PICK T \in Without :
          \A U \in Without : << U, T >> \notin StrictSubsetOrdering(Low)
    <3> HIDE DEF Without, Low
    <3> QED
      BY <2>1, <2>2, WFMin
  <2>4. PICK x \in T : TRUE
    OBVIOUS
  <2>5. T \ {x} \notin Without
    BY <2>3, <2>4 DEF StrictSubsetOrdering
  <2>6. CASE T \ {x} = {}
    BY <2>4, <2>6
  <2>7. CASE HasMin(T \ {x})
    <3>1. PICK m \in T \ {x} : \A y \in T \ {x} : m <= y
      BY <2>7
    <3>2. CASE m <= x
      BY <3>1, <3>2
    <3>3. CASE ~(m <= x)
      BY <2>4, <3>1, <3>3
    <3> QED
      BY <3>2, <3>3
  <2> QED
    BY <2>5, <2>6, <2>7
<1>4. HasMin(S)
  BY <1>1, <1>3
<1> QED
  BY <1>4 DEF Min

LEMMA MaxOfTwo ==
  ASSUME NEW a \in Int, NEW b \in Int
  PROVE  Max({a, b}) = IF a >= b THEN a ELSE b
<1> DEFINE m == IF a >= b THEN a ELSE b
<1>1. /\ m \in {a, b} /\ \A y \in {a, b} : m >= y
      /\ \A x \in {a, b} : (\A y \in {a, b} : x >= y) => x = m
  OBVIOUS
<1> QED
  BY <1>1 DEF Max

LEMMA Numbers ==
  /\ MaxDelay \in Nat /\ LongNap \in Nat /\ LongNap > 0
  /\ \A d \in Delay : d \in Int
  /\ MaxDelay \in Delay /\ -MaxDelay \in Int /\ Nobody \notin Object
BY TimerAssumption

-----------------------------------------------------------------------------
(* The timers are threaded objects.                                        *)

(* What the timers do to their threads are steps of threaded objects.      *)
LEMMA TimerObjects ==
  ASSUME TimerTypes, [Next]_vars
  PROVE  [Thread!Next]_(Thread!vars)
<1>1. CASE UNCHANGED object
  BY <1>1 DEF object, Thread!vars, Thread!flags
<1>2. CASE \E t \in Object : UserStep(t)
  BY <1>1, <1>2 DEF UserStep, start, stop, clear, set_delay_time,
                    stop_and_wait, Stop
<1>3. CASE \E t \in Object : TimerStep(t)
  BY <1>3 DEF TimerStep, Begin, EndAction, Finish, Thread!Next, Thread!Helper
<1>4. CASE \E c \in Client : ClientStep(c)
  <2>1. PICK c \in Client : Wait(c) \/ WaitAgain(c)
    BY <1>4 DEF ClientStep
  <2>2. stopping[c] \in Object \cup {Nobody}
    BY DEF TimerTypes
  <2> QED
    BY <2>1, <2>2 DEF Wait, WaitAgain, Thread!Next, Thread!Operation
<1>5. CASE Clock
  BY <1>1, <1>5 DEF Clock, Sleep, Wake, Fire, Launch, Thread!Next,
                    Thread!Operation
<1>6. CASE Tick \/ UNCHANGED vars
  BY <1>1, <1>6 DEF Tick, vars
<1> QED
  BY <1>2, <1>3, <1>4, <1>5, <1>6 DEF Next

(* An instance of the proofs speaks of the same steps.                     *)
LEMMA SameObjects ==
  /\ Objects!Init <=> Thread!Init
  /\ [Objects!Next]_(Objects!vars) <=> [Thread!Next]_(Thread!vars)
<1>1. Objects!Init <=> Thread!Init
  BY DEF Objects!Init, Thread!Init
<1>2. [Objects!Next]_(Objects!vars) <=> [Thread!Next]_(Thread!vars)
  BY DEF Objects!Next, Thread!Next, Objects!vars, Thread!vars,
    Objects!flags, Thread!flags, Objects!Operation, Thread!Operation,
    Objects!Helper, Thread!Helper, Objects!Set, Thread!Set,
    Objects!Broadcast, Thread!Broadcast, Objects!Spawned, Thread!Spawned,
    Objects!Started, Thread!Started, Objects!start, Thread!start,
    Objects!StartFails, Thread!StartFails, Objects!restart, Thread!restart,
    Objects!set_respawn, Thread!set_respawn, Objects!pause, Thread!pause,
    Objects!StopTold, Thread!StopTold, Objects!stop, Thread!stop,
    Objects!wait, Thread!wait, Objects!Returning, Thread!Returning,
    Objects!WaitAgain, Thread!WaitAgain, Objects!Go, Thread!Go,
    Objects!Turn, Thread!Turn, Objects!Begin, Thread!Begin,
    Objects!CheckStop, Thread!CheckStop, Objects!Return, Thread!Return,
    Objects!Respawns, Thread!Respawns, Objects!Ended, Thread!Ended,
    Objects!Dead, Thread!Dead, Objects!Finish, Thread!Finish
<1> QED
  BY <1>1, <1>2

LEMMA NextObjects ==
  ASSUME Objects!ObjectInv, TimerTypes, [Next]_vars
  PROVE  Objects!ObjectInv'
<1>1. [Objects!Next]_(Objects!vars)
  BY TimerObjects, SameObjects
<1>2. Objects!ThreadedObjectAssumption
  BY Numbers DEF Objects!ThreadedObjectAssumption
<1> QED
  BY <1>1, <1>2, Objects!NextObjectInv

LEMMA ObjectFacts ==
  ASSUME Objects!ObjectInv
  PROVE  /\ is_alive \in [Object -> BOOLEAN]
         /\ should_respawn \in [Object -> BOOLEAN]
         /\ tpc \in [Object -> {"none", "created", "turn", "in thread",
                                "asleep", "woken", "returned"}]
         /\ waits \in [Client -> Object \cup {Nobody}]
         /\ \A t \in Object : is_alive[t] <=> tpc[t] # "none"
BY DEF Objects!ObjectInv, Objects!TypeOK, Objects!AliveIsThread

(* A timer's thread that is restarted has work to do.                      *)
LEMMA LaunchIs ==
  ASSUME Objects!ObjectInv, NEW t \in Object, Launch(t)
  PROVE  /\ \A u \in Object \ {t} :
              tpc'[u] = tpc[u] /\ should_respawn'[u] = should_respawn[u]
         /\ tpc[t] = "none" => tpc'[t] = "created"
         /\ tpc[t] \notin {"none", "asleep"} =>
              tpc'[t] = tpc[t] /\ should_respawn'[t]
         /\ waits' = waits
<1>1. /\ should_respawn' = [should_respawn EXCEPT ![t] = is_alive[t]]
      /\ tpc' = [Thread!Spawned(t) EXCEPT
                   ![t] = IF @ = "asleep" THEN "woken" ELSE @]
      /\ waits' = waits
  BY DEF Launch, Thread!restart, Thread!Started, Thread!Set, Thread!Broadcast
<1>2. CASE is_alive[t]
  BY <1>1, <1>2, ObjectFacts DEF Thread!Spawned
<1>3. CASE ~is_alive[t]
  BY <1>1, <1>3, ObjectFacts DEF Thread!Spawned
<1> QED
  BY <1>1, <1>2, <1>3

-----------------------------------------------------------------------------
(* The entries and the clock's sleep.                                      *)

(* A new entry keeps the clock from oversleeping.                          *)
LEMMA EnterInTime ==
  ASSUME TimerTypes, NapInTime, NEW t \in Object, NEW when \in Int,
         NEW entries \in SUBSET in_global_clock, Enter(t, when, entries)
  PROVE  /\ NapInTime'
         /\ in_global_clock' = entries \cup {t}
         /\ due' \in [Object -> Int]
         /\ clock' \in {"off", "awake", "asleep", "firing"}
         /\ nap' \in Nat /\ told' \in BOOLEAN
<1>1. /\ in_global_clock' = entries \cup {t}
      /\ due' = [due EXCEPT ![t] = when]
      /\ told' = (told \/ (clock = "asleep" /\ Earlier(when, entries)))
      /\ clock' = IF clock = "off" THEN "awake" ELSE clock
      /\ nap' = nap
  BY DEF Enter
<1>2. /\ in_global_clock \subseteq Object /\ due \in [Object -> Int]
      /\ clock \in {"off", "awake", "asleep", "firing"}
      /\ nap \in Nat /\ told \in BOOLEAN
  BY DEF TimerTypes
<1>3. /\ due' \in [Object -> Int]
      /\ due'[t] = when /\ \A u \in Object \ {t} : due'[u] = due[u]
  BY <1>1, <1>2
<1>4. NapInTime'
  <2> SUFFICES ASSUME clock' = "asleep", ~told',
                      NEW u \in in_global_clock', nap' # 0
               PROVE  nap' <= due'[u]
    BY DEF NapInTime
  <2>1. clock = "asleep" /\ ~told
    BY <1>1
  <2>2. \A e \in in_global_clock : nap <= due[e]
    BY <1>1, <2>1 DEF NapInTime
  <2>3. PICK e \in entries : ~(when < due[e])
    BY <1>1, <2>1 DEF Earlier
  <2>4. CASE u = t
    <3>1. due[e] \in Int /\ nap <= due[e] /\ nap \in Int
      BY <1>2, <2>2
    <3> QED
      BY <1>1, <1>3, <2>3, <2>4, <3>1
  <2>5. CASE u # t
    <3>1. u \in in_global_clock /\ u \in Object \ {t}
      BY <1>1, <1>2, <2>5
    <3> QED
      BY <1>1, <1>3, <2>2, <3>1
  <2> QED
    BY <2>4, <2>5
<1> QED
  BY <1>1, <1>2, <1>3, <1>4

-----------------------------------------------------------------------------
(* The users.                                                              *)

LEMMA startInv ==
  ASSUME TimerInv, Objects!ObjectInv', NEW t \in Object, start(t)
  PROVE  TimerInv'
<1> USE DEF TimerInv
<1>1. /\ t \notin running /\ running' = running \cup {t}
      /\ stopping' = [c \in Client |->
                        IF stopping[c] = t THEN Nobody ELSE stopping[c]]
      /\ quiet' = quiet \ {t}
      /\ delay' = delay
      /\ UNCHANGED << tpc, should_respawn, waits >>
  BY DEF start, object
<1>2. delay[t] \in Int /\ Enter(t, delay[t], in_global_clock)
  BY Numbers DEF TimerTypes, start
<1>3. /\ NapInTime'
      /\ in_global_clock' = in_global_clock \cup {t}
      /\ due' \in [Object -> Int]
      /\ clock' \in {"off", "awake", "asleep", "firing"}
      /\ nap' \in Nat /\ told' \in BOOLEAN
  BY <1>2, EnterInTime
<1>4. TimerTypes'
  BY <1>1, <1>3 DEF TimerTypes
<1>5. Scheduled' /\ NeverPaused' /\ QuietStopped'
  BY <1>1, <1>3 DEF Scheduled, NeverPaused, QuietStopped
<1>6. Stopping'
  BY <1>1, Numbers DEF Stopping, TimerTypes
<1>7. NeverForgotten' /\ StoppedIsQuiet'
  BY <1>1, <1>3 DEF NeverForgotten, StoppedIsQuiet
<1> QED
  BY <1>3, <1>4, <1>5, <1>6, <1>7

LEMMA StopInv ==
  ASSUME TimerInv, Objects!ObjectInv', NEW t \in Object, Stop(t),
         delay' \in [Object -> Delay], quiet' = quiet,
         \/ stopping' = stopping
         \/ \E c \in Client : /\ waits[c] = Nobody
                              /\ stopping' = [stopping EXCEPT ![c] = t]
  PROVE  TimerInv'
<1> USE DEF TimerInv
<1>1. /\ running' = running \ {t} /\ in_global_clock' = in_global_clock \ {t}
      /\ due' = [due EXCEPT ![t] = 0]
      /\ UNCHANGED << tpc, should_respawn, waits, clock, nap, told >>
  BY DEF Stop, Stopped, Unscheduled, object, theClock
<1>2. TimerTypes'
  BY <1>1 DEF TimerTypes
<1>3. Scheduled' /\ NeverPaused' /\ QuietStopped'
  BY <1>1 DEF Scheduled, NeverPaused, QuietStopped
<1>4. Stopping'
  <2>1. CASE stopping' = stopping
    BY <1>1, <2>1 DEF Stopping
  <2>2. CASE stopping' # stopping
    <3>1. PICK c \in Client : /\ waits[c] = Nobody
                              /\ stopping' = [stopping EXCEPT ![c] = t]
      BY <2>2
    <3>2. stopping'[c] = t /\ \A d \in Client \ {c} : stopping'[d] = stopping[d]
      BY <3>1 DEF TimerTypes
    <3> QED
      BY <1>1, <3>1, <3>2 DEF Stopping
  <2> QED
    BY <2>1, <2>2
<1>5. NapInTime'
  <2>1. \A u \in in_global_clock' : u \in in_global_clock /\ due'[u] = due[u]
    BY <1>1 DEF TimerTypes
  <2> QED
    BY <1>1, <2>1 DEF NapInTime
<1>6. NeverForgotten' /\ StoppedIsQuiet'
  BY <1>1 DEF NeverForgotten, StoppedIsQuiet
<1> QED
  BY <1>2, <1>3, <1>4, <1>5, <1>6

LEMMA set_delay_timeInv ==
  ASSUME TimerInv, Objects!ObjectInv', NEW t \in Object, NEW d \in Delay,
         set_delay_time(t, d)
  PROVE  TimerInv'
<1> USE DEF TimerInv
<1>1. /\ delay' = [delay EXCEPT ![t] = d]
      /\ UNCHANGED << tpc, should_respawn, waits, running, stopping, quiet >>
  BY DEF set_delay_time, object, history
<1>2. /\ NapInTime' /\ in_global_clock' = in_global_clock
      /\ due' \in [Object -> Int]
      /\ clock' \in {"off", "awake", "asleep", "firing"}
      /\ nap' \in Nat /\ told' \in BOOLEAN
  <2>1. CASE t \in in_global_clock
    <3> DEFINE when == Max({due[t] - delay[t] + d, -MaxDelay})
    <3>1. due[t] - delay[t] + d \in Int
      <4>1. due[t] \in Int /\ delay[t] \in Int /\ d \in Int
        BY Numbers DEF TimerTypes
      <4> QED
        BY <4>1
    <3>2. when \in Int
      BY <3>1, Numbers, MaxOfTwo
    <3>3. Enter(t, when, in_global_clock \ {t})
      BY <2>1 DEF set_delay_time
    <3> HIDE DEF when
    <3>4. in_global_clock \ {t} \in SUBSET in_global_clock
      OBVIOUS
    <3>5. (in_global_clock \ {t}) \cup {t} = in_global_clock
      BY <2>1
    <3> QED
      BY <3>2, <3>3, <3>4, <3>5, EnterInTime
  <2>2. CASE t \notin in_global_clock
    BY <2>2 DEF set_delay_time, theClock, NapInTime, TimerTypes
  <2> QED
    BY <2>1, <2>2
<1>3. TimerTypes'
  BY <1>1, <1>2 DEF TimerTypes
<1>4. Scheduled' /\ NeverPaused' /\ Stopping' /\ QuietStopped'
  BY <1>1, <1>2 DEF Scheduled, NeverPaused, Stopping, QuietStopped
<1>5. NeverForgotten' /\ StoppedIsQuiet'
  BY <1>1, <1>2 DEF NeverForgotten, StoppedIsQuiet
<1> QED
  BY <1>2, <1>3, <1>4, <1>5

LEMMA UserStepInv ==
  ASSUME TimerInv, Objects!ObjectInv', NEW t \in Object, UserStep(t)
  PROVE  TimerInv'
<1>1. CASE stop(t)
  BY <1>1, StopInv DEF stop, history, TimerInv, TimerTypes
<1>2. CASE clear(t)
  <2>1. delay' \in [Object -> Delay]
    BY <1>2, Numbers DEF clear, DefaultDelay, TimerInv, TimerTypes
  <2> QED
    BY <1>2, <2>1, StopInv DEF clear, history
<1>3. CASE \E c \in Client : stop_and_wait(c, t)
  <2>1. delay' \in [Object -> Delay]
    BY <1>3 DEF stop_and_wait, TimerInv, TimerTypes
  <2> QED
    BY <1>3, <2>1, StopInv DEF stop_and_wait
<1> QED
  BY <1>1, <1>2, <1>3, startInv, set_delay_timeInv DEF UserStep

(* wait(): a client that returns leaves the timer it stopped quiet.        *)
LEMMA ClientStepInv ==
  ASSUME TimerInv, Objects!ObjectInv', NEW c \in Client, ClientStep(c)
  PROVE  TimerInv'
<1> USE DEF TimerInv
<1>1. /\ UNCHANGED << tpc, should_respawn, is_alive, running, in_global_clock,
                      due, delay, clock, nap, told >>
      /\ Returned(c)
  BY DEF ClientStep, Wait, WaitAgain, Thread!wait, Thread!WaitAgain,
         Thread!flags, times, theClock
<1>2. /\ \A d \in Client \ {c} : waits'[d] = waits[d]
      /\ waits'[c] \in {waits[c], stopping[c], Nobody}
      /\ waits'[c] = Nobody /\ stopping[c] # Nobody => ~is_alive[stopping[c]]
  <2>1. CASE Wait(c)
    <3>1. /\ stopping[c] # Nobody
          /\ waits' = [waits EXCEPT ![c] = IF is_alive[stopping[c]]
                                           THEN stopping[c] ELSE Nobody]
      BY <2>1 DEF Wait, Thread!wait
    <3> QED
      BY <3>1, ObjectFacts
  <2>2. CASE WaitAgain(c)
    <3>1. waits' = [waits EXCEPT ![c] = IF is_alive[@] THEN @ ELSE Nobody]
      BY <2>2 DEF WaitAgain, Thread!WaitAgain
    <3>2. waits[c] # Nobody
      BY <2>2 DEF WaitAgain, Thread!WaitAgain, Objects!ObjectInv,
                  Objects!TypeOK
    <3>3. stopping[c] \in {waits[c], Nobody}
      BY <3>2 DEF Stopping
    <3> QED
      BY <3>1, <3>2, <3>3, ObjectFacts
  <2> QED
    BY <2>1, <2>2 DEF ClientStep
<1>3. \/ UNCHANGED << quiet, stopping >>
      \/ /\ stopping[c] \in Object /\ ~is_alive[stopping[c]]
         /\ quiet' = quiet \cup {stopping[c]}
         /\ stopping' = [stopping EXCEPT ![c] = Nobody]
  BY <1>1, <1>2 DEF Returned, TimerTypes
<1>4. TimerTypes'
  BY <1>1, <1>3 DEF TimerTypes
<1>5. Scheduled' /\ NeverPaused' /\ NapInTime' /\ NeverForgotten'
  BY <1>1 DEF Scheduled, NeverPaused, NapInTime, NeverForgotten
<1>6. stopping[c] \notin running
  BY DEF Stopping
<1>7. QuietStopped' /\ StoppedIsQuiet'
  <2>1. stopping[c] \in Object /\ ~is_alive[stopping[c]] =>
          tpc[stopping[c]] = "none"
    BY ObjectFacts
  <2> QED
    BY <1>1, <1>3, <1>6, <2>1 DEF QuietStopped, StoppedIsQuiet, Scheduled
<1>8. Stopping'
  <2>1. CASE UNCHANGED << quiet, stopping >>
    BY <1>1, <1>2, <2>1 DEF Stopping
  <2>2. CASE stopping' = [stopping EXCEPT ![c] = Nobody]
    <3>1. /\ stopping'[c] = Nobody /\ Nobody \notin running
          /\ \A d \in Client \ {c} : stopping'[d] = stopping[d]
      BY <2>2, Numbers DEF TimerTypes
    <3> QED
      BY <1>1, <1>2, <3>1 DEF Stopping
  <2> QED
    BY <1>3, <2>1, <2>2
<1> QED
  BY <1>4, <1>5, <1>7, <1>8

-----------------------------------------------------------------------------
(* The clock's thread.                                                     *)

LEMMA FireInv ==
  ASSUME TimerInv, Objects!ObjectInv', NEW t \in Object, Fire(t)
  PROVE  TimerInv'
<1> USE DEF TimerInv
<1>1. /\ t \in in_global_clock /\ in_global_clock' = in_global_clock \ {t}
      /\ due' = [due EXCEPT ![t] = 0] /\ clock' = "firing"
      /\ UNCHANGED << running, delay, nap, told, stopping, quiet >>
  BY DEF Fire
<1>2. t \in running /\ Launch(t)
  BY <1>1 DEF Fire, Scheduled
<1>3. /\ \A u \in Object \ {t} :
           tpc'[u] = tpc[u] /\ should_respawn'[u] = should_respawn[u]
      /\ tpc[t] = "none" => tpc'[t] = "created"
      /\ tpc[t] \notin {"none", "asleep"} =>
           tpc'[t] = tpc[t] /\ should_respawn'[t]
      /\ waits' = waits
  BY <1>2, LaunchIs
<1>4. tpc[t] \in {"none", "created", "turn", "in thread", "returned"}
  BY ObjectFacts DEF NeverPaused
<1>5. TimerTypes' /\ NapInTime'
  BY <1>1 DEF TimerTypes, NapInTime
<1>6. Scheduled' /\ QuietStopped' /\ Stopping'
  BY <1>1, <1>3 DEF Scheduled, QuietStopped, Stopping
<1>7. NeverPaused'
  BY <1>3, <1>4 DEF NeverPaused
<1>8. NeverForgotten'
  <2> SUFFICES ASSUME NEW u \in running
               PROVE  \/ u \in in_global_clock'
                      \/ tpc'[u] \in {"created", "turn", "in thread"}
                      \/ tpc'[u] = "returned" /\ should_respawn'[u]
    BY <1>1 DEF NeverForgotten
  <2>1. CASE u = t
    BY <1>3, <1>4, <2>1
  <2>2. CASE u # t
    BY <1>1, <1>3, <2>2 DEF NeverForgotten, TimerTypes
  <2> QED
    BY <2>1, <2>2
<1>9. StoppedIsQuiet'
  <2>1. t \notin quiet /\ quiet \subseteq Object
    BY <1>2 DEF QuietStopped, TimerTypes
  <2> QED
    BY <1>1, <1>3, <2>1 DEF StoppedIsQuiet
<1> QED
  BY <1>5, <1>6, <1>7, <1>8, <1>9

(* The clock sleeps until the first of the entries is due.                 *)
LEMMA SleepInv ==
  ASSUME TimerInv, Objects!ObjectInv', Sleep
  PROVE  TimerInv'
<1> USE DEF TimerInv
<1> DEFINE ends == {due[e] : e \in in_global_clock} \cup {LongNap}
<1>1. /\ \A e \in in_global_clock : due[e] > 0
      /\ clock' = "asleep" /\ told' = FALSE /\ nap' = Min(ends)
      /\ UNCHANGED << tpc, should_respawn, waits, running, in_global_clock, due,
                      delay, stopping, quiet >>
  BY DEF Sleep, object, times, history
<1>2. \A x \in ends : x \in Nat
  <2>1. \A e \in in_global_clock : due[e] \in Int
    BY DEF TimerTypes
  <2> QED
    BY <1>1, <2>1, Numbers
<1>3. LongNap \in ends /\ \A e \in in_global_clock : due[e] \in ends
  OBVIOUS
<1> HIDE DEF ends
<1>4. nap' \in ends /\ \A y \in ends : nap' <= y
  BY <1>1, <1>2, <1>3, MinOfNaturals
<1>5. TimerTypes'
  BY <1>1, <1>2, <1>4 DEF TimerTypes
<1>6. NapInTime'
  BY <1>1, <1>3, <1>4 DEF NapInTime
<1>7. /\ Scheduled' /\ NeverPaused' /\ Stopping' /\ QuietStopped'
      /\ NeverForgotten' /\ StoppedIsQuiet'
  BY <1>1 DEF Scheduled, NeverPaused, Stopping, QuietStopped, NeverForgotten,
              StoppedIsQuiet
<1> QED
  BY <1>5, <1>6, <1>7

LEMMA WakeInv ==
  ASSUME TimerInv, Objects!ObjectInv', Wake
  PROVE  TimerInv'
BY DEF Wake, TimerInv, object, times, history, TimerTypes, NapInTime, Scheduled,
       NeverPaused, Stopping, QuietStopped, NeverForgotten, StoppedIsQuiet

(* Entries and sleep come nearer together.                                 *)
LEMMA TickInv ==
  ASSUME TimerInv, Objects!ObjectInv', Tick
  PROVE  TimerInv'
<1> USE DEF TimerInv
<1>1. /\ due' = [t \in Object |-> IF t \in in_global_clock
                                  THEN Max({due[t] - 1, -MaxDelay}) ELSE due[t]]
      /\ nap' = Max({nap - 1, 0})
      /\ UNCHANGED << tpc, should_respawn, waits, running, in_global_clock,
                      delay, clock, told, stopping, quiet >>
  BY DEF Tick, object, history
<1>2. nap \in Nat /\ nap' = IF nap = 0 THEN 0 ELSE nap - 1
  <2>1. nap \in Nat /\ nap - 1 \in Int /\ 0 \in Int
    BY DEF TimerTypes
  <2> QED
    BY <1>1, <2>1, MaxOfTwo
<1>3. \A t \in Object : /\ due[t] \in Int /\ due'[t] \in Int
                        /\ t \in in_global_clock => due'[t] >= due[t] - 1
  <2> SUFFICES ASSUME NEW t \in Object
               PROVE  /\ due[t] \in Int /\ due'[t] \in Int
                      /\ t \in in_global_clock => due'[t] >= due[t] - 1
    OBVIOUS
  <2>1. due[t] \in Int /\ due[t] - 1 \in Int
    BY DEF TimerTypes
  <2>2. Max({due[t] - 1, -MaxDelay}) =
          IF due[t] - 1 >= -MaxDelay THEN due[t] - 1 ELSE -MaxDelay
    BY <2>1, Numbers, MaxOfTwo
  <2> QED
    BY <1>1, <2>1, <2>2, Numbers
<1>4. TimerTypes'
  <2>1. due' \in [Object -> Int]
    BY <1>1, <1>3
  <2>2. nap' \in Nat
    BY <1>2
  <2> QED
    BY <1>1, <2>1, <2>2 DEF TimerTypes
<1>5. NapInTime'
  <2> SUFFICES ASSUME clock = "asleep", ~told, NEW t \in in_global_clock,
                      nap' # 0
               PROVE  nap' <= due'[t]
    BY <1>1 DEF NapInTime
  <2>1. nap # 0 /\ t \in Object /\ nap <= due[t]
    BY <1>2 DEF NapInTime, TimerTypes
  <2> QED
    BY <1>2, <1>3, <2>1
<1>6. /\ Scheduled' /\ NeverPaused' /\ Stopping' /\ QuietStopped'
      /\ NeverForgotten' /\ StoppedIsQuiet'
  BY <1>1 DEF Scheduled, NeverPaused, Stopping, QuietStopped, NeverForgotten,
              StoppedIsQuiet
<1> QED
  BY <1>4, <1>5, <1>6

-----------------------------------------------------------------------------
(* The timers' threads.                                                    *)

LEMMA TimerStepInv ==
  ASSUME TimerInv, Objects!ObjectInv', NEW t \in Object, TimerStep(t)
  PROVE  TimerInv'
<1> USE DEF TimerInv
<1>1. CASE Begin(t)
  <2>1. /\ UNCHANGED << waits, running, in_global_clock, due, delay, clock, nap,
                        told, stopping, quiet >>
        /\ \/ tpc[t] = "created" /\ tpc' = [tpc EXCEPT ![t] = "turn"]
           \/ tpc[t] = "turn" /\ tpc' = [tpc EXCEPT ![t] = "in thread"]
        /\ \A u \in Object \ {t} : should_respawn'[u] = should_respawn[u]
    BY <1>1, ObjectFacts
    DEF Begin, Thread!Turn, Thread!Begin, Thread!Go, Thread!Set, Thread!flags,
        times, theClock, history
  <2>2. /\ tpc[t] # "none" /\ tpc'[t] \in {"turn", "in thread"}
        /\ \A u \in Object \ {t} : tpc'[u] = tpc[u]
    BY <2>1, ObjectFacts
  <2>3. TimerTypes' /\ NapInTime' /\ Scheduled' /\ Stopping' /\ QuietStopped'
    BY <2>1 DEF TimerTypes, NapInTime, Scheduled, Stopping, QuietStopped
  <2>4. NeverPaused'
    BY <2>2 DEF NeverPaused
  <2>5. NeverForgotten' /\ StoppedIsQuiet'
    BY <2>1, <2>2 DEF NeverForgotten, StoppedIsQuiet, TimerTypes
  <2> QED
    BY <2>3, <2>4, <2>5
<1>2. CASE EndAction(t)
  <2>1. /\ UNCHANGED << waits, should_respawn, running, delay, stopping,
                        quiet >>
        /\ tpc[t] = "in thread" /\ tpc' = [tpc EXCEPT ![t] = "returned"]
    BY <1>2 DEF EndAction, Thread!Return, Thread!Go, Thread!flags
  <2>2. /\ tpc'[t] = "returned"
        /\ \A u \in Object \ {t} : tpc'[u] = tpc[u]
    BY <2>1, ObjectFacts
  <2>3. /\ NapInTime'
        /\ in_global_clock' = IF t \in running THEN in_global_clock \cup {t}
                              ELSE in_global_clock
        /\ due' \in [Object -> Int]
        /\ clock' \in {"off", "awake", "asleep", "firing"}
        /\ nap' \in Nat /\ told' \in BOOLEAN
    <3>1. CASE t \in running
      <4>1. Enter(t, delay[t], in_global_clock \ {t})
        BY <1>2, <3>1 DEF EndAction
      <4>2. /\ delay[t] \in Int
            /\ in_global_clock \ {t} \in SUBSET in_global_clock
            /\ (in_global_clock \ {t}) \cup {t} = in_global_clock \cup {t}
        BY Numbers DEF TimerTypes
      <4> QED
        BY <3>1, <4>1, <4>2, EnterInTime
    <3>2. CASE t \notin running
      BY <1>2, <3>2 DEF EndAction, theClock, NapInTime, TimerTypes
    <3> QED
      BY <3>1, <3>2
  <2>4. TimerTypes'
    BY <2>1, <2>3 DEF TimerTypes
  <2>5. Scheduled' /\ Stopping' /\ QuietStopped' /\ NeverPaused'
    BY <2>1, <2>2, <2>3 DEF Scheduled, Stopping, QuietStopped, NeverPaused
  <2>6. NeverForgotten'
    BY <2>1, <2>2, <2>3 DEF NeverForgotten, TimerTypes
  <2>7. StoppedIsQuiet'
    <3>1. t \notin quiet /\ quiet \subseteq Object
      BY <2>1 DEF StoppedIsQuiet, TimerTypes
    <3> QED
      BY <2>1, <2>2, <2>3, <3>1 DEF StoppedIsQuiet
  <2> QED
    BY <2>3, <2>4, <2>5, <2>6, <2>7
<1>3. CASE Finish(t)
  <2>1. /\ UNCHANGED << waits, should_respawn, running, in_global_clock, due,
                        delay, clock, nap, told, stopping, quiet >>
        /\ tpc[t] = "returned"
        /\ IF should_respawn[t]
           THEN tpc' = [tpc EXCEPT ![t] = "created"]
           ELSE tpc' = [[tpc EXCEPT ![t] = "none"] EXCEPT
                          ![t] = IF @ = "asleep" THEN "woken" ELSE @]
    BY <1>3 DEF Finish, Thread!Finish, Thread!Respawns, Thread!Go, Thread!flags,
                Thread!Ended, Thread!Broadcast, times, theClock, history
  <2>2. /\ tpc'[t] = IF should_respawn[t] THEN "created" ELSE "none"
        /\ \A u \in Object \ {t} : tpc'[u] = tpc[u]
    BY <2>1, ObjectFacts
  <2>3. TimerTypes' /\ NapInTime' /\ Scheduled' /\ Stopping' /\ QuietStopped'
    BY <2>1 DEF TimerTypes, NapInTime, Scheduled, Stopping, QuietStopped
  <2>4. NeverPaused'
    BY <2>2 DEF NeverPaused
  <2>5. NeverForgotten' /\ StoppedIsQuiet'
    BY <2>1, <2>2 DEF NeverForgotten, StoppedIsQuiet, TimerTypes
  <2> QED
    BY <2>3, <2>4, <2>5
<1> QED
  BY <1>1, <1>2, <1>3 DEF TimerStep

-----------------------------------------------------------------------------

LEMMA InitTimerInv == Init => TimerInv
<1> SUFFICES ASSUME Init PROVE TimerInv
  OBVIOUS
<1>1. /\ Thread!Init /\ running = {} /\ in_global_clock = {}
      /\ due = [t \in Object |-> 0] /\ delay = [t \in Object |-> MaxDelay]
      /\ clock = "off" /\ nap = 0 /\ told = FALSE
      /\ stopping = [c \in Client |-> Nobody] /\ quiet = {}
  BY DEF Init
<1>2. Objects!ObjectInv
  BY <1>1, SameObjects, Objects!InitObjectInv, Numbers
  DEF Objects!ThreadedObjectAssumption
<1>3. \A t \in Object : tpc[t] = "none"
  BY <1>1 DEF Thread!Init
<1>4. TimerTypes
  <2>1. due \in [Object -> Int]
    BY <1>1
  <2>2. delay \in [Object -> Delay]
    BY <1>1, Numbers
  <2>3. stopping \in [Client -> Object \cup {Nobody}]
    BY <1>1
  <2> QED
    BY <1>1, <2>1, <2>2, <2>3 DEF TimerTypes
<1> QED
  BY <1>1, <1>2, <1>3, <1>4
  DEF TimerInv, Scheduled, NeverPaused, Stopping, QuietStopped, NapInTime,
      NeverForgotten, StoppedIsQuiet

LEMMA NextTimerInv == TimerInv /\ [Next]_vars => TimerInv'
<1> SUFFICES ASSUME TimerInv, [Next]_vars PROVE TimerInv'
  OBVIOUS
<1>1. Objects!ObjectInv'
  BY NextObjects DEF TimerInv
<1>2. CASE UNCHANGED vars
  BY <1>1, <1>2
  DEF TimerInv, vars, object, times, theClock, history, TimerTypes, Scheduled,
      NeverPaused, Stopping, QuietStopped, NapInTime, NeverForgotten,
      StoppedIsQuiet
<1>3. CASE Next
  BY <1>1, <1>3, UserStepInv, TimerStepInv, ClientStepInv, FireInv, SleepInv,
     WakeInv, TickInv
  DEF Next, Clock
<1> QED
  BY <1>2, <1>3

(* The entries, the clock's sleep, who stops whom and what has stopped are *)
(* one inductive invariant.                                                *)
THEOREM TimerInvariant == Spec => []TimerInv
BY InitTimerInv, NextTimerInv, PTL DEF Spec

(* timer's threads are used as threaded_object intends: a behaviour of the *)
(* timers is one of threaded objects.                                      *)
THEOREM TimersAreObjects == Spec => Thread!Spec
<1>1. Init => Thread!Init
  BY DEF Init
<1>2. TimerInv /\ [Next]_vars => [Thread!Next]_(Thread!vars)
  BY TimerObjects DEF TimerInv
<1> QED
  BY <1>1, <1>2, TimerInvariant, PTL DEF Spec, Thread!Spec

(* timer_global_clock: whatever entries are made or moved while the clock  *)
(* sleeps, it does not oversleep any.                                      *)
THEOREM TimerNap == Spec => []NapInTime
<1>1. TimerInv => NapInTime
  BY DEF TimerInv
<1> QED
  BY <1>1, TimerInvariant, PTL

(* A timer that runs has an entry or is about to make one, whatever stop,  *)
(* start and the clock do while its action function runs.                  *)
THEOREM TimerRemembered == Spec => []NeverForgotten
<1>1. TimerInv => NeverForgotten
  BY DEF TimerInv
<1> QED
  BY <1>1, TimerInvariant, PTL

(* stop_and_wait and the destructor: the action function does not run once *)
(* they have returned.                                                     *)
THEOREM TimerQuiet == Spec => []StoppedIsQuiet
<1>1. TimerInv => StoppedIsQuiet
  BY DEF TimerInv
<1> QED
  BY <1>1, TimerInvariant, PTL

-----------------------------------------------------------------------------
(* The scroll bar.                                                         *)

(* The position and the place of a slider, in a bar with range m, agree.   *)
Agree(k, c, m) ==
  m # 0 => /\ k * (Track - 1) - (c - 1) * m < m
           /\ (c - 1) * m - k * (Track - 1) < Track - 1

GoodSlider(s) == s.pos \in 0 .. max_pos /\ Agree(s.pos, s.cell, max_pos)

BarInv ==
  /\ max_pos \in MaxSliderPos /\ delayed_pos \in Int
  /\ SliderInRange /\ SliderShowsPosition

LEMMA BarNumbers ==
  /\ Track \in Nat \ {0, 1} /\ js \in Nat
  /\ \A m \in MaxSliderPos : m \in Nat
BY ServerAssumption DEF Bar!ScrollBarAssumption

(* The invariant says that the slider is a good one.                       *)
LEMMA BarInvMeans ==
  ASSUME BarInv
  PROVE  /\ max_pos \in Nat /\ delayed_pos \in Int
         /\ pos \in Int /\ 0 <= pos /\ pos <= max_pos
         /\ GoodSlider(Bar!Slider)
<1>1. max_pos \in Nat /\ pos \in 0 .. max_pos /\ delayed_pos \in Int
  BY BarNumbers DEF BarInv, SliderInRange, Bar!SliderInRange
<1>2. Agree(pos, cell, max_pos)
  BY DEF BarInv, SliderShowsPosition, Bar!SliderShowsPosition, Bar!Enabled, Agree
<1> QED
  BY <1>1, <1>2 DEF GoodSlider, Bar!Slider

LEMMA GoodIsInv ==
  ASSUME NEW s, max_pos' \in MaxSliderPos, delayed_pos' \in Int,
         s.pos \in 0 .. max_pos', Agree(s.pos, s.cell, max_pos'),
         Bar!SetSlider(s)
  PROVE  BarInv'
<1>1. pos' = s.pos /\ cell' = s.cell
  BY DEF Bar!SetSlider
<1>2. SliderInRange'
  BY <1>1 DEF SliderInRange, Bar!SliderInRange
<1>3. SliderShowsPosition'
  BY <1>1 DEF SliderShowsPosition, Bar!SliderShowsPosition, Bar!Enabled, Agree
<1> QED
  BY <1>2, <1>3 DEF BarInv

(* What is rounded off.                                                    *)
LEMMA Rounded ==
  ASSUME NEW b \in Nat \ {0}, NEW n \in Nat
  PROVE  /\ n \div b \in Nat
         /\ (n \div b) * b <= n /\ n < (n \div b) * b + b
OBVIOUS

LEMMA Monotone == \A x, y, z \in Nat : x <= y => x * z <= y * z
OBVIOUS

(* Where the slider is dragged to, scaled to the positions.                *)
LEMMA Scaled ==
  ASSUME NEW b \in Nat \ {0}, NEW a \in 0 .. b, NEW m \in Nat
  PROVE  (a * m) \div b \in 0 .. m
<1>1. a * m \in Nat /\ a * m <= b * m
  BY Monotone
<1>2. PICK q \in Nat : q = (a * m) \div b /\ q * b <= b * m
  BY <1>1, Rounded
<1>3. q <= m
  <2>1. SUFFICES ASSUME q >= m + 1 PROVE FALSE
    OBVIOUS
  <2>2. (m + 1) * b <= q * b
    BY Monotone, <2>1
  <2> QED
    BY <1>2, <2>2
<1> QED
  BY <1>2, <1>3

(* The place computed from a position, and the position from a place.      *)
LEMMA PlaceAgrees ==
  ASSUME NEW m \in Nat, NEW k \in Nat
  PROVE  m # 0 => Agree(k, Bar!CellOf(k, m), m)
<1> SUFFICES ASSUME m # 0 PROVE Agree(k, Bar!CellOf(k, m), m)
  OBVIOUS
<1> DEFINE n == k * (Track - 1)
           q == n \div m
<1>1. n \in Nat
  BY BarNumbers
<1>2. q \in Nat /\ q * m <= n /\ n < q * m + m
  BY <1>1, Rounded
<1>3. Bar!CellOf(k, m) = 1 + q
  BY DEF Bar!CellOf
<1> HIDE DEF q
<1>4. (Bar!CellOf(k, m) - 1) * m = q * m /\ q * m \in Nat
  BY <1>2, <1>3
<1> HIDE DEF n
<1>5. n - q * m < m /\ q * m - n < Track - 1
  BY <1>1, <1>2, <1>4, BarNumbers
<1> QED
  BY <1>4, <1>5 DEF Agree, n

LEMMA PositionAgrees ==
  ASSUME NEW m \in Nat, NEW c \in 1 .. Track
  PROVE  Agree(((c - 1) * m) \div (Track - 1), c, m)
<1> SUFFICES ASSUME m # 0 PROVE Agree(((c - 1) * m) \div (Track - 1), c, m)
  BY DEF Agree
<1> DEFINE n == (c - 1) * m
           b == Track - 1
           q == n \div b
<1>1. n \in Nat /\ b \in Nat \ {0}
  BY BarNumbers
<1>2. q \in Nat /\ q * b <= n /\ n < q * b + b
  BY <1>1, Rounded
<1> HIDE DEF q
<1>3. q * b \in Nat
  BY <1>1, <1>2
<1> HIDE DEF n, b
<1>4. q * b - n < m /\ n - q * b < b
  BY <1>1, <1>2, <1>3
<1> QED
  BY <1>4 DEF Agree, n, b, q

LEMMA PutGood ==
  ASSUME BarInv, NEW k \in Int
  PROVE  GoodSlider(Bar!Put(k))
<1>1. max_pos \in Nat
  BY BarInvMeans
<1>2. Bar!Clamped(k) \in 0 .. max_pos
  BY <1>1 DEF Bar!Clamped
<1>3. Agree(Bar!Put(k).pos, Bar!Put(k).cell, max_pos)
  <2>1. CASE max_pos = 0
    BY <2>1 DEF Agree
  <2>2. CASE max_pos # 0
    <3>1. /\ Bar!Put(k).pos = Bar!Clamped(k)
          /\ Bar!Put(k).cell = Bar!CellOf(Bar!Clamped(k), max_pos)
      BY <2>2 DEF Bar!Put, Bar!Enabled
    <3> QED
      BY <1>1, <1>2, <2>2, <3>1, PlaceAgrees
  <2> QED
    BY <2>1, <2>2
<1> QED
  BY <1>2, <1>3 DEF GoodSlider, Bar!Put

LEMMA PressedGood ==
  ASSUME BarInv, NEW down
  PROVE  GoodSlider(Bar!Pressed(down))
<1>1. /\ pos - 1 \in Int /\ pos + 1 \in Int
      /\ GoodSlider(Bar!Slider)
  BY BarInvMeans
<1> QED
  BY <1>1, PutGood DEF Bar!Pressed

LEMMA DraggedGood ==
  ASSUME BarInv, NEW x \in Bar!Cell, NEW s, GoodSlider(s)
  PROVE  GoodSlider(Bar!Dragged(x, s))
<1> DEFINE c == Bar!Along(x)
           q == ((c - 1) * max_pos) \div (Track - 1)
<1>1. max_pos \in Nat /\ c \in 1 .. Track
      /\ c - 1 \in 0 .. Track - 1 /\ Track - 1 \in Nat \ {0}
  BY BarNumbers, BarInvMeans DEF Bar!Along, Bar!Cell
<1> HIDE DEF c
<1>2. q \in 0 .. max_pos
  BY <1>1, Scaled
<1>3. Agree(q, c, max_pos)
  BY <1>1, PositionAgrees
<1> HIDE DEF q
<1>4. GoodSlider([pos |-> q, cell |-> c, spread |-> FALSE])
  BY <1>2, <1>3 DEF GoodSlider
<1> QED
  BY <1>4 DEF Bar!Dragged, c, q

(* The handlers leave a good slider a good one.                            *)
LEMMA HandlersInv ==
  ASSUME BarInv, NEW s, GoodSlider(s), NEW down, NEW up,
         Bar!Handlers(s, down, up)
  PROVE  BarInv'
<1>1. /\ max_pos \in Nat /\ delayed_pos \in Int /\ max_pos' = max_pos
      /\ s.pos \in 0 .. max_pos
  BY BarInvMeans DEF Bar!Handlers, GoodSlider
<1>2. delayed_pos' \in Int
  <2>1. \A p : Bar!JumpFrom(p, s.pos) \in Int
    BY <1>1, BarNumbers DEF Bar!JumpFrom
  <2> QED
    BY <1>1, <2>1 DEF Bar!Handlers
<1> QED
  BY <1>1, <1>2, GoodIsInv DEF Bar!Handlers, GoodSlider, BarInv

LEMMA MouseInv ==
  ASSUME BarInv, NEW x \in Bar!Cell,
         Bar!on_mouse_down(x) \/ Bar!on_mouse_up(x) \/ Bar!on_mouse_move(x)
           \/ Bar!on_mouse_leave
  PROVE  BarInv'
<1>1. CASE Bar!on_mouse_down(x)
  BY <1>1, PressedGood, HandlersInv DEF Bar!on_mouse_down
<1>2. CASE Bar!on_mouse_up(x)
  BY <1>2, PressedGood, HandlersInv DEF Bar!on_mouse_up
<1>3. CASE Bar!on_mouse_move(x)
  <2> DEFINE s == Bar!Dragged(x, Bar!Pressed(
                    Bar!MovedBack(x, Bar!Slider) \cap Bar!Button))
  <2>1. GoodSlider(s)
    BY PressedGood, DraggedGood
  <2>2. Bar!Handlers(s, Bar!MovedBack(x, s), Bar!MovedOff(x, s))
    BY <1>3 DEF Bar!on_mouse_move
  <2> HIDE DEF s
  <2> QED
    BY <2>1, <2>2, HandlersInv
<1>4. CASE Bar!on_mouse_leave
  BY <1>4, BarInvMeans, HandlersInv DEF Bar!on_mouse_leave
<1> QED
  BY <1>1, <1>2, <1>3, <1>4

LEMMA NextBarInv == BarInv /\ [Bar!Next]_(Bar!vars) => BarInv'
<1> SUFFICES ASSUME BarInv, [Bar!Next]_(Bar!vars) PROVE BarInv'
  OBVIOUS
<1>1. /\ max_pos \in Nat /\ max_pos \in MaxSliderPos /\ delayed_pos \in Int
      /\ pos \in Int /\ 0 <= pos /\ pos <= max_pos
      /\ GoodSlider(Bar!Slider)
  BY BarInvMeans DEF BarInv
<1>2. ASSUME NEW s, GoodSlider(s), Bar!SetSlider(s),
             UNCHANGED << max_pos, delayed_pos >>
      PROVE  BarInv'
  BY <1>1, <1>2, GoodIsInv DEF GoodSlider
<1>3. CASE \E m \in MaxSliderPos : Bar!set_max_slider_pos(m)
  <2>1. PICK m \in MaxSliderPos : Bar!set_max_slider_pos(m)
    BY <1>3
  <2> DEFINE k == IF pos > m THEN m ELSE pos
  <2>2. m \in Nat /\ k \in 0 .. m
    BY <1>1, BarNumbers
  <2>3. /\ max_pos' = m /\ delayed_pos' = delayed_pos
        /\ Bar!SetSlider(Bar!Fitted(k, m))
    BY <2>1 DEF Bar!set_max_slider_pos
  <2> HIDE DEF k
  <2>4. Agree(k, Bar!Fitted(k, m).cell, m)
    BY <2>2, PlaceAgrees DEF Bar!Fitted, Agree
  <2>5. Bar!Fitted(k, m).pos = k
    BY DEF Bar!Fitted
  <2> QED
    BY <1>1, <2>1, <2>2, <2>3, <2>4, <2>5, GoodIsInv
<1>4. CASE \E k \in {pos - 1, pos + 1} : Bar!set_slider_pos(k)
  <2>1. PICK k \in Int : Bar!set_slider_pos(k)
    BY <1>1, <1>4
  <2> QED
    BY <1>2, <2>1, PutGood DEF Bar!set_slider_pos
<1>5. CASE Bar!on_jump_event
  BY <1>1, <1>2, <1>5, PutGood DEF Bar!on_jump_event
<1>6. CASE \E p \in Bar!Part : Bar!on_user_event(p) \/ Bar!on_release_event(p)
  BY <1>1, <1>6, PressedGood, HandlersInv
  DEF Bar!on_user_event, Bar!on_release_event
<1>7. CASE \/ \E p \in Bar!Part : Bar!Tick(p) \/ Bar!draw(p)
           \/ Bar!Take \/ UNCHANGED Bar!vars
  <2>1. UNCHANGED << Bar!slider, max_pos, delayed_pos >>
    BY <1>7 DEF Bar!Tick, Bar!draw, Bar!Take, Bar!vars
  <2>2. Bar!SetSlider(Bar!Slider) /\ UNCHANGED << max_pos, delayed_pos >>
    BY <2>1 DEF Bar!SetSlider, Bar!Slider, Bar!slider
  <2> QED
    BY <1>1, <1>2, <2>2
<1>8. CASE \/ \E x \in Bar!Cell : \/ Bar!on_mouse_down(x) \/ Bar!on_mouse_up(x)
                                  \/ Bar!on_mouse_move(x)
           \/ Bar!on_mouse_leave
  <2>1. 0 \in Bar!Cell
    BY BarNumbers DEF Bar!Cell
  <2> QED
    BY <1>8, <2>1, MouseInv
<1> QED
  BY <1>3, <1>4, <1>5, <1>6, <1>7, <1>8 DEF Bar!Next

LEMMA InitBarInv == Bar!Init => BarInv
<1> SUFFICES ASSUME Bar!Init PROVE BarInv
  OBVIOUS
<1>1. pos = 0 /\ delayed_pos = 0 /\ cell = 1 /\ max_pos \in MaxSliderPos
  BY DEF Bar!Init
<1>2. max_pos \in Nat /\ Track - 1 \in Nat \ {0}
  BY <1>1, BarNumbers
<1>3. pos * (Track - 1) = 0 /\ (cell - 1) * max_pos = 0
  BY <1>1, <1>2
<1>4. Agree(pos, cell, max_pos)
  BY <1>2, <1>3, BarNumbers DEF Agree
<1>5. SliderInRange
  BY <1>1, <1>2 DEF SliderInRange, Bar!SliderInRange
<1> QED
  BY <1>1, <1>4, <1>5 DEF BarInv, Agree, SliderShowsPosition,
    Bar!SliderShowsPosition, Bar!Enabled

(* scroll_bar: however it is dragged, clicked, held, resized and set, and  *)
(* whatever jump was asked for before, its slider is on the bar.           *)
THEOREM BarSlider == Bar!Spec => []SliderInRange
<1>1. BarInv => SliderInRange
  BY DEF BarInv
<1> QED
  BY <1>1, InitBarInv, NextBarInv, PTL DEF Bar!Spec

(* scroll_bar: the place of its slider and the position agree, to less     *)
(* than a position and less than a cell, though a drag computes the one    *)
(* from the other and everything else the other way round.                 *)
THEOREM BarShows == Bar!Spec => []SliderShowsPosition
<1>1. BarInv => SliderShowsPosition
  BY DEF BarInv
<1> QED
  BY <1>1, InitBarInv, NextBarInv, PTL DEF Bar!Spec

-----------------------------------------------------------------------------
(* The menu bar.                                                           *)

MenuState ==
  [open_menu : Menus!Menu \cup {Menus!NoMenu}, shown : SUBSET Menus!Menu,
   is_mapped : SUBSET Menus!Menu, selected : [Menus!Menu -> Int]]

MenuInv == queue \in Seq(Menus!Event) /\ Menus!State \in MenuState

(* A handler leaves a menu it has opened unselected, or with its first     *)
(* item selected.                                                          *)
Opens(u, v) ==
  /\ v \in MenuState
  /\ v.open_menu \notin {u.open_menu, Menus!NoMenu} =>
       v.selected[v.open_menu] \in {0, Menus!NoItem(v.open_menu)}

LEMMA MenuNumbers ==
  /\ Menus!NoMenu = 2 /\ Menus!Menu = {0, 1}
  /\ Menus!NoItem(0) = 1 /\ Menus!NoItem(1) = 3
<1>1. /\ Len(Menus!hotkeys) = 2
      /\ Menus!hotkeys[1] = << "t" >> /\ Menus!hotkeys[2] = << "c", "d", "c" >>
  BY DEF Menus!hotkeys
<1>2. Menus!NoMenu = 2 /\ Menus!Menu = {0, 1}
  BY <1>1 DEF Menus!NoMenu, Menus!Menu
<1>3. Menus!NoItem(0) = Len(Menus!hotkeys[1])
      /\ Menus!NoItem(1) = Len(Menus!hotkeys[2])
  BY DEF Menus!NoItem
<1> QED
  BY <1>1, <1>2, <1>3

(* The handlers' parts.                                                    *)
LEMMA SelectIs ==
  ASSUME NEW u \in MenuState, NEW m \in Menus!Menu, NEW i \in Int
  PROVE  LET v == Menus!select(u, m, i) IN
         /\ v \in MenuState /\ v.open_menu = u.open_menu
         /\ v.shown = u.shown /\ v.is_mapped = u.is_mapped
         /\ v.selected[m] = i
BY DEF Menus!select, MenuState

LEMMA HideIs ==
  ASSUME NEW u \in MenuState, NEW m \in Menus!Menu
  PROVE  /\ Menus!hide(u, m) \in MenuState
         /\ Menus!hide(u, m).open_menu = u.open_menu
<1> DEFINE v == Menus!select(u, m, Menus!NoItem(m))
<1>1. Menus!NoItem(m) \in Int
  BY MenuNumbers
<1>2. v \in MenuState /\ v.open_menu = u.open_menu
  BY <1>1, SelectIs
<1>3. Menus!hide(u, m) = [v EXCEPT !.shown = v.shown \ {m}]
  BY DEF Menus!hide
<1> HIDE DEF v
<1> QED
  BY <1>2, <1>3 DEF MenuState

LEMMA HideMenuIs ==
  ASSUME NEW u \in MenuState
  PROVE  /\ Menus!hide_menu(u) \in MenuState
         /\ Menus!hide_menu(u).open_menu = Menus!NoMenu
<1>1. CASE u.open_menu = Menus!NoMenu
  BY <1>1 DEF Menus!hide_menu
<1>2. CASE u.open_menu # Menus!NoMenu
  <2>1. u.open_menu \in Menus!Menu
    BY <1>2 DEF MenuState
  <2>2. Menus!hide(u, u.open_menu) \in MenuState
    BY <2>1, HideIs
  <2> QED
    BY <1>2, <2>2 DEF Menus!hide_menu, Menus!on_popup_hide, MenuState
<1> QED
  BY <1>1, <1>2

LEMMA ClickIs ==
  ASSUME NEW u \in MenuState, NEW m \in Menus!Menu
  PROVE  /\ Menus!click(u, m) \in MenuState
         /\ Menus!click(u, m).open_menu = Menus!NoMenu
<1>1. Menus!hide(u, m) \in MenuState
  BY HideIs
<1> QED
  BY <1>1 DEF Menus!click, Menus!on_popup_hide, MenuState

LEMMA ShowMenuIs ==
  ASSUME NEW u \in MenuState, NEW m \in Menus!Menu
  PROVE  LET v == Menus!show_menu(u, m) IN
         /\ v \in MenuState /\ v.open_menu = m
         /\ m # u.open_menu => v.selected[m] = Menus!NoItem(m)
<1>1. CASE m = u.open_menu
  BY <1>1 DEF Menus!show_menu
<1>2. CASE m # u.open_menu
  <2> DEFINE w == IF u.open_menu = Menus!NoMenu THEN u
                  ELSE Menus!hide(u, u.open_menu)
  <2>1. w \in MenuState
    BY HideIs DEF MenuState
  <2>2. Menus!show_menu(u, m) = [Menus!show(w, m) EXCEPT !.open_menu = m]
    BY <1>2 DEF Menus!show_menu
  <2> HIDE DEF w
  <2>3. Menus!NoItem(m) \in Int
    BY MenuNumbers
  <2>4. /\ Menus!select(w, m, Menus!NoItem(m)) \in MenuState
        /\ Menus!select(w, m, Menus!NoItem(m)).selected[m] = Menus!NoItem(m)
    BY <2>1, <2>3, SelectIs
  <2>5. /\ Menus!show(w, m) \in MenuState
        /\ Menus!show(w, m).selected[m] = Menus!NoItem(m)
    BY <2>4 DEF Menus!show, MenuState
  <2> QED
    BY <2>2, <2>5 DEF MenuState
<1> QED
  BY <1>1, <1>2

LEMMA SelectFirstIs ==
  ASSUME NEW u \in MenuState, u.open_menu \in Menus!Menu
  PROVE  LET v == Menus!select_first_item(u) IN
         /\ v \in MenuState /\ v.open_menu = u.open_menu
         /\ v.selected[v.open_menu] = 0
BY SelectIs DEF Menus!select_first_item

LEMMA ForwardedOpens ==
  ASSUME NEW u \in MenuState, u.open_menu \in Menus!Menu, NEW key
  PROVE  Opens(u, Menus!forwarded(u, key))
<1> DEFINE m == u.open_menu
           n == Menus!NoItem(m)
           i == u.selected[m]
<1>1. n \in Nat \ {0} /\ i \in Int /\ m \in Menus!Menu
  BY MenuNumbers DEF MenuState
<1>2. ASSUME NEW k \in Int
      PROVE  Opens(u, Menus!select(u, m, k))
  BY <1>1, <1>2, SelectIs DEF Opens
<1>3. ASSUME NEW step \in Int
      PROVE  Opens(u, Menus!select_first_item(
                        Menus!show_menu(u, (m + step) % Menus!NoMenu)))
  <2> DEFINE k == (m + step) % Menus!NoMenu
  <2>1. k \in Menus!Menu
    BY <1>1, MenuNumbers
  <2> HIDE DEF k
  <2>2. /\ Menus!show_menu(u, k) \in MenuState
        /\ Menus!show_menu(u, k).open_menu = k
    BY <2>1, ShowMenuIs
  <2>3. Opens(u, Menus!select_first_item(Menus!show_menu(u, k)))
    BY <2>1, <2>2, SelectFirstIs DEF Opens
  <2> QED
    BY <2>3 DEF k
<1>4. Opens(u, Menus!click(u, m)) /\ Opens(u, Menus!hide_menu(u)) /\ Opens(u, u)
  BY <1>1, ClickIs, HideMenuIs DEF Opens
<1>5. Opens(u, Menus!hotkey(u, m, key))
  BY <1>4 DEF Menus!hotkey
<1>6. Menus!previous(i, n) \in Int /\ (i + 1) % n \in Int
      /\ Menus!NoMenu - 1 \in Int
  BY <1>1, MenuNumbers DEF Menus!previous
<1> QED
  BY <1>1, <1>2, <1>3, <1>4, <1>5, <1>6 DEF Menus!forwarded

(* What the fields of an event can be.                                     *)
LEMMA EventFacts ==
  ASSUME NEW e \in Menus!Event
  PROVE  /\ e.type \in {"down", "move"} =>
              e.menu \in Menus!Menu \cup {Menus!NoMenu}
         /\ e.type \in {"up", "over", "leave"} => e.menu \in Menus!Menu
         /\ e.type \in {"up", "over"} => e.item \in Int
<1>1. CASE e \in Menus!KeyDown \cup Menus!BarMouse \cup [type : {"away"}]
  BY <1>1 DEF Menus!KeyDown, Menus!BarMouse
<1>2. CASE \E m \in Menus!Menu : e \in Menus!Popup(m)
  <2>1. PICK m \in Menus!Menu : e \in Menus!Popup(m)
    BY <1>2
  <2>2. Menus!NoItem(m) \in Int /\ Menus!Item(m) \subseteq Int
    BY MenuNumbers DEF Menus!Item
  <2> QED
    BY <2>1, <2>2 DEF Menus!Popup
<1>3. e \in Menus!KeyDown \cup Menus!BarMouse \cup [type : {"away"}]
      \/ \E m \in Menus!Menu : e \in Menus!Popup(m)
  <2>1. e \in UNION {Menus!Popup(m) : m \in Menus!Menu} =>
          \E m \in Menus!Menu : e \in Menus!Popup(m)
    OBVIOUS
  <2> QED
    BY <2>1 DEF Menus!Event
<1> QED
  BY <1>1, <1>2, <1>3

(* The event at the head of the queue is handled, and v is what results.   *)
Handled(type, v) ==
  /\ queue # << >> /\ Head(queue).type = type /\ queue' = Tail(queue)
  /\ open_menu' = v.open_menu /\ shown' = v.shown
  /\ is_mapped' = v.is_mapped /\ selected' = v.selected

LEMMA HandledOpens ==
  ASSUME MenuInv, NEW type, NEW v, Handled(type, v), Opens(Menus!State, v)
  PROVE  /\ MenuInv'
         /\ open_menu' \notin {open_menu, Menus!NoMenu} =>
              selected'[open_menu'] \in {0, Menus!NoItem(open_menu')}
<1>1. queue' \in Seq(Menus!Event)
  BY DEF MenuInv, Handled
<1>2. v \in MenuState /\ Menus!State.open_menu = open_menu
  BY DEF Opens, Menus!State
<1>3. Menus!State' \in MenuState
  BY <1>2 DEF Menus!State, MenuState, Handled
<1> QED
  BY <1>1, <1>2, <1>3 DEF MenuInv, Handled, Opens

(* The underlined letters are those of the menus.                          *)
MenuOf(key) == Menus!SelectInSeq(Menus!underlined, LAMBDA c : c = key) - 1

LEMMA Underlined ==
  ASSUME NEW key, Menus!Contains(Menus!underlined, key)
  PROVE  MenuOf(key) \in Menus!Menu
<1> DEFINE I == {k \in 1 .. Len(Menus!underlined) : Menus!underlined[k] = key}
<1>1. Len(Menus!underlined) = 2
  BY DEF Menus!underlined
<1>2. I # {} /\ I \subseteq {1, 2}
  BY <1>1 DEF Menus!Contains
<1>3. MenuOf(key) = Min(I) - 1
  BY <1>2 DEF MenuOf, Menus!SelectInSeq, Menus!Min, Min
<1> HIDE DEF I
<1>4. Min(I) \in I
  BY <1>2, MinOfNaturals
<1>5. Min(I) \in {1, 2}
  BY <1>2, <1>4
<1> QED
  BY <1>3, <1>5, MenuNumbers

LEMMA HandlersOpen ==
  ASSUME MenuInv, Menus!Next
  PROVE  /\ MenuInv'
         /\ open_menu' \notin {open_menu, Menus!NoMenu} =>
              selected'[open_menu'] \in {0, Menus!NoItem(open_menu')}
<1> DEFINE u == Menus!State
           e == Head(queue)
<1>1. CASE Menus!Act
  <2>1. PICK a \in Menus!KeyDown \cup Menus!BarMouse \cup [type : {"away"}]
                   \cup UNION {Menus!Popup(m) : m \in shown} :
          queue' = Append(queue, a)
    BY <1>1 DEF Menus!Act
  <2>2. shown \subseteq Menus!Menu
    BY DEF MenuInv, MenuState, Menus!State
  <2>3. a \in Menus!Event
    BY <2>1, <2>2 DEF Menus!Event
  <2>4. queue' \in Seq(Menus!Event)
    BY <2>1, <2>3 DEF MenuInv
  <2> QED
    BY <1>1, <2>4 DEF Menus!Act, MenuInv, Menus!State
<1>2. CASE ~Menus!Act
  <2>1. queue # << >> => e \in Menus!Event
    BY DEF MenuInv
  <2>2. u \in MenuState /\ Opens(u, u)
    BY DEF MenuInv, Opens
  <2> HIDE DEF u, e
  <2>3. CASE Menus!on_keydown
    <3> DEFINE k == MenuOf(e.key)
               v == IF ~Menus!Heard(e) THEN u
                    ELSE IF e.alt /\ Menus!Contains(Menus!underlined, e.key)
                    THEN Menus!select_first_item(Menus!show_menu(u, k))
                    ELSE IF u.open_menu = Menus!NoMenu THEN u
                    ELSE Menus!forwarded(u, e.key)
    <3>1. Handled("key", v)
      BY <2>3 DEF Menus!on_keydown, Menus!Handle, Handled, MenuOf, u, e
    <3>2. Opens(u, v)
      <4>1. CASE e.alt /\ Menus!Contains(Menus!underlined, e.key)
        <5>1. k \in Menus!Menu
          BY <4>1, Underlined
        <5> HIDE DEF k
        <5>2. /\ Menus!show_menu(u, k) \in MenuState
              /\ Menus!show_menu(u, k).open_menu = k
          BY <2>2, <5>1, ShowMenuIs
        <5>3. Opens(u, Menus!select_first_item(Menus!show_menu(u, k)))
          BY <5>1, <5>2, SelectFirstIs DEF Opens
        <5> QED
          BY <2>2, <4>1, <5>3
      <4>2. CASE u.open_menu # Menus!NoMenu
        <5>1. Opens(u, Menus!forwarded(u, e.key))
          BY <2>2, <4>2, ForwardedOpens DEF MenuState
        <5> QED
          BY <2>2, <4>1, <5>1
      <4> QED
        BY <2>2, <4>1, <4>2
    <3> HIDE DEF v
    <3> QED
      BY <3>1, <3>2, HandledOpens DEF u
  <2>4. CASE Menus!on_mouse_down
    <3> DEFINE v == IF ~Menus!Heard(e) THEN u
                    ELSE IF e.menu \in {Menus!NoMenu, u.open_menu}
                    THEN Menus!hide_menu(u)
                    ELSE Menus!show_menu(Menus!hide_menu(u), e.menu)
    <3>1. Handled("down", v)
      BY <2>4 DEF Menus!on_mouse_down, Menus!Handle, Handled, u, e
    <3>2. e.menu \in Menus!Menu \cup {Menus!NoMenu}
      BY <2>1, <3>1, EventFacts DEF Handled, e
    <3>3. /\ Menus!hide_menu(u) \in MenuState
          /\ Menus!hide_menu(u).open_menu = Menus!NoMenu
      BY <2>2, HideMenuIs
    <3>4. Opens(u, Menus!hide_menu(u))
      BY <3>3 DEF Opens
    <3>5. e.menu # Menus!NoMenu =>
            Opens(u, Menus!show_menu(Menus!hide_menu(u), e.menu))
      BY <3>2, <3>3, ShowMenuIs DEF Opens
    <3>6. Opens(u, v)
      BY <2>2, <3>4, <3>5
    <3> HIDE DEF v
    <3> QED
      BY <3>1, <3>6, HandledOpens DEF u
  <2>5. CASE Menus!on_mouse_move
    <3> DEFINE v == IF ~Menus!Heard(e) THEN u
                    ELSE IF u.open_menu = Menus!NoMenu \/ e.menu = Menus!NoMenu
                    THEN u ELSE Menus!show_menu(u, e.menu)
    <3>1. Handled("move", v)
      BY <2>5 DEF Menus!on_mouse_move, Menus!Handle, Handled, u, e
    <3>2. e.menu \in Menus!Menu \cup {Menus!NoMenu}
      BY <2>1, <3>1, EventFacts DEF Handled, e
    <3>3. e.menu # Menus!NoMenu => Opens(u, Menus!show_menu(u, e.menu))
      BY <2>2, <3>2, ShowMenuIs DEF Opens
    <3>4. Opens(u, v)
      BY <2>2, <3>3
    <3> HIDE DEF v
    <3> QED
      BY <3>1, <3>4, HandledOpens DEF u
  <2>6. CASE Menus!on_focus_lost
    <3> DEFINE v == IF Menus!Heard(e) THEN Menus!hide_menu(u) ELSE u
    <3>1. Handled("away", v)
      BY <2>6 DEF Menus!on_focus_lost, Menus!Handle, Handled, u, e
    <3>2. Opens(u, v)
      BY <2>2, HideMenuIs DEF Opens
    <3> HIDE DEF v
    <3> QED
      BY <3>1, <3>2, HandledOpens DEF u
  <2>7. CASE Menus!popup_on_mouse_up
    <3> DEFINE v == IF ~Menus!Heard(e) \/ e.item = Menus!NoItem(e.menu) THEN u
                    ELSE Menus!click(u, e.menu)
    <3>1. Handled("up", v)
      BY <2>7 DEF Menus!popup_on_mouse_up, Menus!Handle, Handled, u, e
    <3>2. e.menu \in Menus!Menu
      BY <2>1, <3>1, EventFacts DEF Handled, e
    <3>3. Opens(u, v)
      BY <2>2, <3>2, ClickIs DEF Opens
    <3> HIDE DEF v
    <3> QED
      BY <3>1, <3>3, HandledOpens DEF u
  <2>8. CASE Menus!popup_on_mouse_move \/ Menus!popup_on_mouse_leave
    <3> DEFINE i == IF Menus!popup_on_mouse_move THEN e.item
                    ELSE Menus!NoItem(e.menu)
               v == IF Menus!Heard(e) THEN Menus!select(u, e.menu, i) ELSE u
    <3>1. \E type \in {"over", "leave"} :
            Handled(type, v) /\ (type = "leave" => i = Menus!NoItem(e.menu))
      BY <2>8
      DEF Menus!popup_on_mouse_move, Menus!popup_on_mouse_leave, Menus!Handle,
          Handled, u, e
    <3>2. e.menu \in Menus!Menu /\ i \in Int
      BY <2>1, <3>1, EventFacts, MenuNumbers DEF Handled, e
    <3> HIDE DEF i
    <3>3. Opens(u, v)
      BY <2>2, <3>2, SelectIs DEF Opens
    <3> HIDE DEF v
    <3> QED
      BY <3>1, <3>3, HandledOpens DEF u
  <2> QED
    BY <1>2, <2>3, <2>4, <2>5, <2>6, <2>7, <2>8 DEF Menus!Next
<1> QED
  BY <1>1, <1>2

(* menu_bar and popup_menu: a menu that opens has no item selected, or its *)
(* first, whatever events for closed popups come late.                     *)
THEOREM MenusUnselected == Menus!Spec => OpensUnselected
<1>1. Menus!Init => MenuInv
  BY MenuNumbers DEF Menus!Init, MenuInv, MenuState, Menus!State
<1>2. MenuInv /\ [Menus!Next]_(Menus!vars) =>
        /\ MenuInv'
        /\ [open_menu' \notin {open_menu, Menus!NoMenu} =>
              selected'[open_menu'] \in {0, Menus!NoItem(open_menu')}]_(Menus!vars)
  BY HandlersOpen DEF Menus!vars, MenuInv, Menus!State
<1> QED
  BY <1>1, <1>2, PTL DEF Menus!Spec, OpensUnselected, Menus!OpensUnselected

-----------------------------------------------------------------------------
(* The command line.  What FlattenSeq puts together can be cut again at    *)
(* each place: here is what stands before and after it.                    *)

Splits(S, seqs) ==
  {s \in [before : [0 .. Len(seqs) -> Seq(S)],
          after : [0 .. Len(seqs) -> Seq(S)]] :
     /\ s.before[0] = << >> /\ s.after[Len(seqs)] = << >>
     /\ s.before[Len(seqs)] = s.after[0]
     /\ \A j \in 1 .. Len(seqs) : /\ s.before[j] = s.before[j - 1] \o seqs[j]
                                  /\ s.after[j - 1] = seqs[j] \o s.after[j]}

(* FlattenSeq's recursive function, and its equation.                      *)
Flatten(seqs) ==
  LET flatten[i \in 1 .. Len(seqs)] ==
        IF i = 1 THEN seqs[i] ELSE flatten[i - 1] \o seqs[i]
  IN  flatten

LEMMA FlattenIs ==
  ASSUME NEW seqs, Len(seqs) # 0
  PROVE  Main!FlattenSeq(seqs) = Flatten(seqs)[Len(seqs)]
BY DEF Main!FlattenSeq, Flatten

LEMMA FlattenEquation ==
  ASSUME NEW seqs, NEW f,
         f = [i \in 1 .. Len(seqs) |->
                IF i = 1 THEN seqs[i] ELSE f[i - 1] \o seqs[i]]
  PROVE  Flatten(seqs) = [i \in 1 .. Len(seqs) |->
            IF i = 1 THEN seqs[i] ELSE Flatten(seqs)[i - 1] \o seqs[i]]
BY Zenon DEF Flatten

LEMMA Associative ==
  ASSUME NEW S, NEW a \in Seq(S), NEW b \in Seq(S), NEW c \in Seq(S)
  PROVE  (a \o b) \o c = a \o (b \o c)
OBVIOUS

(* A prefix longer by one splits like the prefix, with one more place.     *)
LEMMA SplitLonger ==
  ASSUME NEW S, NEW seqs \in Seq(Seq(S)), NEW m \in Nat, m < Len(seqs),
         NEW s \in Splits(S, SubSeq(seqs, 1, m))
  PROVE  Splits(S, SubSeq(seqs, 1, m + 1)) # {}
<1> DEFINE p == SubSeq(seqs, 1, m)
           q == SubSeq(seqs, 1, m + 1)
           x == seqs[m + 1]
           b == [j \in 0 .. m + 1 |->
                   IF j = m + 1 THEN s.before[m] \o x ELSE s.before[j]]
           a == [j \in 0 .. m + 1 |->
                   IF j = m + 1 THEN << >> ELSE s.after[j] \o x]
<1>1. /\ Len(p) = m /\ \A j \in 1 .. m : p[j] = seqs[j]
      /\ Len(q) = m + 1 /\ \A j \in 1 .. m + 1 : q[j] = seqs[j]
  OBVIOUS
<1>2. x \in Seq(S) /\ \A j \in 1 .. m : seqs[j] \in Seq(S)
  OBVIOUS
<1>3. /\ \A j \in 0 .. m : s.before[j] \in Seq(S) /\ s.after[j] \in Seq(S)
      /\ s.before[0] = << >> /\ s.after[m] = << >>
      /\ s.before[m] = s.after[0]
      /\ \A j \in 1 .. m : /\ s.before[j] = s.before[j - 1] \o seqs[j]
                           /\ s.after[j - 1] = seqs[j] \o s.after[j]
  BY <1>1 DEF Splits
<1> HIDE DEF p, q, x
<1>4. /\ b[m + 1] = s.before[m] \o x /\ a[m + 1] = << >>
      /\ \A j \in 0 .. m : b[j] = s.before[j] /\ a[j] = s.after[j] \o x
  <2>1. m + 1 \in 0 .. m + 1
    OBVIOUS
  <2>2. \A j \in 0 .. m : j \in 0 .. m + 1 /\ j # m + 1
    OBVIOUS
  <2> QED
    BY <2>1, <2>2
<1>5. b \in [0 .. m + 1 -> Seq(S)] /\ a \in [0 .. m + 1 -> Seq(S)]
  BY <1>2, <1>3, ConcatProperties, EmptySeq
<1> HIDE DEF a, b
<1>6. b[0] = << >> /\ b[m + 1] = a[0]
  <2>1. 0 \in 0 .. m
    OBVIOUS
  <2> QED
    BY <1>3, <1>4, <2>1
<1>7. ASSUME NEW j \in 1 .. m + 1
      PROVE  b[j] = b[j - 1] \o q[j] /\ a[j - 1] = q[j] \o a[j]
  <2>1. CASE j = m + 1
    <3>1. q[j] = x
      BY <2>1, <1>1 DEF x
    <3>2. j - 1 = m /\ m \in 0 .. m
      BY <2>1
    <3>3. << >> \o x = x /\ x \o << >> = x
      BY <1>2, ConcatEmptySeq
    <3> QED
      BY <2>1, <3>1, <3>2, <3>3, <1>3, <1>4
  <2>2. CASE j # m + 1
    <3>1. j \in 1 .. m /\ j \in 0 .. m /\ j - 1 \in 0 .. m
      BY <2>2
    <3>2. q[j] = seqs[j]
      BY <1>1
    <3>3. seqs[j] \in Seq(S) /\ s.after[j] \in Seq(S)
      BY <3>1, <1>2, <1>3
    <3>4. (seqs[j] \o s.after[j]) \o x = seqs[j] \o (s.after[j] \o x)
      <4> DEFINE y == seqs[j]
                 z == s.after[j]
      <4>1. y \in Seq(S) /\ z \in Seq(S) /\ x \in Seq(S)
        BY <3>3, <1>2
      <4> HIDE DEF y, z
      <4>2. (y \o z) \o x = y \o (z \o x)
        BY ONLY <4>1, Associative
      <4> QED
        BY <4>2 DEF y, z
    <3> QED
      BY <3>1, <3>2, <3>4, <1>3, <1>4
  <2> QED
    BY <2>1, <2>2
<1>8. [before |-> b, after |-> a] \in Splits(S, q)
  BY <1>1, <1>4, <1>5, <1>6, <1>7 DEF Splits
<1> QED
  BY <1>8 DEF q

(* By the least length for which it would not.                             *)
LEMMA Splittable ==
  ASSUME NEW S, NEW seqs \in Seq(Seq(S))
  PROVE  Splits(S, seqs) # {}
<1> DEFINE n == Len(seqs)
           p(m) == SubSeq(seqs, 1, m)
           Bad == {m \in 0 .. n : Splits(S, p(m)) = {}}
<1>1. n \in Nat
  OBVIOUS
<1>2. Splits(S, p(0)) # {}
  <2> DEFINE none == [j \in {0} |-> << >>]
             t == [before |-> none, after |-> none]
  <2>1. Len(p(0)) = 0
    OBVIOUS
  <2>2. t \in Splits(S, p(0))
    BY <2>1, EmptySeq DEF Splits
  <2> QED
    BY <2>2
<1>3. ASSUME Bad # {}
      PROVE  FALSE
  <2>1. Bad \in SUBSET Nat
    OBVIOUS
  <2>2. PICK m \in Bad : \A y \in Bad : m <= y
    <3> HIDE DEF Bad
    <3> QED
      BY <1>3, <2>1, MinOfNaturals
  <2>3. m \in 1 .. n
    BY <1>1, <1>2, <2>2
  <2>4. m - 1 \in 0 .. n /\ m - 1 \notin Bad
    <3>1. m - 1 \in 0 .. n /\ ~(m <= m - 1)
      BY <1>1, <2>3
    <3> QED
      BY <2>2, <3>1
  <2>5. Splits(S, p(m - 1)) # {}
    BY <2>4
  <2>6. Splits(S, p((m - 1) + 1)) # {}
    BY <2>3, <2>5, SplitLonger
  <2>7. (m - 1) + 1 = m
    BY <2>3
  <2> QED
    BY <2>2, <2>6, <2>7
<1>4. p(n) = seqs
  OBVIOUS
<1>5. Splits(S, p(n)) # {}
  <2>1. n \in 0 .. n /\ n \notin Bad
    BY <1>1, <1>3
  <2> QED
    BY <2>1
<1> QED
  BY <1>4, <1>5

LEMMA Flattened ==
  ASSUME NEW S, NEW seqs \in Seq(Seq(S)), NEW s \in Splits(S, seqs)
  PROVE  Main!FlattenSeq(seqs) = s.after[0]
<1> DEFINE n == Len(seqs)
<1>1. n \in Nat
  OBVIOUS
<1>2. /\ s.before[0] = << >> /\ s.after[n] = << >> /\ s.before[n] = s.after[0]
      /\ \A j \in 1 .. n : s.before[j] = s.before[j - 1] \o seqs[j]
      /\ \A j \in 0 .. n : s.before[j] \in Seq(S)
  BY DEF Splits
<1>3. CASE n = 0
  <2>1. seqs = << >>
    BY <1>3
  <2>2. Main!FlattenSeq(seqs) = seqs
    BY <1>3 DEF Main!FlattenSeq
  <2> QED
    BY <1>2, <1>3, <2>1, <2>2
<1>4. CASE n # 0
  <2> DEFINE f == [i \in 1 .. n |-> s.before[i]]
             F == Flatten(seqs)
  <2>1. s.before[1] = seqs[1]
    <3>1. 1 \in 1 .. n /\ 1 - 1 = 0
      BY <1>1, <1>4
    <3>2. seqs[1] \in Seq(S) /\ s.before[1] = << >> \o seqs[1]
      BY <1>2, <3>1, ElementOfSeq
    <3> QED
      BY <3>2, ConcatEmptySeq
  <2>2. ASSUME NEW i \in 1 .. n
        PROVE  f[i] = IF i = 1 THEN seqs[i] ELSE f[i - 1] \o seqs[i]
    <3>1. i # 1 => i - 1 \in 1 .. n
      BY <1>1
    <3> QED
      BY <1>2, <2>1, <3>1
  <2>3. f = [i \in 1 .. Len(seqs) |->
               IF i = 1 THEN seqs[i] ELSE f[i - 1] \o seqs[i]]
    <3> HIDE DEF f
    <3>1. f = [i \in 1 .. n |-> f[i]]
      BY DEF f
    <3> QED
      BY <2>2, <3>1
  <2> HIDE DEF f
  <2>4. F = [i \in 1 .. n |->
               IF i = 1 THEN seqs[i] ELSE F[i - 1] \o seqs[i]]
    BY Zenon, <2>3, FlattenEquation
  <2> HIDE DEF F
  <2> DEFINE Bad == {i \in 1 .. n : F[i] # s.before[i]}
  <2>5. ASSUME Bad # {}
        PROVE  FALSE
    <3>1. Bad \in SUBSET Nat
      OBVIOUS
    <3>2. PICK m \in Bad : \A y \in Bad : m <= y
      <4> HIDE DEF Bad
      <4> QED
        BY <2>5, <3>1, MinOfNaturals
    <3>3. F[m] = IF m = 1 THEN seqs[m] ELSE F[m - 1] \o seqs[m]
      BY <2>4
    <3>4. m # 1
      BY <2>1, <3>3
    <3>5. m - 1 \in 1 .. n /\ m - 1 \notin Bad
      BY <3>1, <3>2, <3>4
    <3>6. F[m - 1] = s.before[m - 1]
      BY <3>5
    <3> QED
      BY <1>2, <3>3, <3>4, <3>6
  <2>6. F[n] = s.before[n]
    BY <1>1, <1>4, <2>5
  <2> QED
    BY <1>2, <1>4, <2>6, FlattenIs DEF F
<1> QED
  BY <1>3, <1>4

(* The table: its long names are all different, so are the letters but for *)
(* the second h and the two that are none.                                 *)
LongIndex(long) == Main!SelectInSeq(Main!usage, LAMBDA row : row.long = long)
ShortIndex(s) == Main!SelectInSeq(Main!usage, LAMBDA row : row.short = s)

Lettered == {1, 2, 4, 6, 7, 8, 9}

Ten == {1, 2, 3, 4, 5, 6, 7, 8, 9, 10}

LEMMA Ten10 == Ten = 1 .. 10
BY DEF Ten

LEMMA TenRows == Len(Main!usage) = 10 /\ DOMAIN Main!usage = Ten
<1>1. Len(Main!usage) = 10 /\ DOMAIN Main!usage = 1 .. 10
  BY DEF Main!usage
<1> QED
  BY <1>1, Ten10

LEMMA Longs ==
  /\ Main!usage[1].long = "help" /\ Main!usage[2].long = "clear"
  /\ Main!usage[3].long = "cn" /\ Main!usage[4].long = "width"
  /\ Main!usage[5].long = "height" /\ Main!usage[6].long = "fps"
  /\ Main!usage[7].long = "flp" /\ Main!usage[8].long = "dsr"
  /\ Main!usage[9].long = "sr" /\ Main!usage[10].long = "lspf"
BY DEF Main!usage, Main!Row

LEMMA Shorts ==
  /\ Main!usage[1].short = "h" /\ Main!usage[2].short = "c"
  /\ Main!usage[3].short = "" /\ Main!usage[4].short = "w"
  /\ Main!usage[5].short = "h" /\ Main!usage[6].short = "f"
  /\ Main!usage[7].short = "p" /\ Main!usage[8].short = "d"
  /\ Main!usage[9].short = "s" /\ Main!usage[10].short = ""
BY DEF Main!usage, Main!Row

LEMMA Checks ==
  /\ Main!usage[1].check = "None" /\ Main!usage[2].check = "None"
  /\ Main!usage[3].check = "Numeric" /\ Main!usage[4].check = "Numeric"
  /\ Main!usage[5].check = "Numeric" /\ Main!usage[6].check = "Numeric"
  /\ Main!usage[7].check = "Flp" /\ Main!usage[8].check = "Numeric"
  /\ Main!usage[9].check = "Numeric" /\ Main!usage[10].check = "Numeric"
BY DEF Main!usage, Main!Row

LEMMA Leasts ==
  /\ Main!usage[1].least = 0 /\ Main!usage[2].least = 0
  /\ Main!usage[3].least = 0 /\ Main!usage[4].least = 0
  /\ Main!usage[5].least = 0 /\ Main!usage[6].least = 0
  /\ Main!usage[7].least = 0 /\ Main!usage[8].least = 1
  /\ Main!usage[9].least = 1 /\ Main!usage[10].least = 1
BY DEF Main!usage, Main!Row

LEMMA CheckFacts ==
  ASSUME NEW k \in Ten
  PROVE  /\ Main!usage[k].check = "None" <=> k \in {1, 2}
         /\ Main!usage[k].check = "Flp" <=> k = 7
         /\ Main!usage[k].check \in {"None", "Numeric", "Flp"}
BY Checks DEF Ten

LEMMA DistinctLongs ==
  ASSUME NEW k \in Ten, NEW j \in Ten,
         Main!usage[j].long = Main!usage[k].long
  PROVE  j = k
BY Longs DEF Ten

LEMMA DistinctShorts ==
  ASSUME NEW k \in Lettered, NEW j \in Ten,
         Main!usage[j].short = Main!usage[k].short
  PROVE  j = k \/ (k = 1 /\ j = 5)
BY Shorts DEF Ten, Lettered

LEMMA Letters ==
  ASSUME NEW k \in Lettered
  PROVE  Main!usage[k].short # "-" /\ k \in Ten /\ k # 5
BY Shorts DEF Ten, Lettered

LEMMA NoLetter ==
  ASSUME NEW x, \A k \in Ten : Main!usage[k].short # x
  PROVE  ShortIndex(x) = 0
<1>1. {j \in 1 .. Len(Main!usage) : Main!usage[j].short = x} = {}
  BY TenRows, Ten10
<1> QED
  BY <1>1 DEF ShortIndex, Main!SelectInSeq

LEMMA LongIs ==
  ASSUME NEW k \in Ten
  PROVE  /\ LongIndex(Main!usage[k].long) = k
         /\ Main!RowOf(Main!usage[k].long) = Main!usage[k]
<1> DEFINE I == {j \in 1 .. Len(Main!usage) :
                   Main!usage[j].long = Main!usage[k].long}
<1>1. I = {k}
  BY TenRows, Ten10, DistinctLongs
<1>2. LongIndex(Main!usage[k].long) = Min(I)
  BY <1>1 DEF LongIndex, Main!SelectInSeq, Main!Min, Min
<1>3. Main!RowOf(Main!usage[k].long) = Main!usage[Min(I)]
  BY <1>1 DEF Main!RowOf, Main!SelectInSeq, Main!Min, Min
<1> HIDE DEF I
<1>4. Min(I) = k
  <2>1. I \in SUBSET Nat /\ I # {}
    BY <1>1 DEF Ten
  <2> QED
    BY <1>1, <2>1, MinOfNaturals
<1> QED
  BY <1>2, <1>3, <1>4

LEMMA ShortIs ==
  ASSUME NEW k \in Lettered
  PROVE  ShortIndex(Main!usage[k].short) = k
<1> DEFINE I == {j \in 1 .. Len(Main!usage) :
                   Main!usage[j].short = Main!usage[k].short}
<1>1. \A j \in I : j = k \/ (k = 1 /\ j = 5)
  BY TenRows, Ten10, DistinctShorts
<1>2. k \in I
  BY TenRows, Ten10, Letters
<1>3. ShortIndex(Main!usage[k].short) = Min(I)
  BY <1>2 DEF ShortIndex, Main!SelectInSeq, Main!Min, Min
<1>4. I \in SUBSET Nat
  BY TenRows
<1> HIDE DEF I
<1>5. Min(I) \in I /\ Min(I) <= k
  BY <1>2, <1>4, MinOfNaturals
<1>6. Min(I) = k
  BY <1>1, <1>5
<1> QED
  BY <1>3, <1>6

-----------------------------------------------------------------------------
(* What a use stands for.                                                  *)
Flag(use) == Main!RowOf(use.long).check = "None"

OptionOf(use) ==
  [long |-> use.long, arg |-> IF Flag(use) THEN << >> ELSE use.arg]

Options(use) ==
  IF use.form = "twice" THEN << OptionOf(use), OptionOf(use) >>
  ELSE << OptionOf(use) >>

(* An argument is a sequence of these.                                     *)
Text == STRING \cup {"-", "="} \cup {Main!usage[k].long : k \in Ten}
          \cup {Main!usage[k].short : k \in Ten}
Arg == Seq(Text)
Option == [long : Text, arg : Arg]

LEMMA UseFacts ==
  ASSUME NEW u \in Use
  PROVE  \E k \in Ten :
           /\ u.long = Main!usage[k].long /\ u.long \in Text
           /\ LongIndex(u.long) = k /\ Main!RowOf(u.long) = Main!usage[k]
           /\ u.arg \in Arg /\ (u.form = "-sarg" => u.arg # << >>)
           /\ \/ Flag(u) /\ u.form \in {"long", "short", "twice"}
                         /\ k \in {1, 2}
              \/ ~Flag(u) /\ u.form \in {"--long=arg", "--long arg"}
              \/ ~Flag(u) /\ u.form \in {"-s arg", "-sarg"} /\ k \in Lettered
              \/ ~Flag(u) /\ u.form \in {"-s arg", "-sarg"} /\ k = 5
                          /\ Main!HeightLetter(u) /\ Main!IsNumber(u.arg)
<1>1. /\ \E k \in DOMAIN Main!usage : Main!usage[k].long = u.long
      /\ u.arg \in Seq(STRING)
      /\ u.form \in IF Main!RowOf(u.long).check = "None"
                    THEN {"long", "short", "twice"}
                    ELSE {"--long=arg", "--long arg", "-s arg", "-sarg"}
      /\ u.form \in {"-s arg", "-sarg"} =>
           u.long \notin {"cn", "lspf"}
      /\ Main!HeightLetter(u) => Main!IsNumber(u.arg)
      /\ u.form = "-sarg" => u.arg # << >>
  BY ServerAssumption DEF Main!UseAssumption
<1>2. u.arg \in Arg
  BY <1>1, SeqMonotonic DEF Arg, Text
<1>3. PICK k \in Ten : Main!usage[k].long = u.long
  BY <1>1, TenRows
<1>4. /\ u.long \in Text /\ LongIndex(u.long) = k
      /\ Main!RowOf(u.long) = Main!usage[k]
  BY <1>3, LongIs DEF Text
<1>5. Flag(u) <=> k \in {1, 2}
  BY <1>4, CheckFacts DEF Flag
<1>6. u.form \in {"-s arg", "-sarg"} =>
        /\ k \notin {3, 10}
        /\ k = 5 => Main!HeightLetter(u) /\ Main!IsNumber(u.arg)
  BY <1>1, <1>3, Longs DEF Main!HeightLetter
<1>7. ~Flag(u) /\ u.form \in {"-s arg", "-sarg"} =>
        \/ k \in Lettered
        \/ k = 5 /\ Main!HeightLetter(u) /\ Main!IsNumber(u.arg)
  BY <1>5, <1>6 DEF Lettered, Ten
<1>8. \/ Flag(u) /\ u.form \in {"long", "short", "twice"}
      \/ ~Flag(u) /\ u.form \in {"--long=arg", "--long arg"}
      \/ ~Flag(u) /\ u.form \in {"-s arg", "-sarg"}
  BY <1>1 DEF Flag
<1> QED
  BY <1>1, <1>3, <1>4, <1>5, <1>7, <1>8, <1>2

LEMMA OptionsIs ==
  ASSUME NEW u \in Use
  PROVE  /\ OptionOf(u) \in Option /\ Options(u) \in Seq(Option)
         /\ OptionOf(u).long = u.long
<1>1. u.long \in Text /\ u.arg \in Arg
  BY UseFacts
<1>2. OptionOf(u) \in Option /\ OptionOf(u).long = u.long
  BY <1>1, EmptySeq DEF OptionOf, Option, Arg
<1>3. Options(u) \in Seq(Option)
  BY <1>2 DEF Options
<1> QED
  BY <1>2, <1>3

-----------------------------------------------------------------------------
(* What the parser makes of a use.                                         *)

LEMMA HeadOfOne ==
  ASSUME NEW S, NEW x \in S, NEW R \in Seq(S), NEW c, c = << x >> \o R
  PROVE  c # << >> /\ Head(c) = x /\ Tail(c) = R /\ Len(c) = Len(R) + 1
<1>1. c \in Seq(S) /\ Len(c) = Len(R) + 1 /\ c[1] = x
      /\ \A i \in 1 .. Len(R) : c[i + 1] = R[i]
  OBVIOUS
<1>2. Len(Tail(c)) = Len(R) /\ Tail(c) \in Seq(S)
      /\ \A i \in 1 .. Len(R) : Tail(c)[i] = R[i]
  BY <1>1
<1>3. Tail(c) = R
  BY <1>2, SeqEqual
<1> QED
  BY <1>1, <1>3

LEMMA Pair ==
  ASSUME NEW x, NEW y
  PROVE  << x >> \o << y >> = << x, y >> /\ Tail(<< x, y >>) = << y >>
<1> DEFINE S == {x, y}
           c == << x >> \o << y >>
           d == << x, y >>
<1>1. << x >> \in Seq(S) /\ << y >> \in Seq(S) /\ d \in Seq(S)
  OBVIOUS
<1>2. c \in Seq(S) /\ Len(c) = 2 /\ c[1] = x /\ c[2] = y
  BY <1>1
<1>3. Len(d) = 2 /\ d[1] = x /\ d[2] = y
  OBVIOUS
<1>4. Tail(d) \in Seq(S) /\ Len(Tail(d)) = 1 /\ Tail(d)[1] = y
  BY <1>1, <1>3
<1>5. Len(<< y >>) = 1 /\ << y >>[1] = y
  OBVIOUS
<1>6. ASSUME NEW i \in 1 .. Len(c)
      PROVE  c[i] = d[i]
  BY <1>2, <1>3
<1>7. ASSUME NEW i \in 1 .. Len(Tail(d))
      PROVE  Tail(d)[i] = << y >>[i]
  BY <1>4, <1>5
<1> HIDE DEF c, d
<1>8. c = d
  BY <1>1, <1>2, <1>3, <1>6, SeqEqual
<1>9. Tail(d) = << y >>
  BY <1>1, <1>4, <1>5, <1>7, SeqEqual
<1> QED
  BY <1>8, <1>9 DEF c, d

LEMMA Triple ==
  ASSUME NEW x, NEW y, NEW z
  PROVE  << x, y >> \o << z >> = << x, y, z >>
<1> DEFINE S == {x, y, z}
           c == << x, y >> \o << z >>
           d == << x, y, z >>
<1>1. << x, y >> \in Seq(S) /\ << z >> \in Seq(S) /\ d \in Seq(S)
  OBVIOUS
<1>2. c \in Seq(S) /\ Len(c) = 3 /\ c[1] = x /\ c[2] = y /\ c[3] = z
  BY <1>1
<1>3. Len(d) = 3 /\ d[1] = x /\ d[2] = y /\ d[3] = z
  OBVIOUS
<1>4. ASSUME NEW i \in 1 .. Len(c)
      PROVE  c[i] = d[i]
  BY <1>2, <1>3
<1> HIDE DEF c, d
<1> QED
  BY <1>1, <1>2, <1>3, <1>4, SeqEqual DEF c, d

LEMMA Tails ==
  ASSUME NEW x, NEW y, NEW z
  PROVE  /\ Tail(<< x, y, z >>) = << y, z >> /\ Tail(<< x >>) = << >>
         /\ Head(<< x >>) = x /\ Head(<< x, y >>) = x
<1> DEFINE S == {x, y, z}
<1>1. Tail(<< x, y, z >>) = << y, z >>
  <2>1. << x, y, z >> = << x >> \o << y, z >>
    <3>1. << x >> \in Seq(S) /\ << y >> \in Seq(S) /\ << z >> \in Seq(S)
      OBVIOUS
    <3>2. (<< x >> \o << y >>) \o << z >> = << x >> \o (<< y >> \o << z >>)
      BY <3>1, Associative
    <3>3. << x >> \o << y >> = << x, y >> /\ << y >> \o << z >> = << y, z >>
          /\ << x, y >> \o << z >> = << x, y, z >>
      BY Pair, Triple
    <3> QED
      BY Zenon, <3>2, <3>3
  <2>2. << y, z >> \in Seq(S) /\ x \in S
    OBVIOUS
  <2> QED
    BY <2>1, <2>2, HeadOfOne
<1> QED
  BY <1>1

LEMMA HeadOfTwo ==
  ASSUME NEW S, NEW x \in S, NEW y \in S, NEW R \in Seq(S),
         NEW c, c = << x, y >> \o R
  PROVE  /\ c # << >> /\ Head(c) = x /\ c[2] = y /\ Len(c) > 1
         /\ Tail(c) = << y >> \o R /\ Tail(Tail(c)) = R
<1> DEFINE d == << y >> \o R
<1>1. d \in Seq(S) /\ c = << x >> \o d
  <2>1. << x, y >> = << x >> \o << y >>
    BY Pair
  <2>2. << x >> \in Seq(S) /\ << y >> \in Seq(S)
    OBVIOUS
  <2> QED
    BY <2>1, <2>2, Associative
<1>2. d # << >> /\ Head(d) = y /\ Tail(d) = R /\ Len(d) = Len(R) + 1
  BY HeadOfOne
<1> HIDE DEF d
<1>3. c # << >> /\ Head(c) = x /\ Tail(c) = d /\ Len(c) = Len(d) + 1
  BY <1>1, HeadOfOne
<1>4. c[2] = y
  BY <1>1, <1>2
<1> QED
  BY <1>2, <1>3, <1>4 DEF d

LEMMA WrittenIs ==
  ASSUME NEW u \in Use
  PROVE  LET short == << "-", Main!RowOf(u.long).short >>
             long == << "-", "-", u.long >>
             w == Main!Written(u) IN
         /\ u.form = "long" => w = << long >>
         /\ u.form = "short" => w = << short >>
         /\ u.form = "twice" => w = << short \o Tail(short) >>
         /\ u.form = "--long=arg" => w = << long \o << "=" >> \o u.arg >>
         /\ u.form = "--long arg" => w = << long, u.arg >>
         /\ u.form = "-s arg" => w = << short, u.arg >>
         /\ u.form = "-sarg" => w = << short \o u.arg >>
BY DEF Main!Written

LEMMA Signs == "-" \in Text /\ "=" \in Text
BY DEF Text

(* What is read is stored, or it stops the parser.                         *)
Reads(use, rest) ==
  IF Main!IllFormed(use) THEN pc' = "failed"
  ELSE /\ pc' = pc /\ buffer' = Append(buffer, OptionOf(use))
       /\ group' = << >> /\ args' = rest

LEMMA LongOptionIs ==
  ASSUME Main!LongOption
  PROVE  LET arg == Head(args) IN
         Main!Take(LongIndex(arg[3]), Len(arg) > 3 /\ arg[4] = "=",
                   SubSeq(arg, 5, Len(arg)), << >>)
BY DEF Main!LongOption, LongIndex

LEMMA ReadLong ==
  ASSUME NEW u \in Use, u.form = "long", NEW R \in Seq(Arg),
         args = Main!Written(u) \o R
  PROVE  /\ Main!AtOption
         /\ ~Main!ShortOption
         /\ Main!LongOption => Reads(u, R)
<1> DEFINE h == << "-", "-", u.long >>
<1>1. PICK k \in Ten : /\ u.long = Main!usage[k].long /\ u.long \in Text
                       /\ LongIndex(u.long) = k
                       /\ Main!RowOf(u.long) = Main!usage[k]
                       /\ Flag(u)
  BY UseFacts
<1>2. args = << h >> \o R
  BY WrittenIs
<1>3. h \in Arg
  BY <1>1, Signs DEF Arg
<1>4. Len(h) = 3 /\ h[1] = "-" /\ h[2] = "-" /\ h[3] = u.long
  OBVIOUS
<1>5. h # << "-", "-" >>
  BY <1>4
<1> HIDE DEF h
<1>6. args # << >> /\ Head(args) = h /\ Tail(args) = R
  BY <1>2, <1>3, HeadOfOne
<1>7. Main!AtOption /\ ~Main!ShortOption
  <2>1. Len(h) > 1
    BY <1>4
  <2>2. Main!AtOption
    BY Zenon, <1>6, <1>4, <1>5, <2>1 DEF Main!AtOption
  <2>3. Head(args)[2] = "-"
    BY <1>6, <1>4
  <2> QED
    BY Zenon, <2>2, <2>3 DEF Main!ShortOption
<1>8. ASSUME Main!LongOption PROVE Reads(u, R)
  <2>1. Main!Take(LongIndex(h[3]), Len(h) > 3 /\ h[4] = "=",
                  SubSeq(h, 5, Len(h)), << >>)
    BY Zenon, <1>6, <1>8, LongOptionIs
  <2>2. k # 0 /\ Main!usage[k].check = "None" /\ ~Main!IllFormed(u)
    BY <1>1 DEF Flag, Main!IllFormed, Ten
  <2>3. /\ buffer' = Append(buffer, [long |-> u.long, arg |-> << >>])
        /\ group' = << >> /\ args' = Tail(args) /\ pc' = pc
    BY <1>1, <1>4, <2>1, <2>2 DEF Main!Take
  <2> QED
    BY <1>1, <1>6, <2>2, <2>3 DEF Reads, OptionOf
<1> QED
  BY <1>7, <1>8

LEMMA ReadShort ==
  ASSUME NEW u \in Use, u.form \in {"short", "twice"}, NEW R \in Seq(Arg),
         args = Main!Written(u) \o R,
         group \in {<< >>, << Main!RowOf(u.long).short >>},
         u.form = "short" => group = << >>
  PROVE  /\ Main!AtOption /\ ~Main!LongOption
         /\ Main!ShortOption =>
              IF u.form = "twice" /\ group = << >>
              THEN /\ pc' = pc /\ buffer' = Append(buffer, OptionOf(u))
                   /\ group' = << Main!RowOf(u.long).short >> /\ args' = args
              ELSE Reads(u, R)
<1> DEFINE s == Main!RowOf(u.long).short
           short == << "-", s >>
           h == IF u.form = "twice" THEN << "-", s, s >> ELSE short
           g == IF group = << >> THEN Tail(h) ELSE group
<1>1. PICK k \in Ten : /\ u.long = Main!usage[k].long
                       /\ Main!RowOf(u.long) = Main!usage[k]
                       /\ Flag(u) /\ k \in {1, 2}
  BY UseFacts
<1>2. s = Main!usage[k].short /\ s \in Text /\ s # "-" /\ k \in Lettered
  BY <1>1, Letters DEF Text, Lettered
<1>3. short \o Tail(short) = << "-", s, s >>
  BY Pair, Triple
<1>4. args = << h >> \o R
  BY <1>3, WrittenIs
<1>5. h \in Arg
  BY <1>2, Signs DEF Arg
<1>6. Len(h) > 1 /\ h[1] = "-" /\ h[2] = s /\ h # << "-", "-" >>
  BY <1>2
<1>7. Head(g) = s
      /\ Tail(g) = IF u.form = "twice" /\ group = << >> THEN << s >> ELSE << >>
  <2>1. Tail(<< "-", s, s >>) = << s, s >>
    BY Tails
  <2>2. Tail(<< "-", s >>) = << s >> /\ Tail(<< s, s >>) = << s >>
    BY Pair
  <2>3. Tail(<< s >>) = << >> /\ Head(<< s >>) = s /\ Head(<< s, s >>) = s
    BY Tails
  <2> QED
    BY <2>1, <2>2, <2>3
<1> HIDE DEF h
<1>8. args # << >> /\ Head(args) = h /\ Tail(args) = R
  BY <1>4, <1>5, HeadOfOne
<1>9. Main!AtOption /\ ~Main!LongOption
  BY <1>2, <1>8, <1>6 DEF Main!AtOption, Main!LongOption
<1>10. Main!Group = g
  BY <1>8 DEF Main!Group
<1> HIDE DEF g, s
<1>11. ASSUME Main!ShortOption
       PROVE  IF u.form = "twice" /\ group = << >>
              THEN /\ pc' = pc /\ buffer' = Append(buffer, OptionOf(u))
                   /\ group' = << s >> /\ args' = args
              ELSE Reads(u, R)
  <2>1. Main!Take(ShortIndex(Head(g)), Len(g) > 1, Tail(g), Tail(g))
    BY <1>10, <1>11 DEF Main!ShortOption, ShortIndex
  <2>2. ShortIndex(Head(g)) = k
    BY <1>2, <1>7, ShortIs
  <2>3. k # 0 /\ Main!usage[k].check = "None" /\ ~Main!IllFormed(u)
    BY <1>1 DEF Flag, Main!IllFormed, Ten
  <2>4. /\ buffer' = Append(buffer, [long |-> u.long, arg |-> << >>])
        /\ group' = Tail(g) /\ pc' = pc
        /\ args' = IF Tail(g) = << >> THEN Tail(args) ELSE args
    BY <1>1, <2>1, <2>2, <2>3 DEF Main!Take
  <2>5. OptionOf(u) = [long |-> u.long, arg |-> << >>]
    BY <1>1 DEF OptionOf
  <2>6. CASE u.form = "twice" /\ group = << >>
    <3>1. Tail(g) = << s >> /\ << s >> # << >>
      BY <1>7, <2>6
    <3> QED
      BY <2>4, <2>5, <2>6, <3>1
  <2>7. CASE ~(u.form = "twice" /\ group = << >>)
    <3>1. Tail(g) = << >>
      BY <1>7, <2>7
    <3> QED
      BY <1>8, <2>3, <2>4, <2>5, <2>7, <3>1 DEF Reads
  <2> QED
    BY <2>6, <2>7
<1> QED
  BY <1>9, <1>11 DEF s

(* Take, for an option with an argument.                                   *)
Takes(use, attached) ==
  IF Main!IllFormed(use) THEN pc' = "failed"
  ELSE /\ pc' = pc /\ buffer' = Append(buffer, OptionOf(use))
       /\ group' = << >>
       /\ args' = IF attached THEN Tail(args) ELSE Tail(Tail(args))

LEMMA TakeArgument ==
  ASSUME NEW u \in Use, NEW k \in Ten, u.long = Main!usage[k].long,
         Main!RowOf(u.long) = Main!usage[k], ~Flag(u),
         NEW attached, NEW found, NEW rest,
         attached => found = u.arg,
         ~attached => args[2] = u.arg /\ Len(args) > 1,
         Main!Take(k, attached, found, rest)
  PROVE  Takes(u, attached)
<1>1. /\ k # 0 /\ Main!usage[k].check # "None"
      /\ Main!IllFormed(u) <=> ~Main!Accepts(Main!usage[k].check, u.arg)
      /\ OptionOf(u) = [long |-> Main!usage[k].long, arg |-> u.arg]
  BY DEF Flag, Ten, Main!IllFormed, OptionOf
<1>2. CASE attached
  BY <1>1, <1>2 DEF Main!Take, Main!Rest, Main!Fail, Takes
<1>3. CASE ~attached
  BY <1>1, <1>3 DEF Main!Take, Main!Rest, Main!Fail, Takes
<1> QED
  BY <1>2, <1>3

LEMMA Remainder ==
  ASSUME NEW S, NEW a \in Seq(S), NEW b \in Seq(S)
  PROVE  SubSeq(a \o b, Len(a) + 1, Len(a \o b)) = b
<1> DEFINE c == a \o b
           d == SubSeq(c, Len(a) + 1, Len(c))
<1>1. /\ c \in Seq(S) /\ Len(c) = Len(a) + Len(b)
      /\ Len(a) \in Nat /\ Len(b) \in Nat
      /\ \A i \in 1 .. Len(b) : c[Len(a) + i] = b[i]
  OBVIOUS
<1> HIDE DEF c
<1>2. /\ d \in Seq(S) /\ Len(d) = Len(b)
      /\ \A i \in 1 .. Len(b) : d[i] = c[Len(a) + i]
  BY <1>1
<1> HIDE DEF d
<1>3. d = b
  BY <1>1, <1>2, SeqEqual
<1> QED
  BY <1>3 DEF c, d

LEMMA Three ==
  ASSUME NEW S, NEW x \in S, NEW y \in S, NEW z \in S
  PROVE  LET l == << x, y, z >> IN
         l \in Seq(S) /\ Len(l) = 3 /\ l[1] = x /\ l[2] = y /\ l[3] = z
OBVIOUS

LEMMA Attached ==
  ASSUME NEW S, NEW x \in S, NEW y \in S, NEW z \in S, NEW e \in S,
         NEW a \in Seq(S), NEW c, c = << x, y, z >> \o << e >> \o a
  PROVE  /\ c \in Seq(S) /\ Len(c) = 4 + Len(a)
         /\ c[1] = x /\ c[2] = y /\ c[3] = z /\ c[4] = e
         /\ SubSeq(c, 5, Len(c)) = a /\ Len(a) \in Nat
<1> DEFINE b == << x, y, z >> \o << e >>
<1>1. << x, y, z >> \in Seq(S) /\ << e >> \in Seq(S)
  OBVIOUS
<1>2. /\ b \in Seq(S) /\ Len(b) = 4
      /\ b[1] = x /\ b[2] = y /\ b[3] = z /\ b[4] = e
  BY <1>1
<1>3. c = b \o a
  OBVIOUS
<1> HIDE DEF b
<1>4. /\ c \in Seq(S) /\ Len(c) = 4 + Len(a) /\ Len(a) \in Nat
      /\ c[1] = x /\ c[2] = y /\ c[3] = z /\ c[4] = e
  BY <1>2, <1>3
<1>5. SubSeq(c, 5, Len(c)) = a
  BY <1>2, <1>3, Remainder
<1> QED
  BY <1>4, <1>5

(* A long option with its argument: behind = or in the next argument.      *)
LEMMA ReadLongArgument ==
  ASSUME NEW u \in Use, u.form \in {"--long=arg", "--long arg"},
         NEW R \in Seq(Arg), args = Main!Written(u) \o R
  PROVE  /\ Main!AtOption
         /\ ~Main!ShortOption
         /\ Main!LongOption => Reads(u, R)
<1> DEFINE l == << "-", "-", u.long >>
           h == IF u.form = "--long arg" THEN l ELSE l \o << "=" >> \o u.arg
           attached == u.form = "--long=arg"
<1>1. PICK k \in Ten : /\ u.long = Main!usage[k].long /\ u.long \in Text
                       /\ LongIndex(u.long) = k
                       /\ Main!RowOf(u.long) = Main!usage[k]
                       /\ ~Flag(u) /\ u.arg \in Arg
  BY UseFacts
<1>2. args = IF attached THEN << h >> \o R ELSE << h, u.arg >> \o R
  BY WrittenIs
<1>3. /\ h \in Arg /\ Len(h) >= 3
      /\ h[1] = "-" /\ h[2] = "-" /\ h[3] = u.long
      /\ attached <=> Len(h) > 3 /\ h[4] = "="
      /\ attached => SubSeq(h, 5, Len(h)) = u.arg
  <2>1. "-" \in Text /\ "=" \in Text /\ u.long \in Text /\ u.arg \in Seq(Text)
    BY <1>1, Signs DEF Arg
  <2>2. CASE u.form = "--long arg"
    <3>1. l \in Seq(Text) /\ Len(l) = 3
          /\ l[1] = "-" /\ l[2] = "-" /\ l[3] = u.long
      BY ONLY <2>1, Three
    <3>2. h = l /\ ~attached
      BY <2>2
    <3> HIDE DEF l, h, attached
    <3>3. h[1] = "-" /\ h[2] = "-" /\ h[3] = u.long /\ h \in Arg /\ Len(h) = 3
      BY ONLY <3>1, <3>2 DEF Arg
    <3>4. Len(h) >= 3 /\ ~(Len(h) > 3)
      BY ONLY <3>3
    <3> QED
      BY ONLY <3>2, <3>3, <3>4
  <2>3. CASE u.form = "--long=arg"
    <3>1. /\ h \in Seq(Text) /\ Len(h) = 4 + Len(u.arg)
          /\ h[1] = "-" /\ h[2] = "-" /\ h[3] = u.long /\ h[4] = "="
          /\ SubSeq(h, 5, Len(h)) = u.arg /\ Len(u.arg) \in Nat
      <4>1. h = l \o << "=" >> \o u.arg
        BY <2>3
      <4> HIDE DEF h
      <4> QED
        BY ONLY <2>1, <4>1, Attached
    <3> HIDE DEF h
    <3>2. Len(h) > 3 /\ Len(h) >= 3
      BY ONLY <3>1
    <3> QED
      BY ONLY <2>3, <3>1, <3>2 DEF Arg
  <2> QED
    BY <2>2, <2>3
<1> HIDE DEF h
<1>4. /\ args # << >> /\ Head(args) = h
      /\ attached => Tail(args) = R
      /\ ~attached => args[2] = u.arg /\ Len(args) > 1 /\ Tail(Tail(args)) = R
  <2>1. CASE attached
    <3>1. args = << h >> \o R
      BY <1>2, <2>1
    <3>2. h \in Arg
      BY <1>3
    <3>3. args # << >> /\ Head(args) = h /\ Tail(args) = R
      BY ONLY <3>1, <3>2, R \in Seq(Arg), HeadOfOne
    <3> QED
      BY <2>1, <3>3
  <2>2. CASE ~attached
    <3>1. args = << h, u.arg >> \o R
      BY <1>2, <2>2
    <3>2. h \in Arg /\ u.arg \in Arg
      BY <1>1, <1>3
    <3>3. /\ args # << >> /\ Head(args) = h /\ args[2] = u.arg
          /\ Len(args) > 1 /\ Tail(Tail(args)) = R
      BY ONLY <3>1, <3>2, R \in Seq(Arg), HeadOfTwo
    <3> QED
      BY <2>2, <3>3
  <2> QED
    BY <2>1, <2>2
<1>5. Main!AtOption /\ ~Main!ShortOption
  <2>1. Len(h) > 1 /\ h # << "-", "-" >>
    <3>1. Len(h) \in Nat /\ Len(h) >= 3
      <4>1. h \in Seq(Text) /\ Len(h) >= 3
        BY <1>3 DEF Arg
      <4> QED
        BY ONLY <4>1, LenProperties
    <3>2. h # << "-", "-" >>
      <4> SUFFICES ASSUME h = << "-", "-" >> PROVE FALSE
        OBVIOUS
      <4>1. Len(h) = 2
        BY Pair
      <4> QED
        BY ONLY <3>1, <4>1
    <3> QED
      BY ONLY <3>1, <3>2
  <2>2. Main!AtOption
    BY Zenon, <1>3, <1>4, <2>1 DEF Main!AtOption
  <2>3. Head(args)[2] = "-"
    BY <1>3, <1>4
  <2> QED
    BY Zenon, <2>2, <2>3 DEF Main!ShortOption
<1>6. ASSUME Main!LongOption PROVE Reads(u, R)
  <2>1. Main!Take(LongIndex(h[3]), Len(h) > 3 /\ h[4] = "=",
                  SubSeq(h, 5, Len(h)), << >>)
    BY Zenon, <1>4, <1>6, LongOptionIs
  <2>2. LongIndex(h[3]) = k
    BY <1>1, <1>3
  <2>3. Takes(u, attached)
    BY <1>1, <1>3, <1>4, <2>1, <2>2, TakeArgument
  <2> QED
    BY <1>4, <2>3 DEF Takes, Reads
<1> QED
  BY <1>5, <1>6

LEMMA ShortOptionIs ==
  ASSUME Main!ShortOption
  PROVE  LET g == Main!Group IN
         Main!Take(ShortIndex(Head(g)), Len(g) > 1, Tail(g), Tail(g))
BY DEF Main!ShortOption, ShortIndex

LEMMA AttachedShort ==
  ASSUME NEW S, NEW x \in S, NEW y \in S, NEW a \in Seq(S), a # << >>,
         NEW c, c = << x, y >> \o a
  PROVE  /\ c \in Seq(S) /\ Len(c) > 1 /\ Len(c) # 2 /\ c[1] = x /\ c[2] = y
         /\ Head(Tail(c)) = y /\ Tail(Tail(c)) = a
         /\ Len(Tail(c)) \in Nat /\ Len(Tail(c)) > 1
<1> DEFINE d == << y >> \o a
<1>1. c = << x >> \o d
  <2>1. << x, y >> = << x >> \o << y >>
    BY Pair
  <2>2. << x >> \in Seq(S) /\ << y >> \in Seq(S)
    OBVIOUS
  <2> QED
    BY <2>1, <2>2, Associative
<1>2. Len(a) \in Nat /\ Len(a) > 0
  BY EmptySeq
<1>3. /\ d \in Seq(S) /\ Head(d) = y /\ d[1] = y /\ Tail(d) = a
      /\ Len(d) = Len(a) + 1
  <2>1. << y >> \in Seq(S)
    OBVIOUS
  <2>2. d \in Seq(S) /\ d # << >>
    BY <2>1, ConcatProperties, HeadOfOne
  <2> QED
    BY <2>2, HeadOfOne
<1> HIDE DEF d
<1>4. Head(c) = x /\ c[1] = x /\ Tail(c) = d /\ Len(c) = Len(d) + 1
  <2>1. Head(c) = x /\ Tail(c) = d /\ Len(c) = Len(d) + 1 /\ c # << >>
    BY <1>1, <1>3, HeadOfOne
  <2> QED
    BY <2>1
<1>5. c \in Seq(S) /\ c[2] = y
  <2>1. << x >> \in Seq(S) /\ Len(<< x >>) = 1
    OBVIOUS
  <2> QED
    BY <1>1, <1>2, <1>3, <2>1, ConcatProperties
<1> QED
  BY <1>2, <1>3, <1>4, <1>5

LEMMA NotTheEnd ==
  ASSUME NEW h, h[2] # "-"
  PROVE  h # << "-", "-" >>
OBVIOUS

(* A short option with its argument: in the same or in the next one.       *)
LEMMA ReadShortArgument ==
  ASSUME NEW u \in Use, u.form \in {"-s arg", "-sarg"}, group = << >>,
         ~Main!HeightLetter(u),
         NEW R \in Seq(Arg), args = Main!Written(u) \o R
  PROVE  /\ Main!AtOption
         /\ ~Main!LongOption
         /\ Main!ShortOption => Reads(u, R)
<1> DEFINE s == Main!RowOf(u.long).short
           h == IF u.form = "-s arg" THEN << "-", s >>
                ELSE << "-", s >> \o u.arg
           g == Tail(h)
           attached == u.form = "-sarg"
<1>1. PICK k \in Ten : /\ u.long = Main!usage[k].long
                       /\ Main!RowOf(u.long) = Main!usage[k]
                       /\ ~Flag(u) /\ u.arg \in Arg /\ k \in Lettered
                       /\ (attached => u.arg # << >>)
  BY UseFacts
<1>2. args = IF attached THEN << h >> \o R ELSE << h, u.arg >> \o R
  BY WrittenIs
<1>3. s = Main!usage[k].short /\ s \in Text /\ s # "-"
  BY <1>1, Letters DEF Text
<1>4. /\ h \in Arg /\ Len(h) > 1 /\ h # << "-", "-" >>
      /\ h[1] = "-" /\ h[2] = s /\ Head(g) = s
      /\ Len(g) \in Nat /\ (attached <=> Len(g) > 1)
      /\ attached => Tail(g) = u.arg
  <2>1. "-" \in Text /\ s \in Text /\ u.arg \in Seq(Text)
    BY <1>1, <1>3, Signs DEF Arg
  <2> HIDE DEF s
  <2>2. CASE u.form = "-s arg"
    <3>1. h = << "-", s >> /\ ~attached
      BY <2>2
    <3> HIDE DEF h, attached
    <3>2. h \in Arg /\ Len(h) > 1 /\ h[1] = "-" /\ h[2] = s
      BY ONLY <2>1, <3>1 DEF Arg
    <3>3. g = << s >>
      BY ONLY <3>1, Pair DEF g
    <3> HIDE DEF g
    <3>4. Head(g) = s /\ Len(g) = 1
      BY ONLY <3>3, Tails
    <3>5. h # << "-", "-" >>
      <4>1. h[2] # "-"
        BY <1>3, <3>2
      <4> QED
        BY ONLY <4>1, NotTheEnd
    <3> QED
      BY ONLY <3>1, <3>2, <3>4, <3>5
  <2>3. CASE u.form = "-sarg"
    <3>1. h = << "-", s >> \o u.arg /\ attached
      BY <2>3
    <3>2. u.arg # << >>
      BY <1>1, <3>1
    <3> HIDE DEF h, attached
    <3>3. /\ h \in Arg /\ Len(h) > 1 /\ h[1] = "-" /\ h[2] = s
          /\ Head(g) = s /\ Len(g) > 1 /\ Len(g) \in Nat /\ Tail(g) = u.arg
      <4>1. /\ h \in Seq(Text) /\ Len(h) > 1 /\ h[1] = "-" /\ h[2] = s
            /\ Head(Tail(h)) = s /\ Len(Tail(h)) > 1
            /\ Len(Tail(h)) \in Nat /\ Tail(Tail(h)) = u.arg
        BY ONLY <2>1, <3>1, <3>2, AttachedShort
      <4> QED
        BY ONLY <4>1 DEF Arg, g
    <3>4. h # << "-", "-" >>
      <4>1. h[2] # "-"
        BY <1>3, <3>3
      <4> QED
        BY ONLY <4>1, NotTheEnd
    <3> QED
      BY ONLY <3>1, <3>3, <3>4
  <2> QED
    BY <2>2, <2>3
<1> HIDE DEF h
<1>5. /\ args # << >> /\ Head(args) = h
      /\ attached => Tail(args) = R
      /\ ~attached => args[2] = u.arg /\ Len(args) > 1 /\ Tail(Tail(args)) = R
  <2>1. CASE attached
    <3>1. args = << h >> \o R
      BY <1>2, <2>1
    <3>2. h \in Arg
      BY <1>4
    <3>3. args # << >> /\ Head(args) = h /\ Tail(args) = R
      BY ONLY <3>1, <3>2, R \in Seq(Arg), HeadOfOne
    <3> QED
      BY <2>1, <3>3
  <2>2. CASE ~attached
    <3>1. args = << h, u.arg >> \o R
      BY <1>2, <2>2
    <3>2. h \in Arg /\ u.arg \in Arg
      BY <1>1, <1>4
    <3>3. /\ args # << >> /\ Head(args) = h /\ args[2] = u.arg
          /\ Len(args) > 1 /\ Tail(Tail(args)) = R
      BY ONLY <3>1, <3>2, R \in Seq(Arg), HeadOfTwo
    <3> QED
      BY <2>2, <3>3
  <2> QED
    BY <2>1, <2>2
<1>6. Main!AtOption /\ ~Main!LongOption
  <2>1. Main!AtOption
    BY Zenon, <1>4, <1>5 DEF Main!AtOption
  <2>2. Head(args)[2] # "-"
    BY <1>3, <1>4, <1>5
  <2> QED
    BY Zenon, <2>1, <2>2 DEF Main!LongOption
<1>7. ASSUME Main!ShortOption PROVE Reads(u, R)
  <2>1. Main!Group = g
    BY <1>5 DEF Main!Group
  <2>2. Main!Take(ShortIndex(Head(g)), Len(g) > 1, Tail(g), Tail(g))
    BY Zenon, <1>7, <2>1, ShortOptionIs
  <2>3. ShortIndex(Head(g)) = k
    BY <1>1, <1>3, <1>4, ShortIs
  <2>4. Main!Take(k, Len(g) > 1, Tail(g), Tail(g))
    BY Zenon, <2>2, <2>3
  <2>5. /\ Len(g) > 1 => Tail(g) = u.arg /\ Tail(args) = R
        /\ ~(Len(g) > 1) =>
             args[2] = u.arg /\ Len(args) > 1 /\ Tail(Tail(args)) = R
    BY <1>4, <1>5
  <2> DEFINE e == Len(g) > 1
             rest == Tail(g)
  <2>6. Takes(u, e)
    <3>1. Main!Take(k, e, rest, rest)
      BY Zenon, <2>4
    <3>2. (e => rest = u.arg) /\ (~e => args[2] = u.arg /\ Len(args) > 1)
      BY <2>5
    <3> HIDE DEF e, g, rest
    <3> QED
      BY <1>1, <3>1, <3>2, TakeArgument
  <2> QED
    BY <2>5, <2>6 DEF Takes, Reads
<1> QED
  BY <1>6, <1>7

(* The letter of the height: help is stored, and the argument is left.     *)
LEMMA ReadHelp ==
  ASSUME NEW u \in Use, Main!HeightLetter(u),
         NEW R \in Seq(Arg), args = Main!Written(u) \o R
  PROVE  /\ Main!AtOption
         /\ ~Main!LongOption
         /\ group = << >> /\ Main!ShortOption =>
              /\ pc' = pc
              /\ buffer' = Append(buffer, [long |-> "help", arg |-> << >>])
              /\ IF u.form = "-s arg"
                 THEN group' = << >> /\ args' = << u.arg >> \o R
                 ELSE group' = u.arg /\ args' = args
<1> DEFINE s == Main!RowOf(u.long).short
           h == IF u.form = "-s arg" THEN << "-", s >>
                ELSE << "-", s >> \o u.arg
           g == Tail(h)
           attached == u.form = "-sarg"
<1>1. /\ u.arg \in Arg /\ (attached => u.arg # << >>)
      /\ u.form \in {"-s arg", "-sarg"} /\ u.long = "height"
  BY UseFacts DEF Main!HeightLetter
<1>2. s = "h" /\ s \in Text /\ "-" \in Text /\ s # "-"
  <2>1. 5 \in Ten /\ Main!usage[5].long = "height"
        /\ Main!usage[5].short = "h"
    BY Longs, Shorts DEF Ten
  <2>2. s = "h"
    BY <1>1, <2>1, LongIs
  <2>3. "h" \in Text
    BY <2>1 DEF Text
  <2> QED
    BY <2>2, <2>3, Signs
<1>3. args = IF attached THEN << h >> \o R ELSE << h, u.arg >> \o R
  BY <1>1, WrittenIs
<1> HIDE DEF s
<1>5. /\ h \in Arg /\ Len(h) > 1 /\ h[1] = "-" /\ h[2] = s
      /\ Head(g) = s
      /\ Tail(g) = IF attached THEN u.arg ELSE << >>
  <2>1. CASE ~attached
    <3>1. h = << "-", s >> /\ ~attached
      BY <1>1, <2>1
    <3> HIDE DEF h, attached
    <3>2. h \in Arg /\ Len(h) > 1 /\ h[1] = "-" /\ h[2] = s
      BY ONLY <1>2, <3>1 DEF Arg
    <3>3. g = << s >>
      BY ONLY <3>1, Pair DEF g
    <3> HIDE DEF g
    <3>4. Head(g) = s /\ Tail(g) = << >>
      BY ONLY <3>3, Tails
    <3> QED
      BY ONLY <3>1, <3>2, <3>4
  <2>2. CASE attached
    <3>1. h = << "-", s >> \o u.arg /\ attached
      BY <1>1, <2>2
    <3>2. u.arg # << >> /\ u.arg \in Seq(Text) /\ "-" \in Text /\ s \in Text
      BY <1>1, <1>2, <2>2 DEF Arg
    <3> HIDE DEF h, attached
    <3>3. /\ h \in Seq(Text) /\ Len(h) > 1 /\ h[1] = "-" /\ h[2] = s
          /\ Head(Tail(h)) = s /\ Tail(Tail(h)) = u.arg
      BY ONLY <3>1, <3>2, AttachedShort
    <3> QED
      BY ONLY <3>1, <3>3 DEF Arg, g
  <2> QED
    BY <2>1, <2>2
<1>6. h # << "-", "-" >>
  <2>1. h[2] # "-"
    BY <1>2, <1>5
  <2> QED
    BY ONLY <2>1, NotTheEnd
<1> HIDE DEF h
<1>7. /\ args # << >> /\ Head(args) = h
      /\ ~attached => Tail(args) = << u.arg >> \o R
  <2>1. CASE attached
    <3>1. args = << h >> \o R /\ h \in Arg
      BY <1>3, <1>5, <2>1
    <3>2. args # << >> /\ Head(args) = h
      BY ONLY <3>1, R \in Seq(Arg), HeadOfOne
    <3> QED
      BY <2>1, <3>2
  <2>2. CASE ~attached
    <3>1. args = << h, u.arg >> \o R /\ h \in Arg /\ u.arg \in Arg
      BY <1>1, <1>3, <1>5, <2>2
    <3>2. args # << >> /\ Head(args) = h /\ Tail(args) = << u.arg >> \o R
      BY ONLY <3>1, R \in Seq(Arg), HeadOfTwo
    <3> QED
      BY <3>2
  <2> QED
    BY <2>1, <2>2
<1>8. Main!AtOption /\ ~Main!LongOption
  <2>1. Main!AtOption
    BY Zenon, <1>5, <1>6, <1>7 DEF Main!AtOption
  <2>2. Head(args)[2] # "-"
    BY <1>2, <1>5, <1>7
  <2> QED
    BY Zenon, <2>1, <2>2 DEF Main!LongOption
<1>9. ASSUME group = << >>, Main!ShortOption
      PROVE  /\ pc' = pc
             /\ buffer' = Append(buffer, [long |-> "help", arg |-> << >>])
             /\ group' = Tail(g)
             /\ args' = IF Tail(g) = << >> THEN Tail(args) ELSE args
  <2>1. Main!Group = g
    BY <1>7, <1>9 DEF Main!Group
  <2>2. Main!Take(ShortIndex(Head(g)), Len(g) > 1, Tail(g), Tail(g))
    BY Zenon, <1>9, <2>1, ShortOptionIs
  <2>3. /\ ShortIndex(Head(g)) = 1 /\ Main!usage[1].check = "None"
        /\ Main!usage[1].long = "help"
    <3>1. Main!usage[1].short = "h" /\ 1 \in Lettered
      BY Shorts DEF Lettered
    <3>2. ShortIndex("h") = 1
      BY <3>1, ShortIs
    <3> QED
      BY <1>2, <1>5, <3>2, Checks, Longs
  <2>4. Main!Take(1, Len(g) > 1, Tail(g), Tail(g))
    BY Zenon, <2>2, <2>3
  <2> DEFINE e == Len(g) > 1
             rest == Tail(g)
  <2>5. Main!Take(1, e, rest, rest)
    BY Zenon, <2>4
  <2> HIDE DEF e, g, rest
  <2>6. /\ pc' = pc
        /\ buffer' = Append(buffer, [long |-> "help", arg |-> << >>])
        /\ group' = rest
        /\ args' = IF rest = << >> THEN Tail(args) ELSE args
    BY <2>3, <2>5 DEF Main!Take
  <2> QED
    BY <2>6 DEF rest
<1>10. attached <=> u.form # "-s arg"
  BY <1>1
<1> QED
  BY <1>1, <1>5, <1>7, <1>8, <1>9, <1>10

(* A number begins with none of the options' letters.                      *)
LEMMA NumberIsNoOption ==
  ASSUME NEW u \in Use, Main!HeightLetter(u)
  PROVE  /\ u.arg \in Arg /\ u.arg # << >> /\ ShortIndex(Head(u.arg)) = 0
         /\ \/ Len(u.arg) = 1
            \/ /\ Len(u.arg) = 2 /\ u.arg[1] = "-" /\ u.arg[2] # "-"
               /\ ShortIndex(u.arg[2]) = 0 /\ Head(Tail(u.arg)) = u.arg[2]
<1> DEFINE Digits == {"0", "1", "2", "60", "1.5", ".5"}
<1>1. u.arg \in Arg /\ Main!IsNumber(u.arg)
  <2>1. u.form \in {"-s arg", "-sarg"} /\ u.long = "height"
    BY DEF Main!HeightLetter
  <2>2. ASSUME NEW k \in Ten, u.long = Main!usage[k].long
        PROVE  k \notin Lettered
    BY <2>1, <2>2, Longs DEF Lettered
  <2> QED
    BY <2>1, <2>2, UseFacts
<1>2. DOMAIN Main!stoi = Digits
  BY DEF Main!stoi
<1>3. ASSUME NEW x \in Digits \cup {"-"}
      PROVE  ShortIndex(x) = 0
  <2>1. \A k \in Ten : Main!usage[k].short # x
    BY Shorts DEF Ten
  <2> QED
    BY <2>1, NoLetter
<1>4. \/ Len(u.arg) = 1 /\ u.arg[1] \in Digits
      \/ Len(u.arg) = 2 /\ u.arg[1] = "-" /\ u.arg[2] \in Digits
  BY <1>1, <1>2 DEF Main!IsNumber
<1> HIDE DEF Digits
<1>5. u.arg # << >> /\ Head(u.arg) = u.arg[1]
  BY <1>1, <1>4 DEF Arg
<1>6. Len(u.arg) = 2 => Head(Tail(u.arg)) = u.arg[2]
  BY <1>1 DEF Arg
<1>7. "-" \notin Digits
  BY DEF Digits
<1> QED
  BY <1>1, <1>3, <1>4, <1>5, <1>6, <1>7

-----------------------------------------------------------------------------
(* The parser is at use k + 1, or in its middle, when the same letter      *)
(* comes twice.                                                            *)

AsWritten == [k \in DOMAIN uses |-> Main!Written(uses[k])]
AsStored == [k \in DOMAIN uses |-> Options(uses[k])]

Asked(options) == \E b \in DOMAIN options : options[b].long = "help"

(* k uses have been read, those of them that are half read too.            *)
Parsed(written, stored, k) ==
  LET half == group # << >> IN
  /\ args = written.after[k]
  /\ \A j \in 1 .. k :
       ~Main!IllFormed(uses[j]) /\ ~Main!HeightLetter(uses[j])
  /\ half => /\ k < Len(uses) /\ uses[k + 1].form = "twice"
             /\ group = << Main!RowOf(uses[k + 1].long).short >>
             /\ buffer = Append(stored.before[k], OptionOf(uses[k + 1]))
  /\ ~half => buffer = stored.before[k]
  /\ Asked(buffer) <=> \E j \in 1 .. (IF half THEN k + 1 ELSE k) :
                         uses[j].long = "help"
  /\ buffer = << >> <=> k = 0 /\ ~half

(* k uses have been read, and of use k + 1 its letter, which is help's.    *)
Helped(written, k) ==
  /\ k < Len(uses) /\ Main!HeightLetter(uses[k + 1])
  /\ \A j \in 1 .. k :
       ~Main!IllFormed(uses[j]) /\ ~Main!HeightLetter(uses[j])
  /\ Asked(buffer)
  /\ IF uses[k + 1].form = "-s arg"
     THEN group = << >> /\ args = << uses[k + 1].arg >> \o written.after[k + 1]
     ELSE group = uses[k + 1].arg /\ args = written.after[k]

(* main has set what the first d uses say; the others are still stored.    *)
Upto(d, long) == Main!UsesOf(long) \cap 1 .. d

Applied(stored, d) ==
  /\ buffer = stored.after[d]
  /\ uses # << >>
  /\ \A j \in 1 .. Len(uses) :
       /\ ~Main!IllFormed(uses[j]) /\ ~Main!HeightLetter(uses[j])
       /\ uses[j].long # "help"
  /\ \A j \in 1 .. d : j \notin Main!Decisive
  /\ settings = [long \in DOMAIN Main!Default |->
                   IF Upto(d, long) = {} THEN Main!Default[long]
                   ELSE Main!Kept(long, uses[Main!Max(Upto(d, long))].arg)]
  /\ settings["flp"] = << >> <=> Upto(d, "flp") = {}

MainInv ==
  /\ uses \in Seq(Use)
  /\ pc \in {"parse", "options"} =>
       \E w \in Splits(Arg, AsWritten), o \in Splits(Option, AsStored) :
         /\ pc = "parse" => /\ settings = Main!Default
                            /\ \E k \in 0 .. Len(uses) :
                                 Parsed(w, o, k) \/ Helped(w, k)
         /\ pc = "options" => \E d \in 0 .. Len(uses) : Applied(o, d)
  /\ UsageObeyed

LEMMA WrittenTyped ==
  ASSUME NEW u \in Use
  PROVE  Main!Written(u) \in Seq(Arg)
<1> DEFINE s == Main!RowOf(u.long).short
           short == << "-", s >>
           long == << "-", "-", u.long >>
<1>1. /\ u.long \in Text /\ u.arg \in Arg
      /\ u.form \in {"short", "twice", "-s arg", "-sarg"} => s \in Text
      /\ u.form \in {"long", "short", "twice", "--long=arg", "--long arg",
                     "-s arg", "-sarg"}
  BY UseFacts DEF Text
<1>2. long \in Arg /\ << "=" >> \in Arg /\ (s \in Text => short \in Arg)
  <2>1. "-" \in Text /\ "=" \in Text /\ u.long \in Text
    BY <1>1, Signs
  <2> HIDE DEF s
  <2>2. long \in Arg
    BY ONLY <2>1 DEF Arg
  <2>3. << "=" >> \in Arg
    BY ONLY <2>1 DEF Arg
  <2>4. s \in Text => short \in Arg
    BY ONLY <2>1 DEF Arg
  <2> QED
    BY <2>2, <2>3, <2>4
<1>3. s \in Text => short \o Tail(short) \in Arg /\ short \o u.arg \in Arg
  <2> SUFFICES ASSUME s \in Text
               PROVE  short \o Tail(short) \in Arg /\ short \o u.arg \in Arg
    OBVIOUS
  <2>1. Tail(short) = << s >>
    BY Pair
  <2>2. << s >> \in Arg
    BY DEF Arg
  <2> HIDE DEF short
  <2> QED
    BY <1>1, <1>2, <2>1, <2>2, ConcatProperties DEF Arg
<1>4. long \o << "=" >> \o u.arg \in Arg
  <2> HIDE DEF long
  <2>1. long \o << "=" >> \in Arg
    BY <1>2, ConcatProperties DEF Arg
  <2> QED
    BY <1>1, <2>1, ConcatProperties DEF Arg
<1>5. ASSUME NEW x \in Arg, NEW y \in Arg
      PROVE  << x >> \in Seq(Arg) /\ << x, y >> \in Seq(Arg)
  BY ONLY <1>5
<1> QED
  BY <1>1, <1>2, <1>3, <1>4, <1>5, WrittenIs

LEMMA UsesFacts ==
  ASSUME uses \in Seq(Use)
  PROVE  /\ DOMAIN uses = 1 .. Len(uses) /\ Len(uses) \in Nat
         /\ \A j \in 1 .. Len(uses) : uses[j] \in Use
         /\ AsWritten \in Seq(Seq(Arg)) /\ Len(AsWritten) = Len(uses)
         /\ \A j \in 1 .. Len(uses) : AsWritten[j] = Main!Written(uses[j])
         /\ AsStored \in Seq(Seq(Option)) /\ Len(AsStored) = Len(uses)
         /\ \A j \in 1 .. Len(uses) : AsStored[j] = Options(uses[j])
<1>1. /\ DOMAIN uses = 1 .. Len(uses) /\ Len(uses) \in Nat
      /\ \A j \in 1 .. Len(uses) : uses[j] \in Use
  OBVIOUS
<1>2. ASSUME NEW u \in Use PROVE Main!Written(u) \in Seq(Arg)
  BY WrittenTyped
<1>3. AsWritten \in Seq(Seq(Arg)) /\ Len(AsWritten) = Len(uses)
  BY <1>1, <1>2 DEF AsWritten
<1>4. ASSUME NEW u \in Use PROVE Options(u) \in Seq(Option)
  BY OptionsIs
<1>5. AsStored \in Seq(Seq(Option)) /\ Len(AsStored) = Len(uses)
  BY <1>1, <1>4 DEF AsStored
<1> QED
  BY <1>1, <1>3, <1>5 DEF AsWritten, AsStored

LEMMA AppendIs ==
  ASSUME NEW S, NEW s \in Seq(S), NEW e \in S
  PROVE  /\ Append(s, e) = s \o << e >>
         /\ Append(Append(s, e), e) = s \o << e, e >>
         /\ Append(s, e) \in Seq(S) /\ Append(s, e) # << >>
<1>1. << e >> \in Seq(S)
  OBVIOUS
<1>2. \A t \in Seq(S) : Append(t, e) = t \o << e >> /\ Append(t, e) \in Seq(S)
  BY AppendIsConcat, AppendProperties
<1>3. (s \o << e >>) \o << e >> = s \o (<< e >> \o << e >>)
  BY <1>1, Associative
<1>4. Append(s, e) # << >>
  BY AppendProperties
<1> QED
  BY <1>2, <1>3, <1>4, Pair

LEMMA AskedAppend ==
  ASSUME NEW s \in Seq(Option), NEW e \in Option
  PROVE  Asked(Append(s, e)) <=> Asked(s) \/ e.long = "help"
<1> DEFINE t == Append(s, e)
<1>1. /\ DOMAIN s = 1 .. Len(s) /\ Len(s) \in Nat
      /\ DOMAIN t = 1 .. Len(s) + 1 /\ t[Len(s) + 1] = e
      /\ \A b \in 1 .. Len(s) : t[b] = s[b]
  BY AppendProperties
<1> HIDE DEF t
<1>2. /\ Len(s) + 1 \in DOMAIN t
      /\ \A b \in DOMAIN t : b \in DOMAIN s \/ b = Len(s) + 1
      /\ \A b \in DOMAIN s : b \in DOMAIN t
  BY <1>1
<1>3. \A b \in DOMAIN s : t[b] = s[b]
  BY <1>1
<1>4. t[Len(s) + 1] = e
  BY <1>1
<1>5. Asked(t) <=> Asked(s) \/ e.long = "help"
  BY <1>2, <1>3, <1>4 DEF Asked
<1> QED
  BY <1>5 DEF t

(* Both splits at a use.                                                   *)
LEMMA AtUse ==
  ASSUME uses \in Seq(Use), NEW w \in Splits(Arg, AsWritten),
         NEW o \in Splits(Option, AsStored), NEW k \in 0 .. Len(uses)
  PROVE  /\ w.after[k] \in Seq(Arg) /\ o.before[k] \in Seq(Option)
         /\ o.after[k] \in Seq(Option) /\ w.after[Len(uses)] = << >>
         /\ o.before[0] = << >> /\ o.after[Len(uses)] = << >>
         /\ o.before[Len(uses)] = o.after[0]
         /\ k < Len(uses) =>
              /\ k + 1 \in 1 .. Len(uses) /\ uses[k + 1] \in Use
              /\ w.after[k + 1] \in Seq(Arg) /\ o.after[k + 1] \in Seq(Option)
              /\ w.after[k] = Main!Written(uses[k + 1]) \o w.after[k + 1]
              /\ o.before[k + 1] = o.before[k] \o Options(uses[k + 1])
              /\ o.after[k] = Options(uses[k + 1]) \o o.after[k + 1]
<1> DEFINE n == Len(uses)
<1>1. /\ n \in Nat /\ Len(AsWritten) = n /\ Len(AsStored) = n
      /\ \A j \in 1 .. n : uses[j] \in Use
      /\ \A j \in 1 .. n : AsWritten[j] = Main!Written(uses[j])
      /\ \A j \in 1 .. n : AsStored[j] = Options(uses[j])
  BY UsesFacts
<1>2. /\ \A j \in 0 .. n : w.after[j] \in Seq(Arg)
      /\ w.after[n] = << >>
      /\ \A j \in 1 .. n : w.after[j - 1] = AsWritten[j] \o w.after[j]
  BY <1>1 DEF Splits
<1>3. /\ \A j \in 0 .. n : o.after[j] \in Seq(Option)
      /\ \A j \in 0 .. n : o.before[j] \in Seq(Option)
      /\ o.after[n] = << >> /\ o.before[0] = << >> /\ o.before[n] = o.after[0]
      /\ \A j \in 1 .. n : /\ o.before[j] = o.before[j - 1] \o AsStored[j]
                           /\ o.after[j - 1] = AsStored[j] \o o.after[j]
  BY <1>1 DEF Splits
<1> HIDE DEF n
<1>4. ASSUME k < n
      PROVE  k + 1 \in 1 .. n /\ k + 1 \in 0 .. n /\ (k + 1) - 1 = k
  BY <1>1, <1>4 DEF n
<1>5. k \in 0 .. n
  BY DEF n
<1> QED
  BY <1>1, <1>2, <1>3, <1>4, <1>5 DEF n

(* A use before any letter of the height has a wrong argument.             *)
Wrong ==
  \E j \in 1 .. Len(uses) :
    /\ Main!IllFormed(uses[j])
    /\ \A i \in 1 .. j : ~Main!HeightLetter(uses[i])

LEMMA ParseStep ==
  ASSUME uses \in Seq(Use), NEW w \in Splits(Arg, AsWritten),
         NEW o \in Splits(Option, AsStored), NEW k \in 0 .. Len(uses),
         Parsed(w, o, k), pc = "parse",
         Main!LongOption \/ Main!ShortOption
  PROVE  /\ uses' = uses /\ settings' = settings
         /\ \/ pc' = "failed" /\ Wrong
            \/ /\ pc' = "parse"
               /\ \E m \in 0 .. Len(uses) : Parsed(w, o, m)' \/ Helped(w, m)'
<1> DEFINE n == Len(uses)
           u == uses[k + 1]
           R == w.after[k + 1]
           opt == OptionOf(u)
<1>1. uses' = uses /\ settings' = settings
  BY DEF Main!LongOption, Main!ShortOption, Main!Take
<1>2. k < n
  <2> SUFFICES ASSUME ~(k < n) PROVE FALSE
    OBVIOUS
  <2>1. k = n
    <3>1. n \in Nat
      BY UsesFacts
    <3> QED
      BY <3>1
  <2>2. args = << >>
    BY <2>1, AtUse DEF Parsed
  <2> QED
    BY <2>2 DEF Main!LongOption, Main!ShortOption, Main!AtOption
<1>3. /\ k + 1 \in 1 .. n /\ u \in Use /\ R \in Seq(Arg) /\ n \in Nat
      /\ args = Main!Written(u) \o R /\ o.before[k] \in Seq(Option)
      /\ o.before[k + 1] = o.before[k] \o Options(u)
  BY <1>2, AtUse, UsesFacts DEF Parsed
<1>4. opt \in Option /\ opt.long = u.long
  BY <1>3, OptionsIs
<1>5. /\ Append(o.before[k], opt) \in Seq(Option)
      /\ Append(o.before[k], opt) = o.before[k] \o << opt >>
      /\ Append(Append(o.before[k], opt), opt) = o.before[k] \o << opt, opt >>
  BY <1>3, <1>4, AppendIs
<1>6. \A j \in 1 .. k :
        ~Main!IllFormed(uses[j]) /\ ~Main!HeightLetter(uses[j])
  BY DEF Parsed
<1>7. \A j \in 1 .. k + 1 : j \in 1 .. k \/ j = k + 1
  OBVIOUS
<1> HIDE DEF n, u, R, opt
<1>8. buffer \in Seq(Option) /\ Append(buffer, opt) # << >>
      /\ (Asked(Append(buffer, opt)) <=> Asked(buffer) \/ u.long = "help")
  <2>1. buffer \in Seq(Option)
    BY <1>3, <1>5 DEF Parsed, opt, u
  <2> QED
    BY <1>4, <2>1, AskedAppend, AppendIs
<1>9. k \in 0 .. n /\ k + 1 \in 0 .. n /\ k + 1 # 0
  BY <1>2, <1>3 DEF n
(* The use is read to its end.                                             *)
<1>10. ASSUME Reads(u, R), Append(buffer, opt) = o.before[k + 1],
              ~Main!HeightLetter(u)
       PROVE  \/ pc' = "failed" /\ Wrong
              \/ pc' = "parse" /\ \E m \in 0 .. n : Parsed(w, o, m)'
  <2>1. CASE Main!IllFormed(u)
    <3>1. \A i \in 1 .. k + 1 : ~Main!HeightLetter(uses[i])
      BY <1>6, <1>7, <1>10 DEF u
    <3> QED
      BY <1>3, <1>10, <2>1, <3>1 DEF Reads, Wrong, u, n
  <2>2. CASE ~Main!IllFormed(u)
    <3>1. /\ pc' = "parse" /\ group' = << >> /\ args' = R
          /\ buffer' = Append(buffer, opt)
      BY <1>10, <2>2 DEF Reads, opt
    <3>2. \A j \in 1 .. k + 1 :
            ~Main!IllFormed(uses[j]) /\ ~Main!HeightLetter(uses[j])
      BY <1>6, <1>7, <1>10, <2>2 DEF u
    <3>3. Asked(Append(buffer, opt)) <=>
            \E j \in 1 .. k + 1 : uses[j].long = "help"
      BY <1>7, <1>8 DEF Parsed, u
    <3>4. /\ buffer' # << >> /\ buffer' = o.before[k + 1]
          /\ args' = w.after[k + 1]
      BY <1>8, <1>10, <3>1 DEF R
    <3>5. Asked(buffer)' <=> Asked(Append(buffer, opt))
      BY <3>1 DEF Asked
    <3>6. Parsed(w, o, k + 1)'
      BY <1>1, <1>9, <3>1, <3>2, <3>3, <3>4, <3>5
      DEF Parsed, Main!IllFormed, Main!HeightLetter
    <3> QED
      BY <1>9, <3>1, <3>6
  <2> QED
    BY <2>1, <2>2
<1>11. CASE group # << >>
  <2>1. /\ u.form = "twice" /\ group = << Main!RowOf(u.long).short >>
        /\ buffer = Append(o.before[k], opt)
    BY <1>11 DEF Parsed, u, opt
  <2>2. Reads(u, R)
    BY <1>3, <1>11, <2>1, ReadShort
  <2>3. Append(buffer, opt) = o.before[k + 1]
    BY <1>3, <1>5, <2>1 DEF Options, opt
  <2>4. ~Main!HeightLetter(u)
    BY <2>1 DEF Main!HeightLetter
  <2> QED
    BY <1>1, <1>10, <2>2, <2>3, <2>4 DEF n
<1>12. CASE group = << >> /\ u.form # "twice" /\ ~Main!HeightLetter(u)
  <2>1. buffer = o.before[k]
    BY <1>12 DEF Parsed
  <2>2. Append(buffer, opt) = o.before[k + 1]
    BY <1>3, <1>5, <1>12, <2>1 DEF Options, opt
  <2>3. u.form \in {"long", "short", "--long=arg", "--long arg",
                    "-s arg", "-sarg"}
    BY <1>3, <1>12, UseFacts
  <2>4. Reads(u, R)
    <3>1. CASE u.form = "long"
      BY <1>3, <3>1, ReadLong
    <3>2. CASE u.form = "short"
      BY <1>3, <1>12, <3>2, ReadShort
    <3>3. CASE u.form \in {"--long=arg", "--long arg"}
      BY <1>3, <3>3, ReadLongArgument
    <3>4. CASE u.form \in {"-s arg", "-sarg"}
      BY <1>3, <1>12, <3>4, ReadShortArgument
    <3> QED
      BY <2>3, <3>1, <3>2, <3>3, <3>4
  <2> QED
    BY <1>1, <1>10, <1>12, <2>2, <2>4 DEF n
<1>13. CASE group = << >> /\ u.form = "twice"
  <2>1. buffer = o.before[k]
    BY <1>13 DEF Parsed
  <2>2. /\ pc' = pc /\ buffer' = Append(buffer, opt)
        /\ group' = << Main!RowOf(u.long).short >> /\ args' = args
    BY <1>3, <1>13, ReadShort DEF opt
  <2>3. group' # << >>
    BY <2>2
  <2>4. Asked(Append(buffer, opt)) <=>
          \E j \in 1 .. k + 1 : uses[j].long = "help"
    BY <1>7, <1>8, <1>13 DEF Parsed, u
  <2>5. Asked(buffer)' <=> Asked(Append(buffer, opt))
    BY <2>2 DEF Asked
  <2>6. args' = w.after[k] /\ buffer' # << >>
    BY <1>8, <2>2 DEF Parsed
  <2>7. Parsed(w, o, k)'
    BY <1>1, <1>2, <1>6, <1>13, <2>1, <2>2, <2>3, <2>4, <2>5, <2>6
    DEF Parsed, Main!IllFormed, Main!HeightLetter, u, opt, n, OptionOf, Flag
  <2> QED
    BY <1>1, <1>9, <2>2, <2>7 DEF n
(* The use is the height by its letter.                                    *)
<1>14. CASE group = << >> /\ Main!HeightLetter(u)
  <2> DEFINE help == [long |-> "help", arg |-> << >>]
  <2>1. /\ pc' = pc /\ buffer' = Append(buffer, help)
        /\ IF u.form = "-s arg"
           THEN group' = << >> /\ args' = << u.arg >> \o R
           ELSE group' = u.arg /\ args' = args
    BY <1>3, <1>14, ReadHelp
  <2>2. Asked(buffer)'
    <3>1. help \in Option /\ help.long = "help"
      <4>1. 1 \in Ten /\ Main!usage[1].long = "help"
        BY Longs DEF Ten
      <4>2. "help" \in Text
        BY <4>1 DEF Text
      <4> QED
        BY <4>2, EmptySeq DEF Option, Arg
    <3> HIDE DEF help
    <3>2. Asked(Append(buffer, help))
      BY <1>8, <3>1, AskedAppend
    <3> QED
      BY <2>1, <3>2 DEF Asked
  <2>3. args = w.after[k]
    BY DEF Parsed
  <2>4. Helped(w, k)'
    BY <1>1, <1>2, <1>6, <1>14, <2>1, <2>2, <2>3
    DEF Helped, Main!IllFormed, Main!HeightLetter, u, R, n
  <2> QED
    BY <1>1, <1>9, <2>1, <2>4 DEF n
<1> QED
  BY <1>11, <1>12, <1>13, <1>14

(* What becomes of the rest of the line when help was read for the height. *)
LEMMA HelpedStep ==
  ASSUME uses \in Seq(Use), NEW w \in Splits(Arg, AsWritten),
         NEW o \in Splits(Option, AsStored), NEW k \in 0 .. Len(uses),
         Helped(w, k)
  PROVE  /\ ~Main!LongOption
         /\ Main!ShortOption => /\ uses' = uses /\ settings' = settings
                                /\ pc' = "failed"
                                /\ ~Main!PrintsHelp(uses[k + 1])
         /\ Main!EndOptions => /\ uses' = uses /\ settings' = settings
                               /\ pc' = "usage"
                               /\ Main!PrintsHelp(uses[k + 1])
<1> DEFINE u == uses[k + 1]
           R == w.after[k + 1]
           a == u.arg
<1>1. /\ u \in Use /\ R \in Seq(Arg) /\ w.after[k] = Main!Written(u) \o R
      /\ Main!HeightLetter(u)
  BY AtUse DEF Helped
<1>2. /\ a \in Arg /\ a # << >> /\ ShortIndex(Head(a)) = 0
      /\ \/ Len(a) = 1
         \/ /\ Len(a) = 2 /\ a[1] = "-" /\ a[2] # "-"
            /\ ShortIndex(a[2]) = 0 /\ Head(Tail(a)) = a[2]
  BY <1>1, NumberIsNoOption
<1>3. /\ u.form \in {"-s arg", "-sarg"} /\ Asked(buffer)
      /\ u.form = "-s arg" => group = << >> /\ args = << a >> \o R
      /\ u.form # "-s arg" => group = a /\ args = Main!Written(u) \o R
  BY <1>1 DEF Helped, Main!HeightLetter
<1>4. /\ Main!ShortOption \/ Main!LongOption \/ Main!EndOptions =>
           uses' = uses /\ settings' = settings
      /\ Main!EndOptions => pc' = "usage" /\ ~Main!AtOption
      /\ Main!LongOption \/ Main!ShortOption => Main!AtOption
  BY <1>3 DEF Main!ShortOption, Main!LongOption, Main!EndOptions, Main!Take,
              Asked
<1>5. ASSUME Main!ShortOption, ShortIndex(Head(Main!Group)) = 0
      PROVE  pc' = "failed"
  <2> DEFINE g == Main!Group
             e == Len(g) > 1
             rest == Tail(g)
  <2>1. Main!Take(ShortIndex(Head(g)), Len(g) > 1, Tail(g), Tail(g))
    BY Zenon, <1>5, ShortOptionIs
  <2>2. Main!Take(0, e, rest, rest)
    BY Zenon, <1>5, <2>1
  <2> HIDE DEF g, e, rest
  <2> QED
    BY <2>2 DEF Main!Take, Main!Fail
<1>6. Main!PrintsHelp(u) <=> u.form = "-s arg" /\ Len(a) = 1
  BY DEF Main!PrintsHelp
<1> HIDE DEF u, R, a
<1>7. CASE u.form = "-s arg"
  <2>1. args # << >> /\ Head(args) = a
    <3>1. args = << a >> \o R /\ a \in Arg /\ R \in Seq(Arg)
      BY <1>1, <1>2, <1>3, <1>7
    <3> QED
      BY ONLY <3>1, HeadOfOne
  <2>2. CASE Len(a) = 1
    <3>1. ~Main!AtOption
      <4>1. ~(Len(a) > 1)
        BY ONLY <2>2
      <4> QED
        BY Zenon, <2>1, <4>1 DEF Main!AtOption
    <3> QED
      BY <1>4, <1>6, <1>7, <2>2, <3>1 DEF u
  <2>3. CASE Len(a) # 1
    <3>1. a # << "-", "-" >>
      BY <1>2, <2>3, NotTheEnd
    <3>2. Main!AtOption
      BY <1>2, <2>1, <2>3, <3>1 DEF Main!AtOption
    <3>3. ~Main!LongOption
      BY <1>2, <2>1, <2>3 DEF Main!LongOption
    <3>4. ShortIndex(Head(Main!Group)) = 0
      BY <1>2, <1>3, <1>7, <2>1, <2>3 DEF Main!Group
    <3> QED
      BY <1>4, <1>5, <1>6, <2>3, <3>2, <3>3, <3>4 DEF u
  <2> QED
    BY <2>2, <2>3
<1>8. CASE u.form = "-sarg"
  <2>1. Main!AtOption /\ ~Main!LongOption
    BY <1>1, <1>3, <1>8, ReadHelp
  <2>2. Main!Group = a
    BY <1>2, <1>3, <1>8 DEF Main!Group
  <2> QED
    BY <1>2, <1>4, <1>5, <1>6, <1>8, <2>1, <2>2 DEF u
<1> QED
  BY <1>3, <1>7, <1>8

-----------------------------------------------------------------------------
(* main.                                                                   *)

LEMMA DefaultFacts ==
  /\ \A k \in Ten : k \notin {1, 2} =>
       Main!usage[k].long \in DOMAIN Main!Default
  /\ "flp" \in DOMAIN Main!Default /\ Main!Default["flp"] = << >>
  /\ Main!Default = [long \in DOMAIN Main!Default |-> Main!Default[long]]
<1>1. DOMAIN Main!Default = {Main!usage[k].long : k \in 3 .. Len(Main!usage)}
  BY DEF Main!Default
<1>2. ASSUME NEW k \in Ten, k \notin {1, 2}
      PROVE  Main!usage[k].long \in DOMAIN Main!Default
  <2>1. k \in 3 .. 10
    BY <1>2 DEF Ten
  <2> QED
    BY <1>1, <2>1, TenRows
<1>3. "flp" \in DOMAIN Main!Default
  <2>1. Main!usage[7].long = "flp" /\ 7 \in Ten
    BY Longs DEF Ten
  <2> QED
    BY <1>2, <2>1
<1>4. Main!Default["flp"] = << >>
  BY <1>1, <1>3 DEF Main!Default
<1>5. Main!Default = [long \in DOMAIN Main!Default |-> Main!Default[long]]
  BY DEF Main!Default
<1> QED
  BY <1>2, <1>3, <1>4, <1>5

(* Of the first uses, the last has the greatest number.                    *)
LEMMA MaxOfNext ==
  ASSUME NEW d \in Nat, NEW T \in SUBSET (1 .. d)
  PROVE  Main!Max(T \cup {d + 1}) = d + 1
<1> DEFINE S == T \cup {d + 1}
<1>1. d + 1 \in S /\ \A y \in S : d + 1 >= y /\ y \in Nat
  OBVIOUS
<1>2. \A x \in S : (\A y \in S : x >= y) => x = d + 1
  BY <1>1
<1> HIDE DEF S
<1>3. Main!Max(S) = d + 1
  BY <1>1, <1>2 DEF Main!Max
<1> QED
  BY <1>3 DEF S

LEMMA MinDecisive ==
  ASSUME uses \in Seq(Use), NEW d \in Nat, d + 1 \in Main!Decisive,
         \A j \in 1 .. d : j \notin Main!Decisive
  PROVE  Main!Min(Main!Decisive) = d + 1
<1>1. Main!Decisive \subseteq 1 .. Len(uses) /\ Len(uses) \in Nat
  BY UsesFacts DEF Main!Decisive
<1>2. Main!Decisive \in SUBSET Nat /\ Main!Decisive # {}
      /\ \A j \in Main!Decisive : j >= 1
  BY <1>1
<1>3. Main!Min(Main!Decisive) = Min(Main!Decisive)
  BY DEF Main!Min, Min
<1>4. /\ Min(Main!Decisive) \in Main!Decisive
      /\ Min(Main!Decisive) <= d + 1
  BY <1>2, MinOfNaturals
<1> DEFINE m == Min(Main!Decisive)
<1> HIDE DEF m
<1>5. m \in Nat /\ m >= 1 /\ m <= d + 1 /\ m \notin 1 .. d
  BY <1>2, <1>4 DEF m
<1>6. m = d + 1
  BY <1>5
<1> QED
  BY <1>3, <1>6 DEF m

LEMMA EndParse ==
  ASSUME uses \in Seq(Use), NEW w \in Splits(Arg, AsWritten),
         NEW o \in Splits(Option, AsStored), NEW k \in 0 .. Len(uses),
         Parsed(w, o, k), settings = Main!Default, Main!EndOptions
  PROVE  /\ uses' = uses /\ settings' = settings /\ buffer' = buffer
         /\ \A j \in 1 .. Len(uses) :
              ~Main!IllFormed(uses[j]) /\ ~Main!HeightLetter(uses[j])
         /\ \/ /\ pc' = "usage"
               /\ uses = << >> \/ Main!UsesOf("help") # {}
            \/ pc' = "options" /\ Applied(o, 0)
<1> DEFINE n == Len(uses)
<1>1. /\ ~Main!AtOption /\ uses' = uses /\ settings' = settings
      /\ buffer' = buffer
      /\ pc' = IF Asked(buffer) \/ (args = << >> /\ buffer = << >>)
               THEN "usage" ELSE "options"
  BY DEF Main!EndOptions, Asked
<1>2. n \in Nat /\ DOMAIN uses = 1 .. n
  BY UsesFacts
<1>3. k = n
  <2> SUFFICES ASSUME k # n PROVE FALSE
    OBVIOUS
  <2>1. k < n
    <3>1. k \in 0 .. n
      OBVIOUS
    <3> HIDE DEF n
    <3> QED
      BY <1>2, <3>1
  <2> DEFINE u == uses[k + 1]
             R == w.after[k + 1]
  <2>2. u \in Use /\ R \in Seq(Arg) /\ args = Main!Written(u) \o R
    BY <2>1, AtUse DEF Parsed
  <2>3. group # << >> =>
          u.form = "twice" /\ group = << Main!RowOf(u.long).short >>
    BY DEF Parsed
  <2>4. u.form \in {"long", "short", "twice", "--long=arg", "--long arg",
                    "-s arg", "-sarg"}
    BY <2>2, UseFacts
  <2> HIDE DEF u, R
  <2>5. CASE u.form = "long"
    BY <1>1, <2>2, <2>5, ReadLong
  <2>6. CASE u.form \in {"short", "twice"}
    BY <1>1, <2>2, <2>3, <2>6, ReadShort
  <2>7. CASE u.form \in {"--long=arg", "--long arg"}
    BY <1>1, <2>2, <2>7, ReadLongArgument
  <2>8. CASE u.form \in {"-s arg", "-sarg"} /\ ~Main!HeightLetter(u)
    BY <1>1, <2>2, <2>3, <2>8, ReadShortArgument
  <2>9. CASE Main!HeightLetter(u)
    BY <1>1, <2>2, <2>9, ReadHelp
  <2> QED
    BY <2>4, <2>5, <2>6, <2>7, <2>8, <2>9
<1>4. group = << >>
  BY <1>2, <1>3 DEF Parsed
<1>5. /\ args = << >> /\ buffer = o.after[0]
      /\ \A j \in 1 .. n :
           ~Main!IllFormed(uses[j]) /\ ~Main!HeightLetter(uses[j])
      /\ Asked(buffer) <=> \E j \in 1 .. n : uses[j].long = "help"
      /\ buffer = << >> <=> n = 0
  BY <1>3, <1>4, AtUse DEF Parsed
<1>6. uses = << >> <=> n = 0
  OBVIOUS
<1>7. Main!UsesOf("help") # {} <=> Asked(buffer)
  BY <1>2, <1>5 DEF Main!UsesOf
<1>8. CASE Asked(buffer) \/ buffer = << >>
  BY <1>1, <1>5, <1>6, <1>7, <1>8
<1>9. CASE ~Asked(buffer) /\ buffer # << >>
  <2>1. \A long : Upto(0, long) = {}
    BY DEF Upto
  <2>2. settings = [long \in DOMAIN Main!Default |->
                      IF Upto(0, long) = {} THEN Main!Default[long]
                      ELSE Main!Kept(long, uses[Main!Max(Upto(0, long))].arg)]
    BY <2>1, DefaultFacts
  <2>3. settings["flp"] = << >> <=> Upto(0, "flp") = {}
    BY <2>1, DefaultFacts
  <2>4. Applied(o, 0)
    BY <1>5, <1>6, <1>9, <2>2, <2>3 DEF Applied
  <2> QED
    BY <1>1, <1>5, <1>9, <2>4
<1> QED
  BY <1>1, <1>5, <1>8, <1>9

LEMMA HeadOption ==
  ASSUME uses \in Seq(Use), NEW w \in Splits(Arg, AsWritten),
         NEW o \in Splits(Option, AsStored), NEW d \in 0 .. Len(uses),
         buffer = o.after[d]
  PROVE  /\ buffer # << >> <=> d < Len(uses)
         /\ d < Len(uses) =>
              LET u == uses[d + 1] IN
              /\ Head(buffer) = OptionOf(u) /\ u \in Use
              /\ u.form # "twice" => Tail(buffer) = o.after[d + 1]
<1> DEFINE n == Len(uses)
           u == uses[d + 1]
           R == o.after[d + 1]
<1>1. n \in Nat /\ o.after[n] = << >>
  BY AtUse, UsesFacts
<1>2. CASE d = n
  BY <1>1, <1>2
<1>3. CASE d # n
  <2>1. d < n
    BY <1>1, <1>3
  <2>2. u \in Use /\ R \in Seq(Option) /\ buffer = Options(u) \o R
    BY <2>1, AtUse
  <2>3. OptionOf(u) \in Option
    BY <2>2, OptionsIs
  <2> DEFINE e == OptionOf(u)
  <2> HIDE DEF u, R
  <2>4. CASE u.form = "twice"
    <3>1. buffer = << e, e >> \o R
      BY <2>2, <2>4 DEF Options
    <3> HIDE DEF e
    <3>2. buffer # << >> /\ Head(buffer) = e
      BY ONLY <2>2, <2>3, <3>1, HeadOfTwo DEF e
    <3> QED
      BY <2>1, <2>2, <2>4, <3>2 DEF e, u
  <2>5. CASE u.form # "twice"
    <3>1. buffer = << e >> \o R
      BY <2>2, <2>5 DEF Options
    <3> HIDE DEF e
    <3>2. buffer # << >> /\ Head(buffer) = e /\ Tail(buffer) = R
      BY ONLY <2>2, <2>3, <3>1, HeadOfOne DEF e
    <3> QED
      BY <2>1, <2>2, <3>2 DEF e, u, R
  <2> QED
    BY <2>4, <2>5
<1> QED
  BY <1>2, <1>3

(* How main is to end, once no use is ill-formed or asks for help.         *)
PromisedEnd == Main!EndGiven(Main!HeightLetters)

LEMMA Promised ==
  ASSUME uses \in Seq(Use), uses # << >>,
         \A j \in 1 .. Len(uses) :
           /\ ~Main!IllFormed(uses[j]) /\ ~Main!HeightLetter(uses[j])
           /\ uses[j].long # "help"
  PROVE  PromisedEnd =
           IF Main!Decisive # {}
           THEN Main!EndAt(uses[Main!Min(Main!Decisive)])
           ELSE IF Main!UsesOf("flp") = {} THEN "refused" ELSE "init"
<1>1. DOMAIN uses = 1 .. Len(uses)
  BY UsesFacts
<1>2. Main!UsesOf("help") = {} /\ Main!HeightLetters = {}
  BY <1>1 DEF Main!UsesOf, Main!HeightLetters
<1> QED
  BY <1>1, <1>2 DEF PromisedEnd, Main!EndGiven

(* The line is not read to its end.                                        *)
LEMMA PromisedEarly ==
  ASSUME uses \in Seq(Use)
  PROVE  /\ Wrong => PromisedEnd = "failed"
         /\ \A k \in 0 .. Len(uses) :
              /\ k < Len(uses) /\ Main!HeightLetter(uses[k + 1])
              /\ \A j \in 1 .. k :
                   ~Main!IllFormed(uses[j]) /\ ~Main!HeightLetter(uses[j])
              => PromisedEnd = IF Main!PrintsHelp(uses[k + 1])
                               THEN "usage" ELSE "failed"
<1> DEFINE n == Len(uses)
           H == Main!HeightLetters
<1>1. DOMAIN uses = 1 .. n /\ n \in Nat
  BY UsesFacts
<1>2. H = {j \in 1 .. n : Main!HeightLetter(uses[j])}
  BY <1>1 DEF Main!HeightLetters
<1> HIDE DEF n
<1>3. ASSUME NEW j \in 1 .. n, Main!IllFormed(uses[j]),
             \A i \in 1 .. j : ~Main!HeightLetter(uses[i])
      PROVE  PromisedEnd = "failed"
  <2>1. \A i \in H : j < i
    BY <1>1, <1>2, <1>3
  <2> QED
    BY <1>1, <1>3, <2>1 DEF PromisedEnd, Main!EndGiven
<1>4. ASSUME NEW k \in 0 .. n, k < n, Main!HeightLetter(uses[k + 1]),
             \A j \in 1 .. k :
               ~Main!IllFormed(uses[j]) /\ ~Main!HeightLetter(uses[j])
      PROVE  PromisedEnd = IF Main!PrintsHelp(uses[k + 1])
                           THEN "usage" ELSE "failed"
  <2>1. k + 1 \in 1 .. n /\ k + 1 \in H
    BY <1>1, <1>2, <1>4
  <2>2. H \in SUBSET Nat /\ H # {} /\ \A j \in H : j >= k + 1
    BY <1>1, <1>2, <1>4, <2>1
  <2>3. Main!Min(H) = k + 1
    <3>1. Main!Min(H) = Min(H)
      BY DEF Main!Min, Min
    <3> HIDE DEF H
    <3>2. Min(H) \in H /\ Min(H) <= k + 1
      BY <2>1, <2>2, MinOfNaturals
    <3>3. Min(H) \in Nat /\ Min(H) >= k + 1
      BY <2>2, <3>2
    <3> QED
      BY <1>1, <1>4, <3>1, <3>2, <3>3
  <2>4. ~\E j \in DOMAIN uses :
           Main!IllFormed(uses[j]) /\ \A i \in H : j < i
    BY <1>1, <1>4, <2>1
  <2> QED
    BY <2>2, <2>3, <2>4 DEF PromisedEnd, Main!EndGiven
<1> QED
  BY <1>3, <1>4 DEF Wrong, n

LEMMA ClearStep ==
  ASSUME uses \in Seq(Use), NEW w \in Splits(Arg, AsWritten),
         NEW o \in Splits(Option, AsStored), NEW d \in 0 .. Len(uses),
         Applied(o, d), Main!Clear
  PROVE  uses' = uses /\ pc' = "cleared" /\ PromisedEnd = "cleared"
<1>1. /\ buffer # << >> /\ Head(buffer).long = "clear"
      /\ uses' = uses /\ pc' = "cleared"
  BY DEF Main!Clear
<1>2. d < Len(uses) /\ Head(buffer) = OptionOf(uses[d + 1])
      /\ Len(uses) \in Nat
  BY <1>1, HeadOption, UsesFacts DEF Applied
<1>3. d + 1 \in 1 .. Len(uses) /\ d \in Nat
  BY <1>2
<1>4. uses[d + 1].long = "clear"
  BY <1>1, <1>2 DEF OptionOf
<1>5. d + 1 \in Main!Decisive
  BY <1>3, <1>4, UsesFacts DEF Main!Decisive
<1>6. Main!Min(Main!Decisive) = d + 1
  BY <1>3, <1>5, MinDecisive DEF Applied
<1> QED
  BY <1>1, <1>4, <1>5, <1>6, Promised DEF Applied, Main!EndAt

LEMMA SetStep ==
  ASSUME uses \in Seq(Use), NEW w \in Splits(Arg, AsWritten),
         NEW o \in Splits(Option, AsStored), NEW d \in 0 .. Len(uses),
         Applied(o, d), Main!Set, pc = "options"
  PROVE  /\ uses' = uses
         /\ \/ pc' \in {"aborted", "refused"} /\ PromisedEnd = pc'
            \/ pc' = "options" /\ \E e \in 0 .. Len(uses) : Applied(o, e)'
<1> DEFINE n == Len(uses)
           u == uses[d + 1]
           opt == Head(buffer)
           number == Main!RowOf(opt.long).check = "Numeric"
           S(e) == [long \in DOMAIN Main!Default |->
                      IF Upto(e, long) = {} THEN Main!Default[long]
                      ELSE Main!Kept(long, uses[Main!Max(Upto(e, long))].arg)]
<1>1. /\ buffer # << >> /\ opt.long # "clear" /\ uses' = uses
      /\ IF number /\ Main!IntOf(opt.arg) = Main!Throws
         THEN pc' = "aborted"
         ELSE IF number /\ Main!IntOf(opt.arg) < Main!RowOf(opt.long).least
         THEN pc' = "refused"
         ELSE /\ settings' = [settings EXCEPT
                   ![opt.long] = Main!Kept(opt.long, opt.arg)]
              /\ buffer' = Tail(buffer) /\ pc' = pc
  BY DEF Main!Set
<1>2. /\ d < n /\ n \in Nat /\ opt = OptionOf(u) /\ u \in Use
      /\ u.form # "twice" => Tail(buffer) = o.after[d + 1]
  BY <1>1, HeadOption, UsesFacts DEF Applied
<1>3. d + 1 \in 1 .. n /\ d + 1 \in 0 .. n /\ d \in Nat
  BY <1>2
<1>4. u.long # "clear" /\ u.long # "help" /\ opt.long = u.long
  BY <1>1, <1>2, <1>3 DEF OptionOf, Applied
<1>5. /\ ~Flag(u) /\ u.form # "twice" /\ opt.arg = u.arg
      /\ u.long \in DOMAIN Main!Default
      /\ Main!RowOf(u.long).least \in {0, 1}
  <2>1. PICK k \in Ten : /\ u.long = Main!usage[k].long
                         /\ Main!RowOf(u.long) = Main!usage[k]
                         /\ Flag(u) => k \in {1, 2}
                         /\ ~Flag(u) => k \notin {1, 2}
                         /\ u.form = "twice" => Flag(u)
    <3>1. PICK k \in Ten :
            /\ u.long = Main!usage[k].long
            /\ Main!RowOf(u.long) = Main!usage[k]
            /\ \/ Flag(u) /\ u.form \in {"long", "short", "twice"}
                          /\ k \in {1, 2}
               \/ ~Flag(u) /\ u.form \in {"--long=arg", "--long arg"}
               \/ ~Flag(u) /\ u.form \in {"-s arg", "-sarg"}
      BY <1>2, UseFacts
    <3>2. Flag(u) <=> k \in {1, 2}
      BY <3>1, CheckFacts DEF Flag
    <3>3. u.form = "twice" => Flag(u)
      BY <3>1
    <3> QED
      BY <3>1, <3>2, <3>3
  <2>2. k \notin {1, 2}
    BY <1>4, <2>1, Longs
  <2>3. ~Flag(u) /\ u.form # "twice"
    BY <2>1, <2>2
  <2>4. u.long \in DOMAIN Main!Default
    BY <2>1, <2>2, DefaultFacts
  <2>5. Main!usage[k].least \in {0, 1}
    BY Leasts DEF Ten
  <2> QED
    BY <1>2, <2>1, <2>3, <2>4, <2>5 DEF OptionOf
<1>6. Main!Throws < Main!RowOf(u.long).least
  BY <1>5 DEF Main!Throws
<1>7. CASE number /\ (\/ Main!IntOf(opt.arg) = Main!Throws
                      \/ Main!IntOf(opt.arg) < Main!RowOf(opt.long).least)
  <2>1. /\ Main!TooSmall(u)
        /\ pc' = IF Main!IntOf(u.arg) = Main!Throws THEN "aborted"
                 ELSE "refused"
    BY <1>1, <1>4, <1>5, <1>6, <1>7 DEF Main!TooSmall
  <2>2. d + 1 \in Main!Decisive
    BY <1>3, <2>1, UsesFacts DEF Main!Decisive
  <2>3. Main!Min(Main!Decisive) = d + 1
    BY <1>3, <2>2, MinDecisive DEF Applied
  <2> QED
    BY <1>1, <1>4, <2>1, <2>2, <2>3, Promised DEF Applied, Main!EndAt
<1>8. CASE ~(number /\ (\/ Main!IntOf(opt.arg) = Main!Throws
                        \/ Main!IntOf(opt.arg) < Main!RowOf(opt.long).least))
  <2>1. /\ settings' = [settings EXCEPT ![u.long] = Main!Kept(u.long, u.arg)]
        /\ buffer' = o.after[d + 1] /\ pc' = "options"
    BY <1>1, <1>2, <1>4, <1>5, <1>8
  <2>2. d + 1 \notin Main!Decisive
    <3>1. ~Main!TooSmall(u)
      BY <1>4, <1>5, <1>8 DEF Main!TooSmall
    <3> QED
      BY <1>4, <3>1 DEF Main!Decisive
  <2>3. \A j \in 1 .. d + 1 : j \notin Main!Decisive
    <3>1. \A j \in 1 .. d + 1 : j \in 1 .. d \/ j = d + 1
      BY <1>3
    <3> QED
      BY <2>2, <3>1 DEF Applied
  <2>4. ASSUME NEW long
        PROVE  /\ u.long = long =>
                    /\ Upto(d + 1, long) # {}
                    /\ Main!Max(Upto(d + 1, long)) = d + 1
               /\ u.long # long => Upto(d + 1, long) = Upto(d, long)
    <3>1. \A j : j \in 1 .. d + 1 <=> j \in 1 .. d \/ j = d + 1
      BY <1>3
    <3>2. d + 1 \in Main!UsesOf(long) <=> u.long = long
      BY <1>3, UsesFacts DEF Main!UsesOf
    <3>3. CASE u.long = long
      <4>1. Upto(d + 1, long) = Upto(d, long) \cup {d + 1}
        BY <3>1, <3>2, <3>3 DEF Upto
      <4>2. Upto(d, long) \in SUBSET (1 .. d)
        BY DEF Upto
      <4>3. Main!Max(Upto(d, long) \cup {d + 1}) = d + 1
        BY <1>3, <4>2, MaxOfNext
      <4> QED
        BY <3>3, <4>1, <4>3
    <3>4. CASE u.long # long
      BY <3>1, <3>2, <3>4 DEF Upto
    <3> QED
      BY <3>3, <3>4
  <2>5. settings = S(d)
    BY DEF Applied
  <2>6. settings' = S(d + 1)
    <3>1. ASSUME NEW long \in DOMAIN Main!Default
          PROVE  settings'[long] = S(d + 1)[long]
      <4>1. CASE u.long = long
        <5>1. settings'[long] = Main!Kept(u.long, u.arg)
          BY <2>1, <2>5, <4>1
        <5>2. S(d + 1)[long] = Main!Kept(long, uses[d + 1].arg)
          BY <2>4, <4>1
        <5> QED
          BY <4>1, <5>1, <5>2
      <4>2. CASE u.long # long
        <5>1. settings'[long] = S(d)[long]
          BY <2>1, <2>5, <4>2
        <5>2. Upto(d + 1, long) = Upto(d, long)
          BY <2>4, <4>2
        <5>3. S(d + 1)[long] = S(d)[long]
          BY <5>2
        <5> QED
          BY <5>1, <5>3
      <4> QED
        BY <4>1, <4>2
    <3>2. DOMAIN settings' = DOMAIN Main!Default
          /\ settings' = [long \in DOMAIN settings' |-> settings'[long]]
      BY <2>1, <2>5
    <3> QED
      BY <3>1, <3>2
  <2>7. settings'["flp"] = << >> <=> Upto(d + 1, "flp") = {}
    <3>1. CASE u.long = "flp"
      <4>1. settings'["flp"] = u.arg
        BY <2>1, <2>5, <3>1, DefaultFacts DEF Main!Kept
      <4>2. u.arg # << >>
        <5>1. ~Main!IllFormed(u)
          BY <1>3 DEF Applied
        <5>2. Main!RowOf(u.long).check = "Flp"
          <6>1. Main!usage[7].long = "flp" /\ Main!usage[7].check = "Flp"
                /\ 7 \in Ten
            BY Longs, Checks DEF Ten
          <6> QED
            BY <3>1, <6>1, LongIs
        <5> QED
          BY <5>1, <5>2 DEF Main!IllFormed, Main!Accepts
      <4> QED
        BY <2>4, <3>1, <4>1, <4>2
    <3>2. CASE u.long # "flp"
      <4>1. settings'["flp"] = settings["flp"]
        BY <2>1, <2>5, <3>2, DefaultFacts
      <4> QED
        BY <2>4, <3>2, <4>1 DEF Applied
    <3> QED
      BY <3>1, <3>2
  <2> HIDE DEF S
  <2>8. Applied(o, d + 1)'
    <3>1. Upto(d + 1, "flp")' = Upto(d + 1, "flp")
      BY <1>1 DEF Upto, Main!UsesOf
    <3>2. S(d + 1)' = S(d + 1)
      BY <1>1 DEF S, Upto, Main!UsesOf
    <3>3. settings' = S(d + 1)'
      BY <2>6, <3>2
    <3> QED
      BY <1>1, <2>1, <2>3, <2>7, <3>1, <3>3
      DEF Applied, S, Main!Decisive, Main!IllFormed, Main!HeightLetter,
          Main!TooSmall
  <2> QED
    BY <1>1, <1>3, <2>1, <2>8
<1> QED
  BY <1>7, <1>8

LEMMA EndStep ==
  ASSUME uses \in Seq(Use), NEW w \in Splits(Arg, AsWritten),
         NEW o \in Splits(Option, AsStored), NEW d \in 0 .. Len(uses),
         Applied(o, d), Main!EndSettings
  PROVE  /\ uses' = uses /\ settings' = settings
         /\ pc' = PromisedEnd
         /\ settings = Main!PromisedSettings
<1>1. /\ buffer = << >> /\ uses' = uses /\ settings' = settings
      /\ pc' = IF settings["flp"] = << >> THEN "refused" ELSE "init"
  BY DEF Main!EndSettings
<1>2. d = Len(uses)
  <2>1. ~(d < Len(uses)) /\ Len(uses) \in Nat
    BY <1>1, HeadOption, UsesFacts DEF Applied
  <2> QED
    BY <2>1
<1>3. Main!Decisive = {}
  BY <1>2, UsesFacts DEF Main!Decisive, Applied
<1>4. \A long : Upto(d, long) = Main!UsesOf(long)
  BY <1>2, UsesFacts DEF Upto, Main!UsesOf
<1>5. settings = Main!PromisedSettings
  BY <1>4 DEF Main!PromisedSettings, Applied
<1>6. settings["flp"] = << >> <=> Main!UsesOf("flp") = {}
  BY <1>4 DEF Applied
<1> QED
  BY <1>1, <1>3, <1>5, <1>6, Promised DEF Applied

LEMMA MainInit == Main!Init => MainInv
<1> SUFFICES ASSUME Main!Init PROVE MainInv
  OBVIOUS
<1>1. uses \in Seq(Use)
  <2>1. uses \in UNION {[1 .. m -> Use] : m \in 0 .. MaxUses}
    BY DEF Main!Init, Main!SeqOf
  <2>2. MaxUses \in Nat
    BY ServerAssumption DEF Main!MaxUsesAssumption
  <2>3. PICK m \in 0 .. MaxUses : uses \in [1 .. m -> Use]
    BY <2>1
  <2> QED
    BY <2>2, <2>3
<1>2. PICK w \in Splits(Arg, AsWritten) : TRUE
  BY <1>1, UsesFacts, Splittable
<1>3. PICK o \in Splits(Option, AsStored) : TRUE
  BY <1>1, UsesFacts, Splittable
<1>4. args = w.after[0]
  <2>1. Main!FlattenSeq(AsWritten) = w.after[0]
    BY <1>1, UsesFacts, Flattened
  <2> QED
    BY <2>1 DEF Main!Init, AsWritten
<1>5. /\ group = << >> /\ buffer = << >> /\ pc = "parse"
      /\ settings = Main!Default
  BY DEF Main!Init
<1>6. 0 \in 0 .. Len(uses)
  BY <1>1, UsesFacts
<1>7. o.before[0] = << >>
  BY <1>1, <1>6, AtUse
<1>8. ~Asked(buffer)
  BY <1>5 DEF Asked
<1>9. Parsed(w, o, 0)
  BY <1>4, <1>5, <1>7, <1>8 DEF Parsed
<1>10. UsageObeyed
  BY <1>5 DEF UsageObeyed, Main!UsageObeyed, Main!Ended
<1> QED
  BY <1>1, <1>5, <1>6, <1>9, <1>10 DEF MainInv

(* What is promised does not change, nor how the uses are cut.             *)
LEMMA SameUses ==
  ASSUME uses' = uses
  PROVE  /\ AsWritten' = AsWritten /\ AsStored' = AsStored
         /\ PromisedEnd' = PromisedEnd
         /\ Main!PromisedSettings' = Main!PromisedSettings
<1>1. AsWritten' = AsWritten /\ AsStored' = AsStored
  BY DEF AsWritten, AsStored
<1>2. PromisedEnd' = PromisedEnd
  BY DEF PromisedEnd, Main!EndGiven, Main!HeightLetters, Main!HeightLetter,
         Main!PrintsHelp, Main!EndAt, Main!UsesOf, Main!Decisive,
         Main!IllFormed, Main!TooSmall
<1>3. Main!PromisedSettings' = Main!PromisedSettings
  BY DEF Main!PromisedSettings, Main!UsesOf
<1> QED
  BY <1>1, <1>2, <1>3

LEMMA MainStep ==
  ASSUME MainInv, Main!Next
  PROVE  MainInv'
<1>1. pc \in {"parse", "options"}
  BY DEF Main!Next, Main!LongOption, Main!ShortOption, Main!Take,
         Main!EndOptions, Main!Clear, Main!Set, Main!EndSettings
<1>2. uses \in Seq(Use)
  BY DEF MainInv
<1>3. PICK w \in Splits(Arg, AsWritten), o \in Splits(Option, AsStored) :
        /\ pc = "parse" => /\ settings = Main!Default
                           /\ \E k \in 0 .. Len(uses) :
                                Parsed(w, o, k) \/ Helped(w, k)
        /\ pc = "options" => \E d \in 0 .. Len(uses) : Applied(o, d)
  BY <1>1 DEF MainInv
(* It is enough to stay in one of the two phases, or to end as promised.   *)
<1>5. ASSUME uses' = uses,
             \/ /\ pc' = "parse" /\ settings' = Main!Default
                /\ \E k \in 0 .. Len(uses) : Parsed(w, o, k)' \/ Helped(w, k)'
             \/ pc' = "options" /\ \E d \in 0 .. Len(uses) : Applied(o, d)'
             \/ /\ pc' = PromisedEnd /\ pc' \notin {"parse", "options"}
                /\ pc' = "init" => settings' = Main!PromisedSettings
      PROVE  MainInv'
  <2>1. UsageObeyed'
    BY <1>5, SameUses
    DEF UsageObeyed, Main!UsageObeyed, Main!Ended, PromisedEnd
  <2>2. uses' \in Seq(Use)
    BY <1>2, <1>5
  <2>3. w \in Splits(Arg, AsWritten') /\ o \in Splits(Option, AsStored')
    BY <1>5, SameUses
  <2>4. /\ pc' = "parse" => /\ settings' = Main!Default
                            /\ \E k \in 0 .. Len(uses') :
                                 Parsed(w, o, k)' \/ Helped(w, k)'
        /\ pc' = "options" => \E d \in 0 .. Len(uses') : Applied(o, d)'
    <3>1. pc' = "parse" => pc' # "options"
      OBVIOUS
    <3> QED
      BY <1>5, <3>1
  <2> QED
    BY <2>1, <2>2, <2>3, <2>4 DEF MainInv
<1>6. DOMAIN uses = 1 .. Len(uses)
  BY <1>2, UsesFacts
<1>7. ASSUME pc = "parse", NEW k \in 0 .. Len(uses), Parsed(w, o, k),
             Main!LongOption \/ Main!ShortOption
      PROVE  MainInv'
  <2>1. /\ uses' = uses /\ settings' = Main!Default
        /\ \/ pc' = "failed" /\ Wrong
           \/ /\ pc' = "parse"
              /\ \E m \in 0 .. Len(uses) : Parsed(w, o, m)' \/ Helped(w, m)'
    BY <1>2, <1>3, <1>7, ParseStep
  <2>2. CASE pc' = "failed"
    BY <1>2, <1>5, <2>1, <2>2, PromisedEarly
  <2>3. CASE pc' = "parse"
    BY <1>5, <2>1, <2>3
  <2> QED
    BY <2>1, <2>2, <2>3
<1>8. ASSUME pc = "parse", NEW k \in 0 .. Len(uses), Parsed(w, o, k),
             Main!EndOptions
      PROVE  MainInv'
  <2>1. /\ uses' = uses /\ buffer' = buffer /\ settings' = settings
        /\ \A j \in 1 .. Len(uses) :
             ~Main!IllFormed(uses[j]) /\ ~Main!HeightLetter(uses[j])
        /\ \/ /\ pc' = "usage"
              /\ uses = << >> \/ Main!UsesOf("help") # {}
           \/ pc' = "options" /\ Applied(o, 0)
    BY <1>2, <1>3, <1>8, EndParse
  <2>2. CASE pc' = "usage"
    <3>1. Main!HeightLetters = {}
      BY <1>6, <2>1 DEF Main!HeightLetters
    <3>2. PromisedEnd = "usage"
      BY <1>6, <2>1, <2>2, <3>1 DEF PromisedEnd, Main!EndGiven
    <3> QED
      BY <1>5, <2>1, <2>2, <3>2
  <2>3. CASE pc' = "options" /\ Applied(o, 0)
    <3>1. Applied(o, 0)'
      BY <2>1, <2>3
      DEF Applied, Upto, Main!UsesOf, Main!Decisive, Main!IllFormed,
          Main!HeightLetter, Main!TooSmall
    <3>2. 0 \in 0 .. Len(uses)
      BY <1>2, UsesFacts
    <3> QED
      BY <1>5, <2>1, <2>3, <3>1, <3>2
  <2> QED
    BY <2>1, <2>2, <2>3
<1>9. ASSUME pc = "parse", NEW k \in 0 .. Len(uses), Helped(w, k),
             Main!LongOption \/ Main!ShortOption \/ Main!EndOptions
      PROVE  MainInv'
  <2>1. /\ uses' = uses
        /\ pc' = IF Main!PrintsHelp(uses[k + 1]) THEN "usage" ELSE "failed"
    BY <1>2, <1>9, HelpedStep
  <2>2. pc' = PromisedEnd
    BY <1>2, <1>9, <2>1, PromisedEarly DEF Helped
  <2>3. pc' \in {"usage", "failed"}
    BY <2>1
  <2> QED
    BY <1>5, <2>1, <2>2, <2>3
<1>10. CASE pc = "options" /\ (Main!Clear \/ Main!Set \/ Main!EndSettings)
  <2>1. PICK d \in 0 .. Len(uses) : Applied(o, d)
    BY <1>3, <1>10
  <2>2. CASE Main!Clear
    BY <1>2, <1>5, <2>1, <2>2, ClearStep
  <2>3. CASE Main!Set
    BY <1>2, <1>5, <1>10, <2>1, <2>3, SetStep
  <2>4. CASE Main!EndSettings
    <3>1. /\ uses' = uses /\ settings' = settings
          /\ pc' = PromisedEnd
          /\ settings = Main!PromisedSettings
      BY <1>2, <2>1, <2>4, EndStep
    <3>2. pc' \in {"refused", "init"}
      BY <2>4 DEF Main!EndSettings
    <3> QED
      BY <1>5, <3>1, <3>2
  <2> QED
    BY <1>10, <2>2, <2>3, <2>4
<1>11. \/ /\ pc = "parse"
          /\ Main!LongOption \/ Main!ShortOption \/ Main!EndOptions
       \/ pc = "options" /\ (Main!Clear \/ Main!Set \/ Main!EndSettings)
  BY DEF Main!Next, Main!LongOption, Main!ShortOption, Main!Take,
         Main!EndOptions, Main!Clear, Main!Set, Main!EndSettings
<1> QED
  BY <1>3, <1>7, <1>8, <1>9, <1>10, <1>11

(* How main ends, of any command line however long and with any arguments: *)
(* each option in each of its forms means what the usage text says, but    *)
(* that the height's letter is help's, and that a number which begins with *)
(* no integer aborts main.                                                 *)
THEOREM UsageMeans == Main!Spec => []UsageObeyed
<1>1. MainInv /\ UNCHANGED Main!vars => MainInv'
  <2> SUFFICES ASSUME MainInv, UNCHANGED Main!vars PROVE MainInv'
    OBVIOUS
  <2>1. /\ uses' = uses /\ args' = args /\ group' = group
        /\ buffer' = buffer /\ pc' = pc /\ settings' = settings
    BY DEF Main!vars
  <2>2. UsageObeyed'
    BY <2>1, SameUses
    DEF MainInv, UsageObeyed, Main!UsageObeyed, Main!Ended, PromisedEnd
  <2>3. ASSUME NEW w, NEW o, NEW k
        PROVE  /\ Parsed(w, o, k)' <=> Parsed(w, o, k)
               /\ Helped(w, k)' <=> Helped(w, k)
               /\ Applied(o, k)' <=> Applied(o, k)
    BY <2>1 DEF Parsed, Helped, Applied, Asked, Upto, Main!UsesOf,
                Main!Decisive, Main!IllFormed, Main!HeightLetter,
                Main!TooSmall
  <2>4. AsWritten' = AsWritten /\ AsStored' = AsStored
    BY <2>1, SameUses
  <2> QED
    BY <2>1, <2>2, <2>3, <2>4 DEF MainInv
<1>2. MainInv /\ [Main!Next]_(Main!vars) => MainInv'
  BY <1>1, MainStep
<1>3. MainInv => UsageObeyed
  BY DEF MainInv
<1> QED
  BY <1>2, <1>3, MainInit, PTL DEF Main!Spec

-----------------------------------------------------------------------------
(* The parts side by side.                                                 *)

(* In the model that is checked each part does only what its module says.  *)
LEMMA ServerParts ==
  ServerSpec => Spec /\ Bar!Spec /\ Menus!Spec /\ Main!Spec
<1>1. ServerInit => Init /\ Bar!Init /\ Menus!Init /\ Main!Init
  BY DEF ServerInit
<1>2. [ServerNext]_all => /\ [Next]_vars /\ [Bar!Next]_(Bar!vars)
                          /\ [Menus!Next]_(Menus!vars)
                          /\ [Main!Next]_(Main!vars)
  BY DEF ServerNext, TimerNext, ScrollBarNext, MenuBarNext, CommandLineNext,
         MainIsDone, all, vars, barVars, menuVars, mainVars, Menus!vars,
         Bar!vars, Bar!slider, Bar!parts, Bar!mouse, Bar!queue,
         Main!vars
<1> QED
  BY <1>1, <1>2, PTL DEF ServerSpec, Spec, Bar!Spec, Menus!Spec, Main!Spec

(* So what is proved of the parts holds of the model, for any timers,      *)
(* tracks, queues and documented uses.                                     *)
THEOREM ServerSafe ==
  ServerSpec =>
    /\ [](NapInTime /\ NeverForgotten /\ StoppedIsQuiet)
    /\ [](SliderInRange /\ SliderShowsPosition)
    /\ OpensUnselected
    /\ []UsageObeyed
BY ServerParts, TimerNap, TimerRemembered, TimerQuiet, BarSlider, BarShows,
   MenusUnselected, UsageMeans, PTL

=============================================================================
