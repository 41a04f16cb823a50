---------------------------- MODULE ThreadsProofs ----------------------------
(***************************************************************************)
(* The parts of dlib whose threads wait for one another, for any number of *)
(* widgets, functions, threads, objects and menus:                         *)
(*   - the length of the queue of user events tells whether a thread is    *)
(*     out for it, each widget gets its events in order although a second  *)
(*     thread may be out while the first delivers, and none is delivered   *)
(*     to a widget that is gone;                                           *)
(*   - the thread pool's counts are right, it is destroyed only when       *)
(*     nothing runs, a function in the slot has a thread coming, none is   *)
(*     called twice and no caller sleeps beside an empty slot;             *)
(*   - no callback of the image window runs outside its life, neither of   *)
(*     the server's two threads waits for what is not under way, and       *)
(*     nothing is left when they have ended;                               *)
(*   - what is proved of the threaded object and of the recursive mutex    *)
(*     holds where they are put side by side with the others.              *)
(***************************************************************************)
EXTENDS MCThreads, SequenceTheorems, FiniteSetTheorems, TLAPS

-----------------------------------------------------------------------------
(* User events.                                                            *)

Places == {"none", "started", "locked", "dispatching"}

EventTypes ==
  /\ user_events \in Seq(Event) /\ user_events_temp \in Seq(Event)
  /\ at \in 0 .. Len(user_events_temp)
  /\ thread \in [Pool -> Places]
  /\ member \subseteq alive /\ alive \subseteq Widget
  /\ posted \in 0 .. MaxPosts /\ failures \in 0 .. MaxFailures
  /\ got \in [Widget -> Seq(1 .. MaxPosts)]

(* A thread at work on the queue has the window's mutex, and what it took  *)
(* is gone when it gives the mutex back: a swap leaves the queue empty.    *)
MutexHeld ==
  /\ \A t \in Pool : thread[t] \in {"locked", "dispatching"} => holder = {t}
  /\ (\A t \in Pool : thread[t] # "dispatching") => user_events_temp = << >>

(* The queue is empty and nobody is out for it, or one thread is.          *)
OneOut ==
  failures = 0 => IF user_events = << >> THEN Waiting = {}
                  ELSE \E t \in Pool : Waiting = {t}

(* Delivered events are older than those still to be delivered by the      *)
(* thread that took them, and these older than the queue.                  *)
QueueOrder ==
  /\ \A i, j \in 1 .. Len(user_events) :
       i < j => user_events[i].id < user_events[j].id
  /\ \A j \in 1 .. Len(user_events) : user_events[j].id <= posted

TakenOrder ==
  /\ \A i, j \in 1 .. Len(user_events_temp) :
       i < j => user_events_temp[i].id < user_events_temp[j].id
  /\ \A i \in 1 .. Len(user_events_temp) :
       /\ user_events_temp[i].id <= posted
       /\ \A j \in 1 .. Len(user_events) :
            user_events_temp[i].id < user_events[j].id

GotOrder ==
  \A d \in Widget : \A k \in 1 .. Len(got[d]) :
    /\ got[d][k] <= posted
    /\ \A i \in at + 1 .. Len(user_events_temp) :
         got[d][k] < user_events_temp[i].id
    /\ \A j \in 1 .. Len(user_events) : got[d][k] < user_events[j].id

EventOrder == QueueOrder /\ TakenOrder /\ GotOrder /\ InOrder

EventsInv == EventTypes /\ MutexHeld /\ OneOut /\ EventOrder

-----------------------------------------------------------------------------

LEMMA InitEventsInv == Init => EventsInv
<1> SUFFICES ASSUME Init PROVE EventsInv
  OBVIOUS
<1>1. EventTypes /\ MutexHeld
  BY UserEventsAssumption DEF Init, EventTypes, MutexHeld, Places
<1>2. OneOut
  BY DEF Init, OneOut, Waiting
<1>3. EventOrder
  BY DEF Init, EventOrder, QueueOrder, TakenOrder, GotOrder, InOrder
<1> QED
  BY <1>1, <1>2, <1>3 DEF EventsInv

(* The queue with one event more.                                          *)
LEMMA AppendEvent ==
  ASSUME NEW q \in Seq(Event), NEW e \in Event
  PROVE  /\ Append(q, e) \in Seq(Event)
         /\ Append(q, e) # << >>
         /\ Len(Append(q, e)) = Len(q) + 1
         /\ \A i \in 1 .. Len(q) : Append(q, e)[i] = q[i]
         /\ Append(q, e)[Len(q) + 1] = e
BY AppendProperties

(* What is in a queue of events.                                           *)
LEMMA EventOf ==
  ASSUME NEW q \in Seq(Event), NEW i \in 1 .. Len(q)
  PROVE  q[i].widget \in Widget /\ q[i].id \in 1 .. MaxPosts /\ q[i].id \in Int
<1>1. q[i] \in Event
  BY ElementOfSeq
<1> QED
  BY <1>1, UserEventsAssumption DEF Event

LEMMA EnqueueEventsInv ==
  ASSUME EventsInv, NEW d \in Widget, Enqueue(d)
  PROVE  EventsInv'
<1> DEFINE e == [widget |-> d, id |-> posted + 1]
<1>1. EventTypes /\ MutexHeld /\ OneOut /\ EventOrder
  BY DEF EventsInv
<1>2. /\ posted < MaxPosts /\ posted' = posted + 1
      /\ user_events' = Append(user_events, e)
      /\ UNCHANGED << user_events_temp, at, holder, member, alive, in_table,
                      got >>
      /\ IF Len(user_events') = 1 THEN StartThread \/ StartFails
                                  ELSE UNCHANGED << thread, failures >>
  BY DEF Enqueue, Enqueued, First, window
<1>3. e \in Event /\ posted \in Nat /\ MaxPosts \in Nat
  BY <1>1, <1>2, UserEventsAssumption DEF EventTypes, Event
<1> HIDE DEF e
<1>4. /\ user_events' \in Seq(Event)
      /\ user_events' # << >>
      /\ Len(user_events') = Len(user_events) + 1
      /\ \A i \in 1 .. Len(user_events) : user_events'[i] = user_events[i]
      /\ user_events'[Len(user_events) + 1] = e
      /\ Len(user_events) \in Nat
  BY <1>1, <1>2, <1>3, AppendEvent DEF EventTypes
<1>5. \/ UNCHANGED << thread, failures >>
      \/ StartFails
      \/ StartThread
  BY <1>2
<1>6. /\ thread' \in [Pool -> Places] /\ failures' \in 0 .. MaxFailures
      /\ \A t \in Pool : thread'[t] = "locked" <=> thread[t] = "locked"
      /\ \A t \in Pool :
           thread'[t] = "dispatching" <=> thread[t] = "dispatching"
  <2>1. CASE UNCHANGED << thread, failures >>
    BY <1>1, <2>1 DEF EventTypes
  <2>2. CASE StartFails
    BY <1>1, <2>2, UserEventsAssumption DEF EventTypes, StartFails
  <2>3. CASE StartThread
    BY <1>1, <2>3 DEF EventTypes, StartThread, Places
  <2> QED
    BY <1>5, <2>1, <2>2, <2>3
<1>7. EventTypes'
  BY <1>1, <1>2, <1>3, <1>4, <1>6 DEF EventTypes
<1>8. MutexHeld'
  BY <1>1, <1>2, <1>6 DEF EventTypes, MutexHeld, Places
<1>9. OneOut'
  <2> SUFFICES ASSUME failures' = 0
               PROVE  \E t \in Pool : Waiting' = {t}
    BY <1>4 DEF OneOut
  <2>1. CASE Len(user_events') = 1
    <3>1. StartThread /\ failures = 0
      BY <1>1, <1>2, <2>1, UserEventsAssumption
      DEF StartThread, StartFails, EventTypes
    <3>2. Waiting = {}
      BY <1>1, <1>4, <2>1, <3>1 DEF OneOut, EventTypes
    <3>3. PICK t \in Pool : /\ thread[t] = "none"
                            /\ thread' = [thread EXCEPT ![t] = "started"]
      BY <3>1 DEF StartThread
    <3>4. Waiting' = {t}
      BY <1>1, <3>2, <3>3 DEF EventTypes, Waiting
    <3> QED
      BY <3>4
  <2>2. CASE Len(user_events') # 1
    <3>1. UNCHANGED << thread, failures >> /\ user_events # << >>
      BY <1>1, <1>2, <1>4, <2>2 DEF EventTypes
    <3> QED
      BY <1>1, <3>1 DEF OneOut, Waiting
  <2> QED
    BY <2>1, <2>2
<1>10. e.id = posted + 1
  BY DEF e
<1>11. \A j \in 1 .. Len(user_events) :
         user_events[j].id <= posted /\ user_events[j].id \in Int
  BY <1>1, EventOf DEF EventTypes, EventOrder, QueueOrder
<1>12. QueueOrder'
  <2>1. \A i, j \in 1 .. Len(user_events) :
          i < j => user_events[i].id < user_events[j].id
    BY <1>1 DEF EventOrder, QueueOrder
  <2>2. ASSUME NEW i \in 1 .. Len(user_events'),
               NEW j \in 1 .. Len(user_events'),
               i < j
        PROVE  user_events'[i].id < user_events'[j].id
    <3>1. i \in 1 .. Len(user_events) /\ user_events'[i] = user_events[i]
      BY <1>4, <2>2
    <3>2. CASE j = Len(user_events) + 1
      BY <1>3, <1>4, <1>10, <1>11, <3>1, <3>2
    <3>3. CASE j # Len(user_events) + 1
      BY <1>4, <2>1, <2>2, <3>1, <3>3
    <3> QED
      BY <3>2, <3>3
  <2>3. ASSUME NEW j \in 1 .. Len(user_events')
        PROVE  user_events'[j].id <= posted'
    <3>1. CASE j = Len(user_events) + 1
      BY <1>2, <1>3, <1>4, <1>10, <3>1
    <3>2. CASE j # Len(user_events) + 1
      BY <1>2, <1>3, <1>4, <1>11, <3>2
    <3> QED
      BY <3>1, <3>2
  <2> QED
    BY <2>2, <2>3 DEF QueueOrder
<1>13. TakenOrder'
  <2>1. \A i \in 1 .. Len(user_events_temp) :
          /\ user_events_temp[i].id <= posted /\ user_events_temp[i].id \in Int
          /\ \A j \in 1 .. Len(user_events) :
               user_events_temp[i].id < user_events[j].id
    BY <1>1, EventOf DEF EventTypes, EventOrder, TakenOrder
  <2>2. ASSUME NEW i \in 1 .. Len(user_events_temp),
               NEW j \in 1 .. Len(user_events')
        PROVE  user_events_temp[i].id < user_events'[j].id
    <3>1. CASE j = Len(user_events) + 1
      BY <1>3, <1>4, <1>10, <2>1, <3>1
    <3>2. CASE j # Len(user_events) + 1
      BY <1>4, <2>1, <3>2
    <3> QED
      BY <3>1, <3>2
  <2>3. \A i \in 1 .. Len(user_events_temp) : user_events_temp[i].id <= posted'
    BY <1>2, <1>3, <2>1
  <2> QED
    BY <1>1, <1>2, <2>2, <2>3 DEF EventOrder, TakenOrder
<1>14. GotOrder'
  <2> SUFFICES ASSUME NEW w \in Widget, NEW k \in 1 .. Len(got[w])
               PROVE  /\ got[w][k] <= posted'
                      /\ \A i \in at + 1 .. Len(user_events_temp) :
                           got[w][k] < user_events_temp[i].id
                      /\ \A j \in 1 .. Len(user_events') :
                           got[w][k] < user_events'[j].id
    BY <1>2 DEF GotOrder
  <2>1. /\ got[w][k] \in Int /\ got[w][k] <= posted
        /\ \A i \in at + 1 .. Len(user_events_temp) :
             got[w][k] < user_events_temp[i].id
        /\ \A j \in 1 .. Len(user_events) : got[w][k] < user_events[j].id
    <3>1. got[w] \in Seq(1 .. MaxPosts)
      BY <1>1 DEF EventTypes
    <3>2. got[w][k] \in Int
      BY <1>3, <3>1, ElementOfSeq
    <3> QED
      BY <1>1, <3>2 DEF EventOrder, GotOrder
  <2>2. ASSUME NEW j \in 1 .. Len(user_events')
        PROVE  got[w][k] < user_events'[j].id
    <3>1. CASE j = Len(user_events) + 1
      BY <1>3, <1>4, <1>10, <2>1, <3>1
    <3>2. CASE j # Len(user_events) + 1
      BY <1>4, <2>1, <3>2
    <3> QED
      BY <3>1, <3>2
  <2> QED
    BY <1>2, <1>3, <2>1, <2>2
<1>15. InOrder'
  BY <1>1, <1>2 DEF EventOrder, InOrder
<1> QED
  BY <1>7, <1>8, <1>9, <1>12, <1>13, <1>14, <1>15 DEF EventsInv, EventOrder

(* Steps that move neither events nor their order.                         *)
LEMMA SameOrder ==
  ASSUME EventOrder, UNCHANGED << queues, posted, got >>
  PROVE  EventOrder'
BY DEF queues, EventOrder, QueueOrder, TakenOrder, GotOrder, InOrder

LEMMA MutexEventsInv ==
  ASSUME EventsInv, NEW who \in {Main, Handler}, Lock(who) \/ Unlock(who)
  PROVE  EventsInv'
<1>1. EventTypes /\ MutexHeld /\ OneOut /\ EventOrder
  BY DEF EventsInv
<1>2. /\ UNCHANGED << queues, thread, window, posted, failures, got >>
      /\ \A t \in Pool : holder # {t}
  BY UserEventsAssumption DEF Lock, Unlock
<1>3. EventTypes' /\ OneOut'
  BY <1>1, <1>2 DEF EventTypes, OneOut, Waiting, queues, window
<1>4. MutexHeld'
  BY <1>1, <1>2 DEF MutexHeld, queues
<1>5. EventOrder'
  BY <1>1, <1>2, SameOrder
<1> QED
  BY <1>3, <1>4, <1>5 DEF EventsInv

LEMMA WindowEventsInv ==
  ASSUME EventsInv,
         CloseWindow \/ \E d \in Widget : DisableEvents(d) \/ Destroyed(d)
  PROVE  EventsInv'
<1>1. EventTypes /\ MutexHeld /\ OneOut /\ EventOrder
  BY DEF EventsInv
<1>2. UNCHANGED << queues, thread, holder, posted, failures, got >>
  BY DEF CloseWindow, DisableEvents, Destroyed
<1>3. member' \subseteq alive' /\ alive' \subseteq Widget
  BY <1>1 DEF EventTypes, CloseWindow, DisableEvents, Destroyed
<1>4. EventTypes' /\ MutexHeld' /\ OneOut'
  BY <1>1, <1>2, <1>3 DEF EventTypes, MutexHeld, OneOut, Waiting, queues
<1>5. EventOrder'
  BY <1>1, <1>2, SameOrder
<1> QED
  BY <1>4, <1>5 DEF EventsInv

LEMMA AcquireEventsInv ==
  ASSUME EventsInv, NEW t \in Pool, Acquire(t)
  PROVE  EventsInv'
<1>1. EventTypes /\ MutexHeld /\ OneOut /\ EventOrder
  BY DEF EventsInv
<1>2. /\ thread[t] = "started" /\ thread' = [thread EXCEPT ![t] = "locked"]
      /\ holder = {} /\ holder' = {t}
      /\ UNCHANGED << queues, window, posted, failures, got >>
  BY DEF Acquire, Granted
<1>3. EventTypes'
  BY <1>1, <1>2 DEF EventTypes, queues, window, Places
<1>4. MutexHeld'
  <2>1. \A u \in Pool : thread[u] \notin {"locked", "dispatching"}
    BY <1>1, <1>2 DEF MutexHeld
  <2>2. user_events_temp = << >>
    BY <1>1, <2>1 DEF MutexHeld
  <2> QED
    BY <1>1, <1>2, <2>1, <2>2 DEF MutexHeld, EventTypes, queues
<1>5. OneOut'
  <2>1. Waiting' = Waiting
    BY <1>1, <1>2 DEF EventTypes, Waiting
  <2> QED
    BY <1>1, <1>2, <2>1 DEF OneOut, queues
<1>6. EventOrder'
  BY <1>1, <1>2, SameOrder
<1> QED
  BY <1>3, <1>4, <1>5, <1>6 DEF EventsInv

(* What is swapped in for the queue is empty.                              *)
LEMMA SwapEventsInv ==
  ASSUME EventsInv, NEW t \in Pool, Swap(t)
  PROVE  EventsInv'
<1>1. EventTypes /\ MutexHeld /\ OneOut /\ EventOrder
  BY DEF EventsInv
<1>2. /\ thread[t] = "locked" /\ thread' = [thread EXCEPT ![t] = "dispatching"]
      /\ user_events' = user_events_temp /\ user_events_temp' = user_events
      /\ at' = 0
      /\ UNCHANGED << holder, member, alive, posted, failures, got >>
  BY DEF Swap, window
<1>3. holder = {t} /\ \A u \in Pool : thread[u] # "dispatching"
  BY <1>1, <1>2 DEF MutexHeld
<1>4. user_events_temp = << >>
  BY <1>1, <1>3 DEF MutexHeld
<1>5. EventTypes'
  BY <1>1, <1>2 DEF EventTypes, Places
<1>6. MutexHeld'
  BY <1>1, <1>2, <1>3 DEF MutexHeld, EventTypes
<1>7. OneOut'
  <2> SUFFICES ASSUME failures = 0 PROVE Waiting' = {}
    BY <1>2, <1>4 DEF OneOut
  <2>1. t \in Waiting
    BY <1>2 DEF Waiting
  <2>2. Waiting = {t}
    BY <1>1, <2>1 DEF OneOut
  <2>3. Waiting' = Waiting \ {t}
    BY <1>1, <1>2 DEF EventTypes, Waiting
  <2> QED
    BY <2>2, <2>3
<1>8. QueueOrder' /\ InOrder'
  BY <1>1, <1>2, <1>4 DEF QueueOrder, EventOrder, InOrder
<1>9. TakenOrder'
  BY <1>1, <1>2, <1>4 DEF TakenOrder, EventOrder, QueueOrder
<1>10. GotOrder'
  BY <1>1, <1>2, <1>4 DEF EventOrder, GotOrder
<1> QED
  BY <1>5, <1>6, <1>7, <1>8, <1>9, <1>10 DEF EventsInv, EventOrder

(* What is delivered is younger than what was delivered before.            *)
LEMMA DispatchEventsInv ==
  ASSUME EventsInv, NEW t \in Pool, Dispatch(t)
  PROVE  EventsInv'
<1> DEFINE e == user_events_temp[at + 1]
<1>1. EventTypes /\ MutexHeld /\ OneOut /\ EventOrder
  BY DEF EventsInv
<1>2. /\ at < Len(user_events_temp) /\ at' = at + 1
      /\ \/ got' = [got EXCEPT ![e.widget] = Append(@, e.id)]
         \/ got' = got
      /\ UNCHANGED << user_events, user_events_temp, thread, holder, member,
                      alive, posted, failures >>
  BY DEF Dispatch, window
<1>3. /\ at + 1 \in 1 .. Len(user_events_temp)
      /\ at \in Int /\ Len(user_events_temp) \in Nat /\ posted \in Nat
  BY <1>1, <1>2, UserEventsAssumption DEF EventTypes
<1>4. e.widget \in Widget /\ e.id \in 1 .. MaxPosts /\ e.id \in Int
  BY <1>1, <1>3, EventOf DEF EventTypes
<1>5. /\ e.id <= posted
      /\ \A i \in at + 2 .. Len(user_events_temp) :
           e.id < user_events_temp[i].id
      /\ \A j \in 1 .. Len(user_events) : e.id < user_events[j].id
  BY <1>1, <1>3 DEF EventOrder, TakenOrder
<1>6. \A d \in Widget : \A k \in 1 .. Len(got[d]) :
        got[d][k] < e.id /\ got[d][k] \in Int
  <2> SUFFICES ASSUME NEW d \in Widget, NEW k \in 1 .. Len(got[d])
               PROVE  got[d][k] < e.id /\ got[d][k] \in Int
    OBVIOUS
  <2>1. got[d] \in Seq(1 .. MaxPosts)
    BY <1>1 DEF EventTypes
  <2>2. got[d][k] \in Int
    BY <2>1, ElementOfSeq, UserEventsAssumption
  <2> QED
    BY <1>1, <1>3, <2>2 DEF EventOrder, GotOrder
<1>7. \A d \in Widget : got[d] \in Seq(1 .. MaxPosts) /\ Len(got[d]) \in Nat
  BY <1>1 DEF EventTypes
<1> DEFINE w == e.widget
           q == Append(got[w], e.id)
<1> HIDE DEF e
<1>8. /\ q \in Seq(1 .. MaxPosts) /\ Len(q) = Len(got[w]) + 1
      /\ \A k \in 1 .. Len(got[w]) : q[k] = got[w][k]
      /\ q[Len(got[w]) + 1] = e.id
  BY <1>4, <1>7, AppendProperties
<1>9. \/ got' = [got EXCEPT ![w] = q]
      \/ got' = got
  BY <1>2
<1> HIDE DEF q, w
<1>10. w \in Widget /\ got \in [Widget -> Seq(1 .. MaxPosts)]
  BY <1>1, <1>4 DEF w, EventTypes
<1>11. \A d \in Widget : got'[d] = got[d] \/ (d = w /\ got'[d] = q)
  BY <1>9, <1>10
<1>12. EventTypes' /\ MutexHeld' /\ OneOut'
  <2>1. got' \in [Widget -> Seq(1 .. MaxPosts)]
    BY <1>8, <1>9, <1>10
  <2> QED
    BY <1>1, <1>2, <1>3, <2>1
    DEF EventTypes, MutexHeld, OneOut, Waiting
<1>13. QueueOrder' /\ TakenOrder'
  BY <1>1, <1>2 DEF EventOrder, QueueOrder, TakenOrder
<1>14. GotOrder'
  <2> SUFFICES ASSUME NEW d \in Widget, NEW k \in 1 .. Len(got'[d])
               PROVE  /\ got'[d][k] <= posted
                      /\ \A i \in at + 2 .. Len(user_events_temp) :
                           got'[d][k] < user_events_temp[i].id
                      /\ \A j \in 1 .. Len(user_events) :
                           got'[d][k] < user_events[j].id
    BY <1>2, <1>3 DEF GotOrder
  <2>1. CASE k \in 1 .. Len(got[d]) /\ got'[d][k] = got[d][k]
    BY <1>1, <1>3, <2>1 DEF EventOrder, GotOrder
  <2>2. CASE got'[d][k] = e.id
    BY <1>5, <2>2
  <2> QED
    <3>1. CASE got'[d] = got[d]
      BY <2>1, <3>1
    <3>2. CASE d = w /\ got'[d] = q
      <4>1. k \in 1 .. Len(got[d]) \/ k = Len(got[d]) + 1
        BY <1>7, <1>8, <3>2
      <4>2. got'[d][k] = got[d][k] \/ got'[d][k] = e.id
        BY <1>8, <3>2, <4>1
      <4> QED
        BY <1>8, <2>1, <2>2, <3>2, <4>1, <4>2
    <3> QED
      BY <1>11, <3>1, <3>2
<1>15. InOrder'
  <2> SUFFICES ASSUME NEW d \in Widget,
                      NEW i \in 1 .. Len(got'[d]), NEW j \in 1 .. Len(got'[d]),
                      i < j
               PROVE  got'[d][i] < got'[d][j]
    BY DEF InOrder
  <2>1. CASE got'[d] = got[d]
    BY <1>1, <2>1 DEF EventOrder, InOrder
  <2>2. CASE /\ Len(got'[d]) = Len(got[d]) + 1
             /\ \A k \in 1 .. Len(got[d]) : got'[d][k] = got[d][k]
             /\ got'[d][Len(got[d]) + 1] = e.id
    <3>1. i \in 1 .. Len(got[d]) /\ got'[d][i] = got[d][i]
      BY <1>7, <2>2
    <3>2. CASE j = Len(got[d]) + 1
      BY <1>6, <2>2, <3>1, <3>2
    <3>3. CASE j # Len(got[d]) + 1
      <4>1. j \in 1 .. Len(got[d]) /\ got'[d][j] = got[d][j]
        BY <1>7, <2>2, <3>3
      <4> QED
        BY <1>1, <3>1, <4>1 DEF EventOrder, InOrder
    <3> QED
      BY <3>2, <3>3
  <2> QED
    BY <1>8, <1>11, <2>1, <2>2
<1> QED
  BY <1>12, <1>13, <1>14, <1>15 DEF EventsInv, EventOrder

LEMMA FinishEventsInv ==
  ASSUME EventsInv, NEW t \in Pool, Finish(t)
  PROVE  EventsInv'
<1>1. EventTypes /\ MutexHeld /\ OneOut /\ EventOrder
  BY DEF EventsInv
<1>2. /\ thread[t] = "dispatching" /\ thread' = [thread EXCEPT ![t] = "none"]
      /\ user_events_temp' = << >> /\ at' = 0
      /\ holder' = holder \ {t}
      /\ UNCHANGED << user_events, member, alive, posted, failures, got >>
  BY DEF Finish, Clear, window
<1>3. EventTypes'
  BY <1>1, <1>2 DEF EventTypes, Places
<1>4. MutexHeld'
  <2>1. \A u \in Pool \ {t} : thread[u] \notin {"locked", "dispatching"}
    BY <1>1, <1>2 DEF MutexHeld
  <2> QED
    BY <1>1, <1>2, <2>1 DEF MutexHeld, EventTypes
<1>5. OneOut'
  <2>1. Waiting' = Waiting
    BY <1>1, <1>2 DEF EventTypes, Waiting
  <2> QED
    BY <1>1, <1>2, <2>1 DEF OneOut
<1>6. EventOrder'
  BY <1>1, <1>2 DEF EventOrder, QueueOrder, TakenOrder, GotOrder, InOrder
<1> QED
  BY <1>3, <1>4, <1>5, <1>6 DEF EventsInv

LEMMA NextEventsInv == EventsInv /\ [Next]_vars => EventsInv'
<1> SUFFICES ASSUME EventsInv, [Next]_vars
             PROVE  EventsInv'
  OBVIOUS
<1>1. CASE UNCHANGED vars
  <2>1. EventOrder'
    BY <1>1, SameOrder DEF EventsInv, vars
  <2> QED
    BY <1>1, <2>1 DEF vars, queues, window, EventsInv, EventTypes, MutexHeld,
                      OneOut, Waiting
<1>2. ASSUME NEW d \in Widget,
             Post(d) \/ PostFromCallback(d) \/ DisableEvents(d) \/ Destroyed(d)
      PROVE  EventsInv'
  BY <1>2, EnqueueEventsInv, WindowEventsInv DEF Post, PostFromCallback
<1>3. ASSUME NEW t \in Pool, Work(t)
      PROVE  EventsInv'
  BY <1>3, AcquireEventsInv, SwapEventsInv, DispatchEventsInv, FinishEventsInv
  DEF Work
<1>4. ASSUME NEW t \in Pool, PostFromDispatch(t)
      PROVE  EventsInv'
  <2>1. at \in 1 .. Len(user_events_temp) /\ user_events_temp \in Seq(Event)
    BY <1>4 DEF EventsInv, EventTypes, PostFromDispatch
  <2>2. user_events_temp[at].widget \in Widget
    BY <2>1, EventOf
  <2> QED
    BY <1>4, <2>2, EnqueueEventsInv DEF PostFromDispatch
<1>5. ASSUME NEW who \in {Main, Handler}, Lock(who) \/ Unlock(who)
      PROVE  EventsInv'
  BY <1>5, MutexEventsInv
<1>6. CASE CloseWindow
  BY <1>6, WindowEventsInv
<1> QED
  BY <1>1, <1>2, <1>3, <1>4, <1>5, <1>6 DEF Next

-----------------------------------------------------------------------------

(* The length of the queue is as good as a flag that says whether a thread *)
(* has still to take it, as long as a thread could always be started.      *)
THEOREM EventsOneThread == Spec => []OneThreadForTheQueue
<1>1. EventsInv => OneThreadForTheQueue
  <2> SUFFICES ASSUME EventsInv, failures = 0
               PROVE  Cardinality(Waiting) =
                        IF user_events = << >> THEN 0 ELSE 1
    BY DEF OneThreadForTheQueue
  <2>1. OneOut
    BY DEF EventsInv
  <2>2. CASE user_events = << >>
    BY <2>1, <2>2, FS_EmptySet DEF OneOut
  <2>3. CASE user_events # << >>
    BY <2>1, <2>3, FS_Singleton DEF OneOut
  <2> QED
    BY <2>2, <2>3
<1> QED
  BY <1>1, InitEventsInv, NextEventsInv, PTL DEF Spec

(* Each widget gets its events in the order they were posted.              *)
THEOREM EventsInOrder == Spec => []InOrder
<1>1. EventsInv => InOrder
  BY DEF EventsInv, EventOrder
<1> QED
  BY <1>1, InitEventsInv, NextEventsInv, PTL DEF Spec

(* No event is delivered to a widget that is gone, or in a window that is. *)
THEOREM EventsNoneAfter == Spec => NoneAfterDestruction
<1>1. EventsInv /\ [Next]_vars =>
        [\A d \in Widget : got'[d] # got[d] => d \in alive /\ in_table]_vars
  <2> SUFFICES ASSUME EventsInv, Next, NEW d \in Widget, got'[d] # got[d]
               PROVE  d \in alive /\ in_table
    OBVIOUS
  <2>1. PICK t \in Pool : Dispatch(t)
    BY DEF Next, Post, PostFromCallback, PostFromDispatch, Enqueue,
           DisableEvents, Destroyed, Work, Acquire, Swap, Finish, Lock, Unlock,
           CloseWindow
  <2>2. /\ Addressee(user_events_temp[at + 1])
        /\ user_events_temp[at + 1].widget = d
    BY <2>1 DEF EventsInv, EventTypes, Dispatch
  <2> QED
    BY <2>2 DEF EventsInv, EventTypes, Addressee
<1> QED
  BY <1>1, InitEventsInv, NextEventsInv, PTL DEF Spec, NoneAfterDestruction

-----------------------------------------------------------------------------
(* The thread pool.                                                        *)

(* Where a worker, and the thread of main(), can be.                       *)
PoolStates == {"pooled", "roused", "timed out"}
LivingStates == PoolStates \cup {"born", "busy", "blocked", "unblocked"}
WorkerStates == LivingStates \cup {"unborn", "ended"}
MainStates ==
  {"busy", "blocked", "unblocked", "destructing", "exited", "destroyed"}

PoolPlaces ==
  /\ pool_pc \in [Threads!Caller -> WorkerStates \cup MainStates]
  /\ \A w \in Worker : pool_pc[w] \in WorkerStates
  /\ pool_pc[MainThread] \in MainStates
  /\ destruct => pool_pc[MainThread] \in {"destructing", "destroyed"}

(* The counts are right, the threads that were signalled or whose time is  *)
(* up included: they leave the pool only when they have the mutex again.   *)
Counted ==
  /\ IsFiniteSet(Threads!In(LivingStates))
  /\ pool_count = Cardinality(Threads!In(PoolStates))
  /\ total_count = Cardinality(Threads!In(LivingStates))

(* The pool is destroyed only when it is idle, and stays so.               *)
DestructedIdle == destruct => Threads!In(LivingStates) = Threads!In(PoolStates)

ThreadPoolInv ==
  PoolPlaces /\ Counted /\ DestructedIdle /\ Threads!SlotHasATaker

-----------------------------------------------------------------------------

LEMMA CountOne ==
  ASSUME NEW A, IsFiniteSet(A), NEW w
  PROVE  /\ Cardinality(A) \in Nat
         /\ IsFiniteSet(A \cup {w}) /\ IsFiniteSet(A \ {w})
         /\ w \notin A => Cardinality(A \cup {w}) = Cardinality(A) + 1
         /\ w \in A => Cardinality(A \ {w}) = Cardinality(A) - 1
         /\ w \in A => A \cup {w} = A
         /\ w \notin A => A \ {w} = A
BY FS_CardinalityType, FS_AddElement, FS_RemoveElement

LEMMA PoolIsAlive ==
  /\ Threads!In(PoolStates) \subseteq Threads!In(LivingStates)
  /\ Counted => /\ IsFiniteSet(Threads!In(PoolStates))
                /\ pool_count \in Nat /\ total_count \in Nat
<1>1. Threads!In(PoolStates) \subseteq Threads!In(LivingStates)
  BY DEF Threads!In, LivingStates
<1>2. Counted => IsFiniteSet(Threads!In(PoolStates))
  BY <1>1, FS_Subset DEF Counted
<1> QED
  BY <1>1, <1>2, FS_CardinalityType DEF Counted

(* Thread t goes to x; others at most are signalled.                       *)
Moves(t, x) ==
  /\ pool_pc' \in [Threads!Caller -> WorkerStates \cup MainStates]
  /\ pool_pc'[t] = x
  /\ \A u \in Threads!Caller \ {t} :
       \/ pool_pc'[u] = pool_pc[u]
       \/ pool_pc[u] = "pooled" /\ pool_pc'[u] = "roused"
       \/ pool_pc[u] = "blocked" /\ pool_pc'[u] = "unblocked"

LEMMA Unsignalled ==
  ASSUME PoolPlaces, NEW t \in Threads!Caller,
         NEW x \in WorkerStates \cup MainStates
  PROVE  /\ [pool_pc EXCEPT ![t] = x]
              \in [Threads!Caller -> WorkerStates \cup MainStates]
         /\ pool_pc' = [pool_pc EXCEPT ![t] = x] => Moves(t, x)
BY DEF PoolPlaces, Moves

LEMMA SignalledMoves ==
  ASSUME PoolPlaces, NEW t \in Threads!Caller,
         NEW x \in WorkerStates \cup MainStates,
         NEW sleep, NEW waken,
         << sleep, waken >> \in {<< "pooled", "roused" >>,
                                 << "blocked", "unblocked" >>},
         x # sleep,
         pool_pc' \in
           Threads!Signalled([pool_pc EXCEPT ![t] = x], sleep, waken)
  PROVE  /\ Moves(t, x)
         /\ (\E u \in Threads!Caller \ {t} : pool_pc[u] = sleep) =>
              \E u \in Threads!Caller \ {t} :
                pool_pc[u] = sleep /\ pool_pc'[u] = waken
<1> DEFINE where == [pool_pc EXCEPT ![t] = x]
           sleepers == {u \in Threads!Caller : where[u] = sleep}
<1>1. /\ where \in [Threads!Caller -> WorkerStates \cup MainStates]
      /\ where[t] = x /\ \A u \in Threads!Caller \ {t} : where[u] = pool_pc[u]
      /\ waken \in WorkerStates
  BY DEF PoolPlaces, WorkerStates, LivingStates, PoolStates
<1>2. sleepers = {u \in Threads!Caller \ {t} : pool_pc[u] = sleep}
  BY <1>1
<1>3. CASE sleepers = {}
  <2>1. pool_pc' = where
    BY <1>3 DEF Threads!Signalled
  <2> QED
    BY <1>1, <1>2, <1>3, <2>1 DEF Moves
<1>4. CASE sleepers # {}
  <2>1. PICK u \in sleepers : pool_pc' = [where EXCEPT ![u] = waken]
    BY <1>4 DEF Threads!Signalled
  <2> HIDE DEF where, sleepers
  <2>2. u \in Threads!Caller \ {t} /\ pool_pc[u] = sleep
    BY <1>2
  <2>3. /\ pool_pc' \in [Threads!Caller -> WorkerStates \cup MainStates]
        /\ pool_pc'[u] = waken
        /\ \A v \in Threads!Caller \ {u} : pool_pc'[v] = where[v]
    BY <1>1, <2>1, <2>2
  <2> QED
    BY <1>1, <2>2, <2>3 DEF Moves
<1> QED
  BY <1>3, <1>4

(* What a move does to the places and the sets that are counted.           *)
LEMMA WorkerMoves ==
  ASSUME PoolPlaces, NEW w \in Worker, NEW x \in WorkerStates, Moves(w, x),
         UNCHANGED destruct, Threads!ThreadPoolAssumption
  PROVE  /\ PoolPlaces'
         /\ Threads!In(PoolStates)' =
              IF x \in PoolStates THEN Threads!In(PoolStates) \cup {w}
              ELSE Threads!In(PoolStates) \ {w}
         /\ Threads!In(LivingStates)' =
              IF x \in LivingStates THEN Threads!In(LivingStates) \cup {w}
              ELSE Threads!In(LivingStates) \ {w}
<1>1. /\ Worker \subseteq Threads!Caller
      /\ MainThread \in Threads!Caller /\ w # MainThread
  BY DEF Threads!Caller, Threads!ThreadPoolAssumption
<1>2. PoolPlaces'
  BY <1>1 DEF PoolPlaces, Moves, WorkerStates, LivingStates, PoolStates,
              MainStates
<1>3. \A u \in Worker \ {w} :
        /\ pool_pc'[u] \in PoolStates <=> pool_pc[u] \in PoolStates
        /\ pool_pc'[u] \in LivingStates <=> pool_pc[u] \in LivingStates
  BY <1>1 DEF PoolPlaces, Moves, WorkerStates, LivingStates, PoolStates
<1> QED
  BY <1>2, <1>3 DEF Threads!In, Moves

LEMMA CallerMoves ==
  ASSUME PoolPlaces, NEW t \in Threads!Caller, NEW x \in {"busy", "blocked"},
         Moves(t, x), pool_pc[t] \in {"busy", "unblocked"},
         UNCHANGED destruct,
         Threads!ThreadPoolAssumption
  PROVE  /\ PoolPlaces'
         /\ Threads!In(PoolStates)' = Threads!In(PoolStates)
         /\ Threads!In(LivingStates)' = Threads!In(LivingStates)
<1>1. /\ Worker \subseteq Threads!Caller
      /\ MainThread \in Threads!Caller /\ MainThread \notin Worker
  BY DEF Threads!Caller, Threads!ThreadPoolAssumption
<1>2. PoolPlaces'
  BY <1>1 DEF PoolPlaces, Moves, WorkerStates, LivingStates, PoolStates,
              MainStates
<1>3. \A u \in Worker :
        /\ pool_pc'[u] \in PoolStates <=> pool_pc[u] \in PoolStates
        /\ pool_pc'[u] \in LivingStates <=> pool_pc[u] \in LivingStates
  BY <1>1 DEF PoolPlaces, Moves, WorkerStates, LivingStates, PoolStates
<1> QED
  BY <1>2, <1>3 DEF Threads!In

LEMMA InitThreadPoolInv ==
  ASSUME Threads!ThreadPoolAssumption, Threads!Init
  PROVE  ThreadPoolInv
<1>1. pool_pc = [t \in Threads!Caller |->
                   IF t = MainThread THEN "busy" ELSE "unborn"]
      /\ destruct = FALSE /\ function_pointer = Threads!NoJob
      /\ pool_count = 0 /\ total_count = 0
  BY DEF Threads!Init
<1>2. PoolPlaces
  BY <1>1 DEF PoolPlaces, Threads!ThreadPoolAssumption, Threads!Caller,
              WorkerStates, LivingStates, MainStates
<1>3. \A w \in Worker : pool_pc[w] = "unborn"
  BY <1>1 DEF Threads!ThreadPoolAssumption, Threads!Caller
<1>4. Threads!In(PoolStates) = {} /\ Threads!In(LivingStates) = {}
  BY <1>3 DEF Threads!In, PoolStates, LivingStates
<1>5. Counted
  BY <1>1, <1>4, FS_EmptySet DEF Counted
<1> QED
  BY <1>1, <1>2, <1>5 DEF ThreadPoolInv, DestructedIdle, Threads!SlotHasATaker

-----------------------------------------------------------------------------
(* The workers.                                                            *)

(* A worker's step, by where it goes and what it does to the counts.       *)
LEMMA CountedMove ==
  ASSUME Threads!ThreadPoolAssumption, PoolPlaces, Counted, DestructedIdle,
         NEW w \in Worker, NEW x \in WorkerStates, Moves(w, x),
         UNCHANGED destruct, pool_pc[w] \in LivingStates,
         destruct => pool_pc[w] \in PoolStates
                     /\ (x \in PoolStates \/ x \notin LivingStates),
         pool_count' = IF pool_pc[w] \in PoolStates
                       THEN IF x \in PoolStates THEN pool_count
                            ELSE pool_count - 1
                       ELSE IF x \in PoolStates THEN pool_count + 1
                            ELSE pool_count,
         total_count' = IF x \in LivingStates THEN total_count
                        ELSE total_count - 1
  PROVE  PoolPlaces' /\ Counted' /\ DestructedIdle'
<1>1. /\ PoolPlaces'
      /\ Threads!In(PoolStates)' =
           IF x \in PoolStates THEN Threads!In(PoolStates) \cup {w}
           ELSE Threads!In(PoolStates) \ {w}
      /\ Threads!In(LivingStates)' =
           IF x \in LivingStates THEN Threads!In(LivingStates) \cup {w}
           ELSE Threads!In(LivingStates) \ {w}
  BY WorkerMoves
<1>2. /\ IsFiniteSet(Threads!In(PoolStates))
      /\ IsFiniteSet(Threads!In(LivingStates))
      /\ pool_count = Cardinality(Threads!In(PoolStates))
      /\ total_count = Cardinality(Threads!In(LivingStates))
  BY PoolIsAlive DEF Counted
<1>3. /\ w \in Threads!In(LivingStates)
      /\ w \in Threads!In(PoolStates) <=> pool_pc[w] \in PoolStates
  BY DEF Threads!In
<1>4. /\ IsFiniteSet(Threads!In(LivingStates)')
      /\ total_count' = Cardinality(Threads!In(LivingStates)')
  <2>1. CASE x \in LivingStates
    <3>1. Threads!In(LivingStates)' = Threads!In(LivingStates)
      BY <1>1, <1>3, <2>1
    <3> QED
      BY <1>2, <2>1, <3>1
  <2>2. CASE x \notin LivingStates
    <3>1. Threads!In(LivingStates)' = Threads!In(LivingStates) \ {w}
      BY <1>1, <2>2
    <3>2. /\ IsFiniteSet(Threads!In(LivingStates) \ {w})
          /\ Cardinality(Threads!In(LivingStates) \ {w})
               = Cardinality(Threads!In(LivingStates)) - 1
      BY <1>2, <1>3, CountOne
    <3> QED
      BY <1>2, <2>2, <3>1, <3>2
  <2> QED
    BY <2>1, <2>2
<1>5. pool_count' = Cardinality(Threads!In(PoolStates)')
  <2>1. CASE x \in PoolStates
    <3>1. Threads!In(PoolStates)' = Threads!In(PoolStates) \cup {w}
      BY <1>1, <2>1
    <3>2. CASE pool_pc[w] \in PoolStates
      BY <1>2, <1>3, <2>1, <3>1, <3>2, CountOne
    <3>3. CASE pool_pc[w] \notin PoolStates
      <4>1. Cardinality(Threads!In(PoolStates) \cup {w})
              = Cardinality(Threads!In(PoolStates)) + 1
        BY <1>2, <1>3, <3>3, CountOne
      <4> QED
        BY <1>2, <2>1, <3>1, <3>3, <4>1
    <3> QED
      BY <3>2, <3>3
  <2>2. CASE x \notin PoolStates
    <3>1. Threads!In(PoolStates)' = Threads!In(PoolStates) \ {w}
      BY <1>1, <2>2
    <3>2. CASE pool_pc[w] \in PoolStates
      <4>1. Cardinality(Threads!In(PoolStates) \ {w})
              = Cardinality(Threads!In(PoolStates)) - 1
        BY <1>2, <1>3, <3>2, CountOne
      <4> QED
        BY <1>2, <2>2, <3>1, <3>2, <4>1
    <3>3. CASE pool_pc[w] \notin PoolStates
      BY <1>2, <1>3, <2>2, <3>1, <3>3, CountOne
    <3> QED
      BY <3>2, <3>3
  <2> QED
    BY <2>1, <2>2
<1>6. DestructedIdle'
  <2> SUFFICES ASSUME destruct
               PROVE  Threads!In(LivingStates)' = Threads!In(PoolStates)'
    BY DEF DestructedIdle
  <2>1. Threads!In(LivingStates) = Threads!In(PoolStates)
    BY DEF DestructedIdle
  <2>2. x \in PoolStates => x \in LivingStates
    BY DEF LivingStates
  <2> QED
    BY <1>1, <2>1, <2>2
<1> QED
  BY <1>1, <1>4, <1>5, <1>6 DEF Counted

LEMMA TakeIs ==
  ASSUME PoolPlaces, NEW w \in Worker, NEW pooled, Threads!Take(w, pooled)
  PROVE  /\ Moves(w, "busy") /\ function_pointer' = Threads!NoJob
         /\ pool_count' = pooled - 1
         /\ UNCHANGED << total_count, destruct >>
<1>1. w \in Threads!Caller /\ "busy" \in WorkerStates \cup MainStates
  BY DEF Threads!Caller, MainStates
<1>2. pool_pc' \in Threads!Signalled([pool_pc EXCEPT ![w] = "busy"],
                                    "blocked", "unblocked")
  BY DEF Threads!Take, Threads!Emptied
<1>3. Moves(w, "busy")
  BY <1>1, <1>2, SignalledMoves
<1> QED
  BY <1>3 DEF Threads!Take

LEMMA SleepIs ==
  ASSUME PoolPlaces, NEW w \in Worker, NEW pooled, Threads!Sleep(w, pooled)
  PROVE  /\ Moves(w, "pooled") /\ pool_count' = pooled
         /\ UNCHANGED << function_pointer, total_count, destruct >>
BY Unsignalled
DEF Threads!Sleep, Threads!Caller, WorkerStates, LivingStates, PoolStates

LEMMA EndIs ==
  ASSUME PoolPlaces, NEW w \in Worker, NEW pooled, Threads!End(w, pooled)
  PROVE  /\ Moves(w, "ended") /\ pool_count' = pooled - 1
         /\ total_count' = total_count - 1
         /\ UNCHANGED << function_pointer, destruct >>
BY Unsignalled DEF Threads!End, Threads!Caller, WorkerStates

LEMMA WorkerStepInv ==
  ASSUME Threads!ThreadPoolAssumption, ThreadPoolInv,
         NEW w \in Worker, Threads!WorkerStep(w)
  PROVE  ThreadPoolInv'
<1> USE DEF ThreadPoolInv
<1>1. w \in Threads!Caller /\ pool_pc[w] \in WorkerStates
      /\ pool_count \in Int /\ total_count \in Int
  BY PoolIsAlive DEF Threads!Caller, PoolPlaces
<1>2. CASE \/ Threads!Born(w) \/ Threads!Roused(w)
           \/ Threads!TimedOut(w) \/ Threads!Return(w)
  <2> DEFINE pooled == IF pool_pc[w] \in PoolStates THEN pool_count
                       ELSE pool_count + 1
  <2>1. /\ pool_pc[w] \in LivingStates
        /\ pool_pc[w] \in PoolStates \/ pool_pc[w] \in {"born", "busy"}
    BY <1>2 DEF Threads!Born, Threads!Roused, Threads!TimedOut, Threads!Return,
                LivingStates, PoolStates
  <2>2. \/ Threads!Take(w, pooled) /\ (~destruct \/ pool_pc[w] = "busy")
        \/ /\ Threads!Sleep(w, pooled)
           /\ ~destruct /\ function_pointer = Threads!NoJob
        \/ /\ Threads!End(w, pooled)
           /\ destruct \/ function_pointer = Threads!NoJob
    BY <1>2 DEF Threads!Born, Threads!Roused, Threads!TimedOut, Threads!Return,
                Threads!LoopHead, Threads!Joined, Threads!GivesUp, PoolStates
  <2>3. destruct => pool_pc[w] \in PoolStates
    BY <2>1 DEF DestructedIdle, Threads!In
  <2>4. CASE Threads!Take(w, pooled) /\ (~destruct \/ pool_pc[w] = "busy")
    <3>1. ~destruct
      BY <2>3, <2>4 DEF PoolStates
    <3>2. /\ Moves(w, "busy") /\ function_pointer' = Threads!NoJob
          /\ pool_count' = pooled - 1
          /\ UNCHANGED << total_count, destruct >>
      BY <2>4, TakeIs
    <3>3. "busy" \in WorkerStates /\ "busy" \in LivingStates
          /\ "busy" \notin PoolStates
      BY DEF WorkerStates, LivingStates, PoolStates
    <3>4. PoolPlaces' /\ Counted' /\ DestructedIdle'
      BY <1>1, <2>1, <3>1, <3>2, <3>3, CountedMove
    <3> QED
      BY <3>2, <3>4 DEF Threads!SlotHasATaker
  <2>5. CASE /\ Threads!Sleep(w, pooled)
             /\ ~destruct /\ function_pointer = Threads!NoJob
    <3>1. /\ Moves(w, "pooled") /\ pool_count' = pooled
          /\ UNCHANGED << function_pointer, total_count, destruct >>
      BY <2>5, SleepIs
    <3>2. "pooled" \in WorkerStates /\ "pooled" \in LivingStates
          /\ "pooled" \in PoolStates
      BY DEF WorkerStates, LivingStates, PoolStates
    <3>3. PoolPlaces' /\ Counted' /\ DestructedIdle'
      BY <1>1, <2>1, <2>5, <3>1, <3>2, CountedMove
    <3> QED
      BY <2>5, <3>1, <3>3 DEF Threads!SlotHasATaker
  <2>6. CASE /\ Threads!End(w, pooled)
             /\ destruct \/ function_pointer = Threads!NoJob
    <3>1. /\ Moves(w, "ended") /\ pool_count' = pooled - 1
          /\ total_count' = total_count - 1
          /\ UNCHANGED << function_pointer, destruct >>
      BY <2>6, EndIs
    <3>2. "ended" \in WorkerStates /\ "ended" \notin LivingStates
          /\ "ended" \notin PoolStates
      BY DEF WorkerStates, LivingStates, PoolStates
    <3>3. PoolPlaces' /\ Counted' /\ DestructedIdle'
      BY <1>1, <2>1, <2>3, <3>1, <3>2, CountedMove
    <3> QED
      BY <2>6, <3>1, <3>3 DEF Threads!SlotHasATaker
  <2> QED
    BY <2>2, <2>4, <2>5, <2>6
<1>3. CASE Threads!Timeout(w)
  <2>1. /\ pool_pc[w] = "pooled"
        /\ pool_pc' = [pool_pc EXCEPT ![w] = "timed out"]
        /\ UNCHANGED << function_pointer, total_count, pool_count, destruct >>
    BY <1>3 DEF Threads!Timeout, Threads!slot
  <2>2. "timed out" \in WorkerStates /\ "timed out" \in LivingStates
        /\ "timed out" \in PoolStates
    BY DEF WorkerStates, LivingStates, PoolStates
  <2>3. Moves(w, "timed out")
    BY <1>1, <2>1, <2>2, Unsignalled
  <2>4. pool_pc[w] \in PoolStates /\ pool_pc[w] \in LivingStates
    BY <2>1 DEF LivingStates, PoolStates
  <2>5. PoolPlaces' /\ Counted' /\ DestructedIdle'
    BY <1>1, <2>1, <2>2, <2>3, <2>4, CountedMove
  <2>6. Threads!SlotHasATaker'
    BY <1>1, <2>1, <2>3 DEF Threads!SlotHasATaker, Threads!In, Moves
  <2> QED
    BY <2>5, <2>6
<1> QED
  BY <1>2, <1>3 DEF Threads!WorkerStep

-----------------------------------------------------------------------------
(* create_new_thread.                                                      *)

LEMMA SubmitInv ==
  ASSUME Threads!ThreadPoolAssumption, ThreadPoolInv,
         NEW t \in Threads!Caller, NEW j,
         pool_pc[t] \in {"busy", "unblocked"}, Threads!Submit(t, j)
  PROVE  ThreadPoolInv'
<1> USE DEF ThreadPoolInv
<1>1. ~destruct \/ t # MainThread
  BY DEF PoolPlaces
<1>2. /\ "busy" \in WorkerStates \cup MainStates
      /\ "blocked" \in WorkerStates \cup MainStates
  BY DEF MainStates
<1>3. Worker \subseteq Threads!Caller /\ MainThread \notin Worker
  BY DEF Threads!Caller, Threads!ThreadPoolAssumption
<1>4. CASE Threads!Block(t, j, pool_pc)
  <2>1. /\ pool_pc' = [pool_pc EXCEPT ![t] = "blocked"]
        /\ UNCHANGED << function_pointer, total_count, pool_count, destruct >>
    BY <1>4 DEF Threads!Block, Threads!slot
  <2>2. Moves(t, "blocked")
    BY <1>2, <2>1, Unsignalled
  <2>3. /\ PoolPlaces' /\ Threads!In(PoolStates)' = Threads!In(PoolStates)
        /\ Threads!In(LivingStates)' = Threads!In(LivingStates)
    BY <2>1, <2>2, CallerMoves
  <2>4. Threads!SlotHasATaker'
    BY <1>3, <2>1 DEF Threads!SlotHasATaker, Threads!In, PoolPlaces
  <2> QED
    BY <2>1, <2>3, <2>4 DEF Counted, DestructedIdle
<1>5. CASE Threads!SpawnFails(t, pool_pc)
  <2>1. /\ pool_pc' \in Threads!Signalled([pool_pc EXCEPT ![t] = "busy"],
                                      "blocked", "unblocked")
        /\ function_pointer = Threads!NoJob
        /\ UNCHANGED << function_pointer, total_count, pool_count, destruct >>
    BY <1>5 DEF Threads!SpawnFails, Threads!slot
  <2>2. Moves(t, "busy")
    BY <1>2, <2>1, SignalledMoves
  <2>3. /\ PoolPlaces' /\ Threads!In(PoolStates)' = Threads!In(PoolStates)
        /\ Threads!In(LivingStates)' = Threads!In(LivingStates)
    BY <2>1, <2>2, CallerMoves
  <2> QED
    BY <2>1, <2>3 DEF Counted, DestructedIdle, Threads!SlotHasATaker
<1>6. CASE Threads!Fill(t, j, pool_pc) /\ pool_count = 0
  <2>1. PICK w \in Worker :
          /\ [pool_pc EXCEPT ![t] = "busy"][w] = "unborn"
          /\ pool_pc' = [[pool_pc EXCEPT ![t] = "busy"] EXCEPT ![w] = "born"]
          /\ total_count' = total_count + 1
          /\ UNCHANGED << pool_count, destruct >>
    BY <1>6 DEF Threads!Fill, Threads!Recruit
  <2>2. w # t /\ pool_pc[w] = "unborn" /\ w \in Threads!Caller
    BY <1>3, <2>1 DEF PoolPlaces
  <2>3. /\ pool_pc' \in [Threads!Caller -> WorkerStates \cup MainStates]
        /\ pool_pc'[w] = "born" /\ pool_pc'[t] = "busy"
        /\ \A u \in Threads!Caller \ {t, w} : pool_pc'[u] = pool_pc[u]
    BY <1>2, <2>1, <2>2 DEF PoolPlaces, WorkerStates, LivingStates
  <2>4. PoolPlaces'
    <3>1. /\ MainThread \in Threads!Caller /\ MainThread # w
          /\ "born" \in WorkerStates
      BY <1>3, <2>1 DEF Threads!Caller, WorkerStates, LivingStates
    <3>2. \A u \in Worker : pool_pc'[u] \in WorkerStates
      BY <1>2, <1>3, <2>2, <2>3, <3>1 DEF PoolPlaces, WorkerStates,
                                          LivingStates
    <3>3. pool_pc'[MainThread] \in MainStates
      BY <2>3, <3>1 DEF PoolPlaces, MainStates
    <3>4. destruct' => pool_pc'[MainThread] \in {"destructing", "destroyed"}
      BY <1>1, <2>1, <2>3, <3>1 DEF PoolPlaces
    <3> QED
      BY <2>3, <3>2, <3>3, <3>4 DEF PoolPlaces
  <2>5. /\ Threads!In(PoolStates)' = Threads!In(PoolStates)
        /\ Threads!In(LivingStates)' = Threads!In(LivingStates) \cup {w}
        /\ w \notin Threads!In(LivingStates)
    <3>1. \A u \in Worker \ {w} :
            /\ pool_pc'[u] \in PoolStates <=> pool_pc[u] \in PoolStates
            /\ pool_pc'[u] \in LivingStates <=> pool_pc[u] \in LivingStates
      BY <1>3, <2>2, <2>3 DEF LivingStates, PoolStates
    <3>2. /\ pool_pc'[w] \notin PoolStates /\ pool_pc[w] \notin PoolStates
          /\ pool_pc'[w] \in LivingStates /\ pool_pc[w] \notin LivingStates
      BY <2>2, <2>3 DEF LivingStates, PoolStates
    <3> QED
      BY <3>1, <3>2 DEF Threads!In
  <2>6. Counted'
    BY <2>1, <2>5, CountOne DEF Counted
  <2>7. ~destruct
    <3>1. SUFFICES ASSUME destruct PROVE FALSE
      OBVIOUS
    <3>2. t \in Threads!In(LivingStates) /\ t \notin Threads!In(PoolStates)
      BY <1>1, <3>1 DEF Threads!In, Threads!Caller, LivingStates, PoolStates
    <3> QED
      BY <3>1, <3>2 DEF DestructedIdle
  <2>8. Threads!SlotHasATaker'
    BY <2>3 DEF Threads!SlotHasATaker, Threads!In
  <2> QED
    BY <2>1, <2>4, <2>6, <2>7, <2>8 DEF DestructedIdle
<1>7. CASE Threads!Fill(t, j, pool_pc) /\ pool_count # 0
  <2>1. /\ pool_pc' \in Threads!Signalled([pool_pc EXCEPT ![t] = "busy"],
                                      "pooled", "roused")
        /\ UNCHANGED << total_count, pool_count, destruct >>
    BY <1>7 DEF Threads!Fill, Threads!Recruit
  <2>2. /\ Moves(t, "busy")
        /\ (\E u \in Threads!Caller \ {t} : pool_pc[u] = "pooled") =>
             \E u \in Threads!Caller \ {t} :
               pool_pc[u] = "pooled" /\ pool_pc'[u] = "roused"
    BY <1>2, <2>1, SignalledMoves
  <2>3. /\ PoolPlaces' /\ Threads!In(PoolStates)' = Threads!In(PoolStates)
        /\ Threads!In(LivingStates)' = Threads!In(LivingStates)
    BY <2>1, <2>2, CallerMoves
  <2>4. PICK w \in Threads!In(PoolStates) : TRUE
    BY <1>7, FS_EmptySet DEF Counted
  <2>5. w \in Worker /\ w # t /\ pool_pc[w] \in PoolStates
    BY <2>4 DEF Threads!In, PoolStates
  <2>6. \E u \in Worker : pool_pc'[u] \in {"roused", "timed out"}
    <3>1. CASE pool_pc[w] = "pooled"
      <4>1. PICK u \in Threads!Caller \ {t} :
                   pool_pc[u] = "pooled" /\ pool_pc'[u] = "roused"
        BY <1>3, <2>2, <2>5, <3>1
      <4>2. u \in Worker
        BY <4>1 DEF Threads!Caller, PoolPlaces, MainStates
      <4> QED
        BY <4>1, <4>2
    <3>2. CASE pool_pc[w] # "pooled"
      BY <1>3, <2>2, <2>5, <3>2 DEF Moves, PoolStates
    <3> QED
      BY <3>1, <3>2
  <2>7. Threads!SlotHasATaker'
    BY <2>6 DEF Threads!SlotHasATaker, Threads!In
  <2> QED
    BY <2>1, <2>3, <2>7 DEF Counted, DestructedIdle
<1> QED
  BY <1>4, <1>5, <1>6, <1>7 DEF Threads!Submit

-----------------------------------------------------------------------------
(* The end of the program.                                                 *)

LEMMA EndOfProgramInv ==
  ASSUME Threads!ThreadPoolAssumption, ThreadPoolInv,
         Threads!destruct_if_ready \/ Threads!Destroyed
  PROVE  ThreadPoolInv'
<1> USE DEF ThreadPoolInv
<1>1. /\ Worker \subseteq Threads!Caller
      /\ MainThread \in Threads!Caller /\ MainThread \notin Worker
  BY DEF Threads!Caller, Threads!ThreadPoolAssumption
<1>2. UNCHANGED << function_pointer, total_count, pool_count >>
  BY DEF Threads!destruct_if_ready, Threads!Destroyed, Threads!slot
<1>3. CASE ~destruct' \/ Threads!Destroyed
  <2>1. /\ UNCHANGED destruct
        /\ \/ /\ pool_pc' = [pool_pc EXCEPT ![MainThread] = "exited"]
              /\ ~destruct'
           \/ pool_pc' = [pool_pc EXCEPT ![MainThread] = "destroyed"]
    BY <1>3 DEF Threads!destruct_if_ready, Threads!Destroyed, Threads!slot,
                PoolPlaces
  <2>2. \A w \in Worker : pool_pc'[w] = pool_pc[w]
    BY <1>1, <2>1 DEF PoolPlaces
  <2>3. \A states : Threads!In(states)' = Threads!In(states)
    BY <2>2 DEF Threads!In
  <2>4. PoolPlaces'
    BY <1>1, <2>1, <2>2 DEF PoolPlaces, MainStates
  <2> QED
    BY <1>2, <2>1, <2>3, <2>4 DEF Counted, DestructedIdle,
                                  Threads!SlotHasATaker
<1>4. CASE destruct' /\ ~Threads!Destroyed
  <2>1. /\ Threads!Idle /\ destruct' = TRUE
        /\ pool_pc' =
             Threads!Rouse([pool_pc EXCEPT ![MainThread] = "destructing"])
    BY <1>4 DEF Threads!destruct_if_ready, PoolPlaces
  <2>2. /\ pool_pc' \in [Threads!Caller -> WorkerStates \cup MainStates]
        /\ pool_pc'[MainThread] = "destructing"
        /\ \A w \in Worker :
             pool_pc'[w] =
               IF pool_pc[w] = "pooled" THEN "roused" ELSE pool_pc[w]
    BY <1>1, <2>1 DEF Threads!Rouse, PoolPlaces, WorkerStates, LivingStates,
                      PoolStates, MainStates
  <2>3. PoolPlaces'
    BY <2>2 DEF PoolPlaces, WorkerStates, LivingStates, PoolStates, MainStates
  <2>4. /\ Threads!In(PoolStates)' = Threads!In(PoolStates)
        /\ Threads!In(LivingStates)' = Threads!In(LivingStates)
    BY <2>2 DEF Threads!In, LivingStates, PoolStates
  <2>5. Threads!In(PoolStates) = Threads!In(LivingStates)
    BY <2>1, PoolIsAlive, FS_Subset DEF Threads!Idle, Counted
  <2> QED
    BY <1>2, <2>1, <2>3, <2>4, <2>5 DEF Counted, DestructedIdle,
                                        Threads!SlotHasATaker
<1> QED
  BY <1>3, <1>4

-----------------------------------------------------------------------------

LEMMA NextThreadPoolInv ==
  ASSUME Threads!ThreadPoolAssumption, ThreadPoolInv,
         [Threads!Next]_(Threads!vars)
  PROVE  ThreadPoolInv'
<1>1. CASE \E w \in Worker : Threads!WorkerStep(w)
  BY <1>1, WorkerStepInv
<1>2. CASE \E t \in Threads!Caller : Threads!CallerStep(t)
  <2>1. PICK t \in Threads!Caller : Threads!CallerStep(t)
    BY <1>2
  <2>2. \E j : Threads!Submit(t, j) /\ pool_pc[t] \in {"busy", "unblocked"}
    BY <2>1 DEF Threads!CallerStep, Threads!create_new_thread,
                Threads!SubmitAgain
  <2> QED
    BY <2>2, SubmitInv
<1>3. CASE Threads!destruct_if_ready \/ Threads!Destroyed
  BY <1>3, EndOfProgramInv
<1>4. CASE UNCHANGED Threads!vars
  BY <1>4 DEF Threads!vars, Threads!slot, ThreadPoolInv, PoolPlaces, Counted,
              DestructedIdle, Threads!SlotHasATaker, Threads!In
<1> QED
  BY <1>1, <1>2, <1>3, <1>4 DEF Threads!Next

(* The counts, the idle end and the taker together are inductive.          *)
THEOREM ThreadPoolInvariant == Threads!Spec => []ThreadPoolInv
<1>1. Threads!Init => ThreadPoolInv
  BY InitThreadPoolInv, ThreadsAssumption
<1>2. ThreadPoolInv /\ [Threads!Next]_(Threads!vars) => ThreadPoolInv'
  BY NextThreadPoolInv, ThreadsAssumption
<1> QED
  BY <1>1, <1>2, PTL DEF Threads!Spec

(* thread_starter and create_new_thread: a function left in the slot has a *)
(* thread on its way to it, whichever threads time out or are signalled.   *)
THEOREM ThreadPoolTaker == Threads!Spec => []SlotHasATaker
<1>1. ThreadPoolInv => SlotHasATaker
  BY DEF ThreadPoolInv, SlotHasATaker
<1> QED
  BY <1>1, ThreadPoolInvariant, PTL

(* destruct_if_ready: from the moment the pool is told to end, no thread   *)
(* runs a function or waits to hand one over.                              *)
THEOREM ThreadPoolIdle == Threads!Spec => []DestructedIdle
<1>1. ThreadPoolInv => DestructedIdle
  BY DEF ThreadPoolInv
<1> QED
  BY <1>1, ThreadPoolInvariant, PTL

-----------------------------------------------------------------------------
(* Each function is called once.                                           *)

InSlot == {function_pointer} \ {Threads!NoJob}

(* What was accepted has been called or is in the slot, and not both: no   *)
(* function is called a second time.                                       *)
CalledOnce ==
  /\ function_pointer \in Job \cup {Threads!NoJob}
  /\ accepted = called \cup InSlot
  /\ called \cap InSlot = {}

Blocked(t) == pool_pc[t] \in {"blocked", "unblocked"}

(* A function somebody waits to hand over is nobody else's, and new.       *)
AskedOnce ==
  /\ accepted \subseteq created /\ created \subseteq Job
  /\ \A t \in Threads!Caller : Blocked(t) => asking[t] \in created \ accepted
  /\ \A t, u \in Threads!Caller :
       Blocked(t) /\ Blocked(u) /\ asking[t] = asking[u] => t = u

(* No caller waits for a slot that is empty already, unless one of them    *)
(* has been signalled and will look.                                       *)
CallersWake ==
  (\E t \in Threads!Caller : pool_pc[t] = "blocked") =>
    \/ function_pointer # Threads!NoJob
    \/ \E t \in Threads!Caller : pool_pc[t] = "unblocked"

HandOver ==
  /\ asking \in [Threads!Caller -> Job \cup {Threads!NoJob}]
  /\ CalledOnce /\ AskedOnce /\ CallersWake

(* Other threads that move with t are signalled: they still wait.          *)
LEMMA MovesBlock ==
  ASSUME NEW t \in Threads!Caller, NEW x, Moves(t, x)
  PROVE  \A u \in Threads!Caller \ {t} : Blocked(u)' <=> Blocked(u)
BY DEF Moves, Blocked

(* A worker that looks at the slot takes what is there, or leaves it.      *)
LEMMA WorkerHandsOver ==
  ASSUME Threads!ThreadPoolAssumption, PoolPlaces, HandOver,
         NEW w \in Worker, Threads!WorkerStep(w)
  PROVE  HandOver'
<1>1. /\ w \in Threads!Caller /\ ~Blocked(w)
      /\ UNCHANGED << asking, created, accepted >>
  BY DEF Threads!Caller, Threads!WorkerStep, Threads!Born, Threads!Roused,
         Threads!TimedOut, Threads!Timeout, Threads!Return, Threads!LoopHead,
         Threads!Take, Threads!Sleep, Threads!End, Threads!ghosts, Blocked
<1>2. \/ /\ function_pointer # Threads!NoJob
         /\ \E pooled : Threads!Take(w, pooled)
      \/ /\ UNCHANGED << function_pointer, called >>
         /\ \E x \in {"pooled", "ended", "timed out"} :
              pool_pc' = [pool_pc EXCEPT ![w] = x]
  BY DEF Threads!WorkerStep, Threads!Born, Threads!Roused, Threads!TimedOut,
         Threads!Timeout, Threads!Return, Threads!LoopHead, Threads!GivesUp,
         Threads!Sleep, Threads!End, Threads!ghosts, Threads!slot
<1>3. CASE /\ UNCHANGED << function_pointer, called >>
           /\ \E x \in {"pooled", "ended", "timed out"} :
                pool_pc' = [pool_pc EXCEPT ![w] = x]
  <2>1. PICK x \in {"pooled", "ended", "timed out"} :
          pool_pc' = [pool_pc EXCEPT ![w] = x]
    BY <1>3
  <2>2. /\ pool_pc'[w] \notin {"blocked", "unblocked"}
        /\ \A u \in Threads!Caller \ {w} : pool_pc'[u] = pool_pc[u]
    BY <1>1, <2>1 DEF PoolPlaces
  <2>3. /\ \A u \in Threads!Caller : Blocked(u)' <=> Blocked(u)
        /\ \A u \in Threads!Caller :
             pool_pc'[u] = "blocked" <=> pool_pc[u] = "blocked"
        /\ \A u \in Threads!Caller :
             pool_pc[u] = "unblocked" => pool_pc'[u] = "unblocked"
    BY <1>1, <2>2 DEF Blocked
  <2>4. AskedOnce'
    BY <1>1, <2>3 DEF HandOver, AskedOnce
  <2>5. CallersWake'
    BY <1>3, <2>3 DEF HandOver, CallersWake
  <2> QED
    BY <1>1, <1>3, <2>4, <2>5 DEF HandOver, CalledOnce, InSlot
<1>4. CASE /\ function_pointer # Threads!NoJob
           /\ \E pooled : Threads!Take(w, pooled)
  <2>1. PICK pooled : Threads!Take(w, pooled)
    BY <1>4
  <2>2. /\ Moves(w, "busy")
        /\ (\E u \in Threads!Caller \ {w} : pool_pc[u] = "blocked") =>
             \E u \in Threads!Caller \ {w} :
               pool_pc[u] = "blocked" /\ pool_pc'[u] = "unblocked"
    <3>1. pool_pc' \in Threads!Signalled([pool_pc EXCEPT ![w] = "busy"],
                                         "blocked", "unblocked")
      BY <2>1 DEF Threads!Take, Threads!Emptied
    <3>2. "busy" \in WorkerStates \cup MainStates
      BY DEF MainStates
    <3> QED
      BY <1>1, <3>1, <3>2, SignalledMoves
  <2>3. /\ function_pointer' = Threads!NoJob
        /\ called' = called \cup {function_pointer}
    BY <2>1 DEF Threads!Take
  <2>4. CalledOnce'
    BY <1>1, <1>4, <2>3 DEF HandOver, CalledOnce, InSlot
  <2>5. AskedOnce'
    <3>1. \A u \in Threads!Caller : Blocked(u)' => Blocked(u)
      BY <1>1, <2>2, MovesBlock DEF Blocked, Moves
    <3> QED
      BY <1>1, <3>1 DEF HandOver, AskedOnce
  <2>6. CallersWake'
    BY <1>1, <2>2 DEF CallersWake, Moves, Blocked
  <2> QED
    BY <1>1, <2>4, <2>5, <2>6 DEF HandOver
<1> QED
  BY <1>2, <1>3, <1>4

(* create_new_thread of a function that is new, or that t has waited with. *)
LEMMA SubmitHandsOver ==
  ASSUME Threads!ThreadPoolAssumption, PoolPlaces, HandOver,
         NEW t \in Threads!Caller, NEW j \in Job,
         pool_pc[t] \in {"busy", "unblocked"}, Threads!Submit(t, j),
         j \notin accepted, j \in created', created' = created \cup {j},
         \A u \in Threads!Caller \ {t} : Blocked(u) => asking[u] # j
  PROVE  HandOver'
<1>1. /\ j # Threads!NoJob /\ t \in Threads!Caller
      /\ "busy" \in WorkerStates \cup MainStates
      /\ "blocked" \in WorkerStates \cup MainStates
  BY DEF Threads!ThreadPoolAssumption, Threads!NoJob, MainStates
<1>2. CASE Threads!Block(t, j, pool_pc)
  <2>1. /\ pool_pc' = [pool_pc EXCEPT ![t] = "blocked"]
        /\ asking' = [asking EXCEPT ![t] = j]
        /\ function_pointer # Threads!NoJob
        /\ UNCHANGED << function_pointer, accepted, called >>
    BY <1>2 DEF Threads!Block, Threads!slot
  <2>2. asking' \in [Threads!Caller -> Job \cup {Threads!NoJob}]
        /\ asking'[t] = j
        /\ \A u \in Threads!Caller \ {t} : asking'[u] = asking[u]
    BY <2>1 DEF HandOver
  <2>3. \A u \in Threads!Caller \ {t} : Blocked(u)' <=> Blocked(u)
    BY <1>1, <2>1, Unsignalled, MovesBlock
  <2>4. AskedOnce'
    BY <1>1, <2>1, <2>2, <2>3 DEF HandOver, AskedOnce
  <2>5. CallersWake'
    BY <2>1 DEF CallersWake
  <2> QED
    BY <2>1, <2>2, <2>4, <2>5 DEF HandOver, CalledOnce, InSlot
<1>3. ASSUME Threads!Fill(t, j, pool_pc) \/ Threads!SpawnFails(t, pool_pc)
      PROVE  /\ pool_pc'[t] = "busy"
             /\ \A u \in Threads!Caller \ {t} : Blocked(u)' <=> Blocked(u)
             /\ Threads!SpawnFails(t, pool_pc) => CallersWake'
  <2>1. CASE Threads!SpawnFails(t, pool_pc)
    <3>1. /\ Moves(t, "busy")
          /\ (\E u \in Threads!Caller \ {t} : pool_pc[u] = "blocked") =>
               \E u \in Threads!Caller \ {t} :
                 pool_pc[u] = "blocked" /\ pool_pc'[u] = "unblocked"
      <4>1. pool_pc' \in Threads!Signalled([pool_pc EXCEPT ![t] = "busy"],
                                           "blocked", "unblocked")
        BY <2>1 DEF Threads!SpawnFails
      <4> QED
        BY <1>1, <4>1, SignalledMoves
    <3> QED
      BY <3>1, MovesBlock DEF Moves, CallersWake
  <2>2. CASE Threads!Fill(t, j, pool_pc) /\ pool_count # 0
    <3>1. pool_pc' \in Threads!Signalled([pool_pc EXCEPT ![t] = "busy"],
                                         "pooled", "roused")
      BY <2>2 DEF Threads!Fill, Threads!Recruit
    <3>2. Moves(t, "busy")
      BY <1>1, <3>1, SignalledMoves
    <3>3. ~Threads!SpawnFails(t, pool_pc)
      BY <2>2 DEF Threads!SpawnFails
    <3> QED
      BY <3>2, <3>3, MovesBlock DEF Moves
  <2>3. CASE Threads!Fill(t, j, pool_pc) /\ pool_count = 0
    <3>1. PICK w \in Worker :
            /\ [pool_pc EXCEPT ![t] = "busy"][w] = "unborn"
            /\ pool_pc' = [[pool_pc EXCEPT ![t] = "busy"] EXCEPT ![w] = "born"]
      BY <2>3 DEF Threads!Fill, Threads!Recruit
    <3>2. w # t /\ pool_pc[w] = "unborn" /\ w \in Threads!Caller
      BY <3>1 DEF PoolPlaces, Threads!Caller
    <3>3. /\ pool_pc'[w] = "born" /\ pool_pc'[t] = "busy"
          /\ \A u \in Threads!Caller \ {t, w} : pool_pc'[u] = pool_pc[u]
      BY <3>1, <3>2 DEF PoolPlaces
    <3>4. ~Threads!SpawnFails(t, pool_pc)
      <4>1. accepted' = accepted \cup {j}
        BY <2>3 DEF Threads!Fill
      <4> QED
        BY <4>1 DEF Threads!SpawnFails
    <3> QED
      BY <3>2, <3>3, <3>4 DEF Blocked
  <2> QED
    BY <1>3, <2>1, <2>2, <2>3
<1>4. ASSUME Threads!Fill(t, j, pool_pc) \/ Threads!SpawnFails(t, pool_pc)
      PROVE  /\ asking' \in [Threads!Caller -> Job \cup {Threads!NoJob}]
             /\ \A u \in Threads!Caller \ {t} : asking'[u] = asking[u]
  BY <1>4 DEF Threads!Fill, Threads!SpawnFails, HandOver
<1>5. CASE Threads!Fill(t, j, pool_pc)
  <2>1. /\ function_pointer = Threads!NoJob /\ function_pointer' = j
        /\ accepted' = accepted \cup {j} /\ called' = called
    BY <1>5 DEF Threads!Fill
  <2>2. CalledOnce'
    BY <1>1, <2>1 DEF HandOver, CalledOnce, InSlot
  <2>3. AskedOnce'
    BY <1>3, <1>4, <1>5, <2>1 DEF HandOver, AskedOnce, Blocked
  <2>4. CallersWake'
    BY <1>1, <2>1 DEF CallersWake, Threads!NoJob
  <2> QED
    BY <1>4, <1>5, <2>2, <2>3, <2>4 DEF HandOver
<1>6. CASE Threads!SpawnFails(t, pool_pc)
  <2>1. UNCHANGED << function_pointer, accepted, called >>
    BY <1>6 DEF Threads!SpawnFails, Threads!slot
  <2>2. CalledOnce'
    BY <2>1 DEF HandOver, CalledOnce, InSlot
  <2>3. AskedOnce'
    BY <1>3, <1>4, <1>6, <2>1 DEF HandOver, AskedOnce, Blocked
  <2> QED
    BY <1>3, <1>4, <1>6, <2>2, <2>3 DEF HandOver
<1> QED
  BY <1>2, <1>5, <1>6 DEF Threads!Submit

LEMMA InitHandOver ==
  Threads!ThreadPoolAssumption /\ Threads!Init => HandOver
BY DEF Threads!Init, Threads!ThreadPoolAssumption, Threads!NoJob, HandOver,
       CalledOnce, InSlot, AskedOnce, CallersWake, Blocked

LEMMA NextHandOver ==
  ASSUME Threads!ThreadPoolAssumption, PoolPlaces, HandOver,
         [Threads!Next]_(Threads!vars)
  PROVE  HandOver'
<1>1. CASE \E w \in Worker : Threads!WorkerStep(w)
  BY <1>1, WorkerHandsOver
<1>2. ASSUME NEW t \in Threads!Caller, NEW j \in Job,
             Threads!create_new_thread(t, j)
      PROVE  HandOver'
  <2>1. /\ pool_pc[t] = "busy" /\ Threads!Submit(t, j)
        /\ j \notin created /\ created' = created \cup {j}
    BY <1>2 DEF Threads!create_new_thread
  <2>2. /\ j \notin accepted
        /\ \A u \in Threads!Caller : Blocked(u) => asking[u] # j
    BY <2>1 DEF HandOver, AskedOnce
  <2> QED
    BY <2>1, <2>2, SubmitHandsOver
<1>3. ASSUME NEW t \in Threads!Caller, Threads!SubmitAgain(t)
      PROVE  HandOver'
  <2>1. /\ pool_pc[t] = "unblocked" /\ Threads!Submit(t, asking[t])
        /\ created' = created
    BY <1>3 DEF Threads!SubmitAgain
  <2>2. /\ asking[t] \in created \ accepted /\ asking[t] \in Job
        /\ \A u \in Threads!Caller \ {t} : Blocked(u) => asking[u] # asking[t]
        /\ created' = created \cup {asking[t]}
    BY <2>1 DEF HandOver, AskedOnce, Blocked
  <2> QED
    BY <2>1, <2>2, SubmitHandsOver
<1>4. CASE Threads!destruct_if_ready \/ Threads!Destroyed
  <2>1. /\ UNCHANGED << function_pointer, asking, created, accepted, called >>
        /\ pool_pc'[MainThread] \in {"destructing", "exited", "destroyed"}
        /\ pool_pc[MainThread] \in {"busy", "destructing"}
        /\ \A u \in Threads!Caller \ {MainThread} :
             \/ pool_pc'[u] = pool_pc[u]
             \/ pool_pc[u] = "pooled" /\ pool_pc'[u] = "roused"
    BY <1>4 DEF Threads!destruct_if_ready, Threads!Destroyed, Threads!Rouse,
                Threads!slot, Threads!ghosts, Threads!Caller, PoolPlaces
  <2>2. /\ \A u \in Threads!Caller : Blocked(u)' <=> Blocked(u)
        /\ \A u \in Threads!Caller :
             pool_pc'[u] = "blocked" => pool_pc[u] = "blocked"
        /\ \A u \in Threads!Caller :
             pool_pc[u] = "unblocked" => pool_pc'[u] = "unblocked"
    BY <2>1 DEF Blocked
  <2> QED
    BY <2>1, <2>2 DEF HandOver, CalledOnce, InSlot, AskedOnce, CallersWake
<1>5. CASE UNCHANGED Threads!vars
  BY <1>5 DEF Threads!vars, Threads!slot, Threads!ghosts, HandOver,
              CalledOnce, InSlot, AskedOnce, CallersWake, Blocked
<1> QED
  BY <1>1, <1>2, <1>3, <1>4, <1>5 DEF Threads!Next, Threads!CallerStep

LEMMA ThreadPoolHandOver == Threads!Spec => []HandOver
<1>1. Threads!Init => HandOver
  BY InitHandOver, ThreadsAssumption
<1>2. ThreadPoolInv => PoolPlaces
  BY DEF ThreadPoolInv
<1>3. PoolPlaces /\ HandOver /\ [Threads!Next]_(Threads!vars) => HandOver'
  BY NextHandOver, ThreadsAssumption
<1> QED
  BY <1>1, <1>2, <1>3, ThreadPoolInvariant, PTL DEF Threads!Spec

(* create_new_thread and thread_starter: a function that was accepted is   *)
(* in the slot or has been called, never both and so never twice, though   *)
(* several callers wait for the slot and threads time out meanwhile.       *)
THEOREM ThreadPoolOnce == Threads!Spec => []CalledOnce
<1>1. HandOver => CalledOnce
  BY DEF HandOver
<1> QED
  BY <1>1, ThreadPoolHandOver, PTL

(* data_empty is signalled whenever the slot becomes free: no caller of    *)
(* create_new_thread sleeps beside an empty slot with nobody to look.      *)
THEOREM ThreadPoolCallers == Threads!Spec => []CallersWake
<1>1. HandOver => CallersWake
  BY DEF HandOver
<1> QED
  BY <1>1, ThreadPoolHandOver, PTL

-----------------------------------------------------------------------------
(* The image window.                                                       *)

Early == {"init", "global", "waiting", "base", "derived"}

Late == {"window", "destroyed", "exit", "send", "join", "ended"}

(* Before the image window is shown nothing can come from the X server, so *)
(* the thread that handles events has none to handle.                      *)
NothingSent ==
  window_pc \in Early =>
    screen = {} /\ socket = << >> /\ events = << >> /\ epc # "next"

(* The table has the image window while it is built, but for the time the  *)
(* constructor takes.                                                      *)
KnownIsBuilt ==
  /\ life \in [TheWindow!Windows -> {"none", "base", "built", "dying", "gone"}]
  /\ Win \in window_table =>
       IF window_pc \in Early THEN window_pc = "derived"
       ELSE window_pc \notin Late /\ life[Win] = "built"

WindowInv == NothingSent /\ KnownIsBuilt /\ WindowHearsWhileBuilt

LEMMA WinIsNoPopup == Win \in TheWindow!Windows /\ Win \notin Popup
BY ThreadsAssumption DEF TheWindow!WindowAssumption, TheWindow!Windows

LEMMA InitWindowInv == TheWindow!Init => WindowInv
BY WinIsNoPopup
DEF TheWindow!Init, WindowInv, NothingSent, KnownIsBuilt, Early, Late,
    WindowHearsWhileBuilt, TheWindow!WindowHearsWhileBuilt

LEMMA MainWindowInv == WindowInv /\ TheWindow!Main => WindowInv'
<1> SUFFICES ASSUME WindowInv, TheWindow!Main PROVE WindowInv'
  OBVIOUS
<1> USE WinIsNoPopup DEF WindowInv, NothingSent, KnownIsBuilt, Early, Late,
        WindowHearsWhileBuilt, TheWindow!WindowHearsWhileBuilt, TheWindow!Go,
        TheWindow!Becomes, TheWindow!objectVars, TheWindow!eventVars,
        TheWindow!mainVars
<1>1. CASE \/ TheWindow!InitMemory \/ TheWindow!StartThread
           \/ TheWindow!Waken \/ TheWindow!base_window
           \/ TheWindow!image_window
  BY <1>1 DEF TheWindow!InitMemory, TheWindow!StartThread, TheWindow!Waken,
              TheWindow!base_window, TheWindow!image_window
<1>2. CASE TheWindow!menu_bar
  BY <1>2 DEF TheWindow!menu_bar
<1>3. CASE \/ TheWindow!NoCamera \/ TheWindow!LeaveLoop
           \/ TheWindow!StartReturns \/ TheWindow!Remove
  BY <1>3 DEF TheWindow!NoCamera, TheWindow!LeaveLoop, TheWindow!StartReturns,
              TheWindow!Remove
<1>4. CASE \E w \in Popup :
             TheWindow!DestroyPopup(w) \/ TheWindow!ClosePopup(w)
  BY <1>4 DEF TheWindow!DestroyPopup, TheWindow!ClosePopup,
              TheWindow!close_window, TheWindow!Windows
<1>5. CASE \/ TheWindow!BeginWindow \/ TheWindow!DestroyWindow
           \/ TheWindow!EndWindow
  BY <1>5 DEF TheWindow!BeginWindow, TheWindow!CloseFirst,
              TheWindow!DestroyWindow, TheWindow!EndWindow,
              TheWindow!close_window
<1>6. CASE TheWindow!PutBack \/ TheWindow!Send \/ TheWindow!Join
  BY <1>6 DEF TheWindow!PutBack, TheWindow!Send, TheWindow!Join
<1> QED
  BY <1>1, <1>2, <1>3, <1>4, <1>5, <1>6 DEF TheWindow!Main

LEMMA EventWindowInv == WindowInv /\ TheWindow!EventHandler => WindowInv'
<1> SUFFICES ASSUME WindowInv, TheWindow!EventHandler PROVE WindowInv'
  OBVIOUS
<1> USE WinIsNoPopup DEF WindowInv, NothingSent, KnownIsBuilt, Early, Late,
        WindowHearsWhileBuilt, TheWindow!WindowHearsWhileBuilt,
        TheWindow!objectVars, TheWindow!mainVars
<1>1. CASE \/ TheWindow!Initialize \/ TheWindow!NonePending
           \/ TheWindow!SomePending \/ TheWindow!Poll
  BY <1>1 DEF TheWindow!Initialize, TheWindow!NonePending,
              TheWindow!SomePending, TheWindow!Poll, TheWindow!EventGo,
              TheWindow!Broadcast
<1>2. CASE \/ TheWindow!Discard \/ TheWindow!Quit
  BY <1>2 DEF TheWindow!Discard, TheWindow!Quit, TheWindow!Handles
<1>3. CASE TheWindow!MapNotify \/ TheWindow!Input \/ TheWindow!Delete
  <2>1. /\ epc = "next" /\ epc' = "pending"
        /\ \E w \in window_table : heard' = << w, life[w] >>
        /\ window_table' \subseteq window_table
        /\ UNCHANGED << life, window_pc >>
    BY <1>3 DEF TheWindow!MapNotify, TheWindow!Input, TheWindow!Delete,
                TheWindow!Handles, TheWindow!Known, TheWindow!Deliver,
                TheWindow!close_window
  <2> QED
    BY <2>1
<1> QED
  BY <1>1, <1>2, <1>3 DEF TheWindow!EventHandler

LEMMA NextWindowInv ==
  WindowInv /\ [TheWindow!Next]_(TheWindow!vars) => WindowInv'
<1> SUFFICES ASSUME WindowInv, [TheWindow!Next]_(TheWindow!vars)
             PROVE  WindowInv'
  OBVIOUS
<1>1. CASE \E w \in TheWindow!Windows : TheWindow!Act(w)
  BY <1>1 DEF TheWindow!Act, TheWindow!objectVars, TheWindow!eventVars,
     TheWindow!mainVars, WindowInv, NothingSent, KnownIsBuilt,
     WindowHearsWhileBuilt, TheWindow!WindowHearsWhileBuilt
<1>2. CASE UNCHANGED TheWindow!vars
  BY <1>2 DEF TheWindow!vars, TheWindow!objectVars, TheWindow!eventVars,
     TheWindow!mainVars, WindowInv, NothingSent, KnownIsBuilt,
     WindowHearsWhileBuilt, TheWindow!WindowHearsWhileBuilt
<1> QED
  BY <1>1, <1>2, MainWindowInv, EventWindowInv DEF TheWindow!Next

(* base_window's constructor puts a window in the table before the derived *)
(* class is constructed, and its destructor is the last to run; yet no     *)
(* callback of the image window runs outside its life.                     *)
THEOREM WindowHears == TheWindow!Spec => []WindowHearsWhileBuilt
<1>1. WindowInv => WindowHearsWhileBuilt
  BY DEF WindowInv
<1> QED
  BY <1>1, InitWindowInv, NextWindowInv, PTL DEF TheWindow!Spec

-----------------------------------------------------------------------------
(* The ends of the two threads of the server.                              *)

(* What is in the two queues of events.                                    *)
Message ==
  {TheWindow!Exit} \cup ({"map", "input", "delete"} \X TheWindow!Windows)

Carries(queue) == \E i \in 1 .. Len(queue) : queue[i] = TheWindow!Exit

Queues ==
  /\ socket \in Seq(Message) /\ events \in Seq(Message)
  /\ screen \subseteq TheWindow!Windows
  /\ epc = "next" => events # << >>

(* The exit event is nowhere before ~event_handler_thread: the handler     *)
(* does not end early.                                                     *)
ExitNotBefore ==
  /\ window_pc \notin {"send", "join", "ended"} => ~Carries(events)
  /\ window_pc \notin {"join", "ended"} => ~Carries(socket)

(* What the main thread waits for, when it waits, is under way.  As the    *)
(* program starts this is the broadcast of the new thread; as it ends, the *)
(* exit event, put where a handler that is about to poll is woken by it.   *)
StartIsHeard == window_pc = "waiting" /\ status # "uninitialized" => signaled

ExitComes ==
  window_pc = "join" =>
    \/ epc = "ended"
    \/ /\ epc \in {"pending", "polling", "next"}
       /\ Carries(events) \/ Carries(socket)
       /\ epc = "polling" => socket # << >>

(* The handler reports once, and lives from then on until its exit event.  *)
Reported ==
  /\ status \in {"uninitialized", "initialized", "failure_to_init"}
  /\ status = "uninitialized" <=> epc \in {"none", "starting"}
  /\ status = "initialized" =>
       \/ epc \in {"pending", "polling", "next"}
       \/ epc = "ended" /\ window_pc \in {"send", "join", "ended"}
  /\ window_pc \notin {"init", "global", "waiting", "aborted"} =>
       status = "initialized"
  /\ window_pc \in {"init", "global"} <=> epc = "none"

HandlerInv ==
  Queues /\ ExitNotBefore /\ StartIsHeard /\ ExitComes /\ Reported

LEMMA MessageKinds ==
  /\ TheWindow!Exit \in Message
  /\ \A w \in TheWindow!Windows, type \in {"map", "input", "delete"} :
       << type, w >> \in Message /\ << type, w >> # TheWindow!Exit
BY DEF Message, TheWindow!Exit

LEMMA AppendCarries ==
  ASSUME NEW q \in Seq(Message), NEW e \in Message
  PROVE  /\ Append(q, e) \in Seq(Message) /\ Append(q, e) # << >>
         /\ Carries(Append(q, e)) <=> Carries(q) \/ e = TheWindow!Exit
<1>1. /\ Append(q, e) \in Seq(Message) /\ Append(q, e) # << >>
      /\ Len(Append(q, e)) = Len(q) + 1 /\ Len(q) \in Nat
      /\ \A i \in 1 .. Len(q) : Append(q, e)[i] = q[i]
      /\ Append(q, e)[Len(q) + 1] = e
  BY AppendProperties
<1> DEFINE a == Append(q, e)
<1> HIDE DEF a
<1>2. Carries(a) <=> Carries(q) \/ e = TheWindow!Exit
  BY <1>1 DEF Carries, a
<1> QED
  BY <1>1, <1>2 DEF a

LEMMA ConcatCarries ==
  ASSUME NEW q \in Seq(Message), NEW r \in Seq(Message)
  PROVE  /\ q \o r \in Seq(Message)
         /\ q # << >> \/ r # << >> => q \o r # << >>
         /\ Carries(q \o r) <=> Carries(q) \/ Carries(r)
<1> DEFINE c == q \o r
<1>1. /\ c \in Seq(Message) /\ Len(c) = Len(q) + Len(r)
      /\ Len(q) \in Nat /\ Len(r) \in Nat
      /\ \A i \in 1 .. Len(c) :
           c[i] = IF i <= Len(q) THEN q[i] ELSE r[i - Len(q)]
  BY ConcatProperties
<1> HIDE DEF c
<1>2. q # << >> \/ r # << >> => c # << >>
  BY <1>1, EmptySeq
<1>3. Carries(q) \/ Carries(r) => Carries(c)
  <2>1. ASSUME NEW i \in 1 .. Len(q), q[i] = TheWindow!Exit
        PROVE  Carries(c)
    BY <1>1, <2>1 DEF Carries
  <2>2. ASSUME NEW i \in 1 .. Len(r), r[i] = TheWindow!Exit
        PROVE  Carries(c)
    <3>1. PICK j \in Int : j = i + Len(q)
      BY <1>1
    <3>2. j \in 1 .. Len(c) /\ ~(j <= Len(q)) /\ j - Len(q) = i
      BY <1>1, <3>1
    <3>3. c[j] = r[i]
      BY <1>1, <3>2
    <3> QED
      BY <2>2, <3>2, <3>3 DEF Carries
  <2> QED
    BY <2>1, <2>2 DEF Carries
<1>4. Carries(c) => Carries(q) \/ Carries(r)
  <2>1. ASSUME NEW i \in 1 .. Len(c), c[i] = TheWindow!Exit
        PROVE  Carries(q) \/ Carries(r)
    <3>1. CASE i <= Len(q)
      BY <1>1, <2>1, <3>1 DEF Carries
    <3>2. CASE i > Len(q)
      <4>1. i - Len(q) \in 1 .. Len(r) /\ c[i] = r[i - Len(q)]
        BY <1>1, <3>2
      <4> QED
        BY <2>1, <4>1 DEF Carries
    <3> QED
      BY <1>1, <3>1, <3>2
  <2> QED
    BY <2>1 DEF Carries
<1> QED
  BY <1>1, <1>2, <1>3, <1>4 DEF c

LEMMA TailCarries ==
  ASSUME NEW q \in Seq(Message), q # << >>
  PROVE  /\ Tail(q) \in Seq(Message) /\ Head(q) \in Message
         /\ Carries(Tail(q)) => Carries(q)
         /\ Head(q) # TheWindow!Exit => (Carries(q) <=> Carries(Tail(q)))
         /\ Head(q) = TheWindow!Exit => Carries(q)
<1> DEFINE t == Tail(q)
<1>1. /\ t \in Seq(Message) /\ Len(t) = Len(q) - 1
      /\ Len(q) \in Nat /\ Len(q) >= 1
      /\ \A i \in 1 .. Len(t) : t[i] = q[i + 1]
      /\ Head(q) = q[1] /\ Head(q) \in Message
  BY HeadTailProperties, EmptySeq, ElementOfSeq
<1> HIDE DEF t
<1>2. Carries(t) => Carries(q)
  BY <1>1 DEF Carries
<1>3. Head(q) # TheWindow!Exit /\ Carries(q) => Carries(t)
  <2> SUFFICES ASSUME Head(q) # TheWindow!Exit,
                      NEW i \in 1 .. Len(q), q[i] = TheWindow!Exit
               PROVE  Carries(t)
    BY DEF Carries
  <2>1. i - 1 \in 1 .. Len(t) /\ t[i - 1] = q[i]
    BY <1>1
  <2> QED
    BY <2>1 DEF Carries
<1>4. Head(q) = TheWindow!Exit => Carries(q)
  BY <1>1 DEF Carries
<1> QED
  BY <1>1, <1>2, <1>3, <1>4 DEF t

LEMMA InitHandlerInv == TheWindow!Init => HandlerInv
BY DEF TheWindow!Init, HandlerInv, Queues, ExitNotBefore, StartIsHeard,
       ExitComes, Reported, Carries

(* The main thread starts, builds and destroys windows, and then sends.    *)
LEMMA MainHandlerInv == HandlerInv /\ TheWindow!Main => HandlerInv'
<1> SUFFICES ASSUME HandlerInv, TheWindow!Main PROVE HandlerInv'
  OBVIOUS
<1> USE DEF HandlerInv, TheWindow!Go
<1>0. Win \in TheWindow!Windows
  BY DEF TheWindow!Windows
<1>1. CASE \/ TheWindow!InitMemory \/ TheWindow!StartThread
           \/ TheWindow!Waken \/ TheWindow!base_window
           \/ TheWindow!NoCamera \/ TheWindow!menu_bar \/ TheWindow!LeaveLoop
           \/ (\E w \in Popup :
                 TheWindow!DestroyPopup(w) \/ TheWindow!ClosePopup(w))
           \/ TheWindow!StartReturns \/ TheWindow!Remove
           \/ TheWindow!BeginWindow \/ TheWindow!DestroyWindow
           \/ TheWindow!EndWindow
  <2>1. /\ UNCHANGED << socket, events, status >>
        /\ screen' \subseteq screen
        /\ window_pc \notin {"send", "join", "ended"}
        /\ window_pc' \notin {"send", "join", "ended"}
        /\ \/ UNCHANGED epc /\ window_pc \notin {"init", "global"}
           \/ UNCHANGED epc /\ window_pc = "init" /\ window_pc' = "global"
           \/ epc' = "starting" /\ window_pc = "global"
        /\ window_pc' \in {"init", "global"} => window_pc = "init"
        /\ window_pc' = "waiting" =>
             \/ window_pc = "global"
             \/ window_pc = "waiting" /\ status = "uninitialized"
        /\ window_pc' \notin {"init", "global", "waiting", "aborted"} =>
             \/ window_pc \notin {"init", "global", "waiting", "aborted"}
             \/ window_pc = "waiting" /\ status = "initialized"
    BY <1>1 DEF TheWindow!InitMemory, TheWindow!StartThread, TheWindow!Waken,
       TheWindow!base_window, TheWindow!NoCamera, TheWindow!menu_bar,
       TheWindow!LeaveLoop, TheWindow!DestroyPopup, TheWindow!ClosePopup,
       TheWindow!StartReturns, TheWindow!Remove, TheWindow!BeginWindow,
       TheWindow!DestroyWindow, TheWindow!EndWindow, TheWindow!CloseFirst,
       TheWindow!close_window, TheWindow!objectVars, TheWindow!eventVars,
       TheWindow!mainVars, Reported
  <2>2. Queues' /\ ExitNotBefore'
    <3>1. epc' = "next" => epc = "next"
      BY <2>1
    <3> QED
      BY <2>1, <3>1 DEF Queues, ExitNotBefore, Carries
  <2>3. StartIsHeard' /\ ExitComes' /\ Reported'
    BY <2>1 DEF StartIsHeard, ExitComes, Reported
  <2> QED
    BY <2>2, <2>3
<1>2. CASE TheWindow!image_window
  <2>1. /\ window_pc = "derived" /\ window_pc' = "start"
        /\ socket' = Append(socket, << "map", Win >>) /\ screen' = {Win}
        /\ UNCHANGED << epc, status, events, signaled >>
    BY <1>2 DEF TheWindow!image_window, TheWindow!eventVars
  <2>2. socket' \in Seq(Message) /\ (Carries(socket') <=> Carries(socket))
    BY <1>0, <2>1, MessageKinds, AppendCarries DEF Queues
  <2> QED
    BY <1>0, <2>1, <2>2 DEF Queues, ExitNotBefore, StartIsHeard, ExitComes,
                            Reported, Carries
<1>3. CASE TheWindow!PutBack
  <2>1. /\ window_pc = "exit" /\ window_pc' = "send"
        /\ events' = << TheWindow!Exit >> \o events
        /\ UNCHANGED << epc, status, socket, screen, signaled >>
    BY <1>3 DEF TheWindow!PutBack, TheWindow!objectVars
  <2>2. events' \in Seq(Message) /\ events' # << >>
    BY <2>1, MessageKinds, ConcatCarries DEF Queues
  <2> QED
    BY <2>1, <2>2 DEF Queues, ExitNotBefore, StartIsHeard, ExitComes,
                      Reported, Carries
<1>4. CASE TheWindow!Send
  <2>1. /\ window_pc = "send" /\ window_pc' = "join"
        /\ socket' = Append(socket, TheWindow!Exit)
        /\ UNCHANGED << epc, status, events, screen, signaled >>
    BY <1>4 DEF TheWindow!Send, TheWindow!Sent, TheWindow!objectVars,
                TheWindow!eventVars
  <2>2. socket' \in Seq(Message) /\ socket' # << >> /\ Carries(socket')
    BY <2>1, MessageKinds, AppendCarries DEF Queues
  <2> QED
    BY <2>1, <2>2 DEF Queues, ExitNotBefore, StartIsHeard, ExitComes,
                      Reported, Carries
<1>5. CASE TheWindow!Join
  <2>1. /\ window_pc = "join" /\ window_pc' = "ended"
        /\ UNCHANGED << epc, status, events, socket, screen, signaled >>
    BY <1>5 DEF TheWindow!Join, TheWindow!objectVars, TheWindow!eventVars
  <2> QED
    BY <2>1 DEF Queues, ExitNotBefore, StartIsHeard, ExitComes, Reported,
                Carries
<1> QED
  BY <1>1, <1>2, <1>3, <1>4, <1>5 DEF TheWindow!Main

(* The event handler, which alone takes events from the queues.            *)
LEMMA EventHandlerInv == HandlerInv /\ TheWindow!EventHandler => HandlerInv'
<1> SUFFICES ASSUME HandlerInv, TheWindow!EventHandler PROVE HandlerInv'
  OBVIOUS
<1> USE DEF HandlerInv
<1>1. CASE TheWindow!Initialize
  <2>1. /\ epc = "starting" /\ signaled'
        /\ \/ status' = "initialized" /\ epc' = "pending"
           \/ status' = "failure_to_init" /\ epc' = "ended"
        /\ UNCHANGED << window_pc, events, socket, screen >>
    BY <1>1 DEF TheWindow!Initialize, TheWindow!Broadcast,
                TheWindow!objectVars, TheWindow!mainVars
  <2> QED
    BY <2>1 DEF Queues, ExitNotBefore, StartIsHeard, ExitComes, Reported,
                Carries
<1>2. CASE TheWindow!NonePending \/ TheWindow!Poll
  <2>1. /\ \/ /\ epc = "pending" /\ epc' = "polling"
              /\ events = << >> /\ socket = << >>
           \/ epc = "polling" /\ epc' = "pending"
        /\ UNCHANGED << window_pc, status, events, socket, screen, signaled >>
    BY <1>2 DEF TheWindow!NonePending, TheWindow!Poll, TheWindow!EventGo,
                TheWindow!objectVars, TheWindow!mainVars
  <2> QED
    BY <2>1 DEF Queues, ExitNotBefore, StartIsHeard, ExitComes, Reported,
                Carries
<1>3. CASE TheWindow!SomePending
  <2>1. /\ epc = "pending" /\ epc' = "next"
        /\ events # << >> \/ socket # << >>
        /\ events' = events \o socket /\ socket' = << >>
        /\ UNCHANGED << window_pc, status, screen, signaled >>
    BY <1>3 DEF TheWindow!SomePending, TheWindow!EventGo,
                TheWindow!objectVars, TheWindow!mainVars
  <2>2. /\ events' \in Seq(Message) /\ events' # << >>
        /\ Carries(events') <=> Carries(events) \/ Carries(socket)
        /\ socket' \in Seq(Message) /\ ~Carries(socket')
    BY <2>1, ConcatCarries DEF Queues, Carries
  <2>3. Queues' /\ ExitNotBefore'
    BY <2>1, <2>2 DEF Queues, ExitNotBefore, Carries
  <2>4. ExitComes'
    BY <2>1, <2>2 DEF ExitComes, Carries
  <2> QED
    BY <2>1, <2>3, <2>4 DEF StartIsHeard, Reported
<1>4. CASE \/ TheWindow!Discard \/ TheWindow!MapNotify \/ TheWindow!Input
           \/ TheWindow!Delete \/ TheWindow!Quit
  <2>1. /\ epc = "next" /\ events' = Tail(events)
        /\ \/ epc' = "pending" /\ Head(events) # TheWindow!Exit
           \/ epc' = "ended" /\ Head(events)[1] = "exit"
        /\ \/ UNCHANGED << socket, screen >>
           \/ UNCHANGED socket /\ screen' \subseteq screen
           \/ \E v \in Popup : /\ socket' = Append(socket, << "map", v >>)
                               /\ screen' = screen \cup {v}
        /\ UNCHANGED << window_pc, status, signaled >>
    <3> USE DEF TheWindow!Handles, TheWindow!Deliver, TheWindow!close_window,
                TheWindow!objectVars, TheWindow!mainVars, TheWindow!Exit
    <3>1. CASE TheWindow!Discard
      BY <1>4, <3>1 DEF TheWindow!Discard
    <3>2. CASE TheWindow!MapNotify
      BY <1>4, <3>2 DEF TheWindow!MapNotify
    <3>3. CASE TheWindow!Input
      BY <1>4, <3>3 DEF TheWindow!Input
    <3>4. CASE TheWindow!Delete
      BY <1>4, <3>4 DEF TheWindow!Delete
    <3>5. CASE TheWindow!Quit
      BY <1>4, <3>5 DEF TheWindow!Quit
    <3> QED
      BY <1>4, <3>1, <3>2, <3>3, <3>4, <3>5
  <2>2. /\ events # << >> /\ events \in Seq(Message)
        /\ Head(events) \in Message /\ events' \in Seq(Message)
        /\ Carries(events') => Carries(events)
        /\ Head(events) # TheWindow!Exit =>
             (Carries(events) <=> Carries(events'))
        /\ Head(events) = TheWindow!Exit => Carries(events)
    BY <2>1, TailCarries DEF Queues
  <2>3. /\ socket' \in Seq(Message) /\ screen' \subseteq TheWindow!Windows
        /\ Carries(socket') <=> Carries(socket)
        /\ socket # << >> => socket' # << >>
    <3>1. CASE UNCHANGED socket /\ screen' \subseteq screen
      BY <3>1 DEF Queues, Carries
    <3>2. ASSUME NEW v \in Popup, socket' = Append(socket, << "map", v >>),
                 screen' = screen \cup {v}
          PROVE  /\ socket' \in Seq(Message)
                 /\ screen' \subseteq TheWindow!Windows
                 /\ Carries(socket') <=> Carries(socket)
                 /\ socket # << >> => socket' # << >>
      BY <3>2, MessageKinds, AppendCarries DEF Queues, TheWindow!Windows
    <3> QED
      BY <2>1, <3>1, <3>2
  <2>4. epc' = "ended" => Head(events) = TheWindow!Exit
    BY <2>1, <2>2 DEF Message, TheWindow!Exit
  <2>5. Queues' /\ ExitNotBefore'
    BY <2>1, <2>2, <2>3 DEF Queues, ExitNotBefore, Carries
  <2>6. ExitComes'
    BY <2>1, <2>2, <2>3 DEF ExitComes, Carries
  <2>7. epc' = "ended" => window_pc \in {"send", "join", "ended"}
    BY <2>2, <2>4 DEF ExitNotBefore
  <2> QED
    BY <2>1, <2>5, <2>6, <2>7 DEF StartIsHeard, Reported
<1> QED
  BY <1>1, <1>2, <1>3, <1>4 DEF TheWindow!EventHandler

LEMMA NextHandlerInv ==
  HandlerInv /\ [TheWindow!Next]_(TheWindow!vars) => HandlerInv'
<1> SUFFICES ASSUME HandlerInv, [TheWindow!Next]_(TheWindow!vars)
             PROVE  HandlerInv'
  OBVIOUS
<1>1. ASSUME NEW w \in TheWindow!Windows, TheWindow!Act(w)
      PROVE  HandlerInv'
  <2>1. PICK type \in {"map", "input", "delete"} :
          socket' = Append(socket, << type, w >>)
    BY <1>1 DEF TheWindow!Act
  <2>2. UNCHANGED << window_pc, epc, status, events, screen, signaled >>
    BY <1>1 DEF TheWindow!Act, TheWindow!objectVars, TheWindow!eventVars,
                TheWindow!mainVars
  <2>3. /\ socket' \in Seq(Message) /\ socket' # << >>
        /\ Carries(socket') <=> Carries(socket)
    BY <2>1, MessageKinds, AppendCarries DEF HandlerInv, Queues
  <2> QED
    BY <2>2, <2>3 DEF HandlerInv, Queues, ExitNotBefore, StartIsHeard,
                      ExitComes, Reported, Carries
<1>2. CASE UNCHANGED TheWindow!vars
  BY <1>2 DEF TheWindow!vars, TheWindow!objectVars, TheWindow!eventVars,
     TheWindow!mainVars, HandlerInv, Queues, ExitNotBefore, StartIsHeard,
     ExitComes, Reported, Carries
<1> QED
  BY <1>1, <1>2, MainHandlerInv, EventHandlerInv DEF TheWindow!Next

(* ~event_handler_thread puts the exit event back and sends it as well:    *)
(* while the main thread waits for the handler, the event is in a queue    *)
(* the handler reads or the handler has ended, and it is not asleep in     *)
(* poll with nothing on the way.  global_data's wait misses no broadcast   *)
(* either.                                                                 *)
THEOREM WindowExit == TheWindow!Spec => [](StartIsHeard /\ ExitComes)
<1>1. HandlerInv => StartIsHeard /\ ExitComes
  BY DEF HandlerInv
<1> QED
  BY <1>1, InitHandlerInv, NextHandlerInv, PTL DEF TheWindow!Spec

-----------------------------------------------------------------------------
(* What is left when the server has ended.                                 *)

Removed == Late \cup {"unwind"}

(* A popup is in the table only from its constructor to its destructor,    *)
(* and the segment has its name until remove.                              *)
Cleaning ==
  /\ window_table \subseteq TheWindow!Windows
  /\ \A w \in Popup \cap window_table : life[w] \in {"built", "dying"}
  /\ window_pc \in Removed \cup {"remove"} =>
       \A w \in Popup : life[w] \in {"none", "gone"}
  /\ window_pc \in Early \cup {"start"} =>
       \A w \in Popup : life[w] = "none"
  /\ segment <=> window_pc \notin Removed \cup {"init"}

EndsClean ==
  window_pc = "ended" => ~segment /\ window_table = {} /\ epc = "ended"

LEMMA NextCleaning ==
  ASSUME WindowInv, Cleaning, [TheWindow!Next]_(TheWindow!vars)
  PROVE  Cleaning'
<1> USE WinIsNoPopup DEF Cleaning, Removed, Early, Late, TheWindow!Windows,
        TheWindow!Go, TheWindow!Becomes, TheWindow!close_window,
        TheWindow!objectVars, TheWindow!eventVars, TheWindow!mainVars
<1>0. life \in
        [TheWindow!Windows -> {"none", "base", "built", "dying", "gone"}]
  BY DEF WindowInv, KnownIsBuilt
<1>1. CASE \/ TheWindow!InitMemory \/ TheWindow!StartThread
           \/ TheWindow!Waken \/ TheWindow!NoCamera \/ TheWindow!LeaveLoop
           \/ TheWindow!StartReturns \/ TheWindow!Remove
           \/ TheWindow!PutBack \/ TheWindow!Send \/ TheWindow!Join
  BY <1>1 DEF TheWindow!InitMemory, TheWindow!StartThread, TheWindow!Waken,
     TheWindow!NoCamera, TheWindow!LeaveLoop, TheWindow!StartReturns,
     TheWindow!Remove, TheWindow!PutBack, TheWindow!Send, TheWindow!Join
<1>2. CASE \/ TheWindow!base_window \/ TheWindow!image_window
           \/ TheWindow!BeginWindow \/ TheWindow!DestroyWindow
           \/ TheWindow!EndWindow
  <2>1. /\ \A w \in Popup : life'[w] = life[w]
        /\ window_table' \subseteq window_table \cup {Win}
    BY <1>2, <1>0 DEF TheWindow!base_window, TheWindow!image_window,
       TheWindow!BeginWindow, TheWindow!CloseFirst, TheWindow!DestroyWindow,
       TheWindow!EndWindow
  <2>2. /\ UNCHANGED segment
        /\ \/ window_pc = "base" /\ window_pc' = "derived"
           \/ window_pc = "derived" /\ window_pc' = "start"
           \/ window_pc = "unwind" /\ window_pc' = "window"
           \/ window_pc = "window" /\ window_pc' = "destroyed"
           \/ window_pc = "destroyed" /\ window_pc' = "exit"
    BY <1>2 DEF TheWindow!base_window, TheWindow!image_window,
       TheWindow!BeginWindow, TheWindow!DestroyWindow, TheWindow!EndWindow
  <2> QED
    BY <2>1, <2>2
<1>3. CASE TheWindow!menu_bar
  BY <1>3 DEF TheWindow!menu_bar
<1>4. ASSUME NEW w \in Popup,
             TheWindow!DestroyPopup(w) \/ TheWindow!ClosePopup(w)
      PROVE  Cleaning'
  <2>1. /\ UNCHANGED << window_pc, segment >> /\ window_pc = "popups"
        /\ \/ /\ life' = [life EXCEPT ![w] = "dying"]
              /\ UNCHANGED window_table
           \/ /\ life' = [life EXCEPT ![w] = "gone"]
              /\ window_table' = window_table \ {w}
    BY <1>4 DEF TheWindow!DestroyPopup, TheWindow!ClosePopup
  <2> QED
    BY <1>0, <2>1
<1>5. CASE TheWindow!EventHandler \/ \E w \in TheWindow!Windows :
                                       TheWindow!Act(w)
  <2>1. /\ UNCHANGED << window_pc, segment, life >>
        /\ window_table' \subseteq window_table
    BY <1>5 DEF TheWindow!EventHandler, TheWindow!Initialize,
       TheWindow!NonePending, TheWindow!SomePending, TheWindow!Poll,
       TheWindow!Discard, TheWindow!MapNotify, TheWindow!Input,
       TheWindow!Delete, TheWindow!Quit, TheWindow!Handles, TheWindow!Act
  <2> QED
    BY <2>1
<1>6. CASE UNCHANGED TheWindow!vars
  BY <1>6 DEF TheWindow!vars
<1> QED
  BY <1>1, <1>2, <1>3, <1>4, <1>5, <1>6 DEF TheWindow!Next, TheWindow!Main

(* When main returns, remove() has taken the name of the shared memory     *)
(* away, every window has left the table and the event handler has ended,  *)
(* whether or not there was a camera.                                      *)
THEOREM WindowEndsClean == TheWindow!Spec => []EndsClean
<1>1. TheWindow!Init => Cleaning
  BY DEF TheWindow!Init, Cleaning, Removed, Early, Late, TheWindow!Windows
<1>2. WindowInv /\ Cleaning /\ [TheWindow!Next]_(TheWindow!vars) => Cleaning'
  BY NextCleaning
<1> DEFINE Ended == window_pc = "ended" => epc = "ended"
<1>3. TheWindow!Init => Ended
  BY DEF TheWindow!Init
<1>4. HandlerInv /\ Ended /\ [TheWindow!Next]_(TheWindow!vars) => Ended'
  <2> SUFFICES ASSUME HandlerInv, Ended, [TheWindow!Next]_(TheWindow!vars),
                      window_pc' = "ended"
               PROVE  epc' = "ended"
    OBVIOUS
  <2> USE DEF TheWindow!Go, TheWindow!eventVars, TheWindow!mainVars,
              TheWindow!EventGo
  <2>1. CASE TheWindow!Main
    BY <2>1 DEF TheWindow!Main, TheWindow!InitMemory, TheWindow!StartThread,
       TheWindow!Waken, TheWindow!base_window, TheWindow!image_window,
       TheWindow!NoCamera, TheWindow!menu_bar, TheWindow!LeaveLoop,
       TheWindow!DestroyPopup, TheWindow!ClosePopup, TheWindow!StartReturns,
       TheWindow!Remove, TheWindow!BeginWindow, TheWindow!DestroyWindow,
       TheWindow!EndWindow, TheWindow!PutBack, TheWindow!Send, TheWindow!Join
  <2>2. CASE TheWindow!EventHandler
    BY <2>2 DEF TheWindow!EventHandler, TheWindow!Initialize,
       TheWindow!NonePending, TheWindow!SomePending, TheWindow!Poll,
       TheWindow!Discard, TheWindow!MapNotify, TheWindow!Input,
       TheWindow!Delete, TheWindow!Quit, TheWindow!Handles
  <2>3. CASE \E w \in TheWindow!Windows : TheWindow!Act(w)
    BY <2>3 DEF TheWindow!Act
  <2> QED
    BY <2>1, <2>2, <2>3 DEF TheWindow!Next, TheWindow!vars
<1>5. WindowInv /\ Cleaning /\ Ended => EndsClean
  BY WinIsNoPopup
  DEF WindowInv, KnownIsBuilt, Cleaning, EndsClean, Removed, Late, Early,
      TheWindow!Windows
<1> QED
  BY <1>1, <1>2, <1>3, <1>4, <1>5, InitWindowInv, NextWindowInv,
     InitHandlerInv, NextHandlerInv, PTL DEF TheWindow!Spec

-----------------------------------------------------------------------------
(* What is proved of the threaded object and of the recursive mutex, where *)
(* they are defined, said of the model of all parts.                       *)

Object_ == INSTANCE ThreadedObjectProofs
Mutex_ == INSTANCE RecursiveMutexProofs WITH pc <- mutex_pc

(* No restart of a thread is lost, one that comes as thread() returns      *)
(* included.                                                               *)
THEOREM ObjectsRestart == Objects!Spec => []RestartRuns
<1>1. Object_!ThreadedObjectAssumption
  BY ThreadsAssumption
  DEF Objects!ThreadedObjectAssumption, Object_!ThreadedObjectAssumption
<1>2. Objects!Init => Object_!ObjectInv
  <2>1. Objects!Init => Object_!Init
    BY DEF Objects!Init, Object_!Init
  <2> QED
    BY <1>1, <2>1, Object_!InitObjectInv
<1>3. Object_!ObjectInv /\ [Objects!Next]_(Objects!vars) => Object_!ObjectInv'
  <2>1. [Objects!Next]_(Objects!vars) => [Object_!Next]_(Object_!vars)
    BY DEF Object_!Next, Objects!Next, Object_!vars, Objects!vars,
      Object_!flags, Objects!flags, Object_!Operation, Objects!Operation,
      Object_!Helper, Objects!Helper, Object_!Set, Objects!Set,
      Object_!Broadcast, Objects!Broadcast, Object_!Spawned, Objects!Spawned,
      Object_!Started, Objects!Started, Object_!start, Objects!start,
      Object_!StartFails, Objects!StartFails, Object_!restart,
      Objects!restart, Object_!set_respawn, Objects!set_respawn,
      Object_!pause, Objects!pause, Object_!StopTold, Objects!StopTold,
      Object_!stop, Objects!stop, Object_!wait, Objects!wait,
      Object_!Returning, Objects!Returning, Object_!WaitAgain,
      Objects!WaitAgain, Object_!Go, Objects!Go, Object_!Turn, Objects!Turn,
      Object_!Begin, Objects!Begin, Object_!CheckStop, Objects!CheckStop,
      Object_!Return, Objects!Return, Object_!Respawns, Objects!Respawns,
      Object_!Ended, Objects!Ended, Object_!Dead, Objects!Dead,
      Object_!Finish, Objects!Finish
  <2> QED
    BY <1>1, <2>1, Object_!NextObjectInv
<1>4. Object_!ObjectInv => RestartRuns
  BY DEF Object_!ObjectInv, Object_!Respawning, RestartRuns,
         Objects!RestartRuns
<1> QED
  BY <1>2, <1>3, <1>4, PTL DEF Objects!Spec

LEMMA MutexKeepsInv ==
  /\ Mutex_!RecursiveMutexAssumption
  /\ [Mutex!Next]_(Mutex!vars) => [Mutex_!Next]_(Mutex_!vars)
  /\ Mutex!Init => Mutex_!MutexInv
  /\ Mutex_!MutexInv /\ [Mutex!Next]_(Mutex!vars) => Mutex_!MutexInv'
<1>1. Mutex_!RecursiveMutexAssumption
  BY ThreadsAssumption
  DEF Mutex!RecursiveMutexAssumption, Mutex_!RecursiveMutexAssumption
<1>2. Mutex!Init => Mutex_!Init
  BY DEF Mutex!Init, Mutex_!Init
<1>3. [Mutex!Next]_(Mutex!vars) => [Mutex_!Next]_(Mutex_!vars)
  BY DEF Mutex!Next, Mutex_!Next, Mutex!vars, Mutex_!vars, Mutex!user,
    Mutex_!user, Mutex!Times, Mutex_!Times, Mutex!Go, Mutex_!Go, Mutex!Count,
    Mutex_!Count, Mutex!Claim, Mutex_!Claim, Mutex!Taken, Mutex_!Taken,
    Mutex!Own, Mutex_!Own, Mutex!lock, Mutex_!lock, Mutex!Retry,
    Mutex_!Retry, Mutex!Signalled, Mutex_!Signalled, Mutex!Uncount,
    Mutex_!Uncount, Mutex!unlock, Mutex_!unlock, Mutex!MutexFree,
    Mutex_!MutexFree, Mutex!Saved, Mutex_!Saved, Mutex!wait, Mutex_!wait,
    Mutex!Sleep, Mutex_!Sleep, Mutex!Wake, Mutex_!Wake, Mutex!Relock,
    Mutex_!Relock, Mutex!signal, Mutex_!signal, Mutex!broadcast,
    Mutex_!broadcast, Mutex!Spurious, Mutex_!Spurious, Mutex!Inside,
    Mutex_!Inside, Mutex!wait_until_closed, Mutex_!wait_until_closed,
    Mutex!close_window, Mutex_!close_window
<1> QED
  BY <1>1, <1>2, <1>3, Mutex_!InitMutexInv, Mutex_!NextMutexInv

(* rmutex and rsignaler implement a recursive lock.                        *)
THEOREM MutexIsLock == Mutex!Spec => IsRecursiveLock
<1>1. Mutex!Init => Mutex!Lock!Init
  BY DEF Mutex!Init, Mutex!Lock!Init, Mutex!held
<1>2. Mutex_!MutexInv /\ Mutex_!MutexInv' /\ [Mutex!Next]_(Mutex!vars) =>
        [Mutex!Lock!Next]_(Mutex!held)
  <2>1. [Mutex_!Lock!Next]_(Mutex_!held) => [Mutex!Lock!Next]_(Mutex!held)
    BY DEF Mutex_!Lock!Next, Mutex!Lock!Next, Mutex_!held, Mutex!held,
      Mutex_!Lock!Acquire, Mutex!Lock!Acquire, Mutex_!Lock!Release,
      Mutex!Lock!Release, Mutex_!Lock!Change, Mutex!Lock!Change
  <2> QED
    BY MutexKeepsInv, <2>1, Mutex_!NextLock
<1> QED
  BY <1>1, <1>2, MutexKeepsInv, PTL
  DEF Mutex!Spec, IsRecursiveLock, Mutex!IsRecursiveLock, Mutex!Lock!Spec

(* No wake-up of the window's signaler is lost: after a broadcast that     *)
(* told of the window's end nobody waits for that end.                     *)
THEOREM MutexHears == Mutex!Spec => []NobodySleepsOn
<1>1. Mutex_!MutexInv => NobodySleepsOn
  BY DEF Mutex_!MutexInv, Mutex_!UserInv, Mutex_!NobodySleepsOn,
         NobodySleepsOn, Mutex!NobodySleepsOn
<1> QED
  BY <1>1, MutexKeepsInv, PTL DEF Mutex!Spec

(* A behaviour of the five parts side by side is one of each: the steps of *)
(* the others do not touch its variables.                                  *)
LEMMA ThreadsParts ==
  ThreadsSpec => /\ Mutex!Spec /\ Threads!Spec /\ Objects!Spec
                 /\ Spec /\ TheWindow!Spec
<1>1. ThreadsInit => /\ Mutex!Init /\ Threads!Init /\ Objects!Init
                     /\ Init /\ TheWindow!Init
  BY DEF ThreadsInit
<1>2. [ThreadsNext]_all =>
        /\ [Mutex!Next]_(Mutex!vars) /\ [Threads!Next]_(Threads!vars)
        /\ [Objects!Next]_(Objects!vars) /\ [Next]_vars
        /\ [TheWindow!Next]_(TheWindow!vars)
  <2> USE DEF all, mutexVars, poolVars, objectVars, windowVars, Mutex!vars,
              Mutex!user, Threads!vars, Threads!slot, Threads!ghosts, Objects!vars,
              Objects!flags, TheWindow!vars, TheWindow!mainVars,
              TheWindow!objectVars, TheWindow!eventVars
  <2>1. MutexNext \/ PoolNext \/ ObjectNext \/ EventsNext \/ WindowNext =>
          /\ [Mutex!Next]_(Mutex!vars) /\ [Threads!Next]_(Threads!vars)
          /\ [Objects!Next]_(Objects!vars) /\ [Next]_vars
          /\ [TheWindow!Next]_(TheWindow!vars)
    BY DEF MutexNext, PoolNext, ObjectNext, EventsNext, WindowNext
  <2>2. Stop \/ UNCHANGED all =>
          /\ [Mutex!Next]_(Mutex!vars) /\ [Threads!Next]_(Threads!vars)
          /\ [Objects!Next]_(Objects!vars) /\ [Next]_vars
          /\ [TheWindow!Next]_(TheWindow!vars)
    BY DEF Stop
  <2> QED
    BY <2>1, <2>2 DEF ThreadsNext
<1> QED
  BY <1>1, <1>2, PTL
  DEF ThreadsSpec, Mutex!Spec, Threads!Spec, Objects!Spec, Spec,
      TheWindow!Spec

(* So what is proved of the parts holds of the model that puts them        *)
(* together.                                                               *)
THEOREM ThreadsSafe ==
  ThreadsSpec =>
    /\ IsRecursiveLock /\ []NobodySleepsOn
    /\ [](SlotHasATaker /\ CalledOnce /\ CallersWake)
    /\ []RestartRuns
    /\ [](OneThreadForTheQueue /\ InOrder) /\ NoneAfterDestruction
    /\ [](WindowHearsWhileBuilt /\ StartIsHeard /\ ExitComes /\ EndsClean)
BY ThreadsParts, MutexIsLock, MutexHears, ThreadPoolTaker, ThreadPoolOnce,
   ThreadPoolCallers, ObjectsRestart, EventsOneThread, EventsInOrder,
   EventsNoneAfter, WindowHears, WindowExit, WindowEndsClean, PTL

=============================================================================
