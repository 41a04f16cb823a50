----------------------------- MODULE UserEvents -----------------------------
(***************************************************************************)
(* The queue of user events of dlib's windows: a widget posts an event to  *)
(* itself, from a timer or from a callback, and a thread of the thread     *)
(* pool, started for the first event in the queue, delivers the whole      *)
(* queue to the widgets that are still there                               *)
(* (dlib/gui_core/gui_core_kernel_2.cpp, dlib/gui_widgets/drawable.cpp).   *)
(* The scroll bars of the server's window repeat a held button this way.   *)
(***************************************************************************)
EXTENDS Integers, Sequences, FiniteSets

CONSTANTS
    Widget,      \* the widgets of one window, each with a timer that posts
    Pool,        \* the threads the pool may start for the queue
    MaxPosts,    \* bound: events posted in a behaviour
    MaxFailures  \* bound: times the pool finds no thread to start

Main == "main"        \* the program's thread
Handler == "handler"  \* the thread that handles the X server's events

ASSUME UserEventsAssumption ==
    /\ Widget # {} /\ Cardinality(Pool) >= 2
    /\ Main \notin Pool /\ Handler \notin Pool
    /\ MaxPosts \in Nat /\ MaxFailures \in Nat

VARIABLES
    user_events,       \* events posted and taken by no thread yet
    user_events_temp,  \* events the thread that holds the mutex delivers
    at,                \* how many of those it has gone through
    thread,            \* Pool -> where each thread is
    holder,            \* who holds the window's mutex: {} or one owner
    member,            \* widgets registered with the window (widget_set)
    alive,             \* widgets not destroyed yet
    in_table,          \* the window is in the window table
    posted,            \* events posted so far
    failures,          \* times no thread could be started
    got                \* Widget -> the events each was delivered, in order

queues == <<user_events, user_events_temp, at>>
window == <<member, alive, in_table>>
vars == <<queues, thread, holder, window, posted, failures, got>>

Event == [widget : Widget, id : 1..MaxPosts]

Init ==
    /\ user_events = <<>> /\ user_events_temp = <<>> /\ at = 0
    /\ thread = [t \in Pool |-> "none"]
    /\ holder = {}
    /\ member = Widget /\ alive = Widget /\ in_table = TRUE
    /\ posted = 0 /\ failures = 0
    /\ got = [d \in Widget |-> <<>>]

\* Threads out for the queue that have not taken it yet.
Waiting == {t \in Pool : thread[t] \in {"started", "locked"}}

\* Faulty variant of First: every event starts a thread.
FirstEachTime(queue) == Len(queue) >= 1

\* Faulty variant of First: the first event is not counted yet.
FirstMissed(queue) == Len(queue) = 2

First(queue) == Len(queue) = 1

\* Faulty variant of Enqueued: the queue is a stack.
EnqueuedAtHead(queue, e) == <<e>> \o queue

Enqueued(queue, e) == Append(queue, e)

\* create_new_thread finds a thread for the dispatcher, or finds none and says
\* so: trigger_user_event does not look.
StartThread ==
    /\ \E t \in Pool : /\ thread[t] = "none"
                       /\ thread' = [thread EXCEPT ![t] = "started"]
    /\ UNCHANGED failures

StartFails ==
    /\ failures < MaxFailures
    /\ failures' = failures + 1
    /\ UNCHANGED thread

\* The event that comes first into an empty queue starts the thread.
Enqueue(d) ==
    /\ posted < MaxPosts
    /\ posted' = posted + 1
    /\ user_events' =
         Enqueued(user_events, [widget |-> d, id |-> posted + 1])
    /\ IF First(user_events') THEN StartThread \/ StartFails
                              ELSE UNCHANGED <<thread, failures>>
    /\ UNCHANGED <<user_events_temp, at, holder, window, got>>

\* A timer of a widget: it asks for no mutex but the queue's.
Post(d) == d \in alive /\ Enqueue(d)

\* A callback of a widget, the window's mutex in the hands of the thread that
\* handles the X server's events.
PostFromCallback(d) == holder = {Handler} /\ d \in member /\ Enqueue(d)

Lock(who) ==
    /\ holder = {}
    /\ holder' = {who}
    /\ UNCHANGED <<queues, thread, window, posted, failures, got>>

Unlock(who) ==
    /\ holder = {who}
    /\ holder' = {}
    /\ UNCHANGED <<queues, thread, window, posted, failures, got>>

Granted == holder = {}

Acquire(t) ==
    /\ thread[t] = "started" /\ Granted
    /\ thread' = [thread EXCEPT ![t] = "locked"]
    /\ holder' = holder \cup {t}
    /\ UNCHANGED <<queues, window, posted, failures, got>>

Swap(t) ==
    /\ thread[t] = "locked"
    /\ thread' = [thread EXCEPT ![t] = "dispatching"]
    /\ user_events' = user_events_temp /\ user_events_temp' = user_events
    /\ at' = 0
    /\ UNCHANGED <<holder, window, posted, failures, got>>

\* Faulty variant of Addressee: any widget of a window that is there.
AddresseeWindowOnly(e) == in_table

\* The window is looked up in the table, the widget among the window's.
Addressee(e) == in_table /\ e.widget \in member

Dispatch(t) ==
    /\ thread[t] = "dispatching" /\ at < Len(user_events_temp)
    /\ at' = at + 1
    /\ LET e == user_events_temp[at + 1] IN
         got' = IF Addressee(e)
                  THEN [got EXCEPT ![e.widget] = Append(@, e.id)]
                  ELSE got
    /\ UNCHANGED <<user_events, user_events_temp, thread, holder, window,
                   posted, failures>>

\* A widget's on_user_event may post the next event before it returns.
PostFromDispatch(t) ==
    /\ thread[t] = "dispatching" /\ at > 0
    /\ Addressee(user_events_temp[at])
    /\ Enqueue(user_events_temp[at].widget)

Clear == /\ user_events_temp' = <<>> /\ at' = 0

Finish(t) ==
    /\ thread[t] = "dispatching" /\ at = Len(user_events_temp)
    /\ Clear
    /\ thread' = [thread EXCEPT ![t] = "none"]
    /\ holder' = holder \ {t}
    /\ UNCHANGED <<user_events, window, posted, failures, got>>

\* A widget's destructor unregisters it under the mutex, then waits for its
\* timer to stop; only then is it gone.
DisableEvents(d) ==
    /\ holder = {} /\ d \in member
    /\ member' = member \ {d}
    /\ UNCHANGED <<queues, thread, holder, alive, in_table, posted, failures,
                   got>>

Destroyed(d) ==
    /\ d \in alive \ member
    /\ alive' = alive \ {d}
    /\ UNCHANGED <<queues, thread, holder, member, in_table, posted, failures,
                   got>>

CloseWindow ==
    /\ holder = {} /\ in_table
    /\ in_table' = FALSE
    /\ UNCHANGED <<queues, thread, holder, member, alive, posted, failures,
                   got>>

Work(t) == Acquire(t) \/ Swap(t) \/ Dispatch(t) \/ Finish(t)

Next ==
    \/ \E d \in Widget : \/ Post(d) \/ PostFromCallback(d)
                         \/ DisableEvents(d) \/ Destroyed(d)
    \/ \E t \in Pool : Work(t) \/ PostFromDispatch(t)
    \/ \E who \in {Main, Handler} : Lock(who) \/ Unlock(who)
    \/ CloseWindow

Spec == Init /\ [][Next]_vars

\* Every thread that has what it waits for runs on, and none is kept from the
\* mutex for ever.
Fairness ==
    /\ \A t \in Pool : SF_vars(Acquire(t)) /\ WF_vars(Work(t))
    /\ \A who \in {Main, Handler} : WF_vars(Unlock(who))

-----------------------------------------------------------------------------

\* "we only need to start a thread to deal with this if there isn't already
\* one out working on the queue" (gui_core_kernel_2.cpp): the length of the
\* queue says whether there is one.  A thread that delivers what it took does
\* not count, and exactly one that has yet to take it is out: so long as a
\* thread could always be started.
OneThreadForTheQueue ==
    failures = 0 =>
        Cardinality(Waiting) = IF user_events = <<>> THEN 0 ELSE 1

\* Two threads may be out, one that delivers and one that waits for the mutex;
\* a widget still gets its events in the order they were posted, each once
\* (the scroll bar's jump to the last wish relies on it).
InOrder ==
    \A d \in Widget : \A i, j \in 1..Len(got[d]) :
        i < j => got[d][i] < got[d][j]

\* A widget unregistered while its events wait in the queue, or posting them
\* still, gets none once it is gone (drawable_window::on_user_event).
NoneAfterDestruction ==
    [][\A d \in Widget : got'[d] # got[d] => d \in alive /\ in_table]_vars

\* trigger_user_event "causes the on_user_event() event to be called"
\* (gui_core_kernel_abstract.h): no event is left in the queue for good, so
\* long as a thread could always be started.
EventsAreTaken ==
    user_events # <<>> ~> user_events = <<>> \/ failures > 0
=============================================================================
