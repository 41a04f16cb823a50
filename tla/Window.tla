------------------------------- MODULE Window -------------------------------
(***************************************************************************)
(* The server's main thread and dlib's event handler thread: who creates,  *)
(* shows, closes and destroys the windows, and which events reach them.    *)
(*                                                                         *)
(* A member function of a window, and the handling of one event, hold the  *)
(* window table's mutex from beginning to end and so are one step.  What   *)
(* is not under it is separate: destructors of derived classes, poll, and  *)
(* the two ways the exit event is sent.                                    *)
(***************************************************************************)
EXTENDS Integers, Sequences

CONSTANTS
  Win,       \* the image_window
  Popup,     \* the popup_menus of the menu bar
  MaxEvents  \* bound: events of the user not handled yet

Windows == {Win} \cup Popup
Exit == << "exit" >>

(* What whoever gives the constants their values has to assume.             *)
WindowAssumption == Win \notin Popup /\ MaxEvents \in Nat

VARIABLES
  pc,            \* where the main thread is
  epc,           \* where the event handler thread is
  status,        \* the event handler's status
  signaled,      \* et_signaler has been broadcast to since the last wait
  life,          \* the state of each window object
  window_table,  \* the windows that are not closed
  is_mapped,     \* those whose MapNotify has been handled
  screen,        \* the windows the X server shows
  menu,          \* the menu bar takes part in the window's events
  socket,        \* the events the X server has sent
  events,        \* the events in Xlib's queue
  heard,         \* << window, its life >> for the event handled last
  segment        \* the shared memory has its name

mainVars == << pc, menu, segment >>
objectVars == << life, window_table, screen >>
eventVars == << epc, status, is_mapped, events, heard >>

vars == << mainVars, objectVars, eventVars, signaled, socket >>

Init ==
  /\ pc = "init" /\ epc = "none"
  /\ status = "uninitialized" /\ signaled = FALSE
  /\ life = [w \in Windows |-> "none"]
  /\ window_table = {} /\ is_mapped = {} /\ screen = {}
  /\ menu = FALSE
  /\ socket = << >> /\ events = << >>
  /\ heard = << >>
  /\ segment = FALSE

Go(from, to) == pc = from /\ pc' = to

Becomes(w, state) == life' = [life EXCEPT ![w] = state]

-----------------------------------------------------------------------------
(* The main thread, from memory_manager.init() on.                         *)

InitMemory ==
  /\ Go("init", "global")
  /\ segment' = TRUE
  /\ UNCHANGED << menu, objectVars, eventVars, signaled, socket >>

(* global_data(): start the thread and wait for it.                        *)
StartThread ==
  /\ Go("global", "waiting")
  /\ epc' = "starting"
  /\ UNCHANGED << menu, segment, objectVars, status, is_mapped, events, heard,
                  signaled, socket >>

(* The loop around the wait; gui_error ends the process.                   *)
Waken ==
  /\ pc = "waiting" /\ signaled
  /\ signaled' = FALSE
  /\ pc' = CASE status = "initialized" -> "base"
             [] status = "failure_to_init" -> "aborted"
             [] OTHER -> "waiting"
  /\ UNCHANGED << menu, segment, objectVars, eventVars, socket >>

base_window ==
  /\ Go("base", "derived")
  /\ Becomes(Win, "base")
  /\ window_table' = {Win}
  /\ UNCHANGED << menu, segment, screen, eventVars, signaled, socket >>

(* The body of the constructor ends with show().                           *)
image_window ==
  /\ Go("derived", "start")
  /\ Becomes(Win, "built")
  /\ screen' = {Win}
  /\ socket' = Append(socket, << "map", Win >>)
  /\ UNCHANGED << menu, segment, window_table, eventVars, signaled >>

(* Without a camera start returns at once.                                 *)
NoCamera ==
  /\ Go("start", "remove")
  /\ UNCHANGED << menu, segment, objectVars, eventVars, signaled, socket >>

(* menu_bar's constructor and set_number_of_menus.                         *)
menu_bar ==
  /\ Go("start", "loop")
  /\ life' = [w \in Windows |-> IF w \in Popup THEN "built" ELSE life[w]]
  /\ window_table' = window_table \cup Popup
  /\ menu' = TRUE
  /\ UNCHANGED << segment, screen, eventVars, signaled, socket >>

(* while (!win.is_closed()) ends; the menu bar disables its events, ...    *)
LeaveLoop ==
  /\ Go("loop", "popups")
  /\ Win \notin window_table
  /\ menu' = FALSE
  /\ UNCHANGED << segment, objectVars, eventVars, signaled, socket >>

(* ... then its popups are destroyed, one after the other: the members of  *)
(* popup_menu, ...                                                         *)
DestroyPopup(w) ==
  /\ pc = "popups" /\ life[w] = "built"
  /\ \A v \in Popup : life[v] # "dying"
  /\ Becomes(w, "dying")
  /\ UNCHANGED << mainVars, window_table, screen, eventVars, signaled,
                  socket >>

close_window(w) ==
  /\ window_table' = window_table \ {w}
  /\ screen' = screen \ {w}

(* ... then, in ~base_window, the window.                                  *)
ClosePopup(w) ==
  /\ pc = "popups" /\ life[w] = "dying"
  /\ Becomes(w, "gone")
  /\ close_window(w)
  /\ UNCHANGED << mainVars, eventVars, signaled, socket >>

StartReturns ==
  /\ Go("popups", "remove")
  /\ \A w \in Popup : life[w] = "gone"
  /\ UNCHANGED << menu, segment, objectVars, eventVars, signaled, socket >>

Remove ==
  /\ Go("remove", "unwind")
  /\ segment' = FALSE
  /\ UNCHANGED << menu, objectVars, eventVars, signaled, socket >>

(* Faulty variant of CloseFirst: it is left to ~base_window to close.      *)
CloseFirstNot == UNCHANGED << window_table, screen >>

CloseFirst == close_window(Win)

(* ~image_window's body, ...                                               *)
BeginWindow ==
  /\ Go("unwind", "window")
  /\ CloseFirst
  /\ UNCHANGED << menu, segment, life, eventVars, signaled, socket >>

(* ... its members, ...                                                    *)
DestroyWindow ==
  /\ Go("window", "destroyed")
  /\ Becomes(Win, "dying")
  /\ UNCHANGED << menu, segment, window_table, screen, eventVars, signaled,
                  socket >>

(* ... and ~base_window.                                                   *)
EndWindow ==
  /\ Go("destroyed", "exit")
  /\ Becomes(Win, "gone")
  /\ close_window(Win)
  /\ UNCHANGED << menu, segment, eventVars, signaled, socket >>

(* ~event_handler_thread: XPutBackEvent, ...                               *)
PutBack ==
  /\ Go("exit", "send")
  /\ events' = << Exit >> \o events
  /\ UNCHANGED << menu, segment, objectVars, epc, status, is_mapped, heard,
                  signaled, socket >>

(* Faulty variant of Sent: the event put back is thought to be enough.     *)
SentNot(queue) == queue

Sent(queue) == Append(queue, Exit)

(* ... XSendEvent ...                                                      *)
Send ==
  /\ Go("send", "join")
  /\ socket' = Sent(socket)
  /\ UNCHANGED << menu, segment, objectVars, eventVars, signaled >>

(* ... and wait().                                                         *)
Join ==
  /\ Go("join", "ended")
  /\ epc = "ended"
  /\ UNCHANGED << menu, segment, objectVars, eventVars, signaled, socket >>

Main ==
  \/ InitMemory \/ StartThread \/ Waken \/ base_window \/ image_window
  \/ NoCamera \/ menu_bar \/ LeaveLoop
  \/ (\E w \in Popup : DestroyPopup(w) \/ ClosePopup(w))
  \/ StartReturns \/ Remove \/ BeginWindow \/ DestroyWindow \/ EndWindow
  \/ PutBack \/ Send \/ Join

-----------------------------------------------------------------------------
(* The event handler thread.                                               *)

EventGo(from, to) == epc = from /\ epc' = to

Broadcast == signaled' = TRUE

(* thread() opens the display, or cannot.                                  *)
Initialize ==
  /\ epc = "starting"
  /\ \/ status' = "initialized" /\ epc' = "pending"
     \/ status' = "failure_to_init" /\ epc' = "ended"
  /\ Broadcast
  /\ UNCHANGED << mainVars, objectVars, is_mapped, events, heard, socket >>

(* XPending, which reads what has been sent: nothing there, ...            *)
NonePending ==
  /\ EventGo("pending", "polling")
  /\ events = << >> /\ socket = << >>
  /\ UNCHANGED << mainVars, objectVars, status, is_mapped, events, heard,
                  signaled, socket >>

(* ... or something is.                                                    *)
SomePending ==
  /\ EventGo("pending", "next")
  /\ events # << >> \/ socket # << >>
  /\ events' = events \o socket
  /\ socket' = << >>
  /\ UNCHANGED << mainVars, objectVars, status, is_mapped, heard, signaled >>

(* poll, without the mutex: it sees only what is sent.                     *)
Poll ==
  /\ EventGo("polling", "pending")
  /\ socket # << >>
  /\ UNCHANGED << mainVars, objectVars, status, is_mapped, events, heard,
                  signaled, socket >>

Handles(type) ==
  /\ epc = "next" /\ Head(events)[1] = type
  /\ events' = Tail(events)
  /\ UNCHANGED << mainVars, life, status, signaled >>

(* Events for windows that are not in the table, or not mapped yet, are    *)
(* thrown away.                                                            *)
Known(w) == w \in window_table

Deliver(w) == heard' = << w, life[w] >> /\ epc' = "pending"

Discard ==
  /\ epc = "next" /\ Head(events) # Exit
  /\ LET w == Head(events)[2] IN
     ~Known(w) \/ (w \notin is_mapped /\ Head(events)[1] # "map")
  /\ events' = Tail(events)
  /\ epc' = "pending"
  /\ UNCHANGED << mainVars, objectVars, status, is_mapped, heard, signaled,
                  socket >>

MapNotify ==
  /\ Handles("map")
  /\ LET w == Head(events)[2] IN
     Known(w) /\ Deliver(w) /\ is_mapped' = is_mapped \cup {w}
  /\ UNCHANGED << window_table, screen, socket >>

(* A menu of the bar may be shown or hidden.                               *)
Input ==
  /\ Handles("input")
  /\ LET w == Head(events)[2] IN Known(w) /\ w \in is_mapped /\ Deliver(w)
  /\ \/ UNCHANGED << screen, socket >>
     \/ \E v \in Popup \ screen :
          /\ menu
          /\ screen' = screen \cup {v}
          /\ socket' = Append(socket, << "map", v >>)
     \/ \E v \in Popup \cap screen : screen' = screen \ {v} /\ UNCHANGED socket
  /\ UNCHANGED << window_table, is_mapped >>

(* ClientMessage: image_window::on_window_close answers CLOSE_WINDOW.      *)
Delete ==
  /\ Handles("delete")
  /\ LET w == Head(events)[2] IN
     Known(w) /\ w \in is_mapped /\ Deliver(w) /\ close_window(w)
  /\ UNCHANGED << is_mapped, socket >>

Quit ==
  /\ Handles("exit")
  /\ epc' = "ended"
  /\ UNCHANGED << window_table, screen, is_mapped, heard, socket >>

EventHandler ==
  \/ Initialize \/ NonePending \/ SomePending \/ Poll
  \/ Discard \/ MapNotify \/ Input \/ Delete \/ Quit

-----------------------------------------------------------------------------

(* The user points at a window or types, and may close the main window.    *)
Act(w) ==
  /\ w \in screen
  /\ Len(socket) + Len(events) < MaxEvents
  /\ \E type \in {"input"} \cup (IF w = Win THEN {"delete"} ELSE {}) :
       socket' = Append(socket, << type, w >>)
  /\ UNCHANGED << mainVars, objectVars, eventVars, signaled >>

Next == Main \/ EventHandler \/ \E w \in Windows : Act(w)

Spec == Init /\ [][Next]_vars

-----------------------------------------------------------------------------

(* No event reaches the main window before it is constructed or once its   *)
(* destructor has begun, though the event handler knows it from the base   *)
(* class's constructor to the base class's destructor.                     *)
WindowHearsWhileBuilt == heard # << >> /\ heard[1] = Win => heard[2] = "built"

(* When the window is closed, or there was no camera, the name of the      *)
(* shared memory goes and both threads end, even if the event handler was  *)
(* just about to poll when the main thread put its exit event back.        *)
ServerEnds ==
  life[Win] = "built" /\ (Win \notin window_table \/ pc = "remove") ~>
    pc = "ended" /\ ~segment /\ window_table = {}

=============================================================================
