------------------------------- MODULE MenuBar -------------------------------
(***************************************************************************)
(* The server window's menus: dlib's menu_bar and popup_menu as start()    *)
(* sets them up, and the event handler thread that feeds them.             *)
(*                                                                         *)
(* Menus and items are numbered from 0; the number of menus, or of a       *)
(* menu's items, stands for "none", as in the code.  No item is a submenu, *)
(* a separator or disabled.  A handler runs to its end under the window    *)
(* table's mutex, so what can interleave is only the X server: events wait *)
(* in its queue while a handler runs or the mutex is held elsewhere.       *)
(***************************************************************************)
EXTENDS Integers, SequencesExt

CONSTANT MaxQueue  \* bound: events that wait in the queue

(* What whoever gives the constants their values has to assume.            *)
MaxQueueAssumption == MaxQueue \in Nat \ {0}

VARIABLES
  open_menu,  \* the menu the bar takes to be open
  shown,      \* the popups mapped on the screen
  is_mapped,  \* the popups the event handler takes to be mapped
  selected,   \* each popup's selected_item
  queue       \* the X events not handled yet

vars == << open_menu, shown, is_mapped, selected, queue >>

(* set_menu_name's underlined letters and the items' hotkeys.              *)
underlined == << "s", "n" >>
hotkeys == << << "t" >>, << "c", "d", "c" >> >>

NoMenu == Len(hotkeys)
Menu == 0 .. NoMenu - 1
NoItem(m) == Len(hotkeys[m + 1])
Item(m) == 0 .. NoItem(m) - 1

KeyDown == [type : {"key"}, alt : BOOLEAN,
            key : {"s", "n", "t", "c", "d", "x", "up", "down", "left",
                   "right", "enter", "esc"}]
BarMouse == [type : {"down", "move"}, menu : Menu \cup {NoMenu}]
Popup(m) == [type : {"up", "over"}, menu : {m}, item : Item(m) \cup {NoItem(m)}]
            \cup [type : {"leave"}, menu : {m}]
Event == KeyDown \cup BarMouse \cup [type : {"away"}]
         \cup UNION {Popup(m) : m \in Menu}

Init ==
  /\ open_menu = NoMenu
  /\ shown = {} /\ is_mapped = {}
  /\ selected = [m \in Menu |-> 0]
  /\ queue = << >>

(* The user acts on what the screen shows.  The keyboard stays with the    *)
(* server window; "away" is its loss of focus, a move or a resize.         *)
Act ==
  /\ Len(queue) < MaxQueue
  /\ \E e \in KeyDown \cup BarMouse \cup [type : {"away"}]
              \cup UNION {Popup(m) : m \in shown} :
       queue' = Append(queue, e)
  /\ UNCHANGED << open_menu, shown, is_mapped, selected >>

-----------------------------------------------------------------------------
(* The handlers are functions of the state they find.                      *)

State == [open_menu |-> open_menu, shown |-> shown, is_mapped |-> is_mapped,
          selected |-> selected]

select(u, m, i) == [u EXCEPT !.selected[m] = i]

(* Faulty variant of show: the selection is what it was.                   *)
showSelected(u, m) ==
  [u EXCEPT !.shown = @ \cup {m}, !.is_mapped = @ \cup {m}]

(* is_mapped is set when the MapNotify event is handled, before any other  *)
(* event of the popup.                                                     *)
show(u, m) ==
  [select(u, m, NoItem(m)) EXCEPT
     !.shown = @ \cup {m}, !.is_mapped = @ \cup {m}]

hide(u, m) == [select(u, m, NoItem(m)) EXCEPT !.shown = @ \ {m}]

on_popup_hide(u) == [u EXCEPT !.open_menu = NoMenu]

hide_menu(u) ==
  IF u.open_menu = NoMenu THEN u ELSE on_popup_hide(hide(u, u.open_menu))

show_menu(u, m) ==
  IF m = u.open_menu THEN u
  ELSE [show(IF u.open_menu = NoMenu THEN u ELSE hide(u, u.open_menu), m)
          EXCEPT !.open_menu = m]

select_first_item(u) == select(u, u.open_menu, 0)

(* hide, the hide handlers, then the item's callback (FaceDetector's Menu).*)
click(u, m) == on_popup_hide(hide(u, m))

(* Every item with the hotkey is clicked.                                  *)
hotkey(u, m, key) == IF Contains(hotkeys[m + 1], key) THEN click(u, m) ELSE u

previous(i, n) == (i + n - 1) % n

(* popup_menu::forwarded_on_keydown for the open menu, and what the bar    *)
(* does with the keys the popup has no use for.                            *)
forwarded(u, key) ==
  LET m == u.open_menu  n == NoItem(m)  i == u.selected[m]
      next(step) == select_first_item(show_menu(u, (m + step) % NoMenu)) IN
  CASE key = "up" -> select(u, m, previous(i, n))
    [] key = "down" -> select(u, m, (i + 1) % n)
    [] key = "enter" -> IF i = n THEN u ELSE click(u, m)
    [] key = "left" -> next(NoMenu - 1)
    [] key = "right" -> next(1)
    [] key = "esc" -> hide_menu(u)
    [] OTHER -> hotkey(u, m, key)

-----------------------------------------------------------------------------
(* The event handler's cases.                                              *)

(* An event for a window it takes to be unmapped is thrown away.           *)
Heard(e) == e.type \in {"up", "over", "leave"} => e.menu \in is_mapped

Handle(type, new(_, _)) ==
  /\ queue # << >> /\ Head(queue).type = type
  /\ LET u == IF Heard(Head(queue)) THEN new(State, Head(queue)) ELSE State IN
     /\ open_menu' = u.open_menu /\ shown' = u.shown
     /\ is_mapped' = u.is_mapped /\ selected' = u.selected
  /\ queue' = Tail(queue)

on_keydown ==
  Handle("key", LAMBDA u, e :
    IF e.alt /\ Contains(underlined, e.key)
    THEN select_first_item(show_menu(u, SelectInSeq(underlined,
                                          LAMBDA c : c = e.key) - 1))
    ELSE IF u.open_menu = NoMenu THEN u
    ELSE forwarded(u, e.key))

(* A press on the bar closes the open menu and opens the one it is on      *)
(* unless that was open; anywhere else it closes.                          *)
on_mouse_down ==
  Handle("down", LAMBDA u, e :
    IF e.menu \in {NoMenu, u.open_menu} THEN hide_menu(u)
    ELSE show_menu(hide_menu(u), e.menu))

on_mouse_move ==
  Handle("move", LAMBDA u, e :
    IF u.open_menu = NoMenu \/ e.menu = NoMenu THEN u
    ELSE show_menu(u, e.menu))

(* on_focus_lost, on_window_moved and on_window_resized                    *)
on_focus_lost == Handle("away", LAMBDA u, e : hide_menu(u))

popup_on_mouse_up ==
  Handle("up", LAMBDA u, e :
    IF e.item = NoItem(e.menu) THEN u ELSE click(u, e.menu))

popup_on_mouse_move ==
  Handle("over", LAMBDA u, e : select(u, e.menu, e.item))

popup_on_mouse_leave ==
  Handle("leave", LAMBDA u, e : select(u, e.menu, NoItem(e.menu)))

Next ==
  \/ Act
  \/ on_keydown \/ on_mouse_down \/ on_mouse_move \/ on_focus_lost
  \/ popup_on_mouse_up \/ popup_on_mouse_move \/ popup_on_mouse_leave

Spec == Init /\ [][Next]_vars

-----------------------------------------------------------------------------

(* What was selected in a menu does not outlive its closing, not even when *)
(* a mouse event for the closed popup comes after it: Enter in a menu just *)
(* opened can run no item but the first.                                   *)
OpensUnselected ==
  [][open_menu' \notin {open_menu, NoMenu} =>
       selected'[open_menu'] \in {0, NoItem(open_menu')}]_vars

=============================================================================
