------------------------------ MODULE ScrollBar ------------------------------
(***************************************************************************)
(* A scroll bar of the server's window (dlib::scroll_bar and its           *)
(* button_actions, gui_widgets/base_widgets.cpp): two arrow buttons, the   *)
(* slider and the two stretches beside it.  A part held down repeats: its  *)
(* timer posts a user event to the bar, which calls the part's handler     *)
(* once more (UserEvents is the queue in between).  A timer that runs may  *)
(* tick at any time, whatever its delay.                                   *)
(*                                                                         *)
(* The bar is a row of cells: the first button, a track of Track cells and *)
(* the other button.  The slider fills one cell of the track.              *)
(***************************************************************************)
EXTENDS Integers, Sequences, FiniteSets

CONSTANTS
  Track,     \* cells of the track
  MaxSliderPos,  \* the values max_slider_pos may be given
  js,        \* how far a click beside the slider jumps
  MaxQueue   \* bound: user events posted and not yet delivered

(* What whoever gives the constants their values has to assume.             *)
ScrollBarAssumption ==
  /\ Track \in Nat \ {0, 1}
  /\ MaxSliderPos \subseteq Nat /\ MaxSliderPos # {}
  /\ js \in Nat \ {0} /\ MaxQueue \in Nat

VARIABLES
  pos, max_pos, delayed_pos,
  cell,       \* where the slider's rectangle is
  spread,     \* the hidden second filler's rectangle is the whole bar
  is_depressed, seen_click, is_mouse_over,  \* of each part
  running,    \* each part's timer
  lastx,      \* where the mouse was seen last
  left,       \* its left button is down
  drag,       \* the slider is being dragged
  user_events, batch  \* posted; taken, the window's mutex held

slider == << pos, cell, spread >>
parts == << is_depressed, seen_click, is_mouse_over >>
mouse == << lastx, left, drag >>
queue == << user_events, batch >>
vars == << slider, max_pos, delayed_pos, parts, running, mouse, queue >>

Button == {"b1", "b2"}
Filler == {"top_filler", "bottom_filler"}
Part == Button \cup Filler

Cell == 0..Track + 2      \* the last one is any place outside of the bar
Outside == Track + 2

\* The events posted: a part's timer, a part found to have been left when it
\* is drawn, and the jump.
Timeout(p) == << "down", p >>
Release(p) == << "up", p >>
Jump == << "jump", "slider" >>

-----------------------------------------------------------------------------
(* Where the parts are.  A bar with nowhere to go has no slider, its        *)
(* buttons and its first filler are disabled and the other one is hidden.   *)

Enabled == max_pos # 0

CellOf(k, m) == 1 + (k * (Track - 1)) \div m

Rect(p, s) ==
  CASE p = "b1" -> {0}
    [] p = "b2" -> {Track + 1}
    [] p = "top_filler" -> IF Enabled THEN 1..(s.cell - 1) ELSE 1..Track
    [] p = "bottom_filler" -> IF Enabled THEN (s.cell + 1)..Track
                              ELSE IF s.spread THEN 0..(Track + 1) ELSE {}

Slider == [pos |-> pos, cell |-> cell, spread |-> spread]

SetSlider(s) == pos' = s.pos /\ cell' = s.cell /\ spread' = s.spread

(* Faulty variant of Clamped: the upper end is forgotten.                   *)
ClampedBelow(k) == IF k < 0 THEN 0 ELSE k

Clamped(k) == IF k < 0 THEN 0 ELSE IF k > max_pos THEN max_pos ELSE k

(* set_slider_pos: the slider and the fillers follow the position.          *)
Put(k) == [pos |-> Clamped(k),
           cell |-> IF Enabled THEN CellOf(Clamped(k), max_pos) ELSE cell,
           spread |-> FALSE]

-----------------------------------------------------------------------------
(* The handlers.  A part's down handler does nothing when the slider is at  *)
(* its end.  A button's moves the slider by one, a filler's asks for a jump.*)

CanMove(p, k) == IF p \in {"b1", "top_filler"} THEN k # 0 ELSE k # max_pos

JumpFrom(p, k) == IF p = "top_filler" THEN IF k < js THEN 0 ELSE k - js
                  ELSE IF max_pos - k < js THEN max_pos ELSE k + js

Pressed(down) ==
  IF "b1" \in down /\ CanMove("b1", pos) THEN Put(pos - 1)
  ELSE IF "b2" \in down /\ CanMove("b2", pos) THEN Put(pos + 1) ELSE Slider

Room == Len(user_events) + Len(batch) < MaxQueue

Post(e) == user_events' = Append(user_events, e)

(* The down handlers of the parts in down are called, then the up handlers  *)
(* of those in up.  The buttons have made s of the slider, or it has been   *)
(* dragged there, before the fillers are asked.                             *)
Handlers(s, down, up) ==
  LET moving == {p \in down : CanMove(p, IF p \in Filler THEN s.pos ELSE pos)}
  IN
  /\ SetSlider(s)
  /\ running' = [p \in Part |-> p \notin up /\ (p \in moving \/ running[p])]
  /\ IF moving \cap Filler = {}
       THEN UNCHANGED << delayed_pos, user_events >>
       ELSE /\ Room \/ batch # <<>>
            /\ delayed_pos' =
                 JumpFrom(CHOOSE p \in moving \cap Filler : TRUE, s.pos)
            /\ Post(Jump)
  /\ UNCHANGED max_pos

-----------------------------------------------------------------------------
(* The mouse.  The window's mutex is held while an event is handled, so     *)
(* none is handled while a thread delivers user events.                     *)

Free == batch = <<>>

(* The bar as its region has set it up.                                     *)
Init ==
  /\ pos = 0 /\ delayed_pos = 0 /\ cell = 1
  /\ max_pos \in MaxSliderPos
  /\ spread \in {FALSE, max_pos = 0}
  /\ is_depressed = [p \in Part |-> FALSE]
  /\ seen_click = [p \in Part |-> FALSE]
  /\ is_mouse_over = [p \in Part |-> FALSE]
  /\ running = [p \in Part |-> FALSE]
  /\ lastx = Outside /\ left = FALSE /\ drag = FALSE
  /\ user_events = <<>> /\ batch = <<>>

on_mouse_down(x) ==
  /\ Free /\ ~left
  /\ left' = TRUE /\ lastx' = x
  /\ LET hit == {p \in Part : Enabled /\ x \in Rect(p, Slider)} IN
       /\ is_depressed' = [p \in Part |-> p \in hit \/ is_depressed[p]]
       /\ seen_click' = [p \in Part |-> p \in hit \/ seen_click[p]]
       /\ Handlers(Pressed(hit), hit, {})
  /\ drag' = (drag \/ (Enabled /\ x = cell))
  /\ UNCHANGED << is_mouse_over, batch >>

(* A part released with no move seen since the mouse came back counts as    *)
(* pressed and released now.                                                *)
on_mouse_up(x) ==
  /\ Free /\ left
  /\ left' = FALSE /\ lastx' = x
  /\ LET up == {p \in Part : Enabled /\ is_depressed[p]}
         back == {p \in Part : /\ Enabled /\ ~is_depressed[p]
                               /\ seen_click[p] /\ x \in Rect(p, Slider)} IN
       /\ is_depressed' = [p \in Part |-> is_depressed[p] /\ p \notin up]
       /\ Handlers(Pressed(back), back, up \cup back)
  /\ seen_click' = [p \in Part |-> seen_click[p] /\ ~Enabled]
  /\ drag' = FALSE
  /\ UNCHANGED << is_mouse_over, batch >>

(* The parts the mouse leaves, told so by mouse_over_event, and those it    *)
(* is no longer on, or no longer with its button down; and those it is back *)
(* on.                                                                      *)
MovedOff(x, s) ==
  {p \in Part : /\ is_depressed[p]
                /\ \/ is_mouse_over[p] /\ x \notin Rect(p, s)
                   \/ Enabled /\ (~left \/ x \notin Rect(p, s))}

MovedBack(x, s) ==
  {p \in Part : /\ Enabled /\ left /\ x \in Rect(p, s)
                /\ seen_click[p] /\ ~is_depressed[p]}

(* The slider, found at s, follows the mouse along the track, and pos       *)
(* follows it.                                                              *)
Along(x) == IF x < 1 THEN 1 ELSE IF x > Track THEN Track ELSE x

Dragged(x, s) ==
  IF drag /\ left /\ Enabled /\ Along(x) # s.cell
    THEN [pos |-> ((Along(x) - 1) * max_pos) \div (Track - 1),
          cell |-> Along(x), spread |-> FALSE]
    ELSE s

(* The buttons are told first, then the slider, then the fillers.           *)
on_mouse_move(x) ==
  LET s == Dragged(x, Pressed(MovedBack(x, Slider) \cap Button))
      down == MovedBack(x, s)
      up == MovedOff(x, s) IN
  /\ Free
  /\ lastx' = x
  /\ is_mouse_over' = [p \in Part |-> x \in Rect(p, s)]
  /\ is_depressed' = [p \in Part |-> p \in down
                                     \/ (is_depressed[p] /\ p \notin up)]
  /\ seen_click' = [p \in Part |-> seen_click[p] /\ (left \/ ~Enabled)]
  /\ Handlers(s, down, up)
  /\ drag' = (drag /\ left /\ Enabled)
  /\ UNCHANGED << left, batch >>

on_mouse_leave ==
  /\ Free
  /\ lastx' = Outside
  /\ LET up == {p \in Part : is_mouse_over[p] /\ is_depressed[p]} IN
       /\ is_depressed' = [p \in Part |-> is_depressed[p] /\ p \notin up]
       /\ Handlers(Slider, {}, up)
  /\ is_mouse_over' = [p \in Part |-> FALSE]
  /\ UNCHANGED << seen_click, left, drag, batch >>

(* is_depressed, asked when a part is drawn: it may have moved away from    *)
(* under the mouse.                                                         *)
draw(p) ==
  /\ Free /\ Room
  /\ Enabled /\ is_depressed[p] /\ lastx \notin Rect(p, Slider)
  /\ Post(Release(p))
  /\ UNCHANGED << slider, max_pos, delayed_pos, parts, running, mouse, batch >>

-----------------------------------------------------------------------------
(* The program: the region that is scrolled sets the bar when its size or   *)
(* its contents change, and moves the slider when the wheel turns.          *)

(* Faulty variant of Fitted: the slider is left where it is.                *)
FittedUnmoved(k, m) == [pos |-> k, cell |-> cell, spread |-> m = 0]

Fitted(k, m) == [pos |-> k, cell |-> IF m # 0 THEN CellOf(k, m) ELSE cell,
                 spread |-> m = 0]

set_max_slider_pos(m) ==
  /\ Free
  /\ max_pos' = m
  /\ SetSlider(Fitted(IF pos > m THEN m ELSE pos, m))
  /\ UNCHANGED << delayed_pos, parts, running, mouse, queue >>

set_slider_pos(k) ==
  /\ Free
  /\ SetSlider(Put(k))
  /\ UNCHANGED << max_pos, delayed_pos, parts, running, mouse, queue >>

-----------------------------------------------------------------------------
(* The timers and the user events.                                          *)

(* b1_down_t and its like: no mutex is asked for.                           *)
Tick(p) ==
  /\ running[p] /\ Room
  /\ Post(Timeout(p))
  /\ UNCHANGED << slider, max_pos, delayed_pos, parts, running, mouse, batch >>

Take ==
  /\ Free /\ user_events # <<>>
  /\ batch' = user_events /\ user_events' = <<>>
  /\ UNCHANGED << slider, max_pos, delayed_pos, parts, running, mouse >>

(* A filler's handler makes sure the mouse is still there; a button's does  *)
(* not.  Neither asks whether the part is still held.                       *)
Strayed(p) == p \in Filler /\ lastx \notin Rect(p, Slider)

on_user_event(p) ==
  /\ batch # <<>> /\ Head(batch) = Timeout(p)
  /\ batch' = Tail(batch)
  /\ IF Strayed(p) THEN Handlers(Slider, {}, {p})
                   ELSE Handlers(Pressed({p}), {p}, {})
  /\ UNCHANGED << parts, mouse >>

on_release_event(p) ==
  /\ batch # <<>> /\ Head(batch) = Release(p)
  /\ batch' = Tail(batch)
  /\ is_depressed' = [is_depressed EXCEPT ![p] = FALSE]
  /\ Handlers(Slider, {}, IF is_depressed[p] THEN {p} ELSE {})
  /\ UNCHANGED << seen_click, is_mouse_over, mouse >>

on_jump_event ==
  /\ batch # <<>> /\ Head(batch) = Jump
  /\ batch' = Tail(batch)
  /\ SetSlider(IF delayed_pos # pos THEN Put(delayed_pos) ELSE Slider)
  /\ UNCHANGED << max_pos, delayed_pos, parts, running, mouse, user_events >>

Next ==
  \/ \E x \in Cell : on_mouse_down(x) \/ on_mouse_up(x) \/ on_mouse_move(x)
  \/ on_mouse_leave
  \/ \E m \in MaxSliderPos : set_max_slider_pos(m)
  \/ \E k \in {pos - 1, pos + 1} : set_slider_pos(k)
  \/ \E p \in Part : Tick(p) \/ draw(p) \/ on_user_event(p)
                                       \/ on_release_event(p)
  \/ Take
  \/ on_jump_event

Spec == Init /\ [][Next]_vars

-----------------------------------------------------------------------------

(* "The slider_pos() of the scroll bar ranges from 0 to max_slider_pos()"   *)
(* (base_widgets_abstract.h), whatever jump was asked for before the range  *)
(* shrank.                                                                  *)
SliderInRange == pos \in 0..max_pos

(* The place of the slider and the position shown by it are kept apart: a   *)
(* drag moves the one and computes the other, everything else moves the     *)
(* position and computes the place, and the range changes under both.       *)
(* Through all of it they differ by less than one position and by less than *)
(* one cell.                                                                *)
SliderShowsPosition ==
  Enabled =>
    LET place == (cell - 1) * max_pos
        shown == pos * (Track - 1) IN
    /\ shown - place < max_pos
    /\ place - shown < Track - 1

=============================================================================
