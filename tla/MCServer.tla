------------------------------ MODULE MCServer ------------------------------
(***************************************************************************)
(* What the server's user works it by, for checking with TLC: the command  *)
(* line, the menu bar of its window, a scroll bar, and the timers and the  *)
(* clock behind it.  They are side by side: a behaviour of this module is  *)
(* one of a single part, the others stay as they began.                    *)
(***************************************************************************)
EXTENDS Timer, TLC

CONSTANTS
  Moving,                             \* the parts that may be the one to move
  Track, MaxSliderPos, js, BarQueue,  \* of ScrollBar
  MaxQueue,                           \* of MenuBar
  Use, MaxUses                        \* of CommandLine

VARIABLES
  part,  \* the part that moves
  pos, max_pos, delayed_pos, cell, spread,
  is_depressed, seen_click, is_mouse_over, bar_running, lastx, left, drag, user_events, batch,
  open_menu, shown, is_mapped, selected, queue,
  uses, args, group, buffer, pc, settings

Bar == INSTANCE ScrollBar WITH
         MaxQueue <- BarQueue, running <- bar_running
Menus == INSTANCE MenuBar
Main == INSTANCE CommandLine

ASSUME ServerAssumption ==
  /\ Bar!ScrollBarAssumption /\ Menus!MaxQueueAssumption
  /\ Main!MaxUsesAssumption /\ Main!UseAssumption

barVars == << pos, max_pos, delayed_pos, cell, spread,
              is_depressed, seen_click, is_mouse_over, bar_running,
              lastx, left, drag, user_events, batch >>
menuVars == << open_menu, shown, is_mapped, selected, queue >>
mainVars == << uses, args, group, buffer, pc, settings >>
all == << part, vars, barVars, menuVars, mainVars >>

-----------------------------------------------------------------------------
(* The command lines.                                                      *)

Uses(longs, forms, arguments) ==
  [long : longs, form : forms, arg : arguments]

Flags == Uses({"help", "clear"}, {"long", "short", "twice"}, {<< >>})

Long == {"--long=arg", "--long arg"}
Short == {"-s arg", "-sarg"}

Path == << "path/to/flp" >>
Negative == << "-", "1" >>

(* Each option in its documented forms, with a good argument, one that is  *)
(* too small, and one that is no number or no path.                        *)
Documented ==
  Flags
  \cup Uses({"cn"}, Long, {<< "1" >>, Negative, Path})
  \cup Uses({"height"}, {"--long=arg"}, {<< "60" >>})
  \cup Uses({"height"}, Short, {<< "60" >>, Negative})
  \cup Uses({"width"}, Long \cup Short, {<< "60" >>})
  \cup Uses({"fps"}, Short, {<< "60" >>, << "1.5" >>})
  \cup Uses({"dsr"}, {"-s arg"}, {<< "1.5" >>, << ".5" >>})
  \cup Uses({"sr"}, {"-s arg"}, {<< "2" >>, << "-", "h" >>})
  \cup Uses({"lspf"}, {"--long=arg"}, {<< "2" >>})
  \cup Uses({"flp"}, Long \cup Short, {Path, << "-", "w" >>})
  \cup Uses({"flp"}, {"--long=arg"}, {<< >>})

-----------------------------------------------------------------------------

(* A part that stands still begins in one way only.                        *)
ServerInit ==
  /\ part \in Moving
  /\ part = "timer" \/ should_respawn = [t \in Object |-> FALSE]
  /\ part = "scroll bar" \/ spread = FALSE
  /\ part = "scroll bar" \/ max_pos = CHOOSE m \in MaxSliderPos : TRUE
  /\ part = "command line" \/ uses = << >>
  /\ Init /\ Bar!Init /\ Menus!Init /\ Main!Init

TimerNext ==
  /\ part = "timer" /\ Next
  /\ UNCHANGED << part, barVars, menuVars, mainVars >>

ScrollBarNext ==
  /\ part = "scroll bar" /\ Bar!Next
  /\ UNCHANGED << part, vars, menuVars, mainVars >>

MenuBarNext ==
  /\ part = "menu bar" /\ Menus!Next
  /\ UNCHANGED << part, vars, barVars, mainVars >>

CommandLineNext ==
  /\ part = "command line" /\ Main!Next
  /\ UNCHANGED << part, vars, barVars, menuVars >>

(* main is done with its command line.  The others never stop.             *)
MainIsDone == part = "command line" /\ Main!Ended /\ UNCHANGED all

ServerNext ==
  \/ TimerNext \/ ScrollBarNext \/ MenuBarNext \/ CommandLineNext
  \/ MainIsDone

ServerSpec == ServerInit /\ [][ServerNext]_all

(* The timers are interchangeable.                                         *)
TimerSymmetry == Permutations(Object)

-----------------------------------------------------------------------------

(* However the bar is dragged, clicked, held and resized, its slider is on *)
(* it.                                                                     *)
SliderInRange == Bar!SliderInRange

(* However it gets there, the slider is where its position is.            *)
SliderShowsPosition == Bar!SliderShowsPosition

(* What was selected in a menu does not outlive its closing.               *)
OpensUnselected == Menus!OpensUnselected

(* Each option in each of its forms means what the usage text says, but    *)
(* that -h is --help always and that what std::stoi cannot read aborts.    *)
UsageObeyed == Main!UsageObeyed

(* A command line in order, as the usage text describes it, starts the     *)
(* server with the settings it gives.                                      *)
DescribedLineRuns == Main!DescribedLineRuns

=============================================================================
