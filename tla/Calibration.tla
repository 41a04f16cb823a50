----------------------------- MODULE Calibration -----------------------------
(***************************************************************************)
(* calibrateNeutralFace (StringlessMaya.mel) and the part of               *)
(* StringlessMayaDevice::compute it depends on.                            *)
(*                                                                         *)
(* The script runs on Maya's main thread, so neither the user nor Maya's   *)
(* refresh comes between its commands; only the device's thread does, with *)
(* the buffer it was filling.  compute answers for one plug at a time but  *)
(* sets all of the output translations, so one value stands for them: the  *)
(* record they were computed from and the attributes it was computed with. *)
(***************************************************************************)
EXTENDS Integers, Sequences

CONSTANTS
  DATA_POINTS,  \* landmarks: 68 in the code, numbered from 0 there
  Amount,       \* amplification amounts the user may set, in halves
  LastFrame,    \* bound: records the thread pushes
  MaxQueue,     \* bound: records in the queue (the pool has 24 buffers)
  MaxRounds     \* bound: calibrations the user starts

ASSUME CalibrationAssumption ==
  /\ DATA_POINTS \in Nat \ {0}
  /\ Amount \subseteq Nat \ {0} /\ 2 \in Amount
  /\ LastFrame \in Nat /\ MaxQueue \in Nat /\ MaxRounds \in Nat

VARIABLES
  live, locked,      \* the device's live attribute and its lock
  anchorLocally,
  amplifyAmount,     \* in halves: 2 is the default 1.0
  neutralFace,       \* for each landmark what calibration stored last
  output,            \* what the output translations show
  dirty,             \* the output plugs Maya asks compute for
  queue,             \* records the thread has pushed
  filling,           \* the thread is between acquireDataStorage and push
  pushed,            \* number of the last record pushed
  pc, i, amplify,    \* the script: its place, its loop index, $amplify
  round              \* calibrations started

deviceVars == << live, locked, anchorLocally, amplifyAmount, neutralFace >>
outputVars == << output, dirty, queue >>
threadVars == << filling, pushed >>
scriptVars == << pc, i, amplify, round >>

vars == << deviceVars, outputVars, threadVars, scriptVars >>

Point == 1 .. DATA_POINTS

(* What createStringlessDevice sets by hand, and a record's landmarks.     *)
Zero == [frame |-> 0, anchored |-> FALSE, amount |-> 2]
Shown == [frame : 1 .. LastFrame, anchored : BOOLEAN, amount : Amount]

(* Faulty variant of Locked: live is left unlocked.                        *)
LockedNot == FALSE

(* createStringlessDevice locks live, which is off.                        *)
Locked == TRUE

Init ==
  /\ live = FALSE /\ locked = Locked
  /\ anchorLocally = TRUE /\ amplifyAmount = 2
  /\ neutralFace = [p \in Point |-> [of |-> Zero, by |-> 1, round |-> 0]]
  /\ output = Zero
  /\ dirty = {}
  /\ queue = << >>
  /\ filling = FALSE /\ pushed = 0
  /\ pc = "idle" /\ i = 1 /\ amplify = 1 /\ round = 0

-----------------------------------------------------------------------------
(* The device's thread.                                                    *)

Acquire ==
  /\ live /\ ~filling
  /\ pushed < LastFrame
  /\ filling' = TRUE
  /\ UNCHANGED << deviceVars, outputVars, pushed, scriptVars >>

Push ==
  /\ filling /\ Len(queue) < MaxQueue
  /\ filling' = FALSE
  /\ pushed' = pushed + 1
  /\ queue' = Append(queue, pushed')
  /\ UNCHANGED << deviceVars, output, dirty, scriptVars >>

-----------------------------------------------------------------------------
(* compute.                                                                *)

(* Faulty variant of Pop: the newest record is taken.                      *)
PopNewest(q) == << q[Len(q)], SubSeq(q, 1, Len(q) - 1) >>

(* popThreadData: the record and the queue it leaves.                      *)
Pop(q) == << Head(q), Tail(q) >>

(* A clean plug is read as it is.  For a dirty one compute pops a record,  *)
(* sets every translation from it and cleans that plug only; when there is *)
(* no record it fails and the translations stay what they were.            *)
Evaluate(p) ==
  IF p \in dirty /\ queue # << >>
  THEN /\ output' = [frame |-> Pop(queue)[1], anchored |-> anchorLocally,
                     amount |-> amplifyAmount]
       /\ queue' = Pop(queue)[2]
       /\ dirty' = dirty \ {p}
  ELSE UNCHANGED outputVars

-----------------------------------------------------------------------------
(* Maya and its user, while no script runs.                                *)

(* A pushed record makes Maya refresh the outputs of a live device.        *)
Refresh ==
  /\ pc = "idle" /\ live
  /\ dirty' = Point
  /\ UNCHANGED << deviceVars, output, queue, threadVars, scriptVars >>

(* A joint of the rig, or the user, asks for an output.                    *)
Ask(p) ==
  /\ pc = "idle"
  /\ Evaluate(p)
  /\ UNCHANGED << deviceVars, threadVars, scriptVars >>

SetLive(b) ==
  /\ pc = "idle" /\ ~locked /\ live # b
  /\ live' = b
  /\ dirty' = Point  \* ATTRIBUTE_AFFECTS(live, ...)
  /\ UNCHANGED << locked, anchorLocally, amplifyAmount, neutralFace, output,
                  queue, threadVars, scriptVars >>

(* Nothing declares that anchorLocally or amplifyAmount affect an output.  *)
SetAttributes(al, aa) ==
  /\ pc = "idle"
  /\ anchorLocally' = al /\ amplifyAmount' = aa
  /\ UNCHANGED << live, locked, neutralFace, outputVars, threadVars,
                  scriptVars >>

-----------------------------------------------------------------------------
(* calibrateNeutralFace.                                                   *)

Go(from, to) == pc = from /\ pc' = to

(* Faulty variant of SetAnchor: the command has no effect.                 *)
SetAnchorNot(b) == UNCHANGED anchorLocally

SetAnchor(b) == anchorLocally' = b

(* Faulty variant of LiveOffTaken: live never gives way to a script.       *)
LiveOffTakenNever == FALSE

(* Setting live is refused while it is locked.                             *)
LiveOffTaken == ~locked

LoopDone == i > DATA_POINTS

(* setAttr .al off                                                         *)
AnchorOff ==
  /\ Go("idle", "liveOff")
  /\ round < MaxRounds
  /\ round' = round + 1
  /\ SetAnchor(FALSE)
  /\ UNCHANGED << live, locked, amplifyAmount, neutralFace, outputVars,
                  threadVars, i, amplify >>

(* catchQuiet(setAttr .live off): refused, silently, while live is locked. *)
(* Setting an attribute to the value it has may or may not dirty what it   *)
(* affects.                                                                *)
LiveOff ==
  /\ Go("liveOff", "amplify")
  /\ live' = (live /\ ~LiveOffTaken)
  /\ dirty' \in IF ~LiveOffTaken THEN {dirty}
                ELSE IF live THEN {Point} ELSE {dirty, Point}
  /\ UNCHANGED << locked, anchorLocally, amplifyAmount, neutralFace, output,
                  queue, threadVars, i, amplify, round >>

(* while (getAttr .live == on) {}, then int $amplify = getAttr .aa: the    *)
(* float is truncated.                                                     *)
ReadAmount ==
  /\ pc = "amplify"
  /\ IF live THEN UNCHANGED << pc, i, amplify >>
     ELSE /\ pc' = "points"
          /\ amplify' = amplifyAmount \div 2
          /\ i' = 1
  /\ UNCHANGED << deviceVars, outputVars, threadVars, round >>

(* One round of the loop: getAttr .ots[i], divide, setAttr .nf[i].         *)
CopyPoint ==
  /\ pc = "points" /\ amplify # 0 /\ ~LoopDone
  /\ Evaluate(i)
  /\ neutralFace' = [neutralFace EXCEPT
                       ![i] = [of |-> output', by |-> amplify, round |-> round]]
  /\ i' = i + 1
  /\ UNCHANGED << live, locked, anchorLocally, amplifyAmount, threadVars, pc,
                  amplify, round >>

(* The division by zero is an error: the script ends where it is.          *)
DivideByZero ==
  /\ Go("points", "idle")
  /\ amplify = 0
  /\ Evaluate(i)
  /\ UNCHANGED << deviceVars, threadVars, i, amplify, round >>

Finish ==
  /\ Go("points", "idle")
  /\ amplify # 0 /\ LoopDone
  /\ locked' = FALSE
  /\ SetAnchor(TRUE)
  /\ UNCHANGED << live, amplifyAmount, neutralFace, outputVars, threadVars, i,
                  amplify, round >>

Script ==
  \/ LiveOff \/ ReadAmount \/ CopyPoint \/ DivideByZero \/ Finish

Next ==
  \/ Acquire \/ Push
  \/ Refresh \/ (\E p \in Point : Ask(p))
  \/ (\E b \in BOOLEAN : SetLive(b))
  \/ (\E al \in BOOLEAN, aa \in Amount : SetAttributes(al, aa))
  \/ AnchorOff \/ Script

Spec == Init /\ [][Next]_vars

(* Once started the script runs: nothing else has Maya's main thread.      *)
Fairness == WF_vars(Script)

-----------------------------------------------------------------------------

TypeOK ==
  /\ {live, locked, anchorLocally, filling} \subseteq BOOLEAN
  /\ amplifyAmount \in Amount
  /\ neutralFace \in [Point -> [of : Shown \cup {Zero}, by : Nat, round : Nat]]
  /\ output \in Shown \cup {Zero}
  /\ dirty \in SUBSET Point
  /\ queue \in Seq(1 .. LastFrame)
  /\ pushed \in 0 .. LastFrame
  /\ pc \in {"idle", "liveOff", "amplify", "points"}
  /\ i \in 1 .. DATA_POINTS + 1 /\ amplify \in Nat /\ round \in 0 .. MaxRounds

(* README: "the node requires a neutral face pose to be defined before     *)
(* reading capture data".  A device that is live has had its whole neutral *)
(* face stored, whatever calibrations failed before: the lock on live goes *)
(* only with the last of the landmarks.                                    *)
LiveOnlyCalibrated ==
  live => \A p \in Point : neutralFace[p].round > 0

(* compute subtracts the neutral face landmark by landmark: it must never  *)
(* do so from one that is half stored, a script that the division by zero  *)
(* ended included.  (setAttr .al off comes before the first setAttr .nf.)  *)
AnchoredToWholeNeutral ==
  [][output' # output /\ output'.anchored =>
       /\ \A p, q \in Point : neutralFace[p].round = neutralFace[q].round
       /\ neutralFace[1].round > 0]_vars

(* The device's thread may push while the loop copies, so one neutral face *)
(* can be put together from several records.  They are used in their order *)
(* and, once one has been computed without anchoring, so are all later.    *)
NeutralInOrder ==
  \A p, q \in Point :
    LET a == neutralFace[p]  b == neutralFace[q] IN
    p < q /\ a.round = b.round =>
      /\ a.of.frame <= b.of.frame
      /\ b.of.anchored => a.of.anchored

(* A calibration comes to its end and gives Maya back to its user.         *)
CalibrationEnds == pc # "idle" ~> pc = "idle"

(* README: "hold the actor's face still and enter calibrateNeutralFace".   *)
(* What calibration stores comes from a record of the actor's face.        *)
NeutralIsAFace ==
  \A p \in Point : neutralFace[p].round > 0 => neutralFace[p].of # Zero

=============================================================================
