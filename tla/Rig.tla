--------------------------------- MODULE Rig ---------------------------------
(***************************************************************************)
(* createStringlessCap (StringlessMaya.mel): the nodes of a rig and the    *)
(* connections from the device's outputs to them.  A node is << face, name *)
(* >>, and a driven attribute is described by the output that drives it,   *)
(* << face, landmark >>.  What drives a node moves all that is below it.   *)
(*                                                                         *)
(* Scripts run one after the other on Maya's main thread; the loops over   *)
(* 68 names and 68 indices are where two lists written out by hand meet.   *)
(***************************************************************************)
EXTENDS Integers, Sequences

CONSTANT Face  \* the names createStringlessCap is called with

(* The joints in the order createStringlessRig makes them.                *)
Joint ==
  << "LeftCheekUpper", "LeftCheekMidUpper", "LeftCheekMid",
     "LeftCheekMidLower", "LeftCheekLower", "ChinLeft3", "ChinLeft2",
     "ChinLeft1", "ChinCenter", "ChinRight1", "ChinRight2", "ChinRight3",
     "RightCheekLower", "RightCheekMidLower", "RightCheekMid",
     "RightCheekMidUpper", "RightCheekUpper", "LeftBrow1", "LeftBrow2",
     "LeftBrow3", "LeftBrow4", "LeftBrow5", "RightBrow1", "RightBrow2",
     "RightBrow3", "RightBrow4", "RightBrow5", "NoseBridge1", "NoseBridge2",
     "NoseBridge3", "NoseBridge4", "NoseAla1", "NoseAla2", "NoseAla3",
     "NoseAla4", "NoseAla5", "LeftEyeLeftCorner", "LeftEyeTop1", "LeftEyeTop2",
     "LeftEyeRightCorner", "LeftEyeBottom2", "LeftEyeBottom1",
     "RightEyeLeftCorner", "RightEyeTop1", "RightEyeTop2",
     "RightEyeRightCorner", "RightEyeBottom2", "RightEyeBottom1",
     "LipLeftCornerOuter", "LipUpperOuter1", "LipUpperOuter2",
     "LipUpperOuter3", "LipUpperOuter4", "LipUpperOuter",
     "LipRightCornerOuter", "LipLowerOuter5", "LipLowerOuter4",
     "LipLowerOuter3", "LipLowerOuter2", "LipLowerOuter1",
     "LipLeftCornerInner", "LipUpperInner1", "LipUpperInner2",
     "LipUpperInner3", "LipRightCornerInner", "LipLowerInner3",
     "LipLowerInner2", "LipLowerInner1" >>

(* The names connectNodes goes through, written out a second time there.   *)
StringlessFaceNames ==
  << "Face", "LeftCheekUpper", "LeftCheekMidUpper", "LeftCheekMid",
     "LeftCheekMidLower", "LeftCheekLower", "ChinLeft3", "ChinLeft2",
     "ChinLeft1", "ChinCenter", "ChinRight1", "ChinRight2", "ChinRight3",
     "RightCheekLower", "RightCheekMidLower", "RightCheekMid",
     "RightCheekMidUpper", "RightCheekUpper", "LeftBrow1", "LeftBrow2",
     "LeftBrow3", "LeftBrow4", "LeftBrow5", "RightBrow1", "RightBrow2",
     "RightBrow3", "RightBrow4", "RightBrow5", "NoseBridge1", "NoseBridge2",
     "NoseBridge3", "NoseBridge4", "NoseAla1", "NoseAla2", "NoseAla3",
     "NoseAla4", "NoseAla5", "LeftEyeLeftCorner", "LeftEyeTop1", "LeftEyeTop2",
     "LeftEyeRightCorner", "LeftEyeBottom2", "LeftEyeBottom1",
     "RightEyeLeftCorner", "RightEyeTop1", "RightEyeTop2",
     "RightEyeRightCorner", "RightEyeBottom2", "RightEyeBottom1",
     "LipLeftCornerOuter", "LipUpperOuter1", "LipUpperOuter2",
     "LipUpperOuter3", "LipUpperOuter4", "LipUpperOuter",
     "LipRightCornerOuter", "LipLowerOuter5", "LipLowerOuter4",
     "LipLowerOuter3", "LipLowerOuter2", "LipLowerOuter1",
     "LipLeftCornerInner", "LipUpperInner1", "LipUpperInner2",
     "LipUpperInner3", "LipRightCornerInner", "LipLowerInner3",
     "LipLowerInner2", "LipLowerInner1" >>

Landmarks == 68

VARIABLES
  pc, face,     \* where the script is, and its $faceNodeName
  i,            \* the loop index of the procedure it is in
  joint,        \* the joints and transforms that exist
  device,       \* the faces that have a device
  conversion,   \* the unit conversion nodes that exist
  translation,  \* the driven .t: node to the landmark of a device
  rotation      \* the driven .r: node to the landmark of a device

vars == << pc, face, i, joint, device, conversion, translation, rotation >>

Init ==
  /\ pc = "idle" /\ face \in Face /\ i = 0
  /\ joint = {} /\ device = {} /\ conversion = {}
  /\ translation = << >> /\ rotation = << >>

(* A procedure with a loop: from the index to the next, or to the next     *)
(* procedure with an index of 0.                                           *)
Loop(from, to) ==
  /\ pc = from
  /\ i' = (i + 1) % Landmarks
  /\ pc' = IF i + 1 = Landmarks THEN to ELSE from
  /\ UNCHANGED face

-----------------------------------------------------------------------------

(* createStringlessCap: the probe node it creates to find out whether the  *)
(* plug-in is loaded is not used again.                                    *)
Call(f) ==
  /\ pc = "idle"
  /\ f \notin device
  /\ face' = f /\ pc' = "rig"
  /\ UNCHANGED << i, joint, device, conversion, translation, rotation >>

(* createStringlessRig: the transform Face first, the joints below it: -p  *)
(* names it for each of them.  It has no parent, and is its own here.      *)
Parent(n) == << n[1], "Face" >>

CreateJoint ==
  /\ Loop("rig", "device")
  /\ joint' = joint \cup {<< face, "Face" >>, << face, Joint[i + 1] >>}
  /\ UNCHANGED << device, conversion, translation, rotation >>

CreateDevice ==
  /\ pc = "device" /\ pc' = "conversions"
  /\ device' = device \cup {face}
  /\ UNCHANGED << face, i, joint, conversion, translation, rotation >>

(* The name of unit conversion node k, as createUnitConversions gives it.  *)
Conversion(k) == << face, k >>

CreateConversion ==
  /\ Loop("conversions", "connect")
  /\ conversion' = conversion \cup {Conversion(i)}
  /\ UNCHANGED << joint, device, translation, rotation >>

(* $faceNodeName + "_" + $StringlessFaceNames[$i]                          *)
Named(k) == << face, StringlessFaceNames[k + 1] >>

(* Faulty variant of Rotated: the node the rig has for the landmark.       *)
RotatedByLandmark(k) == << face, Joint[k + 1] >>

(* The node whose rotation unit conversion k is connected to.              *)
Rotated(k) == Named(k)

(* The three connectAttr of a round: without both its nodes, or with a     *)
(* destination that something drives already, one is an error, which ends  *)
(* the script where it is.                                                 *)
Connects ==
  /\ Named(i) \in joint /\ Named(i) \notin DOMAIN translation
  /\ Conversion(i) \in conversion
  /\ Rotated(i) \in joint /\ Rotated(i) \notin DOMAIN rotation

(* Node n is driven by landmark k of the face's device from now on.        *)
ConnectAttr(driven, n, k) ==
  [m \in DOMAIN driven \cup {n} |-> IF m = n THEN << face, k >> ELSE driven[m]]

Connect ==
  /\ Loop("connect", "command")
  /\ Connects
  /\ translation' = ConnectAttr(translation, Named(i), i)
  /\ rotation' = ConnectAttr(rotation, Rotated(i), i)
  /\ UNCHANGED << joint, device, conversion >>

(* StringlessMayaCmd::doIt looks the device up and does nothing with it.   *)
Command ==
  /\ pc = "command" /\ face \in device
  /\ pc' = "idle"
  /\ UNCHANGED << face, i, joint, device, conversion, translation, rotation >>

Next ==
  \/ (\E f \in Face : Call(f))
  \/ CreateJoint \/ CreateDevice \/ CreateConversion \/ Connect \/ Command

Spec == Init /\ [][Next]_vars

-----------------------------------------------------------------------------

(* The nodes that follow a landmark s of a device: those it drives, and    *)
(* those below one.                                                        *)
Follow(driven, s) ==
  {n \in joint : \E m \in {n, Parent(n)} \cap DOMAIN driven : driven[m] = s}

Done == pc \in {"command", "idle"}

(* Three lists written out by hand meet in a rig: the names of the joints, *)
(* the names connectNodes goes through, and the indices of the unit        *)
(* conversions.  When createStringlessCap is done, landmark 0 moves and    *)
(* turns the whole rig of its face, each other landmark one joint, and     *)
(* nothing of another face; each has the unit conversion its rotation goes *)
(* through.  The joint of landmark k is the one the script's comments call *)
(* point k - 1, and point 67 follows landmark 0 alone: the second list     *)
(* begins with the rig itself.                                             *)
LandmarksDriveRig ==
  Done =>
    \A f \in device, k \in 0 .. Landmarks - 1 :
      LET s == << f, k >>
          led == IF k = 0 THEN {n \in joint : n[1] = f}
                 ELSE {<< f, Joint[k] >>} IN
      /\ s \in conversion
      /\ Follow(translation, s) = led
      /\ Follow(rotation, s) = led

=============================================================================
