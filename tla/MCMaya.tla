-------------------------------- MODULE MCMaya --------------------------------
(***************************************************************************)
(* The two scripts of the Maya plug-in, for checking with TLC: the rig     *)
(* createStringlessCap makes, and the calibration of one of its devices.   *)
(* They are side by side: a behaviour of this module is one of a single    *)
(* part, the other stays as it began.                                      *)
(***************************************************************************)
EXTENDS Calibration

CONSTANT Face  \* of Rig

VARIABLES
  part,  \* the part that moves
  rig_pc, face, rig_i, joint, device, conversion, translation, rotation

CreateRig == INSTANCE Rig WITH pc <- rig_pc, i <- rig_i

rigVars == << rig_pc, face, rig_i, joint, device, conversion, translation,
              rotation >>
all == << part, rigVars, vars >>

(* Amplification 0.5, 1.0 and 1.5.                                         *)
Halves == 1 .. 3

(* The part that stands still begins in one way only.                      *)
MayaInit ==
  /\ part \in {"rig", "calibration"}
  /\ CreateRig!Init /\ Init
  /\ part = "calibration" => face = CHOOSE f \in Face : TRUE

RigNext ==
  /\ part = "rig" /\ CreateRig!Next
  /\ UNCHANGED << part, vars >>

CalibrationNext ==
  /\ part = "calibration" /\ Next
  /\ UNCHANGED << part, rigVars >>

(* Once every face has its rig there is nothing left to call.              *)
Stop == part = "rig" /\ device = Face /\ UNCHANGED all

(* What has to go on in Calibration is disabled where it begins, and so    *)
(* while it does not move.                                                 *)
MayaSpec ==
  MayaInit /\ [][RigNext \/ CalibrationNext \/ Stop]_all /\ Fairness

-----------------------------------------------------------------------------

(* Landmark 0 leads the rig of its face and each other one a joint of it.  *)
LandmarksDriveRig == CreateRig!LandmarksDriveRig

=============================================================================
