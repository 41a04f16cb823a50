---------------------------- MODULE FaceDetector ----------------------------
(***************************************************************************)
(* Stringless::FaceDetector (src/FaceDetector.cc): the server's main loop, *)
(* start, and the menu callbacks that dlib's event thread runs beside it.  *)
(*                                                                         *)
(* The callbacks and the loop share show_camera_image, neutral_face_flag   *)
(* and the window.  Nothing protects the two variables, and the loop reads *)
(* the flag four times and writes it once in every iteration, so a menu    *)
(* item may be chosen between any two of these accesses.                   *)
(*                                                                         *)
(* A detected face is abstracted to its area and a pose (the 68 landmarks) *)
(* to the frame it was fitted in and the rectangle it was fitted to;       *)
(* averaging several fits of one frame gives the same.                     *)
(***************************************************************************)
EXTENDS Integers, Sequences, FiniteSetsExt

CONSTANTS
  Area,         \* the areas of detected faces
  MaxFaces,     \* bound: faces detected in one frame
  sample_rate,  \* detect faces in every sample_rate-th frame
  LastFrame     \* bound: the window is closed after this many frames

ASSUME FaceDetectorAssumption ==
  /\ Area \subseteq Nat \ {0}
  /\ MaxFaces \in Nat
  /\ sample_rate \in Nat \ {0}
  /\ LastFrame \in Nat

VARIABLES
  pc,                 \* where the loop is
  frame_count,
  faces,              \* what the last detection found
  main_face,          \* 0: dlib's empty rectangle
  face_not_found,     \* detections in a row that found nothing
  shape,
  neutral_shape,
  points,             \* frame_data.points: the frame of the pose it holds
  frame_number,       \* frame_data.frame_number
  show_camera_image,
  neutral_face_flag,
  image,              \* the camera image behind the overlay, by its frame
  overlay,            \* what is drawn over it
  is_closed,          \* the window, which the user may close at any time
  lastHit,            \* history: frame of the last detection of a face
  largest,            \* history: the largest face it found
  quiet               \* history: no menu item chosen in this iteration

vars == << pc, frame_count, faces, main_face, face_not_found, shape,
           neutral_shape, points, frame_number, show_camera_image,
           neutral_face_flag, image, overlay, is_closed, lastHit, largest,
           quiet >>

RESET_NEUTRAL_FACE   == 0
SHOW_NEUTRAL_FACE    == 1
CAPTURE_NEUTRAL_FACE == 2
SHOW_NEUTRAL_DELTAS  == 3

MaxMisses == 5

Nothing == -1  \* no image, points never written

Pose == [frame : 0 .. LastFrame, face : Area \cup {0}]

NoPose == [frame |-> Nothing, face |-> 0]  \* full_object_detection()

Detection == UNION {[1 .. k -> Area] : k \in 0 .. MaxFaces}

Init ==
  /\ pc = "start"
  /\ frame_count = 0
  /\ faces = << >>
  /\ main_face = 0
  /\ face_not_found = 0
  /\ shape = NoPose
  /\ neutral_shape = NoPose
  /\ points = Nothing
  /\ frame_number = Nothing
  /\ show_camera_image = FALSE
  /\ neutral_face_flag = RESET_NEUTRAL_FACE
  /\ image = Nothing
  /\ overlay = {}
  /\ is_closed = FALSE
  /\ lastHit = -sample_rate
  /\ largest = 0
  /\ quiet = TRUE

Go(from, to) == pc = from /\ pc' = to

-----------------------------------------------------------------------------
(* The loop.                                                               *)

loopVars   == << frame_count, faces, main_face, face_not_found, shape,
                 points, frame_number >>
windowVars == << image, overlay, is_closed >>
menuVars   == << show_camera_image, neutral_face_flag >>
history    == << lastHit, largest, quiet >>

(* The camera is there, or start returns -1.                               *)
Start ==
  /\ pc = "start"
  /\ pc' \in {"top", "closed"}
  /\ UNCHANGED << loopVars, neutral_shape, windowVars, menuVars, history >>

(* while (!win.is_closed())                                               *)
Return ==
  /\ Go("top", "closed")
  /\ is_closed
  /\ UNCHANGED << loopVars, neutral_shape, windowVars, menuVars, history >>

(* for (r : faces) if (!main_face.is_empty() && r.area() > ...)            *)
Selected(face, found) ==
  IF face = 0 THEN 0 ELSE Max({face} \cup {found[i] : i \in DOMAIN found})

(* A pose that is reset: full_object_detection().                          *)
Forgotten(pose) == NoPose

(* if (face_not_found < 5): fit the landmarks, or forget the pose.         *)
Fit(face, misses) ==
  LET pose == [frame |-> frame_count, face |-> face]
      found == misses < MaxMisses IN
  /\ shape' = IF found THEN pose ELSE Forgotten(pose)
  /\ pc' = IF found THEN "capture" ELSE "publish"

(* An iteration in which faces are not looked for.                         *)
Reuse ==
  /\ pc = "top" /\ ~is_closed
  /\ frame_count < LastFrame
  /\ frame_count % sample_rate # 0
  /\ main_face' = Selected(main_face, faces)
  /\ Fit(main_face', face_not_found)
  /\ quiet' = TRUE
  /\ UNCHANGED << frame_count, faces, face_not_found, points, frame_number,
                  neutral_shape, windowVars, menuVars, lastHit, largest >>

(* Faulty variant of MainFace: the old main face competes with the new.    *)
MainFaceKept(found) ==
  Selected(IF main_face = 0 THEN found[1] ELSE main_face, found)

(* main_face = faces[0], then the largest of them.                         *)
MainFace(found) == Selected(found[1], found)

(* Faulty variant of MissesAfterHit: the misses go on being counted.       *)
MissesAfterHitNoReset == face_not_found

MissesAfterHit == 0

(* The detector finds faces ...                                            *)
DetectFaces(found) ==
  /\ pc = "top" /\ ~is_closed
  /\ frame_count < LastFrame
  /\ frame_count % sample_rate = 0
  /\ found # << >>
  /\ faces' = found
  /\ main_face' = MainFace(found)
  /\ face_not_found' = MissesAfterHit
  /\ Fit(main_face', face_not_found')
  /\ quiet' = TRUE
  /\ lastHit' = frame_count
  /\ largest' = Max({found[i] : i \in DOMAIN found})
  /\ UNCHANGED << frame_count, points, frame_number, neutral_shape,
                  windowVars, menuVars >>

(* ... or none: main_face stays what it was.                               *)
DetectNone ==
  /\ pc = "top" /\ ~is_closed
  /\ frame_count < LastFrame
  /\ frame_count % sample_rate = 0
  /\ faces' = << >>
  /\ face_not_found' = face_not_found + 1
  /\ Fit(main_face, face_not_found')
  /\ quiet' = TRUE
  /\ UNCHANGED << frame_count, main_face, points, frame_number,
                  neutral_shape, windowVars, menuVars, lastHit, largest >>

(* First read of the flag; the pose becomes the frame data's points.       *)
CaptureNeutral ==
  /\ Go("capture", "publish")
  /\ neutral_shape' = IF neutral_face_flag = CAPTURE_NEUTRAL_FACE
                      THEN shape ELSE neutral_shape
  /\ points' = shape.frame
  /\ UNCHANGED << frame_count, faces, main_face, face_not_found, shape,
                  frame_number, windowVars, menuVars, history >>

(* The frame is numbered and counted, the window is cleared, and           *)
(* show_camera_image is read.                                              *)
NumberFrame ==
  /\ pc = "publish"
  /\ frame_number' = frame_count
  /\ frame_count' = frame_count + 1
  /\ overlay' = {}
  /\ pc' = IF show_camera_image THEN "image" ELSE "pose"
  /\ UNCHANGED << faces, main_face, face_not_found, shape, points,
                  neutral_shape, image, is_closed, menuVars, history >>

SetImage ==
  /\ Go("image", "pose")
  /\ image' = frame_number
  /\ UNCHANGED << loopVars, neutral_shape, overlay, is_closed, menuVars,
                  history >>

DrawPose ==
  /\ Go("pose", "neutral")
  /\ overlay' = IF shape = NoPose THEN overlay ELSE overlay \cup {"pose"}
  /\ UNCHANGED << loopVars, neutral_shape, image, is_closed, menuVars,
                  history >>

(* Faulty variant of Reset: the neutral face is not forgotten.             *)
ResetNot(pose) == pose

Reset(pose) == Forgotten(pose)

(* Second read: draw the neutral face or forget it.                        *)
DrawNeutral ==
  /\ Go("neutral", "deltas")
  /\ IF neutral_face_flag >= SHOW_NEUTRAL_FACE
     THEN /\ overlay' = IF neutral_shape = NoPose THEN overlay
                        ELSE overlay \cup {"neutral"}
          /\ UNCHANGED neutral_shape
     ELSE neutral_shape' = Reset(neutral_shape) /\ UNCHANGED overlay
  /\ UNCHANGED << loopVars, image, is_closed, menuVars, history >>

(* Third read: a line from each neutral landmark to the current one.       *)
DrawDeltas ==
  /\ Go("deltas", "captured")
  /\ overlay' = IF /\ neutral_face_flag = SHOW_NEUTRAL_DELTAS
                   /\ shape # NoPose /\ neutral_shape # NoPose
                THEN overlay \cup {"deltas"} ELSE overlay
  /\ UNCHANGED << loopVars, neutral_shape, image, is_closed, menuVars,
                  history >>

(* Fourth read.                                                            *)
CheckCaptured ==
  /\ pc = "captured"
  /\ pc' = IF neutral_face_flag = CAPTURE_NEUTRAL_FACE THEN "show" ELSE "write"
  /\ UNCHANGED << loopVars, neutral_shape, windowVars, menuVars, history >>

ShowNeutral ==
  /\ Go("show", "write")
  /\ neutral_face_flag' = SHOW_NEUTRAL_FACE
  /\ UNCHANGED << loopVars, neutral_shape, windowVars, show_camera_image,
                  history >>

(* writer.write(frame_data)                                                *)
Write ==
  /\ Go("write", "top")
  /\ UNCHANGED << loopVars, neutral_shape, windowVars, menuVars, history >>

Loop ==
  \/ Start \/ Return \/ Reuse \/ (\E found \in Detection : DetectFaces(found))
  \/ DetectNone \/ CaptureNeutral \/ NumberFrame \/ SetImage \/ DrawPose
  \/ DrawNeutral \/ DrawDeltas \/ CheckCaptured \/ ShowNeutral \/ Write

-----------------------------------------------------------------------------
(* The event thread: the window and its menu, while the window is open.    *)

Open == pc \notin {"start", "closed"} /\ ~is_closed

Close ==
  /\ Open
  /\ is_closed' = TRUE
  /\ UNCHANGED << pc, loopVars, neutral_shape, image, overlay, menuVars,
                  history >>

toggle_camera_image ==
  /\ Open
  /\ show_camera_image' = ~show_camera_image
  /\ image' = IF show_camera_image THEN Nothing ELSE image
  /\ quiet' = FALSE
  /\ UNCHANGED << pc, loopVars, neutral_shape, overlay, is_closed,
                  neutral_face_flag, lastHit, largest >>

Choose(flag) ==
  /\ Open
  /\ neutral_face_flag' = flag
  /\ quiet' = FALSE
  /\ UNCHANGED << pc, loopVars, neutral_shape, windowVars,
                  show_camera_image, lastHit, largest >>

capture_neutral_face == Choose(CAPTURE_NEUTRAL_FACE)
show_neutral_deltas  == Choose(SHOW_NEUTRAL_DELTAS)
reset_neutral_face   == Choose(RESET_NEUTRAL_FACE)

Menu ==
  \/ toggle_camera_image \/ capture_neutral_face \/ show_neutral_deltas
  \/ reset_neutral_face

Next == Loop \/ Menu \/ Close

Spec == Init /\ [][Next]_vars

-----------------------------------------------------------------------------

TypeOK ==
  /\ pc \in {"start", "top", "capture", "publish", "image", "pose",
             "neutral", "deltas", "captured", "show", "write", "closed"}
  /\ frame_count \in 0 .. LastFrame
  /\ faces \in Seq(Area)
  /\ main_face \in Area \cup {0}
  /\ face_not_found \in Nat
  /\ shape \in Pose \cup {NoPose}
  /\ neutral_shape \in Pose \cup {NoPose}
  /\ points \in Nat \cup {Nothing}
  /\ frame_number \in Nat \cup {Nothing}
  /\ show_camera_image \in BOOLEAN
  /\ neutral_face_flag \in 0 .. 3
  /\ image \in Nat \cup {Nothing}
  /\ overlay \in SUBSET {"pose", "neutral", "deltas"}
  /\ is_closed \in BOOLEAN
  /\ lastHit \in Int
  /\ largest \in Area \cup {0}
  /\ quiet \in BOOLEAN

(* What write() is handed: frame number n with the landmarks of frame n,   *)
(* until the fifth detection in a row finds nothing; from then on with the *)
(* landmarks of the last frame before it, never with uninitialized ones.   *)
(* (face_not_found counts detections, not frames, and frame_data keeps its *)
(* points when the fit is skipped.)                                        *)
PublishedPoints ==
  pc = "write" =>
    /\ frame_number = frame_count - 1
    /\ points = Min({frame_number, lastHit + MaxMisses * sample_rate - 1})

(* The landmarks are fitted to the largest face of the last detection that *)
(* found one, however many detections have failed since and whatever was   *)
(* the main face before it.                                                *)
FittedToLargest ==
  shape # NoPose => shape.face = largest /\ main_face = largest

(* An iteration in which no menu item was chosen obeys the flag: it leaves *)
(* no capture pending, after Clear it draws no neutral face and keeps none *)
(* in memory, and Show Deltas draws lines only to a face that is there.    *)
QuietIteration ==
  quiet /\ pc = "write" =>
    /\ neutral_face_flag # CAPTURE_NEUTRAL_FACE
    /\ neutral_face_flag = RESET_NEUTRAL_FACE =>
         neutral_shape = NoPose /\ overlay \subseteq {"pose"}
    /\ "deltas" \in overlay =>
         /\ neutral_face_flag = SHOW_NEUTRAL_DELTAS
         /\ {"pose", "neutral"} \subseteq overlay

(* start's comment: "Neutral face is captured, now only display".  Once    *)
(* the loop has moved the flag on to display, there is a neutral face.     *)
CapturedThenShown ==
  neutral_face_flag = SHOW_NEUTRAL_FACE => neutral_shape # NoPose

=============================================================================
