------------------------- MODULE FaceDetectorProofs -------------------------
(***************************************************************************)
(* What the server publishes and draws, for any camera, sample rate and    *)
(* number of faces, and whatever the user chooses from the menu meanwhile. *)
(***************************************************************************)
EXTENDS FaceDetector, FiniteSetTheorems, SequenceTheorems,
        WellFoundedInduction, TLAPS

-----------------------------------------------------------------------------
(* The largest face, and multiples of the sample rate.                     *)

(* A finite set of integers has a maximum: otherwise a smallest subset     *)
(* without one would lose it with any of its elements.                     *)
LEMMA MaxOfFinite ==
  ASSUME NEW S \in SUBSET Int, IsFiniteSet(S), S # {}
  PROVE  Max(S) \in S /\ \A y \in S : y <= Max(S)
<1> DEFINE HasMax(T) == \E m \in T : \A y \in T : m >= y
           Without == {T \in SUBSET S : T # {} /\ ~HasMax(T)}
<1>1. HasMax(S)
  <2> SUFFICES ASSUME ~HasMax(S) PROVE FALSE
    OBVIOUS
  <2>1. IsWellFoundedOn(StrictSubsetOrdering(S), SUBSET S)
    BY FS_StrictSubsetOrderingWellFounded, FS_FiniteSubsetsOfFinite
  <2>2. Without \subseteq SUBSET S /\ Without # {}
    OBVIOUS
  <2>3. PICK T \in Without :
          \A U \in Without : << U, T >> \notin StrictSubsetOrdering(S)
    <3> HIDE DEF Without
    <3> QED
      BY <2>1, <2>2, WFMin
  <2>4. PICK x \in T : TRUE
    OBVIOUS
  <2>5. T \ {x} \notin Without
    BY <2>3, <2>4 DEF StrictSubsetOrdering
  <2>6. CASE T \ {x} = {}
    BY <2>4, <2>6
  <2>7. CASE HasMax(T \ {x})
    <3>1. PICK m \in T \ {x} : \A y \in T \ {x} : m >= y
      BY <2>7
    <3>2. CASE m >= x
      BY <3>1, <3>2
    <3>3. CASE ~(m >= x)
      BY <2>4, <3>1, <3>3
    <3> QED
      BY <3>2, <3>3
  <2> QED
    BY <2>5, <2>6, <2>7
<1> QED
  BY <1>1 DEF Max

LEMMA MinOfTwo ==
  ASSUME NEW a \in Int, NEW b \in Int
  PROVE  Min({a, b}) = IF a <= b THEN a ELSE b
<1> DEFINE m == IF a <= b THEN a ELSE b
<1>1. /\ m \in {a, b} /\ \A y \in {a, b} : m <= y
      /\ \A x \in {a, b} : (\A y \in {a, b} : x <= y) => x = m
  OBVIOUS
<1> QED
  BY <1>1 DEF Min

Areas(found) == {found[k] : k \in DOMAIN found}

LEMMA LargestOf ==
  ASSUME NEW found \in Detection, found # << >>
  PROVE  /\ found \in Seq(Area) /\ 1 \in DOMAIN found
         /\ found[1] \in Area
         /\ Max(Areas(found)) \in Area
         /\ \A k \in DOMAIN found : found[k] <= Max(Areas(found))
<1>1. found \in Seq(Area)
  BY SeqDef, FaceDetectorAssumption DEF Detection
<1>2. Len(found) \in Nat \ {0} /\ DOMAIN found = 1 .. Len(found)
  BY <1>1, EmptySeq, LenProperties
<1>3. 1 \in DOMAIN found /\ \A k \in DOMAIN found : found[k] \in Area
  BY <1>1, <1>2, ElementOfSeq
<1>4. Areas(found) \subseteq Area /\ found[1] \in Areas(found)
  BY <1>3 DEF Areas
<1>5. IsFiniteSet(Areas(found))
  <2>1. IsFiniteSet(DOMAIN found)
    BY <1>2, FS_Interval
  <2>2. found \in Surjection(DOMAIN found, Areas(found))
    BY <1>1, <1>2, LenProperties DEF Areas, Surjection
  <2> QED
    BY <2>1, <2>2, FS_Surjection
<1>6. Areas(found) \in SUBSET Int /\ Areas(found) # {}
  <2>1. Area \subseteq Int
    BY FaceDetectorAssumption
  <2> QED
    BY <1>4, <2>1
<1>7. /\ Max(Areas(found)) \in Areas(found)
      /\ \A y \in Areas(found) : y <= Max(Areas(found))
  BY <1>5, <1>6, MaxOfFinite
<1> QED
  BY <1>1, <1>3, <1>4, <1>7 DEF Areas

(* The loop over the faces finds the largest of them ...                   *)
LEMMA MainFaceIsLargest ==
  ASSUME NEW found \in Detection, found # << >>
  PROVE  MainFace(found) = Max(Areas(found))
<1>1. 1 \in DOMAIN found /\ found[1] \in Area
  BY LargestOf
<1>2. found[1] # 0 /\ {found[1]} \cup Areas(found) = Areas(found)
  BY <1>1, FaceDetectorAssumption DEF Areas
<1> QED
  BY <1>2 DEF MainFace, Selected, Areas

(* ... and, run once more over the same faces, the same one.               *)
LEMMA SelectedAgain ==
  ASSUME NEW face \in Area \cup {0}, NEW found \in Seq(Area),
         \A k \in DOMAIN found : found[k] <= face
  PROVE  Selected(face, found) = face
<1> DEFINE S == {face} \cup {found[k] : k \in DOMAIN found}
<1>1. \A k \in DOMAIN found : found[k] \in Area
  BY LenProperties, ElementOfSeq
<1>2. S \subseteq Int /\ face \in S
  <2>1. Area \subseteq Int
    BY FaceDetectorAssumption
  <2>2. face \in Int
    BY <2>1
  <2>3. \A k \in DOMAIN found : found[k] \in Int
    BY <1>1, <2>1
  <2> QED
    BY <2>2, <2>3
<1>3. \A y \in S : face >= y
  BY <1>2
<1>4. \A x \in S : (\A y \in S : x >= y) => x = face
  <2> SUFFICES ASSUME NEW x \in S, x >= face PROVE x = face
    BY <1>2
  <2>1. x <= face /\ x \in Int /\ face \in Int
    BY <1>2, <1>3
  <2> QED
    BY <2>1
<1>5. Max(S) = face
  <2> HIDE DEF S
  <2> QED
    BY <1>2, <1>3, <1>4 DEF Max
<1> QED
  BY <1>5 DEF Selected

LEMMA Multiples ==
  ASSUME NEW s \in Nat \ {0}, NEW n \in Int, NEW q \in Int, NEW m \in Nat
  PROVE  /\ q * s + m * s = (q + m) * s
         /\ (m + 1) * s = m * s + s
         /\ (q * s) % s = 0
         /\ n % s = 0 => \E r \in Int : n = r * s
         /\ q * s < n /\ n < q * s + s => n % s # 0
         /\ m * s \in Nat
<1>1. q * s + m * s = (q + m) * s /\ (m + 1) * s = m * s + s
  OBVIOUS
<1>2. m * s \in Nat
  OBVIOUS
<1>3. (q * s) % s = 0
  OBVIOUS
<1>4. n % s = 0 => \E r \in Int : n = r * s
  <2>1. n = s * (n \div s) + (n % s) /\ n \div s \in Int
    OBVIOUS
  <2>2. n % s = 0 => n = (n \div s) * s
    BY <2>1
  <2> QED
    BY <2>1, <2>2
<1>5. q * s < n /\ n < q * s + s => n % s # 0
  <2> SUFFICES ASSUME q * s < n, n < q * s + s, NEW r \in Int, n = r * s
               PROVE  FALSE
    BY <1>4
  <2>1. CASE r <= q
    <3>1. PICK k \in Nat : q = r + k
      BY <2>1
    <3> QED
      BY <3>1
  <2>2. CASE r >= q + 1
    <3>1. PICK k \in Nat : r = q + 1 + k
      BY <2>2
    <3> QED
      BY <3>1
  <2> QED
    BY <2>1, <2>2
<1> QED
  BY <1>1, <1>2, <1>3, <1>4, <1>5

-----------------------------------------------------------------------------
(* The invariant.                                                          *)

(* An iteration in which faces have been looked for, or need not be, and   *)
(* that has not counted its frame.                                         *)
Looked == pc \in {"capture", "publish"}

Types == TypeOK /\ (Looked => frame_count < LastFrame)

(* The detection before which the last face was lost, or is the last one.  *)
LastDetection == lastHit + face_not_found * sample_rate

(* face_not_found counts detections, one every sample_rate frames.         *)
Counted ==
  /\ \E q \in Int : lastHit = q * sample_rate
  /\ IF Looked
     THEN LastDetection <= frame_count
          /\ frame_count < LastDetection + sample_rate
     ELSE LastDetection < frame_count
          /\ frame_count <= LastDetection + sample_rate

(* The rest of the iteration, once the frame is numbered and counted.      *)
Drawing == {"image", "pose", "neutral", "deltas", "captured", "show", "write"}

(* The frame whose landmarks are published with frame n.                   *)
Latest(n) == Min({n, lastHit + MaxMisses * sample_rate - 1})

Kept ==
  /\ pc = "capture" => face_not_found < MaxMisses /\ shape.frame = frame_count
  /\ pc = "publish" => points = Latest(frame_count)
  /\ ~Looked => points = Latest(frame_count - 1)
  /\ pc \in Drawing => frame_number = frame_count - 1

Fitted ==
  /\ main_face = largest
  /\ \A k \in DOMAIN faces : faces[k] <= main_face
  /\ shape # NoPose => shape.face = main_face

(* After Clear, if it was chosen before this iteration.                    *)
Cleared ==
  quiet /\ neutral_face_flag = RESET_NEUTRAL_FACE =>
    neutral_shape = NoPose /\ overlay \subseteq {"pose"}

(* What the window shows, step by step.                                    *)
Drawn ==
  /\ pc \in {"image", "pose"} => overlay = {}
  /\ pc = "neutral" => overlay \subseteq {"pose"}
  /\ pc = "deltas" => overlay \subseteq {"pose", "neutral"}
  /\ pc \in {"neutral", "deltas"} /\ shape # NoPose => "pose" \in overlay
  /\ /\ quiet /\ pc = "deltas" /\ neutral_face_flag >= SHOW_NEUTRAL_FACE
     /\ neutral_shape # NoPose
     => "neutral" \in overlay
  /\ pc \in {"deltas", "captured", "show", "write"} => Cleared
  /\ quiet /\ pc \in {"captured", "show", "write"} /\ "deltas" \in overlay =>
       /\ neutral_face_flag = SHOW_NEUTRAL_DELTAS
       /\ {"pose", "neutral"} \subseteq overlay
  /\ quiet /\ pc = "show" => neutral_face_flag = CAPTURE_NEUTRAL_FACE
  /\ quiet /\ pc = "write" => neutral_face_flag # CAPTURE_NEUTRAL_FACE

FaceDetectorInv == Types /\ Counted /\ Kept /\ Fitted /\ Drawn

-----------------------------------------------------------------------------

LEMMA SampleRate ==
  /\ sample_rate \in Nat \ {0} /\ LastFrame \in Nat
  /\ Area \subseteq Nat \ {0} /\ \A a \in Area \cup {0} : a \in Nat
BY FaceDetectorAssumption

LEMMA TypesOf ==
  ASSUME Types
  PROVE  /\ frame_count \in Nat /\ face_not_found \in Nat
         /\ lastHit \in Int /\ points \in Int
         /\ main_face \in Area \cup {0}
         /\ faces \in Seq(Area)
         /\ LastDetection \in Int
<1>1. /\ frame_count \in Nat /\ face_not_found \in Nat
      /\ lastHit \in Int /\ points \in Int
      /\ main_face \in Area \cup {0}
      /\ faces \in Seq(Area)
  BY SampleRate DEF Types, TypeOK, Nothing
<1>2. face_not_found * sample_rate \in Nat
  BY <1>1, SampleRate, Multiples
<1> QED
  BY <1>1, <1>2 DEF LastDetection

LEMMA InitFaceDetectorInv == Init => FaceDetectorInv
<1> SUFFICES ASSUME Init PROVE FaceDetectorInv
  OBVIOUS
<1>1. Types
  <2>1. /\ faces \in Seq(Area) /\ lastHit \in Int
        /\ frame_count \in 0 .. LastFrame
    BY SampleRate DEF Init
  <2>2. /\ points \in Nat \cup {Nothing} /\ frame_number \in Nat \cup {Nothing}
        /\ image \in Nat \cup {Nothing}
        /\ shape \in Pose \cup {NoPose} /\ neutral_shape \in Pose \cup {NoPose}
    BY DEF Init
  <2>3. /\ neutral_face_flag \in 0 .. 3 /\ face_not_found \in Nat
        /\ overlay \in SUBSET {"pose", "neutral", "deltas"}
        /\ main_face \in Area \cup {0} /\ largest \in Area \cup {0}
        /\ pc = "start"
    BY DEF Init, RESET_NEUTRAL_FACE
  <2>4. /\ show_camera_image \in BOOLEAN /\ is_closed \in BOOLEAN
        /\ quiet \in BOOLEAN
    BY DEF Init
  <2> QED
    BY <2>1, <2>2, <2>3, <2>4 DEF Types, TypeOK, Looked
<1>2. Counted
  <2>1. lastHit = (-1) * sample_rate /\ LastDetection = -sample_rate
    BY SampleRate DEF Init, LastDetection
  <2> QED
    BY <2>1, SampleRate DEF Init, Counted, Looked
<1>3. Kept
  <2>1. /\ lastHit + MaxMisses * sample_rate - 1 \in Int
        /\ -1 <= lastHit + MaxMisses * sample_rate - 1
        /\ frame_count - 1 = -1
    BY SampleRate DEF Init, MaxMisses
  <2>2. Latest(frame_count - 1) = -1
    BY <2>1, MinOfTwo DEF Latest
  <2> QED
    BY <2>2 DEF Init, Kept, Looked, Drawing, Nothing
<1>4. Fitted /\ Drawn
  BY DEF Init, Fitted, Drawn, Cleared
<1> QED
  BY <1>1, <1>2, <1>3, <1>4 DEF FaceDetectorInv

-----------------------------------------------------------------------------
(* A new iteration, as far as the pose.                                    *)

Look ==
  Reuse \/ (\E found \in Detection : DetectFaces(found)) \/ DetectNone

(* What it has looked at: no detection, one that finds none, or faces.     *)
LEMMA LookMoves ==
  ASSUME Types, Fitted, Look
  PROVE  /\ pc = "top" /\ frame_count < LastFrame
         /\ UNCHANGED << frame_count, points, frame_number, neutral_shape,
                         image, overlay, is_closed, show_camera_image,
                         neutral_face_flag >>
         /\ quiet' = TRUE
         /\ faces' \in Seq(Area) /\ main_face' \in Area \cup {0}
         /\ main_face' = largest'
         /\ \A k \in DOMAIN faces' : faces'[k] <= main_face'
         /\ Fit(main_face', face_not_found')
         /\ \/ /\ frame_count % sample_rate # 0
               /\ UNCHANGED << lastHit, face_not_found >>
            \/ /\ frame_count % sample_rate = 0
               /\ UNCHANGED lastHit /\ face_not_found' = face_not_found + 1
            \/ /\ frame_count % sample_rate = 0
               /\ lastHit' = frame_count /\ face_not_found' = 0
<1>1. /\ main_face \in Area \cup {0} /\ faces \in Seq(Area)
      /\ main_face = largest /\ \A k \in DOMAIN faces : faces[k] <= main_face
  BY TypesOf DEF Fitted
<1>2. CASE Reuse
  <2>1. main_face' = main_face
    BY <1>1, <1>2, SelectedAgain DEF Reuse
  <2> QED
    BY <1>1, <1>2, <2>1 DEF Reuse, windowVars, menuVars
<1>3. CASE DetectNone
  <2>1. faces' = << >> /\ << >> \in Seq(Area) /\ DOMAIN << >> = {}
    BY <1>3 DEF DetectNone
  <2> QED
    BY <1>1, <1>3, <2>1 DEF DetectNone, windowVars, menuVars
<1>4. ASSUME NEW found \in Detection, DetectFaces(found)
      PROVE  /\ found \in Seq(Area) /\ faces' = found
             /\ main_face' = largest' /\ main_face' \in Area
             /\ \A k \in DOMAIN found : found[k] <= main_face'
             /\ lastHit' = frame_count /\ face_not_found' = 0
  <2>1. found # << >> /\ faces' = found /\ main_face' = MainFace(found)
        /\ largest' = Max(Areas(found))
        /\ lastHit' = frame_count /\ face_not_found' = 0
    BY <1>4 DEF DetectFaces, Areas, MissesAfterHit
  <2> QED
    BY <2>1, LargestOf, MainFaceIsLargest
<1>5. CASE \E found \in Detection : DetectFaces(found)
  <2>1. PICK found \in Detection : DetectFaces(found)
    BY <1>5
  <2> QED
    BY <1>4, <2>1 DEF DetectFaces, windowVars, menuVars
<1> QED
  BY <1>2, <1>3, <1>5 DEF Look

LEMMA LookInv ==
  ASSUME FaceDetectorInv, Look
  PROVE  FaceDetectorInv'
<1>1. Types /\ Counted /\ Kept /\ Fitted /\ Drawn
  BY DEF FaceDetectorInv
<1>2. /\ pc = "top" /\ frame_count < LastFrame
      /\ UNCHANGED << frame_count, points, frame_number, neutral_shape, image,
                      overlay, is_closed, show_camera_image,
                      neutral_face_flag >>
      /\ quiet' = TRUE
      /\ faces' \in Seq(Area) /\ main_face' \in Area \cup {0}
      /\ main_face' = largest'
      /\ \A k \in DOMAIN faces' : faces'[k] <= main_face'
      /\ Fit(main_face', face_not_found')
      /\ \/ /\ frame_count % sample_rate # 0
            /\ UNCHANGED << lastHit, face_not_found >>
         \/ /\ frame_count % sample_rate = 0
            /\ UNCHANGED lastHit /\ face_not_found' = face_not_found + 1
         \/ /\ frame_count % sample_rate = 0
            /\ lastHit' = frame_count /\ face_not_found' = 0
  BY <1>1, LookMoves
<1>3. \/ /\ face_not_found' < MaxMisses /\ pc' = "capture"
         /\ shape' = [frame |-> frame_count, face |-> main_face']
      \/ /\ ~(face_not_found' < MaxMisses) /\ pc' = "publish"
         /\ shape' = NoPose
  BY <1>2 DEF Fit, Forgotten
<1>4. Looked' /\ ~Looked
  BY <1>2, <1>3 DEF Looked
<1>5. /\ frame_count \in Nat /\ face_not_found \in Nat /\ lastHit \in Int
      /\ sample_rate \in Nat \ {0} /\ LastFrame \in Nat
      /\ LastDetection \in Int
  BY <1>1, TypesOf, SampleRate
<1>6. /\ face_not_found' \in Nat /\ lastHit' \in Int
      /\ LastDetection' = lastHit' + face_not_found' * sample_rate
  BY <1>2, <1>5 DEF LastDetection
<1>7. Types'
  <2>1. shape' \in Pose \cup {NoPose}
    BY <1>2, <1>3, <1>5 DEF Pose
  <2>2. /\ pc' \in {"capture", "publish"}
        /\ frame_count' < LastFrame
        /\ largest' \in Area \cup {0} /\ quiet' \in BOOLEAN
    BY <1>2, <1>3
  <2> QED
    BY <1>1, <1>2, <1>6, <2>1, <2>2 DEF Types, TypeOK
<1>8. Counted'
  <2>1. PICK q \in Int : lastHit = q * sample_rate
    BY <1>1 DEF Counted
  <2>2. LastDetection < frame_count
        /\ frame_count <= LastDetection + sample_rate
    BY <1>1, <1>4 DEF Counted
  <2>3. LastDetection = (q + face_not_found) * sample_rate
    BY <1>5, <2>1, Multiples DEF LastDetection
  <2>4. CASE /\ frame_count % sample_rate # 0
             /\ UNCHANGED << lastHit, face_not_found >>
    <3>1. frame_count # LastDetection + sample_rate
      <4>1. LastDetection + sample_rate
              = (q + face_not_found + 1) * sample_rate
        BY <1>5, <2>3
      <4>2. q + face_not_found + 1 \in Int /\ 0 \in Nat
        BY <1>5
      <4>3. ((q + face_not_found + 1) * sample_rate) % sample_rate = 0
        BY <1>5, <4>2, Multiples
      <4> QED
        BY <2>4, <4>1, <4>3
    <3>2. LastDetection' = LastDetection
      BY <2>4 DEF LastDetection
    <3> QED
      BY <1>2, <1>4, <1>5, <2>1, <2>2, <2>4, <3>1, <3>2 DEF Counted
  <2>5. CASE /\ frame_count % sample_rate = 0
             /\ UNCHANGED lastHit /\ face_not_found' = face_not_found + 1
    <3>1. LastDetection' = LastDetection + sample_rate
      <4>1. (face_not_found + 1) * sample_rate
              = face_not_found * sample_rate + sample_rate
        BY <1>5
      <4>2. face_not_found * sample_rate \in Int
        BY <1>5
      <4> QED
        BY <1>5, <2>5, <4>1, <4>2 DEF LastDetection
    <3>2. ~(frame_count < LastDetection + sample_rate)
      <4>1. q + face_not_found \in Int /\ frame_count \in Int /\ 0 \in Nat
        BY <1>5
      <4> QED
        BY <1>5, <2>2, <2>3, <2>5, <4>1, Multiples
    <3> QED
      BY <1>2, <1>4, <1>5, <2>1, <2>2, <2>5, <3>1, <3>2 DEF Counted
  <2>6. CASE /\ frame_count % sample_rate = 0
             /\ lastHit' = frame_count /\ face_not_found' = 0
    <3>1. LastDetection' = frame_count
      BY <1>5, <2>6 DEF LastDetection
    <3>2. \E r \in Int : frame_count = r * sample_rate
      <4>1. frame_count \in Int /\ 0 \in Int /\ 0 \in Nat
        BY <1>5
      <4> QED
        BY <1>5, <2>6, <4>1, Multiples
    <3> QED
      BY <1>2, <1>4, <1>5, <2>6, <3>1, <3>2 DEF Counted
  <2> QED
    BY <1>2, <2>4, <2>5, <2>6
<1>9. Kept'
  <2>1. CASE pc' = "capture"
    BY <1>2, <1>3, <1>4, <2>1 DEF Kept, Drawing
  <2>2. CASE pc' = "publish"
    <3>1. ~(face_not_found' < MaxMisses) /\ lastHit' = lastHit
      BY <1>2, <1>3, <2>2 DEF MaxMisses
    <3>2. MaxMisses * sample_rate <= face_not_found' * sample_rate
      <4>1. PICK k \in Nat : face_not_found' = MaxMisses + k
        BY <1>6, <3>1 DEF MaxMisses
      <4>2. /\ k * sample_rate \in Nat
            /\ MaxMisses * sample_rate + k * sample_rate
                 = (MaxMisses + k) * sample_rate
        BY <1>5, Multiples DEF MaxMisses
      <4> QED
        BY <1>5, <4>1, <4>2 DEF MaxMisses
    <3>3. lastHit + MaxMisses * sample_rate <= frame_count
      <4>1. LastDetection' <= frame_count
        BY <1>2, <1>4, <1>8 DEF Counted
      <4>2. face_not_found' * sample_rate \in Nat
        BY <1>5, <1>6, Multiples
      <4>3. MaxMisses * sample_rate \in Nat
        BY <1>5 DEF MaxMisses
      <4> QED
        <5>1. lastHit + face_not_found' * sample_rate <= frame_count
          BY <1>6, <3>1, <4>1
        <5>2. \A a, b, c, d \in Int : a + b <= d /\ c <= b => a + c <= d
          OBVIOUS
        <5> QED
          BY <1>5, <3>2, <4>2, <4>3, <5>1, <5>2
    <3>4. points = Latest(frame_count - 1)
      BY <1>1, <1>4 DEF Kept
    <3>5. lastHit + MaxMisses * sample_rate - 1 \in Int
          /\ frame_count \in Int /\ frame_count - 1 \in Int
      BY <1>5 DEF MaxMisses
    <3>6. Latest(frame_count - 1) = lastHit + MaxMisses * sample_rate - 1
          /\ Latest(frame_count) = lastHit + MaxMisses * sample_rate - 1
      <4> DEFINE last == lastHit + MaxMisses * sample_rate - 1
      <4>1. last <= frame_count - 1
        <5>1. MaxMisses * sample_rate \in Int
          BY <1>5 DEF MaxMisses
        <5> QED
          BY <1>5, <3>3, <5>1
      <4> HIDE DEF last
      <4>2. last \in Int
        BY <3>5 DEF last
      <4>3. Min({frame_count, last}) = last
            /\ Min({frame_count - 1, last}) = last
        BY <1>5, <4>1, <4>2, MinOfTwo
      <4> QED
        BY <4>3 DEF Latest, last
    <3> QED
      BY <1>2, <1>4, <2>2, <3>1, <3>4, <3>6 DEF Kept, Drawing, Latest
  <2> QED
    BY <1>3, <2>1, <2>2
<1>10. Fitted' /\ Drawn'
  BY <1>2, <1>3 DEF Fitted, Drawn
<1> QED
  BY <1>7, <1>8, <1>9, <1>10 DEF FaceDetectorInv

-----------------------------------------------------------------------------
(* The rest of the iteration.                                              *)

LEMMA CaptureNeutralInv ==
  ASSUME FaceDetectorInv, CaptureNeutral
  PROVE  FaceDetectorInv'
<1>1. Types /\ Counted /\ Kept /\ Fitted /\ Drawn
  BY DEF FaceDetectorInv
<1>2. /\ pc = "capture" /\ pc' = "publish"
      /\ neutral_shape' \in {shape, neutral_shape}
      /\ points' = shape.frame
      /\ UNCHANGED << frame_count, faces, main_face, face_not_found, shape,
                      frame_number, image, overlay, is_closed,
                      show_camera_image, neutral_face_flag, lastHit, largest,
                      quiet >>
  BY DEF CaptureNeutral, Go, windowVars, menuVars, history
<1>3. shape.frame = frame_count /\ face_not_found < MaxMisses
  BY <1>1, <1>2 DEF Kept
<1>4. /\ frame_count \in Nat /\ face_not_found \in Nat /\ lastHit \in Int
      /\ sample_rate \in Nat \ {0}
  BY <1>1, TypesOf, SampleRate
<1>5. Types'
  <2>1. neutral_shape' \in Pose \cup {NoPose} /\ points' \in Nat
    BY <1>1, <1>2, <1>3, <1>4 DEF Types, TypeOK
  <2> QED
    BY <1>1, <1>2, <2>1 DEF Types, TypeOK, Looked
<1>6. Counted'
  BY <1>1, <1>2 DEF Counted, Looked, LastDetection
<1>7. Kept'
  <2>1. frame_count < LastDetection + sample_rate
    BY <1>1, <1>2 DEF Counted, Looked
  <2>2. (face_not_found + 1) * sample_rate <= MaxMisses * sample_rate
    <3>1. PICK k \in Nat : MaxMisses = face_not_found + 1 + k
      BY <1>3, <1>4 DEF MaxMisses
    <3>2. /\ k * sample_rate \in Nat
          /\ (face_not_found + 1) * sample_rate + k * sample_rate
               = (face_not_found + 1 + k) * sample_rate
          /\ (face_not_found + 1) * sample_rate \in Nat
      BY <1>4, Multiples
    <3> QED
      BY <3>1, <3>2
  <2>3. (face_not_found + 1) * sample_rate
          = face_not_found * sample_rate + sample_rate
    BY <1>4
  <2>4. /\ face_not_found * sample_rate \in Int
        /\ MaxMisses * sample_rate \in Int
    BY <1>4 DEF MaxMisses
  <2>5. frame_count <= lastHit + MaxMisses * sample_rate - 1
    BY <1>4, <2>1, <2>2, <2>3, <2>4 DEF LastDetection
  <2>6. Latest(frame_count) = frame_count
    BY <1>4, <2>4, <2>5, MinOfTwo DEF Latest
  <2> QED
    BY <1>2, <1>3, <2>6 DEF Kept, Drawing, Looked, Latest
<1>8. Fitted' /\ Drawn'
  BY <1>1, <1>2 DEF Fitted, Drawn
<1> QED
  BY <1>5, <1>6, <1>7, <1>8 DEF FaceDetectorInv

LEMMA NumberFrameInv ==
  ASSUME FaceDetectorInv, NumberFrame
  PROVE  FaceDetectorInv'
<1>1. Types /\ Counted /\ Kept /\ Fitted /\ Drawn
  BY DEF FaceDetectorInv
<1>2. /\ pc = "publish" /\ pc' \in {"image", "pose"}
      /\ frame_number' = frame_count /\ frame_count' = frame_count + 1
      /\ overlay' = {}
      /\ UNCHANGED << faces, main_face, face_not_found, shape, points,
                      neutral_shape, image, is_closed, show_camera_image,
                      neutral_face_flag, lastHit, largest, quiet >>
  BY DEF NumberFrame, menuVars, history
<1>3. /\ frame_count \in Nat /\ frame_count < LastFrame
      /\ LastDetection \in Int /\ sample_rate \in Nat /\ LastFrame \in Nat
      /\ Looked /\ ~Looked' /\ frame_count' - 1 = frame_count
  BY <1>1, <1>2, TypesOf, SampleRate DEF Types, Looked
<1>4. Types'
  BY <1>1, <1>2, <1>3 DEF Types, TypeOK
<1>5. Counted'
  <2>1. LastDetection' = LastDetection
    BY <1>2 DEF LastDetection
  <2> QED
    BY <1>1, <1>2, <1>3, <2>1 DEF Counted
<1>6. Kept'
  BY <1>1, <1>2, <1>3 DEF Kept, Latest
<1>7. Fitted' /\ Drawn'
  BY <1>1, <1>2 DEF Fitted, Drawn
<1> QED
  BY <1>4, <1>5, <1>6, <1>7 DEF FaceDetectorInv

(* The steps after the frame is counted, and those of the menu, leave the  *)
(* pose, the faces and the frame data alone.                               *)
LoopRests ==
  /\ UNCHANGED << frame_count, faces, main_face, face_not_found, shape,
                  points, frame_number, lastHit, largest >>
  /\ pc' # pc => pc \notin {"capture", "publish"}
                 /\ pc' \notin {"capture", "publish"}
  /\ pc' \in Drawing => pc \in Drawing

LEMMA RestInv ==
  ASSUME FaceDetectorInv, LoopRests
  PROVE  /\ Counted' /\ Kept' /\ Fitted' /\ (Looked' <=> Looked)
         /\ frame_count' = frame_count
<1>1. Counted /\ Kept /\ Fitted
  BY DEF FaceDetectorInv
<1>2. Looked' <=> Looked
  BY DEF LoopRests, Looked
<1>3. Counted'
  BY <1>1, <1>2 DEF LoopRests, Counted, LastDetection
<1>4. Kept'
  BY <1>1, <1>2 DEF LoopRests, Kept, Latest, Looked
<1>5. Fitted' /\ frame_count' = frame_count
  BY <1>1 DEF LoopRests, Fitted
<1> QED
  BY <1>2, <1>3, <1>4, <1>5

(* One of them, once it is known what it does to the window and the menu's *)
(* variables.                                                              *)
LEMMA OtherInv ==
  ASSUME FaceDetectorInv,
         LoopRests, Drawn',
         pc' \in Drawing \cup {"top", "closed"} \/ pc' = pc,
         neutral_shape' \in {neutral_shape, NoPose},
         show_camera_image' \in BOOLEAN, neutral_face_flag' \in 0 .. 3,
         image' \in {image, frame_number, Nothing},
         overlay' \in SUBSET {"pose", "neutral", "deltas"},
         is_closed' \in BOOLEAN, quiet' \in {quiet, FALSE}
  PROVE  FaceDetectorInv'
<1>1. Counted' /\ Kept' /\ Fitted' /\ (Looked' <=> Looked)
      /\ frame_count' = frame_count
  BY RestInv
<1>2. Types'
  <2>1. /\ pc' \in {"start", "top", "capture", "publish", "image", "pose",
                    "neutral", "deltas", "captured", "show", "write", "closed"}
        /\ Looked' => frame_count' < LastFrame
    BY <1>1 DEF FaceDetectorInv, Types, TypeOK, Drawing
  <2>2. /\ neutral_shape' \in Pose \cup {NoPose}
        /\ image' \in Nat \cup {Nothing} /\ quiet' \in BOOLEAN
    BY DEF FaceDetectorInv, Types, TypeOK
  <2> QED
    BY <2>1, <2>2 DEF FaceDetectorInv, Types, TypeOK, LoopRests
<1> QED
  BY <1>1, <1>2 DEF FaceDetectorInv

LEMMA OtherStepInv ==
  ASSUME FaceDetectorInv,
         \/ Start \/ Return \/ SetImage \/ DrawPose \/ DrawNeutral
         \/ DrawDeltas \/ CheckCaptured \/ ShowNeutral \/ Write
         \/ Menu \/ Close
  PROVE  FaceDetectorInv'
<1> USE DEF Drawing
<1>1. Types /\ Drawn
  BY DEF FaceDetectorInv
<1>2. /\ neutral_face_flag \in 0 .. 3 /\ show_camera_image \in BOOLEAN
      /\ overlay \in SUBSET {"pose", "neutral", "deltas"}
      /\ is_closed \in BOOLEAN
  BY <1>1 DEF Types, TypeOK
<1>3. CASE Start \/ Return \/ Write
  <2>1. /\ LoopRests /\ pc' \in {"top", "closed"}
        /\ UNCHANGED << neutral_shape, image, overlay, is_closed,
                        show_camera_image, neutral_face_flag, quiet >>
    BY <1>3 DEF Start, Return, Write, Go, LoopRests, loopVars, windowVars,
         menuVars, history
  <2>2. Drawn'
    BY <2>1 DEF Drawn
  <2> QED
    BY <1>2, <2>1, <2>2, OtherInv
<1>4. CASE SetImage
  <2>1. /\ LoopRests /\ pc = "image" /\ pc' = "pose"
        /\ image' = frame_number
        /\ UNCHANGED << neutral_shape, overlay, is_closed,
                        show_camera_image, neutral_face_flag, quiet >>
    BY <1>4 DEF SetImage, Go, LoopRests, loopVars, menuVars, history
  <2>2. Drawn'
    BY <1>1, <2>1 DEF Drawn
  <2> QED
    BY <1>2, <2>1, <2>2, OtherInv
<1>5. CASE DrawPose
  <2>1. /\ LoopRests /\ pc = "pose" /\ pc' = "neutral"
        /\ overlay' = IF shape = NoPose THEN overlay ELSE overlay \cup {"pose"}
        /\ UNCHANGED << shape, neutral_shape, image, is_closed,
                        show_camera_image, neutral_face_flag, quiet >>
    BY <1>5 DEF DrawPose, Go, LoopRests, loopVars, menuVars, history
  <2>2. Drawn'
    BY <1>1, <2>1 DEF Drawn
  <2>3. overlay' \in SUBSET {"pose", "neutral", "deltas"}
    BY <1>2, <2>1
  <2> QED
    BY <1>2, <2>1, <2>2, <2>3, OtherInv
<1>6. CASE DrawNeutral
  <2>1. /\ LoopRests /\ pc = "neutral" /\ pc' = "deltas"
        /\ UNCHANGED << shape, image, is_closed, show_camera_image,
                        neutral_face_flag, quiet >>
    BY <1>6 DEF DrawNeutral, Go, LoopRests, loopVars, menuVars, history
  <2>2. CASE neutral_face_flag >= SHOW_NEUTRAL_FACE
    <3>1. /\ neutral_shape' = neutral_shape
          /\ overlay' = IF neutral_shape = NoPose THEN overlay
                        ELSE overlay \cup {"neutral"}
      BY <1>6, <2>2 DEF DrawNeutral
    <3>2. Drawn'
      BY <1>1, <1>2, <2>1, <2>2, <3>1
         DEF Drawn, Cleared, SHOW_NEUTRAL_FACE, RESET_NEUTRAL_FACE
    <3>3. overlay' \in SUBSET {"pose", "neutral", "deltas"}
      BY <1>2, <3>1
    <3> QED
      BY <1>2, <2>1, <3>1, <3>2, <3>3, OtherInv
  <2>3. CASE ~(neutral_face_flag >= SHOW_NEUTRAL_FACE)
    <3>1. neutral_shape' = NoPose /\ overlay' = overlay
      BY <1>6, <2>3 DEF DrawNeutral, Reset, Forgotten
    <3>2. Drawn'
      BY <1>1, <2>1, <2>3, <3>1 DEF Drawn, Cleared
    <3> QED
      BY <1>2, <2>1, <3>1, <3>2, OtherInv
  <2> QED
    BY <2>2, <2>3
<1>7. CASE DrawDeltas
  <2>1. /\ LoopRests /\ pc = "deltas" /\ pc' = "captured"
        /\ overlay' = IF /\ neutral_face_flag = SHOW_NEUTRAL_DELTAS
                         /\ shape # NoPose /\ neutral_shape # NoPose
                      THEN overlay \cup {"deltas"} ELSE overlay
        /\ UNCHANGED << shape, neutral_shape, image, is_closed,
                        show_camera_image, neutral_face_flag, quiet >>
    BY <1>7 DEF DrawDeltas, Go, LoopRests, loopVars, menuVars, history
  <2>2. Drawn'
    BY <1>1, <1>2, <2>1 DEF Drawn, Cleared, SHOW_NEUTRAL_FACE,
         SHOW_NEUTRAL_DELTAS, RESET_NEUTRAL_FACE
  <2>3. overlay' \in SUBSET {"pose", "neutral", "deltas"}
    BY <1>2, <2>1
  <2> QED
    BY <1>2, <2>1, <2>2, <2>3, OtherInv
<1>8. CASE CheckCaptured
  <2>1. /\ LoopRests /\ pc = "captured"
        /\ pc' = IF neutral_face_flag = CAPTURE_NEUTRAL_FACE
                 THEN "show" ELSE "write"
        /\ UNCHANGED << neutral_shape, image, overlay, is_closed,
                        show_camera_image, neutral_face_flag, quiet >>
    BY <1>8 DEF CheckCaptured, LoopRests, loopVars, windowVars, menuVars,
         history
  <2>2. Drawn'
    BY <1>1, <2>1 DEF Drawn, Cleared
  <2> QED
    BY <1>2, <2>1, <2>2, OtherInv
<1>9. CASE ShowNeutral
  <2>1. /\ LoopRests /\ pc = "show" /\ pc' = "write"
        /\ neutral_face_flag' = SHOW_NEUTRAL_FACE
        /\ UNCHANGED << neutral_shape, image, overlay, is_closed,
                        show_camera_image, quiet >>
    BY <1>9 DEF ShowNeutral, Go, LoopRests, loopVars, windowVars, history
  <2>2. Drawn'
    BY <1>1, <2>1 DEF Drawn, Cleared, SHOW_NEUTRAL_FACE, SHOW_NEUTRAL_DELTAS,
         RESET_NEUTRAL_FACE, CAPTURE_NEUTRAL_FACE
  <2> QED
    BY <1>2, <2>1, <2>2, OtherInv DEF SHOW_NEUTRAL_FACE
<1>10. CASE Menu \/ Close
  <2> DEFINE Harmless ==
        /\ LoopRests /\ pc' = pc
        /\ UNCHANGED << shape, neutral_shape, overlay >>
        /\ quiet' = FALSE \/ UNCHANGED << quiet, neutral_face_flag >>
        /\ image' \in {image, Nothing} /\ quiet' \in {quiet, FALSE}
        /\ show_camera_image' \in BOOLEAN /\ is_closed' \in BOOLEAN
        /\ neutral_face_flag' \in 0 .. 3
  <2>1. Harmless
    <3>1. CASE Close
      BY <1>2, <3>1 DEF Close, LoopRests, loopVars, menuVars, history
    <3>2. CASE toggle_camera_image
      BY <1>2, <3>2 DEF toggle_camera_image, LoopRests, loopVars
    <3>3. ASSUME NEW flag \in 0 .. 3, Choose(flag)
          PROVE  Harmless
      BY <1>2, <3>3 DEF Choose, LoopRests, loopVars, windowVars
    <3>4. Menu => \/ toggle_camera_image
                  \/ \E flag \in 0 .. 3 : Choose(flag)
      BY DEF Menu, capture_neutral_face, show_neutral_deltas,
           reset_neutral_face, RESET_NEUTRAL_FACE, CAPTURE_NEUTRAL_FACE,
           SHOW_NEUTRAL_DELTAS
    <3> QED
      BY <1>10, <3>1, <3>2, <3>3, <3>4
  <2>2. Drawn'
    BY <1>1, <2>1 DEF Drawn, Cleared
  <2> QED
    BY <1>2, <2>1, <2>2, OtherInv
<1> QED
  BY <1>3, <1>4, <1>5, <1>6, <1>7, <1>8, <1>9, <1>10

LEMMA NextFaceDetectorInv ==
  ASSUME FaceDetectorInv, [Next]_vars
  PROVE  FaceDetectorInv'
<1>1. CASE Look
  BY <1>1, LookInv
<1>2. CASE CaptureNeutral
  BY <1>2, CaptureNeutralInv
<1>3. CASE NumberFrame
  BY <1>3, NumberFrameInv
<1>4. CASE \/ Start \/ Return \/ SetImage \/ DrawPose \/ DrawNeutral
           \/ DrawDeltas \/ CheckCaptured \/ ShowNeutral \/ Write
           \/ Menu \/ Close
  BY <1>4, OtherStepInv
<1>5. CASE UNCHANGED vars
  BY <1>5 DEF vars, FaceDetectorInv, Types, TypeOK, Looked, Counted,
       LastDetection, Kept, Latest, Fitted, Drawn, Drawing, Cleared
<1> QED
  BY <1>1, <1>2, <1>3, <1>4, <1>5 DEF Next, Loop, Look

(* The loop and the menu keep the types of what they share, and no more    *)
(* frames are counted than were taken.                                     *)
THEOREM FaceDetectorTypes == Spec => []TypeOK
<1>1. FaceDetectorInv => TypeOK
  BY DEF FaceDetectorInv, Types
<1> QED
  BY <1>1, InitFaceDetectorInv, NextFaceDetectorInv, PTL DEF Spec

(* Frame n is written with the landmarks of frame n, and with those of the *)
(* last frame before the fifth detection in a row that found nothing from  *)
(* then on, whatever the sample rate.                                      *)
THEOREM FaceDetectorPoints == Spec => []PublishedPoints
<1>1. FaceDetectorInv => PublishedPoints
  <2> SUFFICES ASSUME FaceDetectorInv, pc = "write"
               PROVE  /\ frame_number = frame_count - 1
                      /\ points = Latest(frame_number)
    BY DEF PublishedPoints, Latest
  <2> QED
    BY DEF FaceDetectorInv, Kept, Looked, Drawing
<1> QED
  BY <1>1, InitFaceDetectorInv, NextFaceDetectorInv, PTL DEF Spec

(* The landmarks are fitted to the largest face of the last detection that *)
(* found any, however many it found.                                       *)
THEOREM FaceDetectorFit == Spec => []FittedToLargest
<1>1. FaceDetectorInv => FittedToLargest
  BY DEF FaceDetectorInv, Fitted, FittedToLargest
<1> QED
  BY <1>1, InitFaceDetectorInv, NextFaceDetectorInv, PTL DEF Spec

(* An iteration during which nothing is chosen from the menu draws, keeps  *)
(* and leaves behind what the flag it began with asks for.                 *)
THEOREM FaceDetectorQuiet == Spec => []QuietIteration
<1>1. FaceDetectorInv => QuietIteration
  BY DEF FaceDetectorInv, Drawn, Cleared, QuietIteration
<1> QED
  BY <1>1, InitFaceDetectorInv, NextFaceDetectorInv, PTL DEF Spec

=============================================================================
