---------------------------- MODULE CaptureProofs ----------------------------
(***************************************************************************)
(* Theorems about Writer and, with it, about Capture: for every Field and  *)
(* every LastFrame, for any set of devices and any size of their pools.    *)
(***************************************************************************)
EXTENDS Capture, SequenceTheorems, TLAPS

-----------------------------------------------------------------------------
(* The writer alone.                                                       *)

(* What the members of the Writer object say of each other.                *)
Pairing ==
  /\ initial_write =>
       next_frame = 0 /\ first_frame = Junk /\ ~is_second_frame /\ ~mutex
  /\ ~initial_write => next_frame >= 1
  /\ is_second_frame => ~initial_write /\ first_frame = FirstOf(next_frame)
  /\ mutex => is_second_frame /\ second_frame = next_frame
                /\ next_frame < LastFrame
  /\ ~mutex => pending = {}

(* Part c of record s: the pair it belongs to.                             *)
PairOf(s, c) == IF mutex /\ << s, c >> \notin pending
                THEN next_frame ELSE SettledPair

(* Every part of the segment is the settled pair's, or, once stored, the   *)
(* new pair's.                                                             *)
PartsKnown ==
  \A s \in Slot, c \in Field : frame_data[s][c] = TagOf(PairOf(s, c), s)

WriterInv == WriterTypeOK /\ Pairing /\ PartsKnown

-----------------------------------------------------------------------------

LEMMA WriterInitInv == WriterInit => WriterInv
<1> SUFFICES ASSUME WriterInit PROVE WriterInv
  OBVIOUS
<1>1. \A s \in Slot, c \in Field :
        /\ frame_data \in [Slot -> Frame]
        /\ frame_data[s][c] = Before
  BY DEF WriterInit, Stored, Whole, TagOf, FirstOf, SecondOf, NoPair,
         Slot, Frame, Tag
<1>2. WriterTypeOK
  <2>1. /\ frame_data \in [Slot -> Frame]
        /\ next_frame \in 0 .. LastFrame
        /\ first_frame \in Tag
        /\ second_frame \in Tag
        /\ pending \in SUBSET Part
    BY <1>1, FieldAssumption, LastFrameAssumption
    DEF WriterInit, Tag, Slot
  <2>2. {initial_write, is_second_frame, mutex} \subseteq BOOLEAN
    BY Zenon DEF WriterInit
  <2> QED BY <2>1, <2>2, Zenon DEF WriterTypeOK
<1>3. Pairing
  BY DEF WriterInit, Pairing
<1>4. PartsKnown
  BY <1>1 DEF WriterInit, PartsKnown, PairOf, SettledPair, TagOf, FirstOf,
              SecondOf
<1> QED BY <1>2, <1>3, <1>4 DEF WriterInv

LEMMA WriterStepType == WriterInv /\ WriterNext => WriterTypeOK'
<1> SUFFICES ASSUME WriterInv, WriterNext PROVE WriterTypeOK'
  OBVIOUS
<1> USE LastFrameAssumption DEF WriterInv, WriterTypeOK, Tag
<1>1. CASE WriteInitial
  <2>1. next_frame' \in 0 .. LastFrame
    BY <1>1 DEF WriteInitial, Calling
  <2>2. initial_write' \in BOOLEAN /\ is_second_frame' \in BOOLEAN
    BY <1>1, Zenon DEF WriteInitial
  <2> QED BY <1>1, <2>1, <2>2 DEF WriteInitial
<1>2. CASE SaveFirst
  BY <1>2 DEF SaveFirst, Calling
<1>3. CASE BeginPair
  BY <1>3 DEF BeginPair, Calling
<1>4. CASE Store
  <2>1. PICK s \in Slot, c \in Field : StorePart(s, c)
    BY <1>4 DEF Store
  <2>2. frame_data' \in [Slot -> Frame]
    BY <2>1 DEF StorePart, Frame
  <2>3. pending' \in SUBSET Part
    BY <2>1 DEF StorePart
  <2> QED BY <2>1, <2>2, <2>3 DEF StorePart
<1>5. CASE EndPair
  <2>1. next_frame' \in 0 .. LastFrame
    BY <1>5 DEF EndPair, Pairing
  <2>2. mutex' \in BOOLEAN /\ is_second_frame' \in BOOLEAN
    BY <1>5, Zenon DEF EndPair
  <2> QED BY <1>5, <2>1, <2>2 DEF EndPair
<1> QED BY <1>1, <1>2, <1>3, <1>4, <1>5 DEF WriterNext

LEMMA WriterStepPairing == WriterInv /\ WriterNext => Pairing'
<1> SUFFICES ASSUME WriterInv, WriterNext PROVE Pairing'
  OBVIOUS
<1> USE LastFrameAssumption
    DEF WriterInv, WriterTypeOK, Pairing, FirstOf, NoPair, Junk, Before
<1>1. CASE WriteInitial
  BY <1>1 DEF WriteInitial, Calling
<1>2. CASE SaveFirst
  BY <1>2 DEF SaveFirst, Calling
<1>3. CASE BeginPair
  BY <1>3 DEF BeginPair, Calling
<1>4. CASE Store
  BY <1>4 DEF Store, StorePart
<1>5. CASE EndPair
  BY <1>5 DEF EndPair
<1> QED BY <1>1, <1>2, <1>3, <1>4, <1>5 DEF WriterNext

LEMMA WriterStepParts == WriterInv /\ WriterNext => PartsKnown'
<1> SUFFICES ASSUME WriterInv, WriterNext, NEW s \in Slot, NEW c \in Field
             PROVE  (frame_data[s][c] = TagOf(PairOf(s, c), s))'
  BY DEF PartsKnown
<1>0. frame_data[s][c] = TagOf(PairOf(s, c), s)
  BY DEF WriterInv, PartsKnown
<1> USE DEF WriterInv, WriterTypeOK, Pairing, PairOf, SettledPair, TagOf
<1>1. CASE WriteInitial
  BY <1>0, <1>1 DEF WriteInitial, FirstOf, SecondOf, NoPair
<1>2. CASE SaveFirst
  BY <1>0, <1>2 DEF SaveFirst, FirstOf, SecondOf, NoPair
<1>3. CASE BeginPair
  BY <1>0, <1>3 DEF BeginPair, Part, Calling
<1>4. CASE Store
  <2>1. PICK t \in Slot, e \in Field : StorePart(t, e)
    BY <1>4 DEF Store
  <2>2. CASE t = s /\ e = c
    <3>1. /\ frame_data'[s][c] = IF s = 0 THEN first_frame ELSE second_frame
          /\ << s, c >> \notin pending'
      BY <2>1, <2>2 DEF StorePart, Frame
    <3>2. mutex /\ mutex' /\ next_frame' = next_frame
      BY <2>1 DEF StorePart
    <3> QED BY <3>1, <3>2 DEF SecondOf, NoPair
  <2>3. CASE ~(t = s /\ e = c)
    <3>1. /\ frame_data'[s][c] = frame_data[s][c]
          /\ << s, c >> \in pending' <=> << s, c >> \in pending
      BY <2>1, <2>3 DEF StorePart, Frame
    <3> QED BY <1>0, <2>1, <3>1 DEF StorePart
  <2> QED BY <2>2, <2>3
<1>5. CASE EndPair
  BY <1>0, <1>5 DEF EndPair
<1> QED BY <1>1, <1>2, <1>3, <1>4, <1>5 DEF WriterNext

(* The inductive step, as Capture uses it too.                             *)
LEMMA WriterStepInv == WriterInv /\ [WriterNext]_WriterVars => WriterInv'
<1>1. WriterInv /\ WriterNext => WriterInv'
  BY WriterStepType, WriterStepPairing, WriterStepParts DEF WriterInv
<1>2. WriterInv /\ UNCHANGED WriterVars => WriterInv'
  BY DEF WriterInv, WriterTypeOK, Pairing, PartsKnown, PairOf, SettledPair,
         WriterVars, writerVars
<1> QED BY <1>1, <1>2

(* Writer::write: what holds between the accesses of every call.           *)
THEOREM WriterInvariant == WriterSpec => []WriterInv
BY WriterInitInv, WriterStepInv, PTL DEF WriterSpec

LEMMA HoldsAPair == WriterInv => SegmentHoldsAPair
<1> SUFFICES ASSUME WriterInv, ~mutex
             PROVE  /\ frame_data = Stored(SettledPair)
                    /\ next_frame - SettledPair \in 1 .. 2
  BY DEF SegmentHoldsAPair
<1> USE DEF WriterInv, WriterTypeOK
<1>1. \A s \in Slot, c \in Field : frame_data[s][c] = TagOf(SettledPair, s)
  BY DEF PartsKnown, PairOf
<1>2. \A s \in Slot : frame_data[s] = Whole(TagOf(SettledPair, s))
  BY <1>1 DEF Frame, Whole
<1>3. frame_data = Stored(SettledPair)
  BY <1>2 DEF Stored
<1>4. next_frame - SettledPair \in 1 .. 2
  BY LastFrameAssumption DEF SettledPair, Pairing, NoPair
<1> QED BY <1>3, <1>4

(* Writer::write: between two calls the segment holds one whole pair.      *)
THEOREM WriterPairs == WriterSpec => []SegmentHoldsAPair
BY WriterInvariant, HoldsAPair, PTL

-----------------------------------------------------------------------------
(* The writer implements PairRegister.                                     *)

(* Both modules read the segment the same way.                             *)
LEMMA RegisterReadsAlike ==
  /\ Register!Slot = Slot
  /\ Register!NoPair = NoPair
  /\ \A n, s : Register!TagOf(n, s) = TagOf(n, s)
  /\ \A n : Register!Stored(n) = Stored(n)
BY DEF Register!Slot, Slot, Register!NoPair, NoPair, Register!TagOf, TagOf,
       Register!FirstOf, FirstOf, Register!SecondOf, SecondOf,
       Register!Before, Before, Register!Junk, Junk, Register!Stored, Stored,
       Register!Whole, Whole

LEMMA WriterStepRegister ==
  WriterInv /\ [WriterNext]_WriterVars
    => [Register!Next]_(Register!registerVars)
<1> SUFFICES ASSUME WriterInv, WriterNext
             PROVE  Register!Next \/ UNCHANGED Register!registerVars
  BY DEF WriterVars, writerVars, Register!registerVars, NewestPair,
         SettledPair
<1> USE LastFrameAssumption
    DEF WriterInv, WriterTypeOK, Pairing, NewestPair, SettledPair, NoPair,
        Register!registerVars, Register!Next
<1>1. CASE WriteInitial
  BY <1>1 DEF WriteInitial, Calling
<1>2. CASE SaveFirst
  BY <1>2 DEF SaveFirst, Calling
<1>3. CASE BeginPair
  BY <1>3 DEF BeginPair, Calling, Register!Begin
<1>4. CASE Store
  <2>1. PICK s \in Slot, c \in Field : StorePart(s, c)
    BY <1>4 DEF Store
  <2>2. mutex /\ UNCHANGED << NewestPair, SettledPair >>
    BY <2>1 DEF StorePart
  <2>3. (IF s = 0 THEN first_frame ELSE second_frame) = TagOf(NewestPair, s)
    BY <2>2 DEF TagOf, SecondOf, Slot
  <2>4. NewestPair # SettledPair
    BY <2>2
  <2>5. Register!Replace(s, c)
    BY <2>1, <2>2, <2>3, <2>4, RegisterReadsAlike
    DEF StorePart, Register!Replace
  <2> QED BY <2>5, RegisterReadsAlike
<1>5. CASE EndPair
  <2>1. mutex /\ pending = {} /\ ~mutex' /\ ~is_second_frame'
    BY <1>5, Zenon DEF EndPair
  <2>2. \A s \in Slot, c \in Field : frame_data[s][c] = TagOf(NewestPair, s)
    BY <2>1 DEF PartsKnown, PairOf
  <2>3. \A s \in Slot : frame_data[s] = Whole(TagOf(NewestPair, s))
    BY <2>2 DEF Frame, Whole
  <2>4. frame_data = Stored(NewestPair)
    BY <2>3 DEF Stored
  <2>5. Register!End
    BY <1>5, <2>1, <2>4, RegisterReadsAlike DEF EndPair, Register!End
  <2> QED BY <2>5
<1> QED BY <1>1, <1>2, <1>3, <1>4, <1>5 DEF WriterNext

(* Writer::write is a regular register of pairs: a reader of the segment   *)
(* may rely on what PairRegister says and on nothing else.                 *)
THEOREM WriterRefinesRegister == WriterSpec => WriterIsARegister
<1>1. WriterInit => Register!Init
  <2> SUFFICES ASSUME WriterInit PROVE Register!Init
    OBVIOUS
  <2>1. NewestPair = NoPair /\ SettledPair = NoPair
    BY Zenon DEF WriterInit, NewestPair, SettledPair
  <2> QED BY <2>1, RegisterReadsAlike
          DEF WriterInit, Register!Init
<1> QED BY <1>1, WriterStepRegister, WriterInvariant, PTL
        DEF WriterSpec, WriterIsARegister, Register!Spec

-----------------------------------------------------------------------------
(* The writer and the devices.                                             *)

(* Part c on its way from the segment to the output of device d: what is   *)
(* further on is never newer, and what the thread has copied is not older  *)
(* than the pair that was complete when it began.                          *)
Ordered(d, c) ==
  LET seen == frame_data[0][c]
      item == DOMAIN queue[d]
  IN  /\ output[d][c] <= seen
      /\ \A i \in item : /\ output[d][c] <= queue[d][i][c]
                         /\ queue[d][i][c] <= seen
      /\ \A i, j \in item : i <= j => queue[d][i][c] <= queue[d][j][c]
      /\ pc[d] = "copying" /\ c \notin left[d] =>
           /\ since[d] <= buffer[d][c]
           /\ buffer[d][c] <= seen
           /\ output[d][c] <= buffer[d][c]
           /\ \A i \in item : queue[d][i][c] <= buffer[d][c]

SinceSettled(d) == pc[d] = "copying" => since[d] <= FirstOf(SettledPair)

CaptureInv ==
  /\ TypeOK
  /\ WriterInv
  /\ BuffersAccounted
  /\ SpinLockHolder
  /\ \A d \in Device : SinceSettled(d)
  /\ \A d \in Device, c \in Field : Ordered(d, c)

-----------------------------------------------------------------------------
(* What the writer's steps mean to the devices.                            *)

LEMMA PairTags ==
  WriterInv => /\ FirstOf(SettledPair) \in Tag
               /\ FirstOf(NewestPair) \in Tag
               /\ \A c \in Field :
                    /\ frame_data[0][c] \in Tag
                    /\ FirstOf(SettledPair) <= frame_data[0][c]
                    /\ frame_data[0][c] <= FirstOf(NewestPair)
<1> SUFFICES ASSUME WriterInv
             PROVE  /\ FirstOf(SettledPair) \in Tag
                    /\ FirstOf(NewestPair) \in Tag
                    /\ FirstOf(SettledPair) <= FirstOf(NewestPair)
                    /\ \A c \in Field :
                         frame_data[0][c] \in {FirstOf(SettledPair),
                                               FirstOf(NewestPair)}
  BY DEF Tag, Before, Junk
<1> USE LastFrameAssumption DEF WriterInv, WriterTypeOK, Pairing, NewestPair
<1>1. SettledPair \in Nat \cup {NoPair} /\ NewestPair \in Nat \cup {NoPair}
  BY DEF SettledPair, NoPair
<1>2. NewestPair = SettledPair \/ NewestPair >= SettledPair + 2
  BY DEF SettledPair
<1>3. \A c \in Field :
        frame_data[0][c] \in {FirstOf(SettledPair), FirstOf(NewestPair)}
  BY DEF PartsKnown, PairOf, TagOf, Slot
<1> QED BY <1>1, <1>2, <1>3 DEF FirstOf, NoPair, Before, Junk, Tag

LEMMA SettledInt == WriterInv => FirstOf(SettledPair) \in Int
BY PairTags DEF Tag, Before, Junk

LEMMA SegmentMovesForward ==
  WriterInv /\ [WriterNext]_WriterVars =>
    /\ FirstOf(SettledPair) <= FirstOf(SettledPair)'
    /\ \A c \in Field : frame_data[0][c] <= frame_data'[0][c]
<1> SUFFICES ASSUME WriterInv, WriterNext
             PROVE  /\ FirstOf(SettledPair) <= FirstOf(SettledPair)'
                    /\ \A c \in Field : frame_data[0][c] <= frame_data'[0][c]
  BY PairTags DEF WriterVars, writerVars, SettledPair, FirstOf, NoPair, Tag,
                  Before, Junk
<1>0. /\ FirstOf(SettledPair) \in Tag
      /\ \A c \in Field : frame_data[0][c] \in Tag
  BY PairTags
<1> USE LastFrameAssumption
    DEF WriterInv, WriterTypeOK, Pairing, SettledPair, FirstOf, NoPair, Tag,
        Before, Junk
<1>1. CASE WriteInitial
  BY <1>0, <1>1 DEF WriteInitial, Calling
<1>2. CASE SaveFirst
  BY <1>0, <1>2 DEF SaveFirst, Calling
<1>3. CASE BeginPair
  BY <1>0, <1>3 DEF BeginPair, Calling
<1>4. CASE Store
  <2>1. PICK s \in Slot, e \in Field : StorePart(s, e)
    BY <1>4 DEF Store
  <2>2. FirstOf(SettledPair) = FirstOf(SettledPair)'
    BY <2>1 DEF StorePart
  <2>3. frame_data[0][e] <= first_frame
    BY <2>1, <1>4, PairTags DEF StorePart, NewestPair, Part
  <2>4. ASSUME NEW c \in Field PROVE frame_data[0][c] <= frame_data'[0][c]
    <3>1. frame_data'[0][c] = IF s = 0 /\ e = c THEN first_frame
                              ELSE frame_data[0][c]
      BY <2>1 DEF StorePart, Frame, Slot
    <3> QED BY <1>0, <2>3, <3>1
  <2> QED BY <1>0, <2>2, <2>4
<1>5. CASE EndPair
  <2>1. mutex /\ is_second_frame /\ ~is_second_frame' /\ ~initial_write'
    BY <1>5, Zenon DEF EndPair
  <2> QED BY <1>0, <1>5, <2>1 DEF EndPair
<1> QED BY <1>1, <1>2, <1>3, <1>4, <1>5 DEF WriterNext

-----------------------------------------------------------------------------
(* The initial states, and the steps of the writer.                        *)

LEMMA CaptureInitInv == Init => CaptureInv
<1> SUFFICES ASSUME Init PROVE CaptureInv
  OBVIOUS
<1> USE DeviceAssumption DEF Init, DeviceInit
<1>1. WriterInv
  BY WriterInitInv
<1>2. Whole(Before) \in Frame /\ \A c \in Field : Whole(Before)[c] = Before
  BY DEF Whole, Frame, Tag
<1>3. DeviceTypeOK
  <2>1. /\ pc \in [Device -> {"idle", "entered", "looping", "acquired",
                              "copying"}]
        /\ free \in [Device -> 0 .. PoolSize]
        /\ lost \in [Device -> 0 .. PoolSize]
        /\ queue \in [Device -> Seq(Frame)]
        /\ buffer \in [Device -> Frame]
        /\ left \in [Device -> SUBSET Field]
        /\ spinLock \in Device \cup {NoDevice}
        /\ output \in [Device -> Frame]
    BY <1>2
  <2>2. live \in [Device -> BOOLEAN] /\ done \in [Device -> BOOLEAN]
    BY Zenon
  <2> QED BY <2>1, <2>2 DEF DeviceTypeOK
<1>4. TypeOK
  BY <1>1, <1>3 DEF TypeOK, WriterInv, Tag
<1>5. BuffersAccounted
  BY DEF BuffersAccounted, Holding
<1>6. SpinLockHolder
  BY DEF SpinLockHolder
<1>7. \A d \in Device : SinceSettled(d)
  BY DEF SinceSettled
<1>8. \A d \in Device, c \in Field : Ordered(d, c)
  <2> SUFFICES ASSUME NEW d \in Device, NEW c \in Field PROVE Ordered(d, c)
    OBVIOUS
  <2>1. frame_data[0][c] = Before
    BY DEF WriterInit, Stored, Whole, TagOf, FirstOf, NoPair, Slot
  <2>2. output[d][c] = Before /\ queue[d] = << >> /\ pc[d] = "idle"
    BY <1>2
  <2> QED BY <2>1, <2>2 DEF Ordered, Before
<1> QED BY <1>1, <1>4, <1>5, <1>6, <1>7, <1>8 DEF CaptureInv

(* Everything a device keeps is made of tags, and tags compare.            *)
LEMMA TagsAreIntegers == Tag \subseteq Int
BY DEF Tag, Before, Junk

LEMMA DeviceTags ==
  ASSUME TypeOK, NEW d \in Device, NEW c \in Field
  PROVE  /\ output[d][c] \in Int
         /\ buffer[d][c] \in Int
         /\ since[d] \in Int
         /\ \A i \in DOMAIN queue[d] : queue[d][i][c] \in Int
<1>1. \A f \in Frame : f[c] \in Int
  BY TagsAreIntegers DEF Frame
<1>2. output[d] \in Frame /\ buffer[d] \in Frame /\ queue[d] \in Seq(Frame)
  BY DEF TypeOK, DeviceTypeOK
<1>3. \A i \in DOMAIN queue[d] : queue[d][i] \in Frame
  BY <1>2
<1>4. since[d] \in Int
  BY TagsAreIntegers DEF TypeOK
<1> QED BY <1>1, <1>2, <1>3, <1>4

LEMMA WriterStepKeeps == CaptureInv /\ WriterStep => CaptureInv'
<1> SUFFICES ASSUME CaptureInv, WriterStep PROVE CaptureInv'
  OBVIOUS
<1>1. WriterInv /\ WriterNext /\ UNCHANGED << deviceVars, since >>
  BY DEF CaptureInv, WriterStep
<1>2. WriterInv'
  BY <1>1, WriterStepInv
<1>3. TypeOK'
  BY <1>1, <1>2 DEF CaptureInv, TypeOK, WriterInv, DeviceTypeOK, deviceVars
<1>4. BuffersAccounted' /\ SpinLockHolder'
  BY <1>1 DEF CaptureInv, BuffersAccounted, SpinLockHolder, Holding,
              deviceVars
<1>5. \A d \in Device : SinceSettled(d)'
  <2> SUFFICES ASSUME NEW d \in Device, pc'[d] = "copying"
               PROVE  since'[d] <= FirstOf(SettledPair)'
    BY DEF SinceSettled
  <2>1. since[d] <= FirstOf(SettledPair) /\ since'[d] = since[d]
    BY <1>1 DEF CaptureInv, SinceSettled, deviceVars
  <2>2. FirstOf(SettledPair) <= FirstOf(SettledPair)'
    BY <1>1, SegmentMovesForward
  <2>3. since[d] \in Int
    BY TagsAreIntegers DEF CaptureInv, TypeOK
  <2>4. FirstOf(SettledPair) \in Int
    BY <1>1, SettledInt
  <2>5. (FirstOf(SettledPair) \in Int)'
    BY <1>2, SettledInt, PTL
  <2> QED BY <2>1, <2>2, <2>3, <2>4, <2>5
<1>6. \A d \in Device, c \in Field : Ordered(d, c)'
  <2> SUFFICES ASSUME NEW d \in Device, NEW c \in Field PROVE Ordered(d, c)'
    OBVIOUS
  <2>1. TypeOK /\ Ordered(d, c)
    BY DEF CaptureInv
  <2>2. UNCHANGED << pc, queue, buffer, left, output, since >>
    BY <1>1 DEF deviceVars
  <2>3. frame_data[0][c] <= frame_data'[0][c]
    BY <1>1, SegmentMovesForward
  <2>4. frame_data[0][c] \in Int /\ frame_data'[0][c] \in Int
    BY <1>1, <1>2, TagsAreIntegers DEF WriterInv, WriterTypeOK, Frame, Slot
  <2>5. /\ output[d][c] \in Int /\ buffer[d][c] \in Int
        /\ \A i \in DOMAIN queue[d] : queue[d][i][c] \in Int
    BY <2>1, DeviceTags
  <2>6. \A x \in Int : x <= frame_data[0][c] => x <= frame_data'[0][c]
    BY <2>3, <2>4
  <2> HIDE <2>3
  <2> QED BY <2>1, <2>2, <2>5, <2>6 DEF Ordered
<1> QED BY <1>2, <1>3, <1>4, <1>5, <1>6 DEF CaptureInv

-----------------------------------------------------------------------------
(* The steps of a device: one lemma for each part of the invariant.        *)

LEMMA DeviceStepIs ==
  ASSUME NEW d \in Device, ThreadStep(d) \/ MayaStep(d)
  PROVE  \/ Launch(d) \/ (\E b \in BOOLEAN : SetLive(d, b)) \/ Shutdown(d)
         \/ Enter(d) \/ EnterFails(d) \/ Leave(d) \/ Acquire(d) \/ Lock(d)
         \/ (\E c \in Field : CopyPart(d, c)) \/ Push(d) \/ Compute(d)
         \/ ComputeFails(d)
BY DEF ThreadStep, MayaStep

(* A push: the queue and its elements.                                     *)
LEMMA Pushed ==
  ASSUME NEW q \in Seq(Frame), NEW f \in Frame
  PROVE  /\ Append(q, f) \in Seq(Frame)
         /\ Len(Append(q, f)) = Len(q) + 1
         /\ DOMAIN Append(q, f) = 1 .. Len(q) + 1
         /\ DOMAIN q = 1 .. Len(q)
         /\ \A i \in 1 .. Len(q) : Append(q, f)[i] = q[i]
         /\ Append(q, f)[Len(q) + 1] = f
OBVIOUS

(* A pop.                                                                  *)
LEMMA Popped ==
  ASSUME NEW q \in Seq(Frame), q # << >>
  PROVE  /\ Head(q) \in Frame
         /\ Head(q) = q[1]
         /\ Tail(q) \in Seq(Frame)
         /\ Len(q) \in Nat \ {0}
         /\ Len(Tail(q)) = Len(q) - 1
         /\ DOMAIN q = 1 .. Len(q)
         /\ DOMAIN Tail(q) = 1 .. Len(q) - 1
         /\ \A i \in 1 .. Len(q) - 1 : Tail(q)[i] = q[i + 1]
OBVIOUS

LEMMA DeviceStepType ==
  ASSUME CaptureInv, NEW d \in Device, ThreadStep(d) \/ MayaStep(d)
  PROVE  DeviceTypeOK'
<1> USE DEF CaptureInv, TypeOK, DeviceTypeOK, Go
<1>0. /\ PoolSize \in Nat
      /\ free[d] + lost[d] + Len(queue[d]) + (IF Holding(d) THEN 1 ELSE 0)
           = PoolSize
      /\ queue[d] \in Seq(Frame)
      /\ free[d] \in Nat /\ lost[d] \in Nat /\ Len(queue[d]) \in Nat
  BY DeviceAssumption DEF BuffersAccounted
<1>1. CASE Launch(d) \/ Leave(d)
  BY <1>1 DEF Launch, Leave
<1>2. CASE \E b \in BOOLEAN : SetLive(d, b)
  BY <1>2 DEF SetLive
<1>3. CASE Shutdown(d)
  <2>1. done' \in [Device -> BOOLEAN]
    BY <1>3, Zenon DEF Shutdown
  <2> QED BY <1>3, <2>1 DEF Shutdown
<1>4. CASE Enter(d) \/ EnterFails(d)
  <2>1. done' \in [Device -> BOOLEAN]
    BY <1>4, Zenon DEF Enter, EnterFails
  <2> QED BY <1>4, <2>1 DEF Enter, EnterFails
<1>5. CASE Acquire(d)
  <2>1. free' \in [Device -> 0 .. PoolSize]
    BY <1>0, <1>5 DEF Acquire
  <2> QED BY <1>5, <2>1 DEF Acquire
<1>6. CASE Lock(d)
  BY <1>6 DEF Lock
<1>7. CASE \E c \in Field : CopyPart(d, c)
  <2>1. PICK c \in Field : CopyPart(d, c)
    BY <1>7
  <2>2. frame_data[0][c] \in Tag
    BY DEF WriterTypeOK, Frame, Slot
  <2>3. buffer'[d] \in Frame
    BY <2>1, <2>2 DEF CopyPart, Frame
  <2>4. buffer' \in [Device -> Frame]
    BY <2>1, <2>3 DEF CopyPart
  <2> QED BY <2>1, <2>4 DEF CopyPart
<1>8. CASE Push(d)
  <2>1. Append(queue[d], buffer[d]) \in Seq(Frame)
    BY Pushed
  <2>2. queue' \in [Device -> Seq(Frame)]
    BY <1>8, <2>1 DEF Push
  <2> QED BY <1>8, <2>2 DEF Push
<1>9. CASE Compute(d) \/ ComputeFails(d)
  <2>1. queue[d] # << >>
    BY <1>9 DEF Compute, ComputeFails
  <2>2. /\ Head(queue[d]) \in Frame
        /\ Tail(queue[d]) \in Seq(Frame)
        /\ Len(queue[d]) \in Nat \ {0}
    BY <1>0, <2>1, Popped
  <2>3. queue' \in [Device -> Seq(Frame)]
    BY <1>9, <2>2 DEF Compute, ComputeFails
  <2>4. output' \in [Device -> Frame]
    BY <1>9, <2>2 DEF Compute, ComputeFails
  <2>5. free[d] + 1 \in 0 .. PoolSize /\ lost[d] + 1 \in 0 .. PoolSize
    BY <1>0, <2>2
  <2>6. free' \in [Device -> 0 .. PoolSize]
    BY <1>9, <2>5 DEF Compute, ComputeFails
  <2>7. lost' \in [Device -> 0 .. PoolSize]
    BY <1>9, <2>5 DEF Compute, ComputeFails
  <2> QED BY <1>9, <2>3, <2>4, <2>6, <2>7 DEF Compute, ComputeFails
<1> QED BY DeviceStepIs, <1>1, <1>2, <1>3, <1>4, <1>5, <1>6, <1>7, <1>8, <1>9

(* A step of one device leaves what the others keep alone.                 *)
LEMMA OtherDevices ==
  ASSUME CaptureInv, NEW d \in Device, ThreadStep(d) \/ MayaStep(d),
         NEW e \in Device, e # d
  PROVE  /\ pc'[e] = pc[e]
         /\ free'[e] = free[e] /\ lost'[e] = lost[e]
         /\ queue'[e] = queue[e] /\ output'[e] = output[e]
         /\ buffer'[e] = buffer[e] /\ left'[e] = left[e]
<1> USE DEF CaptureInv, TypeOK, DeviceTypeOK, Go
<1>1. CASE Launch(d)
  BY <1>1 DEF Launch
<1>2. CASE \E b \in BOOLEAN : SetLive(d, b)
  BY <1>2 DEF SetLive
<1>3. CASE Shutdown(d)
  BY <1>3 DEF Shutdown
<1>4. CASE Enter(d) \/ EnterFails(d)
  BY <1>4 DEF Enter, EnterFails
<1>5. CASE Leave(d)
  BY <1>5 DEF Leave
<1>6. CASE Acquire(d)
  BY <1>6 DEF Acquire
<1>7. CASE Lock(d)
  BY <1>7 DEF Lock
<1>8. CASE \E c \in Field : CopyPart(d, c)
  BY <1>8 DEF CopyPart
<1>9. CASE Push(d)
  BY <1>9 DEF Push
<1>10. CASE Compute(d)
  BY <1>10 DEF Compute
<1>11. CASE ComputeFails(d)
  BY <1>11 DEF ComputeFails
<1> QED BY DeviceStepIs, <1>1, <1>2, <1>3, <1>4, <1>5, <1>6, <1>7, <1>8, <1>9,
           <1>10, <1>11

(* Only the stepping device's counts change, and they add up.              *)
LEMMA DeviceStepAccounts ==
  ASSUME CaptureInv, NEW d \in Device, ThreadStep(d) \/ MayaStep(d)
  PROVE  BuffersAccounted'
<1> DEFINE Held(x) == x \in {"acquired", "copying"}
           Count(f, l, q, x) == f + l + Len(q) + (IF Held(x) THEN 1 ELSE 0)
<1> SUFFICES ASSUME NEW e \in Device
             PROVE  Count(free'[e], lost'[e], queue'[e], pc'[e]) = PoolSize
  BY DEF BuffersAccounted, Holding
<1>1. /\ Count(free[e], lost[e], queue[e], pc[e]) = PoolSize
      /\ free[e] \in Nat /\ lost[e] \in Nat /\ Len(queue[e]) \in Nat
      /\ queue[e] \in Seq(Frame) /\ buffer[e] \in Frame
  BY DEF CaptureInv, TypeOK, DeviceTypeOK, BuffersAccounted, Holding
<1> USE DEF CaptureInv, TypeOK, DeviceTypeOK, Go
<1>2. CASE e # d
  BY <1>1, <1>2, OtherDevices
<1>3. CASE e = d
  <2>1. CASE \/ Launch(d) \/ (\E b \in BOOLEAN : SetLive(d, b))
             \/ Shutdown(d) \/ Enter(d) \/ EnterFails(d) \/ Leave(d)
             \/ Lock(d) \/ (\E c \in Field : CopyPart(d, c))
    <3>1. UNCHANGED << free, lost, queue >> /\ (Held(pc'[d]) <=> Held(pc[d]))
      BY <2>1 DEF Launch, SetLive, Shutdown, Enter, EnterFails, Leave, Lock,
                  CopyPart
    <3> QED BY <1>1, <1>3, <3>1
  <2>2. CASE Acquire(d)
    <3>1. /\ free'[d] = free[d] - 1 /\ lost'[d] = lost[d]
          /\ queue'[d] = queue[d] /\ Held(pc'[d]) /\ ~Held(pc[d])
      BY <2>2 DEF Acquire
    <3> QED BY <1>1, <1>3, <3>1
  <2>3. CASE Push(d)
    <3>1. /\ free'[d] = free[d] /\ lost'[d] = lost[d]
          /\ queue'[d] = Append(queue[d], buffer[d])
          /\ ~Held(pc'[d]) /\ Held(pc[d])
      BY <2>3 DEF Push
    <3>2. Len(queue'[d]) = Len(queue[d]) + 1
      BY <1>1, <1>3, <3>1, Pushed
    <3> QED BY <1>1, <1>3, <3>1, <3>2
  <2>4. CASE Compute(d) \/ ComputeFails(d)
    <3>1. /\ queue[d] # << >> /\ queue'[d] = Tail(queue[d])
          /\ pc'[d] = pc[d]
      BY <2>4 DEF Compute, ComputeFails
    <3>2. \/ free'[d] = free[d] + 1 /\ lost'[d] = lost[d]
          \/ free'[d] = free[d] /\ lost'[d] = lost[d] + 1
      <4>1. CASE Compute(d)
        BY <4>1 DEF Compute
      <4>2. CASE ComputeFails(d)
        BY <4>2 DEF ComputeFails
      <4> QED BY <2>4, <4>1, <4>2
    <3>3. Len(queue'[d]) = Len(queue[d]) - 1
      BY <1>1, <1>3, <3>1, Popped
    <3>4. /\ free'[d] \in Int /\ lost'[d] \in Int
          /\ free'[d] + lost'[d] = free[d] + lost[d] + 1
      BY <1>1, <1>3, <3>2
    <3> HIDE DEF Held
    <3> QED BY <1>1, <1>3, <3>1, <3>3, <3>4
  <2> QED BY DeviceStepIs, <2>1, <2>2, <2>3, <2>4
<1> QED BY <1>2, <1>3

LEMMA DeviceStepLock ==
  ASSUME CaptureInv, NEW d \in Device, ThreadStep(d) \/ MayaStep(d)
  PROVE  SpinLockHolder'
<1> USE DeviceAssumption
    DEF CaptureInv, TypeOK, DeviceTypeOK, Go, SpinLockHolder
<1>1. CASE Lock(d)
  BY <1>1 DEF Lock
<1>2. CASE Push(d)
  BY <1>2 DEF Push
<1>3. CASE ~Lock(d) /\ ~Push(d)
  BY <1>3, DeviceStepIs
  DEF Launch, SetLive, Shutdown, Enter, EnterFails, Leave, Acquire, CopyPart,
      Compute, ComputeFails
<1> QED BY <1>1, <1>2, <1>3

(* A step that moves no record, and begins or ends no copy.                *)
LEMMA OrderedWhenStill ==
  ASSUME NEW d \in Device, NEW c \in Field, Ordered(d, c),
         UNCHANGED << frame_data[0][c], output[d], queue[d], buffer[d],
                      left[d], since[d] >>,
         pc'[d] = "copying" <=> pc[d] = "copying"
  PROVE  Ordered(d, c)'
BY DEF Ordered

LEMMA DeviceStepOrder ==
  ASSUME CaptureInv, NEW d \in Device, ThreadStep(d) \/ MayaStep(d),
         DeviceStep, NEW e \in Device, NEW c \in Field
  PROVE  Ordered(e, c)'
<1>1. UNCHANGED frame_data
  BY DeviceStepIs
  DEF Launch, SetLive, Shutdown, Enter, EnterFails, Leave, Acquire, Lock,
      CopyPart, Push, Compute, ComputeFails
<1>2. /\ Ordered(e, c) /\ SinceSettled(e)
      /\ queue[e] \in Seq(Frame) /\ buffer[e] \in Frame
  BY DEF CaptureInv, TypeOK, DeviceTypeOK
<1>3. /\ output[e][c] \in Int /\ buffer[e][c] \in Int /\ since[e] \in Int
      /\ \A i \in DOMAIN queue[e] : queue[e][i][c] \in Int
  BY DeviceTags DEF CaptureInv
<1>4. /\ frame_data[0][c] \in Int
      /\ FirstOf(SettledPair) \in Int
      /\ FirstOf(SettledPair) <= frame_data[0][c]
  BY PairTags, TagsAreIntegers DEF CaptureInv
<1>5. since'[e] = IF pc[e] = "acquired" /\ pc'[e] = "copying"
                  THEN FirstOf(SettledPair) ELSE since[e]
  BY DEF DeviceStep
<1>6. CASE e # d
  BY <1>1, <1>2, <1>5, <1>6, OtherDevices, OrderedWhenStill
<1>7. CASE e = d
  <2> USE DEF CaptureInv, TypeOK, DeviceTypeOK, Go
  <2>1. CASE \/ Launch(d) \/ (\E b \in BOOLEAN : SetLive(d, b))
             \/ Shutdown(d) \/ Enter(d) \/ EnterFails(d) \/ Leave(d)
             \/ Acquire(d)
    <3>1. UNCHANGED << output, queue, buffer, left >>
      BY <2>1 DEF Launch, SetLive, Shutdown, Enter, EnterFails, Leave, Acquire
    <3>2. pc'[d] # "copying" \/ pc'[d] = pc[d]
      BY <2>1 DEF Launch, SetLive, Shutdown, Enter, EnterFails, Leave, Acquire
    <3>3. pc[d] = "copying" => pc'[d] = pc[d]
      BY <2>1 DEF Launch, SetLive, Shutdown, Enter, EnterFails, Leave, Acquire
    <3> QED BY <1>1, <1>2, <1>5, <1>7, <3>1, <3>2, <3>3, OrderedWhenStill
  <2>2. CASE Lock(d)
    <3>1. UNCHANGED << output, queue, buffer >> /\ left'[d] = Field
      BY <2>2 DEF Lock
    <3> QED BY <1>1, <1>2, <1>7, <3>1 DEF Ordered
  <2>3. CASE \E x \in Field : CopyPart(d, x)
    <3>1. PICK x \in Field : CopyPart(d, x)
      BY <2>3
    <3>2. /\ UNCHANGED << output, queue >>
          /\ pc[d] = "copying" /\ pc'[d] = "copying"
      BY <3>1 DEF CopyPart
    <3>3. since'[d] = since[d]
      BY <1>5, <1>7, <3>2
    <3>4. CASE x = c
      <4>1. buffer'[d][c] = frame_data[0][c]
        BY <3>1, <3>4 DEF CopyPart, Frame
      <4>2. since[d] <= frame_data[0][c]
        BY <1>2, <1>3, <1>4, <1>7, <3>2 DEF SinceSettled
      <4> QED BY <1>1, <1>2, <1>7, <3>2, <3>3, <4>1, <4>2, <1>4 DEF Ordered
    <3>5. CASE x # c
      <4>1. /\ buffer'[d][c] = buffer[d][c]
            /\ c \in left'[d] <=> c \in left[d]
        BY <3>1, <3>5 DEF CopyPart, Frame
      <4> QED BY <1>1, <1>2, <1>7, <3>2, <3>3, <4>1 DEF Ordered
    <3> QED BY <3>4, <3>5
  <2>4. CASE Push(d)
    <3>1. /\ queue'[d] = Append(queue[d], buffer[d]) /\ UNCHANGED output
          /\ pc[d] = "copying" /\ c \notin left[d] /\ pc'[d] # "copying"
      BY <2>4 DEF Push
    <3>2. /\ DOMAIN queue'[d] = 1 .. Len(queue[d]) + 1
          /\ DOMAIN queue[d] = 1 .. Len(queue[d])
          /\ Len(queue[d]) \in Nat
          /\ \A i \in DOMAIN queue[d] : queue'[d][i] = queue[d][i]
          /\ queue'[d][Len(queue[d]) + 1] = buffer[d]
      BY <1>2, <1>7, <3>1, Pushed
    <3>3. \A i \in DOMAIN queue'[d] :
            i \in DOMAIN queue[d] \/ i = Len(queue[d]) + 1
      BY <3>2
    <3>4. \A i \in DOMAIN queue'[d] :
            /\ output[d][c] <= queue'[d][i][c]
            /\ queue'[d][i][c] <= frame_data[0][c]
      BY <1>2, <1>7, <3>1, <3>2, <3>3 DEF Ordered
    <3>5. \A i, j \in DOMAIN queue'[d] :
            i <= j => queue'[d][i][c] <= queue'[d][j][c]
      BY <1>2, <1>3, <1>7, <3>1, <3>2, <3>3 DEF Ordered
    <3> QED BY <1>1, <1>2, <1>7, <3>1, <3>4, <3>5 DEF Ordered
  <2>5. CASE Compute(d) \/ ComputeFails(d)
    <3>1. /\ queue[d] # << >> /\ queue'[d] = Tail(queue[d])
          /\ UNCHANGED << pc, buffer, left >>
          /\ output'[d] \in {output[d], Head(queue[d])}
      BY <2>5 DEF Compute, ComputeFails
    <3>2. /\ DOMAIN queue'[d] = 1 .. Len(queue[d]) - 1
          /\ DOMAIN queue[d] = 1 .. Len(queue[d])
          /\ Len(queue[d]) \in Nat \ {0}
          /\ \A i \in DOMAIN queue'[d] : queue'[d][i] = queue[d][i + 1]
          /\ Head(queue[d]) = queue[d][1]
      BY <1>2, <1>7, <3>1, Popped
    <3>3. output'[d][c] \in {output[d][c], queue[d][1][c]}
      BY <3>1, <3>2
    <3>4. /\ 1 \in DOMAIN queue[d]
          /\ \A i \in DOMAIN queue'[d] : i + 1 \in DOMAIN queue[d] /\ 1 <= i + 1
      BY <3>2
    <3>5. \A i, j \in DOMAIN queue'[d] :
            i <= j => queue'[d][i][c] <= queue'[d][j][c]
      BY <1>2, <1>7, <3>2, <3>4 DEF Ordered
    <3>6. \A i \in DOMAIN queue'[d] :
            /\ output'[d][c] <= queue'[d][i][c]
            /\ queue'[d][i][c] <= frame_data[0][c]
      BY <1>2, <1>7, <3>2, <3>3, <3>4 DEF Ordered
    <3>7. since'[d] = since[d]
      BY <1>5, <1>7, <3>1
    <3> QED BY <1>1, <1>2, <1>7, <3>1, <3>2, <3>3, <3>4, <3>5, <3>6, <3>7
            DEF Ordered
  <2> QED BY DeviceStepIs, <2>1, <2>2, <2>3, <2>4, <2>5
<1> QED BY <1>6, <1>7

LEMMA DeviceStepSince ==
  ASSUME CaptureInv, NEW d \in Device, ThreadStep(d) \/ MayaStep(d),
         DeviceStep, NEW e \in Device
  PROVE  since'[e] \in Tag /\ SinceSettled(e)'
<1>1. since'[e] = IF pc[e] = "acquired" /\ pc'[e] = "copying"
                  THEN FirstOf(SettledPair) ELSE since[e]
  BY DEF DeviceStep
<1>2. since[e] \in Tag /\ SinceSettled(e)
  BY DEF CaptureInv, TypeOK
<1>3. FirstOf(SettledPair) \in Tag /\ FirstOf(SettledPair) \in Int
  BY PairTags, SettledInt DEF CaptureInv
<1>4. FirstOf(SettledPair)' = FirstOf(SettledPair)
  BY DEF DeviceStep, writerVars, SettledPair, FirstOf
<1>5. pc'[e] = "copying" => pc[e] \in {"acquired", "copying"}
  <2> USE DEF CaptureInv, TypeOK, DeviceTypeOK, Go
  <2>1. CASE e # d
    BY <2>1, OtherDevices
  <2>2. CASE e = d
    BY <2>2, DeviceStepIs
    DEF Launch, SetLive, Shutdown, Enter, EnterFails, Leave, Acquire, Lock,
        CopyPart, Push, Compute, ComputeFails
  <2> QED BY <2>1, <2>2
<1> QED BY <1>1, <1>2, <1>3, <1>4, <1>5 DEF SinceSettled

LEMMA DeviceStepKeeps == CaptureInv /\ DeviceStep => CaptureInv'
<1> SUFFICES ASSUME CaptureInv, DeviceStep PROVE CaptureInv'
  OBVIOUS
<1>1. PICK d \in Device : ThreadStep(d) \/ MayaStep(d)
  BY DEF DeviceStep, DeviceNext
<1>2. UNCHANGED << frame_data, writerVars >>
  BY <1>1, DeviceStepIs
  DEF Launch, SetLive, Shutdown, Enter, EnterFails, Leave, Acquire, Lock,
      CopyPart, Push, Compute, ComputeFails, DeviceStep
<1>3. WriterInv'
  BY <1>2, WriterStepInv DEF CaptureInv, WriterVars
<1>4. DeviceTypeOK' /\ BuffersAccounted' /\ SpinLockHolder'
  BY <1>1, DeviceStepType, DeviceStepAccounts, DeviceStepLock
<1>5. \A e \in Device : since'[e] \in Tag /\ SinceSettled(e)'
  BY <1>1, DeviceStepSince
<1>6. since' \in [Device -> Tag]
  BY <1>5 DEF DeviceStep
<1>7. TypeOK'
  BY <1>3, <1>4, <1>6 DEF TypeOK, WriterInv
<1>8. \A e \in Device, c \in Field : Ordered(e, c)'
  BY <1>1, DeviceStepOrder
<1> QED BY <1>3, <1>4, <1>5, <1>7, <1>8 DEF CaptureInv

LEMMA CaptureStepInv == CaptureInv /\ [Next]_vars => CaptureInv'
<1>1. CaptureInv /\ UNCHANGED vars => CaptureInv'
  <2> SUFFICES ASSUME CaptureInv, UNCHANGED vars PROVE CaptureInv'
    OBVIOUS
  <2>1. WriterInv'
    BY WriterStepInv DEF CaptureInv, WriterVars, vars
  <2>2. SettledPair' = SettledPair
    BY DEF vars, writerVars, SettledPair
  <2> QED BY <2>1, <2>2
          DEF CaptureInv, TypeOK, DeviceTypeOK, WriterInv, BuffersAccounted,
              Holding, SpinLockHolder, SinceSettled, Ordered, FirstOf, vars,
              deviceVars
<1> QED BY <1>1, WriterStepKeeps, DeviceStepKeeps DEF Next

-----------------------------------------------------------------------------
(* What holds of every reachable state of the server and the plug-in.      *)
THEOREM CaptureInvariant == Spec => []CaptureInv
BY CaptureInitInv, CaptureStepInv, PTL DEF Spec

(* The writer of the composed system is the writer on its own: nothing a   *)
(* device does writes to the segment.                                      *)
LEMMA CaptureWrites == Spec => WriterSpec
<1>1. Init => WriterInit
  BY DEF Init
<1>2. [Next]_vars => [WriterNext]_WriterVars
  <2> SUFFICES ASSUME [Next]_vars PROVE [WriterNext]_WriterVars
    OBVIOUS
  <2>1. CASE WriterStep
    BY <2>1 DEF WriterStep
  <2>2. CASE DeviceStep
    <3>1. PICK d \in Device : ThreadStep(d) \/ MayaStep(d)
      BY <2>2 DEF DeviceStep, DeviceNext
    <3>2. UNCHANGED frame_data
      BY <3>1, DeviceStepIs
      DEF Launch, SetLive, Shutdown, Enter, EnterFails, Leave, Acquire, Lock,
          CopyPart, Push, Compute, ComputeFails
    <3> QED
      BY <2>2, <3>2 DEF DeviceStep, WriterVars
  <2>3. CASE UNCHANGED vars
    BY <2>3 DEF vars, WriterVars
  <2> QED BY <2>1, <2>2, <2>3 DEF Next
<1> QED BY <1>1, <1>2, PTL DEF Spec, WriterSpec

(* So with devices reading it, whose locks the server does not know, the   *)
(* segment still is a regular register of pairs.                           *)
THEOREM CaptureRefinesRegister ==
  Spec => []SegmentHoldsAPair /\ WriterIsARegister
BY CaptureWrites, WriterPairs, WriterRefinesRegister, PTL

(* Every variable has its type; in particular no count of buffers leaves   *)
(* 0 .. PoolSize, whatever compute and threadHandler do.                   *)
THEOREM CaptureTypes == Spec => []TypeOK
BY CaptureInvariant, PTL DEF CaptureInv

(* Acquired, queued, lost and free buffers make up the pool.               *)
THEOREM CaptureBuffers == Spec => []BuffersAccounted
BY CaptureInvariant, PTL DEF CaptureInv

(* threadHandler's spin lock is held by the thread that copies.            *)
THEOREM CaptureSpinLock == Spec => []SpinLockHolder
BY CaptureInvariant, PTL DEF CaptureInv

(* A copy of the unlocked segment is between two pairs, part by part.      *)
THEOREM CaptureCopies == Spec => []CopyIsRegular
<1>1. CaptureInv => CopyIsRegular
  <2> SUFFICES ASSUME CaptureInv, NEW d \in Device, pc[d] = "copying",
                      NEW c \in Field \ left[d]
               PROVE  /\ since[d] <= buffer[d][c]
                      /\ buffer[d][c] <= FirstOf(NewestPair)
    BY DEF CopyIsRegular
  <2>1. since[d] <= buffer[d][c] /\ buffer[d][c] <= frame_data[0][c]
    BY DEF CaptureInv, Ordered
  <2>2. /\ frame_data[0][c] <= FirstOf(NewestPair)
        /\ frame_data[0][c] \in Int /\ FirstOf(NewestPair) \in Int
    BY PairTags, TagsAreIntegers DEF CaptureInv
  <2>3. buffer[d][c] \in Int
    BY DeviceTags DEF CaptureInv
  <2> QED BY <2>1, <2>2, <2>3
<1> QED BY <1>1, CaptureInvariant, PTL

(* Nothing a device shows is ever replaced by something older.             *)
THEOREM CaptureForward == Spec => OutputNeverGoesBack
<1> DEFINE Forward ==
      \A d \in Device, c \in Field : output'[d][c] >= output[d][c]
<1>1. CaptureInv /\ [Next]_vars => [Forward]_vars
  <2> SUFFICES ASSUME CaptureInv, Next, NEW e \in Device, NEW c \in Field
               PROVE  output'[e][c] >= output[e][c]
    OBVIOUS
  <2>1. output[e][c] \in Int /\ queue[e] \in Seq(Frame)
    BY DeviceTags DEF CaptureInv, TypeOK, DeviceTypeOK
  <2>2. CASE UNCHANGED output
    BY <2>1, <2>2
  <2>3. CASE \E d \in Device : Compute(d) \/ ComputeFails(d)
    <3>1. PICK d \in Device : Compute(d) \/ ComputeFails(d)
      BY <2>3
    <3>2. /\ queue[d] # << >>
          /\ output'[e] \in {output[e]} \cup {Head(queue[e])}
          /\ e # d => output'[e] = output[e]
      BY <3>1 DEF Compute, ComputeFails, CaptureInv, TypeOK, DeviceTypeOK
    <3>3. CASE e # d
      BY <2>1, <3>2, <3>3
    <3>4. CASE e = d
      <4>1. Head(queue[e]) = queue[e][1] /\ 1 \in DOMAIN queue[e]
        BY <2>1, <3>2, <3>4, Popped
      <4>2. /\ output[e][c] <= queue[e][1][c]
            /\ queue[e][1][c] \in Int
        BY <4>1, DeviceTags DEF CaptureInv, Ordered
      <4> QED BY <2>1, <3>2, <4>1, <4>2
    <3> QED BY <3>3, <3>4
  <2>4. CASE WriterStep
    BY <2>2, <2>4 DEF WriterStep, deviceVars
  <2>5. CASE DeviceStep
    <3>1. PICK d \in Device : ThreadStep(d) \/ MayaStep(d)
      BY <2>5 DEF DeviceStep, DeviceNext
    <3> QED BY <3>1, <2>2, <2>3, DeviceStepIs
            DEF Launch, SetLive, Shutdown, Enter, EnterFails, Leave, Acquire,
                Lock, CopyPart, Push
  <2> QED BY <2>4, <2>5 DEF Next
<1> QED BY <1>1, CaptureInvariant, PTL DEF Spec, OutputNeverGoesBack

-----------------------------------------------------------------------------
(* The pairs are the frames 2k and 2k + 1, and only slot 0 is read.        *)

FromFirst(t) == t >= 0 => t % 2 = 0

WriterParity ==
  /\ is_second_frame => next_frame % 2 = 1
  /\ ~is_second_frame /\ ~initial_write => next_frame % 2 = 0
  /\ FromFirst(first_frame)
  /\ \A c \in Field : FromFirst(frame_data[0][c])

DeviceParity ==
  \A d \in Device, c \in Field :
    /\ FromFirst(buffer[d][c])
    /\ \A i \in DOMAIN queue[d] : FromFirst(queue[d][i][c])
    /\ FromFirst(output[d][c])

LEMMA WriterParityStep ==
  ASSUME WriterInv, WriterParity, WriterNext
  PROVE  WriterParity'
<1> USE LastFrameAssumption
    DEF WriterInv, WriterTypeOK, Pairing, WriterParity, FromFirst
<1>1. CASE WriteInitial
  BY <1>1 DEF WriteInitial, Calling
<1>2. CASE SaveFirst
  BY <1>2 DEF SaveFirst, Calling
<1>3. CASE BeginPair
  BY <1>3 DEF BeginPair, Calling
<1>4. CASE Store
  <2>1. PICK s \in Slot, e \in Field : StorePart(s, e)
    BY <1>4 DEF Store
  <2>2. \A c \in Field : frame_data'[0][c] \in {first_frame, frame_data[0][c]}
    BY <2>1 DEF StorePart, Frame, Slot
  <2> QED BY <2>1, <2>2 DEF StorePart
<1>5. CASE EndPair
  <2>1. is_second_frame /\ ~is_second_frame'
    BY <1>5, Zenon DEF EndPair
  <2>2. next_frame' % 2 = 0
    BY <1>5, <2>1 DEF EndPair
  <2> QED BY <1>5, <2>1, <2>2 DEF EndPair
<1> QED BY <1>1, <1>2, <1>3, <1>4, <1>5 DEF WriterNext

LEMMA DeviceParityStep ==
  ASSUME CaptureInv, WriterParity, DeviceParity, NEW d \in Device,
         ThreadStep(d) \/ MayaStep(d), NEW e \in Device, NEW c \in Field
  PROVE  /\ FromFirst(buffer'[e][c])
         /\ \A i \in DOMAIN queue'[e] : FromFirst(queue'[e][i][c])
         /\ FromFirst(output'[e][c])
<1>1. /\ FromFirst(buffer[e][c])
      /\ \A i \in DOMAIN queue[e] : FromFirst(queue[e][i][c])
      /\ FromFirst(output[e][c])
      /\ FromFirst(frame_data[0][c])
  BY DEF DeviceParity, WriterParity
<1>2. queue[e] \in Seq(Frame) /\ buffer[e] \in Frame
  BY DEF CaptureInv, TypeOK, DeviceTypeOK
<1> USE DEF CaptureInv, TypeOK, DeviceTypeOK, Go
<1>3. CASE e # d
  BY <1>1, <1>3, OtherDevices
<1>4. CASE e = d
  <2>1. CASE \/ Launch(d) \/ (\E b \in BOOLEAN : SetLive(d, b))
             \/ Shutdown(d) \/ Enter(d) \/ EnterFails(d) \/ Leave(d)
             \/ Acquire(d) \/ Lock(d)
    BY <1>1, <1>4, <2>1
    DEF Launch, SetLive, Shutdown, Enter, EnterFails, Leave, Acquire, Lock
  <2>2. CASE \E x \in Field : CopyPart(d, x)
    <3>1. PICK x \in Field : CopyPart(d, x)
      BY <2>2
    <3>2. /\ buffer'[d][c] \in {buffer[d][c], frame_data[0][c]}
          /\ UNCHANGED << queue, output >>
      BY <3>1 DEF CopyPart, Frame
    <3> QED BY <1>1, <1>4, <3>2
  <2>3. CASE Push(d)
    <3>1. /\ queue'[d] = Append(queue[d], buffer[d])
          /\ UNCHANGED << buffer, output >>
      BY <2>3 DEF Push
    <3>2. \A i \in DOMAIN queue'[d] :
            \/ queue'[d][i] = buffer[d]
            \/ i \in DOMAIN queue[d] /\ queue'[d][i] = queue[d][i]
      BY <1>2, <1>4, <3>1, Pushed
    <3> QED BY <1>1, <1>4, <3>1, <3>2
  <2>4. CASE Compute(d) \/ ComputeFails(d)
    <3>1. /\ queue[d] # << >> /\ queue'[d] = Tail(queue[d])
          /\ UNCHANGED buffer
          /\ output'[d] \in {output[d], Head(queue[d])}
      BY <2>4 DEF Compute, ComputeFails
    <3>2. /\ 1 \in DOMAIN queue[d] /\ Head(queue[d]) = queue[d][1]
          /\ \A i \in DOMAIN queue'[d] :
               i + 1 \in DOMAIN queue[d] /\ queue'[d][i] = queue[d][i + 1]
      BY <1>2, <1>4, <3>1, Popped
    <3> QED BY <1>1, <1>4, <3>1, <3>2
  <2> QED BY DeviceStepIs, <2>1, <2>2, <2>3, <2>4
<1> QED BY <1>3, <1>4

(* Writer::write pairs frames 2k and 2k + 1, and threadHandler reads the   *)
(* first of a pair only: every other frame is seen by nobody.              *)
THEOREM CaptureFirstFrames == Spec => []OnlyFirstFramesShown
<1> DEFINE Parity == WriterParity /\ DeviceParity
<1>1. Init => Parity
  <2> SUFFICES ASSUME Init PROVE Parity
    OBVIOUS
  <2>1. WriterParity
    BY DEF Init, WriterInit, WriterParity, FromFirst, Stored,
           Whole, TagOf, FirstOf, NoPair, Slot, Before, Junk
  <2>2. DeviceParity
    BY DEF Init, DeviceInit, DeviceParity, FromFirst, Whole, Before
  <2> QED BY <2>1, <2>2
<1>2. CaptureInv /\ Parity /\ [Next]_vars => Parity'
  <2> SUFFICES ASSUME CaptureInv, Parity, [Next]_vars PROVE Parity'
    OBVIOUS
  <2>1. CASE WriterStep
    BY <2>1, WriterParityStep
    DEF CaptureInv, WriterStep, DeviceParity, deviceVars
  <2>2. CASE DeviceStep
    <3>1. PICK d \in Device : ThreadStep(d) \/ MayaStep(d)
      BY <2>2 DEF DeviceStep, DeviceNext
    <3>2. UNCHANGED << frame_data, writerVars >>
      BY <2>2, <3>1, DeviceStepIs
      DEF Launch, SetLive, Shutdown, Enter, EnterFails, Leave, Acquire, Lock,
          CopyPart, Push, Compute, ComputeFails, DeviceStep
    <3>3. WriterParity'
      BY <3>2 DEF WriterParity, writerVars
    <3>4. DeviceParity'
      BY <3>1, DeviceParityStep DEF DeviceParity
    <3> QED BY <3>3, <3>4
  <2>3. CASE UNCHANGED vars
    BY <2>3 DEF vars, writerVars, deviceVars, WriterParity, DeviceParity
  <2> QED BY <2>1, <2>2, <2>3 DEF Next
<1>3. Parity => OnlyFirstFramesShown
  BY DEF DeviceParity, FromFirst, OnlyFirstFramesShown
<1> QED BY <1>1, <1>2, <1>3, CaptureInvariant, PTL DEF Spec

-----------------------------------------------------------------------------
(* That a thread that was told to end goes on to its end.                  *)

(* It is in its loop, and setDone(true) has been called since it began.    *)
Told(d) == done[d] /\ pc[d] \in {"looping", "acquired", "copying"}

(* The places it has to pass before it ends.                               *)
PlacesLeft(place) ==
  CASE place = "acquired" -> 3
    [] place = "copying" -> 2
    [] place = "looping" -> 1
    [] OTHER -> 0

(* It takes no further buffer: whatever step is taken, it is still told or *)
(* has ended, and has not gone back; its own steps bring it to the next    *)
(* place or copy one part more.                                            *)
ShutdownAdvances ==
  [][\A d \in Device : Told(d) =>
       /\ Told(d)' \/ pc'[d] = "idle"
       /\ \/ PlacesLeft(pc'[d]) < PlacesLeft(pc[d])
          \/ pc'[d] = pc[d] /\ left'[d] \subseteq left[d]
       /\ ThreadStep(d) => \/ PlacesLeft(pc'[d]) < PlacesLeft(pc[d])
                           \/ left'[d] # left[d]]_vars

LEMMA OthersStayTold ==
  ASSUME CaptureInv, NEW d \in Device, ThreadStep(d) \/ MayaStep(d),
         NEW e \in Device, e # d
  PROVE  done'[e] = done[e]
<1> USE DEF CaptureInv, TypeOK, DeviceTypeOK
<1>1. CASE \/ Launch(d) \/ (\E b \in BOOLEAN : SetLive(d, b)) \/ Leave(d)
           \/ Acquire(d) \/ Lock(d) \/ (\E c \in Field : CopyPart(d, c))
           \/ Push(d) \/ Compute(d) \/ ComputeFails(d)
  BY <1>1 DEF Launch, SetLive, Leave, Acquire, Lock, CopyPart, Push, Compute,
              ComputeFails
<1>2. CASE Shutdown(d) \/ Enter(d) \/ EnterFails(d)
  BY <1>2 DEF Shutdown, Enter, EnterFails
<1> QED BY DeviceStepIs, <1>1, <1>2

(* What the thread itself does, once told.                                 *)
LEMMA ToldThread ==
  ASSUME CaptureInv, NEW d \in Device, Told(d), ThreadStep(d)
  PROVE  /\ Told(d)' \/ pc'[d] = "idle"
         /\ \/ PlacesLeft(pc'[d]) < PlacesLeft(pc[d])
            \/ /\ pc'[d] = pc[d] /\ left'[d] \subseteq left[d]
               /\ left'[d] # left[d]
<1> USE DEF CaptureInv, TypeOK, DeviceTypeOK, Told, PlacesLeft, Go
<1>1. ~Enter(d) /\ ~EnterFails(d) /\ ~Acquire(d)
  BY DEF Enter, EnterFails, Acquire
<1>2. CASE Leave(d) \/ Lock(d) \/ Push(d)
  BY <1>2 DEF Leave, Lock, Push
<1>3. CASE \E c \in Field : CopyPart(d, c)
  <2>1. PICK c \in Field : CopyPart(d, c)
    BY <1>3
  <2>2. /\ c \in left[d] /\ left'[d] = left[d] \ {c}
        /\ UNCHANGED << pc, done >>
    BY <2>1 DEF CopyPart
  <2> QED BY <2>2
<1> QED BY <1>1, <1>2, <1>3 DEF ThreadStep

(* What anybody does, once it is told.                                     *)
LEMMA ToldOthers ==
  ASSUME CaptureInv, NEW e \in Device, Told(e), Next, ~ThreadStep(e)
  PROVE  UNCHANGED << pc[e], left[e] >> /\ done'[e]
<1>1. CASE WriterStep
  BY <1>1 DEF WriterStep, deviceVars, Told
<1>2. CASE DeviceStep
  <2>1. PICK d \in Device : ThreadStep(d) \/ MayaStep(d)
    BY <1>2 DEF DeviceStep, DeviceNext
  <2>2. CASE d # e
    BY <2>1, <2>2, OtherDevices, OthersStayTold DEF Told
  <2>3. CASE d = e
    <3>1. MayaStep(e)
      BY <2>1, <2>3
    <3>2. ~Launch(e)
      BY DEF Launch, Go, Told
    <3>3. CASE \/ (\E b \in BOOLEAN : SetLive(e, b))
               \/ Compute(e) \/ ComputeFails(e)
      BY <3>3 DEF SetLive, Compute, ComputeFails, Told
    <3>4. CASE Shutdown(e)
      BY <3>4 DEF Shutdown, CaptureInv, TypeOK, DeviceTypeOK
    <3> QED BY <3>1, <3>2, <3>3, <3>4 DEF MayaStep
  <2> QED BY <2>2, <2>3
<1> QED BY <1>1, <1>2 DEF Next

(* threadShutdownHandler's setDone(true) is not overwritten once the       *)
(* thread is in its loop, nor does the thread go round again; with several *)
(* devices what it may still wait for is the spin lock alone.              *)
THEOREM CaptureShutdown == Spec => ShutdownAdvances
<1>1. CaptureInv /\ [Next]_vars =>
        [\A d \in Device : Told(d) =>
           /\ Told(d)' \/ pc'[d] = "idle"
           /\ \/ PlacesLeft(pc'[d]) < PlacesLeft(pc[d])
              \/ pc'[d] = pc[d] /\ left'[d] \subseteq left[d]
           /\ ThreadStep(d) => \/ PlacesLeft(pc'[d]) < PlacesLeft(pc[d])
                               \/ left'[d] # left[d]]_vars
  <2> SUFFICES ASSUME CaptureInv, Next, NEW d \in Device, Told(d)
               PROVE  /\ Told(d)' \/ pc'[d] = "idle"
                      /\ \/ PlacesLeft(pc'[d]) < PlacesLeft(pc[d])
                         \/ pc'[d] = pc[d] /\ left'[d] \subseteq left[d]
                      /\ ThreadStep(d) =>
                           \/ PlacesLeft(pc'[d]) < PlacesLeft(pc[d])
                           \/ left'[d] # left[d]
    OBVIOUS
  <2>1. CASE ThreadStep(d)
    BY <2>1, ToldThread
  <2>2. CASE ~ThreadStep(d)
    BY <2>2, ToldOthers DEF Told
  <2> QED BY <2>1, <2>2
<1> QED BY <1>1, CaptureInvariant, PTL DEF Spec, ShutdownAdvances

=============================================================================
