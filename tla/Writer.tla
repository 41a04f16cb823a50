------------------------------- MODULE Writer -------------------------------
(***************************************************************************)
(* Stringless::Writer (src/Writer.cc): the server's end of the segment.    *)
(*                                                                         *)
(* FaceDetector::start hands write() one frame after the other, numbered   *)
(* 0, 1, 2, ...  The first call only sets the object up; from then on two  *)
(* calls make a pair, the first frame of which is kept in the object and   *)
(* stored, with the second, when the second arrives.                       *)
(*                                                                         *)
(* frame_data[0] = first_frame and frame_data[1] = second_frame are plain  *)
(* structure copies into memory another process reads: nothing orders      *)
(* their stores, so the parts of both records reach the segment one at a   *)
(* time in any order.  mutex is a member of the Writer object, not of the  *)
(* segment: no reader ever waits for it.                                   *)
(***************************************************************************)
EXTENDS FrameData

CONSTANT LastFrame  \* bound: the server stops after this many frames

ASSUME LastFrameAssumption == LastFrame \in Nat

VARIABLES
  next_frame,       \* number of the frame of the next or current write()
  initial_write,
  is_second_frame,
  first_frame,      \* the frame the member of that name holds
  second_frame,
  mutex,            \* the writer's own mutex: TRUE while write() holds it
  pending           \* the <<slot, part>> still to be stored

writerVars == << next_frame, initial_write, is_second_frame, first_frame,
                 second_frame, mutex, pending >>

Part == Slot \X Field

WriterInit ==
  /\ frame_data = Stored(NoPair)
  /\ next_frame = 0
  /\ initial_write = TRUE
  /\ is_second_frame = FALSE
  /\ first_frame = Junk
  /\ second_frame = Junk
  /\ mutex = FALSE
  /\ pending = {}

-----------------------------------------------------------------------------
(* write(incoming_frame_data), where incoming_frame_data is next_frame.    *)

Calling == ~mutex /\ next_frame < LastFrame

(* The first call casts the address and drops its frame.                   *)
WriteInitial ==
  /\ Calling
  /\ initial_write
  /\ initial_write' = FALSE
  /\ is_second_frame' = TRUE
  /\ next_frame' = next_frame + 1
  /\ UNCHANGED << first_frame, second_frame, mutex, pending, frame_data >>

(* Faulty variant of SaveFirst: the frame goes to the segment at once.     *)
SaveFirstStores ==
  /\ Calling
  /\ ~initial_write
  /\ ~is_second_frame
  /\ first_frame' = next_frame
  /\ frame_data' = [frame_data EXCEPT ![0] = Whole(next_frame)]
  /\ is_second_frame' = TRUE
  /\ next_frame' = next_frame + 1
  /\ UNCHANGED << initial_write, second_frame, mutex, pending >>

(* The frame is the first of a pair: keep it.                              *)
SaveFirst ==
  /\ Calling
  /\ ~initial_write
  /\ ~is_second_frame
  /\ first_frame' = next_frame
  /\ is_second_frame' = TRUE
  /\ next_frame' = next_frame + 1
  /\ UNCHANGED << initial_write, second_frame, mutex, pending, frame_data >>

(* The frame is the second of a pair: take the mutex, then store both.     *)
BeginPair ==
  /\ Calling
  /\ ~initial_write
  /\ is_second_frame
  /\ mutex' = TRUE
  /\ second_frame' = next_frame
  /\ pending' = Part
  /\ UNCHANGED << next_frame, initial_write, is_second_frame, first_frame,
                  frame_data >>

StorePart(s, c) ==
  /\ << s, c >> \in pending
  /\ frame_data' = [frame_data EXCEPT
                      ![s][c] = IF s = 0 THEN first_frame ELSE second_frame]
  /\ pending' = pending \ {<< s, c >>}
  /\ UNCHANGED << next_frame, initial_write, is_second_frame, first_frame,
                  second_frame, mutex >>

(* Faulty variant of EndPair: is_second_frame is not cleared.              *)
EndPairNoReset ==
  /\ mutex
  /\ pending = {}
  /\ mutex' = FALSE
  /\ next_frame' = next_frame + 1
  /\ UNCHANGED << initial_write, is_second_frame, first_frame, second_frame,
                  pending, frame_data >>

EndPair ==
  /\ mutex
  /\ pending = {}
  /\ mutex' = FALSE
  /\ is_second_frame' = FALSE
  /\ next_frame' = next_frame + 1
  /\ UNCHANGED << initial_write, first_frame, second_frame, pending,
                  frame_data >>

Store == \E s \in Slot, c \in Field : StorePart(s, c)

WriterNext == WriteInitial \/ SaveFirst \/ BeginPair \/ Store \/ EndPair

WriterVars == << writerVars, frame_data >>

WriterSpec == WriterInit /\ [][WriterNext]_WriterVars

-----------------------------------------------------------------------------
(* The pair the segment held when the writer last was between two calls,   *)
(* and the newest one: the pair being stored, if one is.                   *)

SettledPair == IF initial_write THEN NoPair
               ELSE IF is_second_frame THEN next_frame - 2
               ELSE next_frame - 1

NewestPair == IF mutex THEN next_frame ELSE SettledPair

WriterTypeOK ==
  /\ frame_data \in [Slot -> Frame]
  /\ next_frame \in 0 .. LastFrame
  /\ initial_write \in BOOLEAN
  /\ is_second_frame \in BOOLEAN
  /\ first_frame \in Tag
  /\ second_frame \in Tag
  /\ mutex \in BOOLEAN
  /\ pending \in SUBSET Part

(* Between two calls of write() the segment holds one whole pair: two      *)
(* consecutive frames, the newest pair whose second frame was passed in.   *)
(* (The stores of Writer::write against its is_second_frame toggling; the  *)
(* first pair is the exception SavedBeforeStored is about.)                *)
SegmentHoldsAPair ==
  ~mutex => /\ frame_data = Stored(SettledPair)
            /\ next_frame - SettledPair \in 1 .. 2

(* write()'s comment: "Write both the saved first frame and the incoming   *)
(* frame if the incoming frame is the second of the pair".  The frame      *)
(* stored first was saved by an earlier call.                              *)
SavedBeforeStored == mutex => first_frame # Junk

Register == INSTANCE PairRegister
              WITH pair <- NewestPair, settled <- SettledPair

(* The writer is a regular register of pairs: see PairRegister.            *)
WriterIsARegister == Register!Spec

=============================================================================
