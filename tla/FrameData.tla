------------------------------ MODULE FrameData ------------------------------
(***************************************************************************)
(* The shared-memory segment: two FrameData records (src/FrameData.h),     *)
(* the layout the server writes and the Maya plug-in reads.                *)
(*                                                                         *)
(* A record is copied part by part, so it is a function from its parts to  *)
(* where each part comes from.  A landmark's coordinates are not kept,     *)
(* only the number of the frame that produced them: that is all the        *)
(* properties tell apart.                                                  *)
(***************************************************************************)
EXTENDS Integers

CONSTANT Field  \* the parts of a record: frame_number, each points[i]

ASSUME FieldAssumption == Field # {}

VARIABLE frame_data  \* the segment, [Slot -> Frame]

Slot == {0, 1}

(* Provenance of a part that no frame produced.                            *)
Before == -2  \* what the segment held before this server wrote to it
Junk   == -1  \* indeterminate: copied out of an uninitialized record

Tag == Nat \cup {Before, Junk}

Frame == [Field -> Tag]

(* The record all of whose parts come from t.                              *)
Whole(t) == [c \in Field |-> t]

(* A pair of frames is named by the number of its second frame.            *)
NoPair == -1

(* What the two records of the segment are made of once pair n is stored:  *)
(* frames n - 1 and n.  The first pair, 1, is stored before a frame was    *)
(* saved to go with it.                                                    *)
FirstOf(n) == IF n = NoPair THEN Before ELSE IF n = 1 THEN Junk ELSE n - 1

SecondOf(n) == IF n = NoPair THEN Before ELSE n

TagOf(n, s) == IF s = 0 THEN FirstOf(n) ELSE SecondOf(n)

Stored(n) == [s \in Slot |-> Whole(TagOf(n, s))]

=============================================================================
