---------------------------- MODULE PairRegister ----------------------------
(***************************************************************************)
(* What a Writer promises whoever reads the segment, whatever it does      *)
(* inside: a register of pairs of frames, written by one process.  While   *)
(* no write is under way it holds one pair, whole.  A write replaces the   *)
(* pair by a later one, made of two frames the segment has not held; until *)
(* it has ended, every part of a record is the old pair's or the new       *)
(* pair's, and a part that has become new stays so.                        *)
(***************************************************************************)
EXTENDS FrameData

VARIABLES
  pair,     \* the pair being written, or the last one written
  settled   \* the last pair whose write has ended

registerVars == << frame_data, pair, settled >>

Init ==
  /\ frame_data = Stored(NoPair)
  /\ pair = NoPair
  /\ settled = NoPair

Begin ==
  /\ pair = settled
  /\ pair' \in Nat
  /\ pair' >= settled + 2
  /\ UNCHANGED << frame_data, settled >>

Replace(s, c) ==
  /\ pair # settled
  /\ frame_data' = [frame_data EXCEPT ![s][c] = TagOf(pair, s)]
  /\ UNCHANGED << pair, settled >>

End ==
  /\ frame_data = Stored(pair)
  /\ settled' = pair
  /\ UNCHANGED << frame_data, pair >>

Next == Begin \/ (\E s \in Slot, c \in Field : Replace(s, c)) \/ End

Spec == Init /\ [][Next]_registerVars

=============================================================================
