------------------------------- MODULE Capture -------------------------------
(***************************************************************************)
(* The capture pipeline: the server's Writer and the device threads of the *)
(* Maya plug-in on one shared segment.  Nothing synchronizes the two: the  *)
(* writer's mutex, the reader's mutex and the plug-in's spin lock are      *)
(* three different objects.                                                *)
(***************************************************************************)
EXTENDS Writer, DeviceThread

VARIABLE
  since  \* history: for each device, the frame whose pair the segment held,
         \* complete, when the current copy of the first record began

vars == << frame_data, writerVars, deviceVars, since >>

Init ==
  /\ WriterInit
  /\ DeviceInit
  /\ since = [d \in Device |-> Before]

WriterStep == WriterNext /\ UNCHANGED << deviceVars, since >>

DeviceStep ==
  /\ DeviceNext
  /\ since' = [d \in Device |->
                 IF pc[d] = "acquired" /\ pc'[d] = "copying"
                 THEN FirstOf(SettledPair) ELSE since[d]]
  /\ UNCHANGED writerVars

Next == WriterStep \/ DeviceStep

Spec == Init /\ [][Next]_vars

(* The server processes camera frames until its window is closed, a thread *)
(* keeps running, and Maya, which refreshes the output attributes of a     *)
(* device, keeps asking for them.                                          *)
Fairness ==
  /\ WF_vars(WriterStep)
  /\ \A d \in Device :
       /\ WF_vars(DeviceStep /\ ThreadStep(d))
       /\ WF_vars(DeviceStep /\ Compute(d))

FairSpec == Spec /\ Fairness

-----------------------------------------------------------------------------

TypeOK ==
  /\ WriterTypeOK
  /\ DeviceTypeOK
  /\ since \in [Device -> Tag]

(* A copy of the first record may be torn, but never arbitrarily: each     *)
(* part already copied is at least as new as the pair that was complete    *)
(* when the copy began and no newer than the pair being stored now.  So a  *)
(* copy that no store overlaps is one whole frame.  (threadHandler's copy  *)
(* loop against Writer::write's structure copies.)                         *)
CopyIsRegular ==
  \A d \in Device : pc[d] = "copying" =>
    \A c \in Field \ left[d] :
      since[d] <= buffer[d][c] /\ buffer[d][c] <= FirstOf(NewestPair)

(* The landmarks a device shows never go back in time, whatever is lost,   *)
(* torn or delayed on the way: pushThreadData/popThreadData and the        *)
(* writer's pairing keep the order of frames, part by part.                *)
OutputNeverGoesBack ==
  [][\A d \in Device, c \in Field : output'[d][c] >= output[d][c]]_vars

(* Every buffer of a pool is free, held by the thread, queued, or lost in  *)
(* a failed compute; none is counted twice and none vanishes otherwise.    *)
BuffersAccounted ==
  \A d \in Device :
    free[d] + lost[d] + Len(queue[d]) + (IF Holding(d) THEN 1 ELSE 0)
      = PoolSize

(* The threads of all nodes share one spin lock: at most one of them is    *)
(* between the lock and the unlock in threadHandler, and the lock is taken *)
(* only then, so a thread that ended or waits for a buffer never holds it. *)
SpinLockHolder ==
  \A d \in Device : pc[d] = "copying" <=> spinLock = d

(* Only the first frame of a pair ever reaches an output: a device never   *)
(* shows a landmark of an odd-numbered frame.                              *)
OnlyFirstFramesShown ==
  \A d \in Device, c \in Field : output[d][c] >= 0 => output[d][c] % 2 = 0

(* Once a device stays live, the last pair the server stored is what its   *)
(* output comes to show, as long as failed computes do not eat its pool.   *)
LastPairShown ==
  \A d \in Device :
    <>[](live[d] /\ ~done[d] /\ pc[d] # "idle") =>
      (<>(lost[d] = PoolSize) \/ <>[](output[d] = frame_data[0]))

(* A shutdown requested while the thread is in its loop ends the thread.   *)
ShutdownHonoured ==
  \A d \in Device :
    (done[d] /\ pc[d] \in {"looping", "acquired", "copying"})
      ~> (pc[d] = "idle")

=============================================================================
