---------------------------- MODULE DeviceThread ----------------------------
(***************************************************************************)
(* StringlessMayaDevice (stringless-maya/src): the Maya end of the         *)
(* segment.  Every device node has a thread, threadHandler, that copies    *)
(* the first record of the segment into buffers from the node's own pool,  *)
(* and compute, run by Maya when an output is asked for, that turns the    *)
(* oldest filled buffer into the node's output.                            *)
(*                                                                         *)
(* The pool, the queue of filled buffers, live and done belong to Maya's   *)
(* MPxThreadedDeviceNode: they are modelled from how the node uses them.   *)
(* Buffers are interchangeable, so the pool is a count.  spinLock, reader  *)
(* and curFrameData are static members: the threads of all nodes share     *)
(* them.  reader.read() returns the same address under a mutex of its own  *)
(* each time and so leaves no trace here.                                  *)
(***************************************************************************)
EXTENDS FrameData, Sequences, FiniteSets

CONSTANTS
  Device,    \* the device nodes
  PoolSize,  \* buffers in a node's pool: 24 in the code
  NoDevice   \* spinLock is free

ASSUME DeviceAssumption ==
  /\ NoDevice \notin Device
  /\ PoolSize \in Nat \ {0}

VARIABLES
  pc,        \* where the thread of each device is
  live,      \* the node's live attribute
  done,      \* the flag setDone sets
  free,      \* buffers left in the pool
  lost,      \* buffers popped by a compute that failed, never released
  queue,     \* the filled buffers, oldest first
  buffer,    \* the record in the buffer the thread is filling
  left,      \* its parts still to be copied
  spinLock,  \* the device whose thread holds the static lock
  output     \* the record behind the node's output attributes

deviceVars == << pc, live, done, free, lost, queue, buffer, left, spinLock,
                 output >>

DeviceInit ==
  /\ pc = [d \in Device |-> "idle"]
  /\ live = [d \in Device |-> FALSE]
  /\ done = [d \in Device |-> FALSE]
  /\ free = [d \in Device |-> PoolSize]
  /\ lost = [d \in Device |-> 0]
  /\ queue = [d \in Device |-> << >>]
  /\ buffer = [d \in Device |-> Whole(Before)]
  /\ left = [d \in Device |-> {}]
  /\ spinLock = NoDevice
  /\ output = [d \in Device |-> Whole(Before)]

Go(d, from, to) == pc[d] = from /\ pc' = [pc EXCEPT ![d] = to]

(* The node's thread holds a buffer it has not pushed yet.                 *)
Holding(d) == pc[d] \in {"acquired", "copying"}

-----------------------------------------------------------------------------
(* Maya and its user.                                                      *)

Launch(d) ==
  /\ Go(d, "idle", "entered")
  /\ UNCHANGED << live, done, free, lost, queue, buffer, left, spinLock,
                  output, frame_data >>

SetLive(d, b) ==
  /\ live[d] # b
  /\ live' = [live EXCEPT ![d] = b]
  /\ UNCHANGED << pc, done, free, lost, queue, buffer, left, spinLock,
                  output, frame_data >>

(* threadShutdownHandler, called while a thread exists.                    *)
Shutdown(d) ==
  /\ pc[d] # "idle"
  /\ done' = [done EXCEPT ![d] = TRUE]
  /\ UNCHANGED << pc, live, free, lost, queue, buffer, left, spinLock,
                  output, frame_data >>

-----------------------------------------------------------------------------
(* threadHandler.                                                          *)

(* setDone(false), then memoryManager.init() finds the segment.            *)
Enter(d) ==
  /\ Go(d, "entered", "looping")
  /\ done' = [done EXCEPT ![d] = FALSE]
  /\ UNCHANGED << live, free, lost, queue, buffer, left, spinLock, output,
                  frame_data >>

(* ... or fails: the thread returns and leaves done FALSE.                 *)
EnterFails(d) ==
  /\ Go(d, "entered", "idle")
  /\ done' = [done EXCEPT ![d] = FALSE]
  /\ UNCHANGED << live, free, lost, queue, buffer, left, spinLock, output,
                  frame_data >>

(* Faulty variant of Leave: the loop runs while the node is live.          *)
LeaveNotLive(d) ==
  /\ ~live[d]
  /\ Go(d, "looping", "idle")
  /\ UNCHANGED << live, done, free, lost, queue, buffer, left, spinLock,
                  output, frame_data >>

(* while (!isDone()) ends: setDone(true).                                  *)
Leave(d) ==
  /\ done[d]
  /\ Go(d, "looping", "idle")
  /\ UNCHANGED << live, done, free, lost, queue, buffer, left, spinLock,
                  output, frame_data >>

(* acquireDataStorage takes any free buffer, whatever it still holds.      *)
(* When the node is not live or the pool is empty the loop goes round      *)
(* again and nothing changes.                                              *)
Acquire(d) ==
  /\ ~done[d] /\ live[d] /\ free[d] > 0
  /\ Go(d, "looping", "acquired")
  /\ free' = [free EXCEPT ![d] = @ - 1]
  /\ UNCHANGED << live, done, lost, queue, buffer, left, spinLock, output,
                  frame_data >>

Lock(d) ==
  /\ spinLock = NoDevice
  /\ Go(d, "acquired", "copying")
  /\ spinLock' = d
  /\ left' = [left EXCEPT ![d] = Field]
  /\ UNCHANGED << live, done, free, lost, queue, buffer, output, frame_data >>

(* Faulty variant of CopyPart: the second record is read.                  *)
CopyPartOfSecond(d, c) ==
  /\ pc[d] = "copying"
  /\ c \in left[d]
  /\ buffer' = [buffer EXCEPT ![d][c] = frame_data[1][c]]
  /\ left' = [left EXCEPT ![d] = @ \ {c}]
  /\ UNCHANGED << pc, live, done, free, lost, queue, spinLock, output,
                  frame_data >>

(* One part of curFrameData[0]; the loads may be made in any order.        *)
CopyPart(d, c) ==
  /\ pc[d] = "copying"
  /\ c \in left[d]
  /\ buffer' = [buffer EXCEPT ![d][c] = frame_data[0][c]]
  /\ left' = [left EXCEPT ![d] = @ \ {c}]
  /\ UNCHANGED << pc, live, done, free, lost, queue, spinLock, output,
                  frame_data >>

(* Faulty variant of Push: the newest buffer is served first.              *)
PushInFront(d) ==
  /\ left[d] = {}
  /\ Go(d, "copying", "looping")
  /\ spinLock' = NoDevice
  /\ queue' = [queue EXCEPT ![d] = << buffer[d] >> \o @]
  /\ UNCHANGED << live, done, free, lost, buffer, left, output, frame_data >>

(* Faulty variant of Push: the lock is not given back.                     *)
PushLocked(d) ==
  /\ left[d] = {}
  /\ Go(d, "copying", "looping")
  /\ queue' = [queue EXCEPT ![d] = Append(@, buffer[d])]
  /\ UNCHANGED << live, done, free, lost, buffer, left, spinLock, output,
                  frame_data >>

(* spinLock.unlock(), then pushThreadData.                                 *)
Push(d) ==
  /\ left[d] = {}
  /\ Go(d, "copying", "looping")
  /\ spinLock' = NoDevice
  /\ queue' = [queue EXCEPT ![d] = Append(@, buffer[d])]
  /\ UNCHANGED << live, done, free, lost, buffer, left, output, frame_data >>

-----------------------------------------------------------------------------
(* compute, on Maya's thread, for a plug of the outputs.                   *)

(* Faulty variant of Compute: the buffer is not released.                  *)
ComputeKeeps(d) ==
  /\ queue[d] # << >>
  /\ queue' = [queue EXCEPT ![d] = Tail(@)]
  /\ output' = [output EXCEPT ![d] = Head(queue[d])]
  /\ UNCHANGED << pc, live, done, free, lost, buffer, left, spinLock,
                  frame_data >>

(* popThreadData succeeds, both arrays are set, the buffer is released.    *)
(* With an empty queue compute returns kFailure and nothing changes.       *)
Compute(d) ==
  /\ queue[d] # << >>
  /\ queue' = [queue EXCEPT ![d] = Tail(@)]
  /\ output' = [output EXCEPT ![d] = Head(queue[d])]
  /\ free' = [free EXCEPT ![d] = @ + 1]
  /\ UNCHANGED << pc, live, done, lost, buffer, left, spinLock, frame_data >>

(* A MCHECKERROR between popThreadData and releaseDataStorage returns: the *)
(* buffer is gone.  The last one comes after the translations were set.    *)
ComputeFails(d) ==
  /\ queue[d] # << >>
  /\ queue' = [queue EXCEPT ![d] = Tail(@)]
  /\ lost' = [lost EXCEPT ![d] = @ + 1]
  /\ \/ UNCHANGED output
     \/ output' = [output EXCEPT ![d] = Head(queue[d])]
  /\ UNCHANGED << pc, live, done, free, buffer, left, spinLock, frame_data >>

-----------------------------------------------------------------------------

ThreadStep(d) ==
  \/ Enter(d) \/ EnterFails(d) \/ Leave(d) \/ Acquire(d) \/ Lock(d)
  \/ (\E c \in Field : CopyPart(d, c))
  \/ Push(d)

MayaStep(d) ==
  \/ Launch(d) \/ (\E b \in BOOLEAN : SetLive(d, b)) \/ Shutdown(d)
  \/ Compute(d) \/ ComputeFails(d)

DeviceNext == \E d \in Device : ThreadStep(d) \/ MayaStep(d)

-----------------------------------------------------------------------------

DeviceTypeOK ==
  /\ pc \in [Device -> {"idle", "entered", "looping", "acquired", "copying"}]
  /\ live \in [Device -> BOOLEAN]
  /\ done \in [Device -> BOOLEAN]
  /\ free \in [Device -> 0 .. PoolSize]
  /\ lost \in [Device -> 0 .. PoolSize]
  /\ queue \in [Device -> Seq(Frame)]
  /\ buffer \in [Device -> Frame]
  /\ left \in [Device -> SUBSET Field]
  /\ spinLock \in Device \cup {NoDevice}
  /\ output \in [Device -> Frame]

=============================================================================
