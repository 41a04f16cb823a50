---------------------------- MODULE SharedMemory ----------------------------
(***************************************************************************)
(* The life of the segment /stringless: MemoryManager                      *)
(* (src/MemoryManager.cc), main around it (src/Stringless.cc) and the      *)
(* attaching half of threadHandler (StringlessMayaDevice.cc).              *)
(*                                                                         *)
(* Any number of server processes are started, one after the other or side *)
(* by side, some with --clear, and each may die at any point.  The threads *)
(* of one Maya process attach to whatever the name then leads to, through  *)
(* one static MemoryManager and one static Reader.                         *)
(*                                                                         *)
(* Segments are numbered in the order the kernel creates them; a segment   *)
(* outlives its name while a process maps it.  mmap of an open descriptor  *)
(* is taken to succeed: it fails only when the descriptor is not open.     *)
(***************************************************************************)
EXTENDS Integers

CONSTANTS
  Server,  \* the runs of the program Stringless
  Device   \* the device nodes of the Maya scene

VARIABLES
  name,     \* the segment /stringless leads to
  created,  \* how many segments have been created
  sized,    \* the segments of full size: those ftruncate was called on
  spc,      \* where each server is
  sfd,      \* its file_descriptor
  maya,     \* "up" until an access faults
  dpc,      \* where the thread of each device is
  fd,       \* file_descriptor of the static memoryManager
  reader    \* the segment the static reader points into

vars == << name, created, sized, spc, sfd, maya, dpc, fd, reader >>

serverVars == << spc, sfd >>
mayaVars   == << maya, dpc, fd, reader >>
segments   == << name, created, sized >>

None    == 0   \* no segment
NotOpen == -1  \* a descriptor that is not open; the address MAP_FAILED

Init ==
  /\ name = None
  /\ created = 0
  /\ sized = {}
  /\ spc = [s \in Server |-> "start"]
  /\ sfd = [s \in Server |-> NotOpen]
  /\ maya = "up"
  /\ dpc = [d \in Device |-> "idle"]
  /\ fd = NotOpen
  /\ reader = None

-----------------------------------------------------------------------------
(* A server.                                                               *)

ServerGo(s, from, to) == spc[s] = from /\ spc' = [spc EXCEPT ![s] = to]

(* Wrong or missing options, or shm_open fails.                            *)
Refuse(s) ==
  /\ ServerGo(s, "start", "refused")
  /\ UNCHANGED << segments, sfd, mayaVars >>

(* remove(): shm_unlink, which fails when there is no such name.           *)
Unlink == name' = None /\ UNCHANGED << created, sized >>

(* --clear                                                                 *)
stringless_clear(s) ==
  /\ ServerGo(s, "start", "cleared")
  /\ Unlink
  /\ UNCHANGED << sfd, mayaVars >>

(* Faulty variant of ShmOpen: a segment found under the name is replaced.  *)
ShmOpenAnew(s) ==
  /\ ServerGo(s, "start", "opened")
  /\ name' = created + 1
  /\ created' = created + 1
  /\ sfd' = [sfd EXCEPT ![s] = name']
  /\ UNCHANGED << sized, mayaVars >>

(* Faulty variant of ShmOpen: O_CREAT is missing, and so is the check.     *)
ShmOpenNoCreat(s) ==
  /\ ServerGo(s, "start", "opened")
  /\ sfd' = [sfd EXCEPT ![s] = name]
  /\ UNCHANGED << segments, mayaVars >>

(* init(): shm_open with O_CREAT, without O_EXCL, opens the segment of     *)
(* that name or creates an empty one ...                                   *)
ShmOpen(s) ==
  /\ ServerGo(s, "start", "opened")
  /\ IF name = None
     THEN name' = created + 1 /\ created' = created + 1
     ELSE UNCHANGED << name, created >>
  /\ sfd' = [sfd EXCEPT ![s] = name']
  /\ UNCHANGED << sized, mayaVars >>

(* ... and ftruncate gives it its size, ...                                *)
Ftruncate(s) ==
  /\ ServerGo(s, "opened", "sized")
  /\ sized' = sized \cup {sfd[s]}
  /\ UNCHANGED << name, created, sfd, mayaVars >>

(* Faulty variant of FtruncateFails: the error is not returned.            *)
FtruncateFailsOn(s) ==
  /\ ServerGo(s, "opened", "sized")
  /\ UNCHANGED << segments, sfd, mayaVars >>

(* ... or fails: main returns, and the name stays.                         *)
FtruncateFails(s) ==
  /\ ServerGo(s, "opened", "broken")
  /\ UNCHANGED << segments, sfd, mayaVars >>

(* address(), the Writer is built on it, and the camera opens: the server  *)
(* captures until its window is closed.                                    *)
Capture(s) ==
  /\ ServerGo(s, "sized", "capturing")
  /\ UNCHANGED << segments, sfd, mayaVars >>

(* Faulty variant of Finish: a server without a camera leaves the name.    *)
FinishKeepsName(s) ==
  /\ \/ ServerGo(s, "sized", "removed") /\ UNCHANGED segments
     \/ ServerGo(s, "capturing", "removed") /\ Unlink
  /\ UNCHANGED << sfd, mayaVars >>

(* start returns, because the window is closed or, at once, because the    *)
(* camera did not open: main ignores which, removes the name and ends.     *)
Finish(s) ==
  /\ ServerGo(s, "sized", "removed") \/ ServerGo(s, "capturing", "removed")
  /\ Unlink
  /\ UNCHANGED << sfd, mayaVars >>

(* The process is killed, or an exception ends it.                         *)
Die(s) ==
  /\ \/ ServerGo(s, "opened", "broken")
     \/ ServerGo(s, "sized", "killed")
     \/ ServerGo(s, "capturing", "killed")
  /\ UNCHANGED << segments, sfd, mayaVars >>

ServerStep(s) ==
  \/ Refuse(s) \/ stringless_clear(s) \/ ShmOpen(s) \/ Ftruncate(s)
  \/ FtruncateFails(s) \/ Capture(s) \/ Finish(s) \/ Die(s)

-----------------------------------------------------------------------------
(* The thread of a device.                                                 *)

DeviceGo(d, from, to) ==
  /\ maya = "up"
  /\ dpc[d] = from
  /\ dpc' = [dpc EXCEPT ![d] = to]

(* memoryManager = MemoryManager(...): the assignment copies the temporary *)
(* object's file_descriptor, which nothing has initialized.  It may hold   *)
(* the bits the static one had, or some number that is not a descriptor.   *)
AssignManager(d) ==
  /\ DeviceGo(d, "idle", "assigned")
  /\ fd' \in {fd, NotOpen}
  /\ UNCHANGED << segments, serverVars, maya, reader >>

(* init(): shm_open without O_CREAT finds the name ...                     *)
OpenSegment(d) ==
  /\ name # None
  /\ DeviceGo(d, "assigned", "opened")
  /\ fd' = name
  /\ UNCHANGED << segments, serverVars, maya, reader >>

(* Faulty variant of OpenFails: the thread goes on.                        *)
OpenFailsOn(d) ==
  /\ name = None
  /\ DeviceGo(d, "assigned", "opened")
  /\ fd' = NotOpen
  /\ UNCHANGED << segments, serverVars, maya, reader >>

(* ... or not, and the thread returns.                                     *)
OpenFails(d) ==
  /\ name = None
  /\ DeviceGo(d, "assigned", "idle")
  /\ fd' = NotOpen
  /\ UNCHANGED << segments, serverVars, maya, reader >>

(* reader = Reader(memoryManager.address())                                *)
MapSegment(d) ==
  /\ DeviceGo(d, "opened", "looping")
  /\ reader' = fd
  /\ UNCHANGED << segments, serverVars, maya, fd >>

(* A copy out of a segment that has its size changes nothing here; beyond  *)
(* the end of the segment, or at MAP_FAILED, it ends the Maya process.     *)
ReadFaults(d) ==
  /\ maya = "up"
  /\ dpc[d] = "looping"
  /\ reader \notin sized
  /\ maya' = "faulted"
  /\ UNCHANGED << segments, serverVars, dpc, fd, reader >>

(* The loop ends; nothing is unmapped or closed.                           *)
EndThread(d) ==
  /\ DeviceGo(d, "looping", "idle")
  /\ UNCHANGED << segments, serverVars, maya, fd, reader >>

DeviceStep(d) ==
  \/ AssignManager(d) \/ OpenSegment(d) \/ OpenFails(d) \/ MapSegment(d)
  \/ ReadFaults(d) \/ EndThread(d)

Next == (\E s \in Server : ServerStep(s)) \/ (\E d \in Device : DeviceStep(d))

Spec == Init /\ [][Next]_vars

-----------------------------------------------------------------------------

Segment == 1 .. created

TypeOK ==
  /\ created \in Nat
  /\ name \in Segment \cup {None}
  /\ sized \in SUBSET Segment
  /\ spc \in [Server -> {"start", "refused", "opened", "sized", "capturing",
                         "removed", "cleared", "broken", "killed"}]
  /\ sfd \in [Server -> Segment \cup {NotOpen}]
  /\ maya \in {"up", "faulted"}
  /\ dpc \in [Device -> {"idle", "assigned", "opened", "looping"}]
  /\ fd \in Segment \cup {NotOpen}
  /\ reader \in Segment \cup {None, NotOpen}

(* A capturing server never stores beyond the end of its segment, whoever  *)
(* opened it first and whatever became of the others: init fails when      *)
(* ftruncate does, and nothing ever makes a segment smaller.               *)
StoresFit == \A s \in Server : spc[s] = "capturing" => sfd[s] \in sized

(* When every server has ended by way of remove(), none having died and no *)
(* ftruncate having failed, no segment is left under the name.             *)
NothingLeftBehind ==
  (\A s \in Server : spc[s] \in {"start", "refused", "removed", "cleared"})
    => name = None

(* Until some process runs remove(), there is one segment: a server that   *)
(* is started after another died takes over the segment the devices read,  *)
(* which so show its frames without being attached again.                  *)
RestartTakesOver ==
  (\A s \in Server : spc[s] \notin {"removed", "cleared"}) =>
    /\ \A s \in Server : sfd[s] # NotOpen => sfd[s] = name
    /\ reader > 0 => reader = name

(* A read can fault for one reason only: the server that made the segment  *)
(* is still between shm_open and ftruncate, or ended there.  (One device.) *)
FaultsOnlyHalfMade ==
  [][maya' # maya =>
       \E s \in Server : sfd[s] = reader /\ spc[s] \in {"opened", "broken"}]_vars

(* address()'s comment: "Returns a pointer to the shared memory, if it     *)
(* exists."  A thread in its loop has been given such a pointer.           *)
AddressIsAPointer ==
  \A d \in Device : dpc[d] = "looping" => reader # NotOpen

(* The README: "While the Stringless server is running [...] You can now   *)
(* read live capture data by enabling the Live checkmark."  As long as     *)
(* nobody asks for --clear, the name leads a thread to the segment of a    *)
(* server that is capturing.                                               *)
RunningServerIsFound ==
  (\A s \in Server : spc[s] # "cleared") =>
    \A s \in Server : spc[s] = "capturing" => name = sfd[s]

=============================================================================
