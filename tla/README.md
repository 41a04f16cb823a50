# A TLA+ model of Stringless

Stringless captures a face with a camera and shows it in Maya. A **server**
process (`src/src`) finds 68 landmarks in every camera frame and writes them to
a POSIX shared-memory segment; **device nodes** of a Maya plug-in
(`src/stringless-maya/src`) each run a thread that copies the landmarks out of
the segment for `compute` to put on the node's outputs. The server's window, its
menus and the threads behind them come from a copy of dlib (`src/ext/dlib`).
This directory holds TLA+ modules for the parts that have state and interact,
TLC configurations that check them on small instances, and TLAPS proofs for
every instance.

Paths below are relative to the repository unless they name a module.

## 1. Inventory

The program's own code:

| Part | State | Operations | Talks to | What is hard |
|---|---|---|---|---|
| `Writer` (`Writer.cc`) | `initial_write`, `is_second_frame`, `first_frame`, `second_frame`, a private mutex | `write(frame)` | stores two records into the segment | pairing frames over a long sequence of calls; nothing excludes readers; the first call |
| segment (`FrameData.h`) | two `FrameData` records | plain loads and stores | server and Maya | 68 landmarks cannot be copied at once |
| `Reader`, `Mutex` | a pointer, a private mutex | `read()` returns the pointer | device threads | the mutex protects the pointer, not the data |
| `MemoryManager` | a descriptor, name, size | `init`, `address`, `remove` | the kernel | open and resize are two steps; processes die; several servers; a static copy shared by all device threads |
| `main` (`Stringless.cc`) with the option parser (`ext/optionparser.h`) | options | parse, clear, init, capture, remove | `MemoryManager`, `FaceDetector` | forms of options that run into each other; what each way to end leaves behind |
| `FaceDetector` | main face, misses, pose, neutral pose, flag, window | `start` (the loop), four menu callbacks | camera, dlib, `Writer` | callbacks run in dlib's event thread between any two accesses of the loop; detections outlive their frame |
| `StringlessMayaDevice` | pool and queue of buffers, `live`, `done`, static reader, manager and spin lock | `threadHandler`, `threadShutdownHandler`, `compute` | segment, Maya | buffers cycle between two threads; error returns; shutdown |
| `StringlessMaya.mel`, `StringlessMayaCmd` | node attributes and connections | `createStringlessCap`, `calibrateNeutralFace` | device node | reads the outputs of an earlier `compute`; lists of names written out by hand meet |
| plug-in registration, build files | - | - | - | no behaviour of their own |

The parts of dlib the server's window stands on:

| Part | State | Operations | Talks to | What is hard |
|---|---|---|---|---|
| `rmutex`, `rsignaler` | owner, count, sleeping threads | `lock`, `unlock`, `wait`, `signal`, `broadcast` | everything below | nested locks given up and taken back in `wait`; wake-ups for no reason |
| `threader` (the pool) | one slot, two counts | `create_new_thread`, a thread's loop, destruction at exit | the other parts' threads | a time-out that comes with the signal; many callers, one slot |
| `threaded_object` | four flags, a thread | `start`, `restart`, `set_respawn`, `pause`, `stop`, `wait` | the pool | a restart while the thread leaves its loop; sleepers that nobody wakes |
| `timer` and its clock | entries with times, the clock's sleep | `start`, `stop_and_wait`, `set_delay_time`, `~timer` | `threaded_object` | stop and start while the action runs; earlier entries while the clock sleeps |
| user events | queue, the batch taken | `trigger_user_event`, the delivering thread | timers, widgets | a swap while more is posted; widgets destroyed before delivery |
| windows and event thread | window table, life of each window, the X queue | create, show, close, destroy, poll | X server, `main` | events for a window half built or half destroyed; ending the thread |
| menu bar and popups | open menu, selection, mapped popups | key, button, motion and focus handlers | event thread, `FaceDetector`'s callbacks | events queued for a popup that is gone |
| scroll bar | position, the slider's place, range, held parts, timers | mouse handlers, `set_max_slider_pos`, `set_slider_pos`, `on_user_event` | timers, user events | late timer events; the range changes while a part is held or the slider dragged |

What makes each part correct:

* **Writer**: between two calls the segment holds one whole pair of consecutive
  frames; during a call only a mix of the old and the new pair.
* **Device and segment**: a copy is never arbitrary; what is shown never goes
  back in time; no buffer is lost except in a failed `compute`; a live device
  comes to show the last pair; a shutdown ends the thread.
* **MemoryManager and main**: stores fit into the segment; an orderly end
  leaves nothing; a restarted server is seen by devices already attached;
  a device reads only memory that exists; options do what the usage text says.
* **FaceDetector**: each published frame has the landmarks of a known frame,
  fitted to the right face; the menu is obeyed.
* **Scripts**: each landmark moves its part of the rig and of no other; a live
  device has been calibrated; what is subtracted is one whole neutral face.
* **dlib's threads**: the mutex is a recursive lock; nobody sleeps through the
  window's end; accepted functions run; restarts, stops and events are not lost;
  no callback reaches an object that is
  half built or gone; the server ends when its window is closed.
* **dlib's widgets**: a menu opens with nothing selected; the slider stays on its
  bar, at the place of its position; a button scrolls while it is held.

## 2. Modules

```
FrameData            the segment
 |- PairRegister     abstract: a regular register of pairs of frames
 |- Writer           Writer::write         (implements PairRegister)
 |- DeviceThread     threadHandler, compute, pool and queue
 `- Capture          Writer + DeviceThread on one segment
     `- CaptureProofs
SharedMemory         MemoryManager, main's life, attaching a device
 `- SharedMemoryProofs
FaceDetector         the server's loop and its menu
 `- FaceDetectorProofs

Calibration, Rig     the two scripts of the plug-in
CommandLine          the option parser and main's loop over the options

RecursiveLock        abstract: a recursive lock
 `- RecursiveMutex   rmutex and rsignaler   (implements RecursiveLock)
     `- RecursiveMutexProofs
ThreadPool           dlib's threader
ThreadedObject       dlib's threaded_object
 |- ThreadedObjectProofs
 `- Timer            timers and their clock, each a threaded object
UserEvents           the queue of user events and its threads
Window               main, the event thread and the life of the windows
MenuBar, ScrollBar   widgets of the server's window

MCCapture, MCWriter, MCSharedMemory, MCFaceDetector     model values for TLC
MCMaya               Calibration, Rig
 `- MayaProofs
MCServer             Timer, ScrollBar, MenuBar, CommandLine
 `- ServerProofs
MCThreads            UserEvents, RecursiveMutex, ThreadPool, ThreadedObject,
                     Window
 `- ThreadsProofs
```

The last three put independent parts **side by side**: the variable `part`,
chosen at the beginning, says which of them moves in a behaviour, the others
keep their first values. (MCServer's constant `Moving` says which may be
chosen.) A state space is then the sum of the parts' state
spaces and not their product, and a property of one part is checked in exactly
the behaviours its own module has. Their proof modules hold the proofs about the
parts that have no proof module of their own, and that the whole has what is
proved of the parts.

**FrameData.** `frame_data` maps slot (0, 1) and part to a *tag*: the number of
the frame the part came from, `Before` (what the segment held when this server
started) or `Junk` (copied from an uninitialized record). Coordinates are not
kept: the properties are about which frame a landmark belongs to. `fps` is left
out; no reader copies it.

**Writer.** One action per branch of `write()` (`WriteInitial`, `SaveFirst`,
`BeginPair` ... `EndPair`); the two structure copies are split into `StorePart`,
one part at a time in any order, because neither the language nor the mutex
orders them for the other process. A call that touches only the object is one
action: nobody else can see in between. `next_frame` numbers the calls;
`LastFrame` bounds them.

**PairRegister.** What a reader may rely on: outside a write the segment is one
whole pair; during a write each part is the old pair's or the new pair's; a new
part stays new; each pair is made of two frames the segment has not held.

**DeviceThread.** The states of `threadHandler` are in `pc`: `"idle"` (no
thread), `"entered"`, `"looping"` (at the `while`), `"acquired"` (has a buffer),
`"copying"` (holds the spin lock). Buffers are interchangeable, so the pool is
the count `free`; `queue` holds what was pushed; `lost` counts buffers whose
`compute` returned with an error between `popThreadData` and
`releaseDataStorage`. A recycled buffer still holds its last record, and
`buffer` is not reset either. `live`, `done`, the pool and the queue belong to
Maya's `MPxThreadedDeviceNode` and are modelled from their use. `Launch` can
happen only when no thread of the node runs.

**Capture.** Interleaves the two. `since` is a history variable.

**SharedMemory.** The kernel's view: the name `/stringless`, the segments
created, which have been given their size. Each element of `Server` is one run
of the program, so a restart is another element. `shm_open` and `ftruncate` are
two steps; a run may refuse its options, be asked to `--clear`, fail in
`ftruncate`, find no camera (then `start` returns at once and `main` removes the
name all the same), or die anywhere. The device side has the assignment of the
static `memoryManager`, `init`, `address` and reading as separate steps, with
the descriptor and the reader's pointer shared by all threads. The assigned
temporary's descriptor is uninitialized: the model allows the old value or one
that is not open.

**FaceDetector.** A face is its area and a pose is the frame and rectangle it
was fitted in, so averaging several fits of one frame makes no difference. The
loop's accesses to `show_camera_image` and `neutral_face_flag` are separate
actions; what lies between two of them touches only the loop's own variables and
is merged into one. `toggle_camera_image` is one action: that the callback could
itself be interrupted adds no outcome, since its only reader tests the variable
once per iteration.

**Calibration.** `calibrateNeutralFace` is one action per command. The script
has Maya's main thread to itself, so between its commands only the device's
thread moves; the user's settings and Maya's refresh come between scripts. An
output is what it was computed from: record, anchoring and amplification.
`dirty` is Maya's rule that a clean plug is not computed. Amplification counts
in halves, because the script truncates it to an integer.

**Rig.** `createStringlessCap` and what it calls, with the lists of names as
they stand in the script: 68 joints below one transform, `Face`, 68 landmarks,
the connections between. A `connectAttr` whose node does not exist, or whose
destination is taken, ends the script. What drives a node moves all that is
below it (`Follow`), so the landmark connected to `Face` moves the whole rig;
`LandmarksDriveRig` says for all 68 which nodes follow them: landmark k moves
the joint the script's comments number k - 1.

**CommandLine.** The user writes up to `MaxUses` uses of options; `args` is what
that makes of the command line, and the parser's steps and `main`'s loop
follow the code. `UsageObeyed` compares the end with what the usage text
promises, evaluated from `uses` alone: a reference definition beside the parser.
`UseAssumption` says which uses these are, the ones the usage text describes: a
flag without an argument, any other option with one, by its name or, but for
`--cn` and `--lspf`, by its letter. The argument may be any sequence of
characters, a number or not, with or without a minus in front; only where the
height is given by its letter it is a number. The text is not followed in two
ways, and `UsageObeyed` says how: the letter h, which the table gives to
`--height` too, is always `--help`'s (`EndGiven`), and a number `std::stoi`
cannot read aborts `main`. `DescribedLineRuns` is what the text says of a line
in order; it fails (`server_height`).

**RecursiveMutex.** `rmutex` is a count and an owner under a plain mutex;
`rsignaler` saves the count, unlocks that often, waits, and locks again. What a
thread does under a plain mutex is one step; the signaler's own mutex is held
between `wait` and `Sleep`, and that is a separate step. `RecursiveLock` says
what the two promise together. The condition they wait for is the window's:
`wait_until_closed` finds `has_been_destroyed` false and then waits, and
`close_window` sets it and broadcasts. Testing, giving up the nested locks and
falling asleep are steps, as are setting and broadcasting, and in between others
run; `testing` are the threads that have tested and not yet called `wait`, and
`told` remembers that the broadcast was made.

**ThreadPool.** One slot for the next function; threads are born, pooled,
roused or timed out, and get the mutex back in any order. At exit the pool is
destroyed if it is idle.

**ThreadedObject, Timer.** The first has every operation of `threaded_object`
and its thread's loop. `Timer` extends it: every timer is a threaded object,
the clock's thread restarts the timers that are due, and times are relative to
now so that they stay finite.

**UserEvents.** `trigger_user_event` appends to the queue and starts a thread
when the queue's length becomes one; the thread takes the window's mutex, swaps
the queues and delivers. Widgets unregister and are destroyed meanwhile.

**Window.** `main` creates, shows, closes and destroys the window and its
popups; the event thread polls, blocks, and handles one event at a time. A
member function and the handling of one event hold the window table's mutex;
destructors of derived classes do not. The way out is modelled to the last step:
the exit event is put back on the queue and sent, the segment removed.

**MenuBar, ScrollBar.** The widgets' handlers with the X server's queue, or the
user events, in between. A scroll bar is a row of cells, so that its arithmetic
is on small integers; the slider's rectangle is the variable `cell`, since after
a drag it stays where it was dragged and only `pos` is computed from it. One
mouse event goes to the buttons, the slider and the fillers in the order they
were registered: dragging is part of `on_mouse_move`. A part that is drawn and
finds the mouse elsewhere posts its own release (`draw`, `on_release_event`). A
timer that runs may tick at any time, so the delays (1000, 500, 50 ms) are not
kept: with them a behaviour of this model may only be rarer. The code computes
with doubles and truncates; a quotient that is not exact may come out one
position lower there than in the model.

Definitions headed *Faulty variant of X* are plausible bugs. No specification
uses them; each exists to show that some property fails if X is replaced by it.

## 3. What the runs check

| Run | Instance | States | Shows |
|---|---|---|---|
| `capture` | 2 parts, 5 frames, 1 device, pool 2 | 94 656 | `SegmentHoldsAPair`, `CopyIsRegular`, `BuffersAccounted`, `SpinLockHolder`, `WriterIsARegister` (refinement), `OutputNeverGoesBack`; `LastPairShown`, `ShutdownHonoured` (liveness) |
| `shared_memory` | 4 runs of the server, 1 device | 29 189 | `TypeOK`, `StoresFit`, `NothingLeftBehind`, `RestartTakesOver`, `FaultsOnlyHalfMade` |
| `face_detector` | faces of 2 sizes, at most 2 at once, rate 2, 11 frames | 3 549 320 | `PublishedPoints`, `FittedToLargest`, `QuietIteration` |
| `maya` | 2 faces with 68 landmarks each; calibration of 3 landmarks, 4 records, queue 2, 2 rounds | 128 621 | `LandmarksDriveRig`; `LiveOnlyCalibrated`, `NeutralInOrder`, `AnchoredToWholeNeutral`, `CalibrationEnds` (liveness) |
| `server` | 3 uses of options; 2 timers, delays 1 and 2; track of 2 cells, range 1 or 2, jumps of 2, 1 user event posted; 2 waiting events of the menus | 1 079 080 | `UsageObeyed`; `NapInTime`, `NeverForgotten`, `StoppedIsQuiet`; `SliderInRange`, `SliderShowsPosition`; `OpensUnselected` |
| `threads` | 3 threads, 2 nested locks, 4 calls; 3 functions, 3 workers; 1 object, 2 clients; 2 widgets, 2 threads, 2 events; 1 popup, 2 events | 49 491 | `IsRecursiveLock` (refinement), `NobodySleepsOn`; `SlotHasATaker`, `AcceptedRuns`; `RestartRuns`, `StopEnds`; `OneThreadForTheQueue`, `InOrder`, `NoneAfterDestruction`, `EventsAreTaken`; `WindowHearsWhileBuilt`, `ServerEnds` |

Runs that are expected to fail, one finding each:

| Run | Property | Why it fails |
|---|---|---|
| `writer_saved` | `SavedBeforeStored` (comment at `Writer.cc:56`) | the first `write()` drops its frame but counts it as the first of a pair: slot 0 of the first pair is an uninitialized record, and slot 0 is what the plug-in reads |
| `shared_memory_address` | `AddressIsAPointer` (comment at `MemoryManager.cc:93`) | a second device's thread overwrites the static descriptor between the first one's `init` and `address` |
| `shared_memory_found` | `RunningServerIsFound` (`README.md:50`) | any other server that ends unlinks the name of the one still running |
| `face_detector_neutral` | `CapturedThenShown` (comment at `FaceDetector.cc:288`) | a capture chosen between the reads at 253 and 287, or while the face is lost, is ticked off without a capture |
| `calibration_face` | `NeutralIsAFace` (`README.md:50`) | the first calibration stores the zeroes the outputs were created with: `live` is locked off until it has run, so nothing has been computed |
| `server_height` | `DescribedLineRuns` (usage text at `Stringless.cc:104`) | `-h 60 --flp=path` prints the usage and ends: the parser takes `--help`, the first row with the letter h |

### Other disagreements met

They were met while modelling and follow from the code; no run of this project
expects a failure for them, but the models behave as described where the text
names one.

* `README.md:42` tells the user to write `-cn=<arg>`, which is the group of
  short options that begins with `-c`: it clears the segment and ends. The
  message at `Stringless.cc:266` says `-f/--flp`, the flag is `-p`. A ratio such as `.5` passes `strtod` and makes
  `std::stoi` (238) throw (`UsageObeyed` has this among what it says).
* `FaceDetector.cc:288`: *Clear*, chosen after the read at 287, is overwritten
  by `SHOW_NEUTRAL_FACE`. `FaceDetector.cc:275`: an image set after the menu hid
  the camera stays behind the overlay. Lines 163 and 165 give two items the
  hot key C: one key press runs both.
* `StringlessMayaDevice.cc:104`: a device maps the segment once; after an
  orderly end and a new start of the server it goes on reading the old one.
* `StringlessMaya.mel:507`: the script's comments number the joints from 0,
  `LeftCheekUpper` (17), to 67, `LipLowerInner1` (419), as the landmarks are
  numbered. The list `connectNodes` goes through begins with `Face`: landmark 0
  drives the parent of all joints, landmark k the joint numbered k - 1, and
  joint 67 is driven by none. `LandmarksDriveRig` states the connections as they
  are made.
* `StringlessMaya.mel:515`: a later calibration may store anchored offsets as
  the new neutral face (`compute`'s early return at
  `StringlessMayaDevice.cc:247`).
* `base_widgets.cpp:1222`: `b1_up` and `b2_up` stop a button's timer, but an
  event the timer has posted is still delivered, and `b1_down` and `b2_down` do
  not ask whether the button is held: they move the slider, call the scroll
  handler (which `base_widgets_abstract.h:874` promises for what the user does)
  and start the timer again. The bar scrolls on to its end with nobody holding
  it, and the next press begins at the shorter delay. The fillers look where the
  mouse is first (1104). ScrollBar has these steps (`on_user_event` of a part
  that is not depressed); what is proved of the slider holds in them too.
* dlib: `is_mapped` is never cleared, so a hidden popup handles late events
  (`gui_core_kernel_2.cpp:666`); `popup_menu` is destroyed before its window is
  closed (`base_widgets.h:1853`); `should_respawn_` is uninitialized
  (`threaded_object_extension.cpp:15`); a pool destroyed at exit may drop a
  function it had accepted (`threads_kernel_shared.cpp:139`); user events are
  stuck once no thread could be started (`gui_core_kernel_2.cpp:1545`); a timer
  stopped and started while it acts may act again without the delay
  (`timer.cpp:166`); a button disabled while it is held misses its release
  (`base_widgets.cpp:543`) and stays pressed until the mouse moves over the bar
  enabled again.

### Bounds

* *Parts of a record.* Two parts suffice for a torn copy: one from each pair.
* *Frames.* The writer's state repeats with period two after the first call;
  five frames are two pairs and a first frame, and a copy can overlap two
  writes. The proofs need no bound.
* *Devices.* One in `capture`: there devices share only the spin lock, given back
  in every round (`SpinLockHolder`; the proofs are for any number of devices).
* *Pool of buffers.* Two buffers let one be queued while another is filled; the
  code's 24 only makes the queue longer. The proofs are for any size.
* *Servers.* Four runs allow one to die, one to take over, one to remove and
  one to begin anew.
* *Frames of FaceDetector.* A face is lost after five failed detections, at
  rate 2 after ten frames; frames 0 to 10 reach the fifth miss after a success in
  frame 0, and a face that was not there at first may come in late. What comes
  back after a loss is left to the proofs, which have no bound. Two areas and two faces distinguish the largest from the
  first.
* *Calibration.* Three landmarks let a record arrive before, in the middle of and
  after the loop; two rounds let the second begin from what the first left,
  and fail (amplification 0.5 divides by zero).
* *Options.* Three uses: one that takes an argument, one it may swallow, and one
  that decides what the end means. `Documented` in MCServer lists the forms.
* *Timers.* Two timers with delays 1 and 2: one entry may be earlier or later
  than another, or equal.
* *Scroll bar.* The range takes the values 1 and 2 on a track of two cells, so
  that it grows and shrinks under the slider and a place may stand for two
  positions. A timer ticks, a filler is pressed and a part drawn finds itself left
  only when nothing that was posted is still to be delivered; what is delivered
  may post more. Releasing,
  leaving, dragging and changing the range are never held back.
  A range of 0 disables the bar and lets its parts stay held; it multiplies the
  states beyond what TLC does in minutes and is left to the theorems, as are
  longer tracks.
* *Menus.* Two waiting events suffice for one that was meant for a popup that
  the other hides.
* *Mutex.* Three threads: an owner and two that wait for different reasons; two
  nested locks; four calls of `lock` and `wait`: two waiters that lock and wait
  and a third thread that tells them, or one of them nested.
* *Pool of threads.* Three functions and three threads: one busy, one asleep and
  one whose time is up; a third caller finds the slot full.
* *User events.* Two posts and two threads: one thread delivers while the other
  is out for the next event. The proofs are for any number.

`CHECK_DEADLOCK FALSE` is set where the system may really stop: the writer after
its last frame, servers that have all ended, a closed window. The runs of MCMaya,
MCServer and MCThreads check for deadlock; the parts that may stop for good have
a stuttering action of their own there (`Stop`, `MainIsDone`).

### Fairness

* *Capture*: weak fairness of the writer (the server loops until its window is
  closed; the property is about what happens after its last frame), of the
  device's thread (it loops without blocking; the spin lock has one user) and of
  `Compute` (the node registers `outputTranslate` as an output Maya refreshes,
  so Maya keeps asking). Nothing is assumed of the user, of Maya's starting and
  stopping threads, or of failures. `LastPairShown` is conditional: the device
  stays live and running, and failed computes do not eat the whole pool.
  Liveness is checked with one device, since `MSpinLock` promises waiting
  threads no order.
* *Calibration*: a script that has begun goes on; nothing else has Maya's main
  thread until it ends.
* *ThreadPool, ThreadedObject, UserEvents, Window*: a thread that can run does
  (weak fairness of its steps). Strong fairness is assumed where a thread waits
  for a mutex that others keep taking (`UserEvents!Acquire`), that is, that the
  system's mutex starves no thread; and of `should_stop()`, which a thread's
  function calls now and then. Nothing is assumed of time-outs, of failures to
  start a thread, of new calls, of the user, or that `thread()` ever returns of
  its own accord.

## 4. What is proved

All theorems are for every value of the constants, from the modules' named
assumptions only. Every safety property of a passing run is a theorem, and so
are safety properties that some of the liveness properties rest on. TLC checked
each inductive invariant on a small instance before it was proved.

* **CaptureProofs.** First the writer alone: `WriterInv` = types, `Pairing` (what
  the members say of each other: a second frame is due exactly when
  `first_frame` is the frame before, and it is junk only for pair 1) and
  `PartsKnown` (each part of the segment is the settled pair's unless it has
  been stored in this call). `SegmentHoldsAPair` alone is not inductive: it says
  nothing during a call. From it follow `WriterPairs` and, step by step,
  `WriterRefinesRegister`: `BeginPair`, `StorePart`, `EndPair` are `Begin`,
  `Replace`, `End`; the other two branches stutter. `CaptureInv` adds to that
  the accounts of the buffers, the holder of the spin lock, and `Ordered`: for
  one part of one device, output <= queue, oldest to newest <= copied part of
  the buffer <= segment. The chain is what makes `OutputNeverGoesBack`
  inductive, and its upper end with `SinceSettled` gives `CopyIsRegular`. The
  writer's steps only raise the upper end (`SegmentMovesForward`).
  `CaptureFirstFrames` is a second, smaller induction on the parity of frame
  numbers, and `CaptureRefinesRegister` carries what the writer implements over
  to the composition, where devices only read. `CaptureShutdown` follows a
  device's thread that was told to end: nothing takes that back while it is in
  its loop, and each of its steps leads to the next place or copies one part
  more. (That it can be taken back before, in `threadHandler`'s first statement,
  is one of the hazards.)
* **SharedMemoryProofs.** `SharedMemoryInv` says for every segment who opened
  it, who holds its name and who is to blame if it has no size.
  `SharedMemoryFaults` assumes at most one device: with two it is false, as
  `shared_memory_address` shows.
* **FaceDetectorProofs.** `Counted` ties `frame_count` to the last detection and
  to the misses counted since, so that `Kept` can say which frame's landmarks
  are published: this one's, or those of the last frame before the face was
  given up. `Fitted`: no face in view is larger than the one the pose is of.
  `Drawn` says what the window shows after each of the loop's tests, given that
  nothing was chosen from the menu since the iteration began; without that
  hypothesis it is false, which is how a capture is missed in
  `face_detector_neutral`.
* **MayaProofs.** `CalibrationInv` says what a script that is in its loop has
  stored (`Storing`: landmarks below `i` are of this round and come from records
  no later than `output`; all the others are of one earlier round) and that
  there are records only once `live` has been unlocked (`Unlocked`). The order
  in the queue (`Records`) gives `NeutralInOrder`. An anchored output needs a
  record and, by `Storing`, no running script, hence `AnchoredToWholeNeutral`;
  that a division by zero ends the script with `i` at the first landmark is the
  part of `Storing` this rests on. `RigInv` counts, procedure by procedure,
  which joints, conversions and connections a face has. That the script's two
  lists of names are the same list but for their first element, and that no name
  is in it twice, are lemmas about the lists themselves (`NamesAreJoints`,
  `NamesDiffer`); on them rest `RigComplete`, that no `connectAttr` fails, and
  `RigLandmarks`: who drives what is in `RigInv`, `FollowIs` turns it into what
  follows a landmark through the one level of parents there is. `CalibrationAdvances` is the safe half of `CalibrationEnds`:
  the script's empty loop, which holds Maya's main thread, finds `live` off at
  once (by `Unlocked`, a device that is live is not locked, so turning it off is
  not refused), and every command lowers the number of commands left.
* **RecursiveMutexProofs.** `CoreInv` is the CONVENTION dlib states of
  `rmutex`'s members, which alone is not inductive, and `Remembered`: a thread
  that does not run will lock as often as its caller believes it has. `UserInv`
  stands on it: a thread that has tested the flag and not yet waited owns the
  lock and the flag is still false (`TestHolds`, by `OneInside`), the broadcast
  comes after the flag (`ToldIsSo`), and nobody broadcasts while a thread gives
  up its locks in `wait`; from these `MutexHeard`, that no thread sleeps through
  the window's end. With the
  CONVENTION the abstract lock is a function of owner and count, so
  `MutexRefinesLock` needs only that the owner changes when the count is 0.
* **ThreadedObjectProofs.** `Respawning` says where a restart is on its way:
  in a turn that has not called `thread()`, or in `should_respawn_` of a thread
  that is still there. With `AliveIsThread` it gives `RestartRuns` and
  `OneThread`; that sleepers are awake when they should be is inductive.
* **ThreadsProofs.** User events: `MutexHeld` (who works on the queue has the
  window's mutex, so a swap leaves the queue empty) carries `OneOut`, which is
  `OneThreadForTheQueue` without cardinalities; `EventOrder` is the chain
  delivered < taken < queued, widget by widget, whose first link is `InOrder`.
  The pool: the counts are cardinalities of sets of threads by where they are
  (`Counted`), the roused and the timed out included, as they leave the pool
  only once they have the mutex again; `ThreadPoolIdle` says that the pool is
  destroyed with nothing under way. Beside it stands `HandOver`, for what is
  handed over: a function somebody waits with is new and nobody else's
  (`AskedOnce`), from which `CalledOnce`; and whoever empties the slot signals a
  caller that sleeps (`CallersWake`). The window: before it is shown nothing
  comes from the X server (`NothingSent`) and its entry in the table outlives no
  part of it (`KnownIsBuilt`). `HandlerInv` follows the event thread from its
  broadcast to its exit event: the event is in neither queue before
  `~event_handler_thread` (`ExitNotBefore`), so the thread has not ended, and it
  is not lost between the queue, the socket and `poll` while `main` waits
  (`ExitComes`). That it was put back *and* sent is needed: put back alone, it
  would not wake a thread about to poll. `Cleaning` follows the table and the
  segment's name to `EndsClean`. The mutex and the threaded object are in this model by
  INSTANCE, and so are their proofs (`MutexIsLock`, `MutexHears`,
  `ObjectsRestart`).
* **ServerProofs.** Timers: every step of `Timer` is a step of `ThreadedObject`
  or none (`TimersAreObjects`), so its invariant holds of the timers' threads;
  `TimerInv` adds that only a running timer has an entry (`Scheduled`), that none
  ever pauses, and that a client that waits has stopped the timer it waits for
  (`Stopping`). The bar's invariant is that the slider's place and the position
  agree within one rounding (`Agree`); `PlaceAgrees` and `PositionAgrees` say that
  either one, computed from the other, does, and `PutGood`, `PressedGood` and
  `DraggedGood` that the handlers do nothing else to them, from which
  `BarShows`. The menus' invariant is little more than types: the work is in the
  handlers, each of which, run on any state, leaves a menu it opens unselected. The command line
  is `FlattenSeq` of what was written for each use; `Flattened` says that it can
  be cut at every use (`Splits`: what came before, what comes after), for a list
  of any length. `MainInv` then is: while it parses, the parser has stored the
  first `k` uses and has the rest before it, but for the second letter of a
  group (`Parsed`); in its loop, `main` has set what the first `d` uses say
  (`Applied`). Each of the seven ways to write a use is covered by a lemma
  (`ReadLong`, `ReadShort`, `ReadLongArgument`, `ReadShortArgument`: the parser
  takes that use, whole, or ends as promised). A height given by its letter ends
  the list (`ReadHelp`, `NumberIsNoOption`): from there on the parser is either
  at an argument that is no option or has failed (`HelpedStep`). `UsageMeans` is
  `UsageObeyed` for any list of uses with any arguments.

`MayaSafe`, `ThreadsSafe` and `ServerSafe` put the parts back together: a step of
the model is a step of one part and leaves the others alone, so the model has
what is proved of each.

Two facts need an induction: that a finite set of numbers has a least or
greatest element (the largest face, the next timer), and that a concatenation
of sequences can be cut anywhere (the command line). The library's induction
theorems cannot be used with the provers at hand, so these are proved from a
minimal counterexample (`WFMin` in the library's order on natural numbers).

Only model-checked: liveness (`LastPairShown`, `ShutdownHonoured`,
`CalibrationEnds`, `AcceptedRuns`, `StopEnds`, `EventsAreTaken`, `ServerEnds`),
which is out of the prover's reach. For six of the seven, theorems exclude the
ways in which what is waited for could be lost, or say that each step brings it
nearer; that the steps are taken is fairness, and stays with TLC:

| liveness | theorem |
|---|---|
| `CalibrationEnds` | `CalibrationAdvances` |
| `AcceptedRuns` | `ThreadPoolTaker`, `ThreadPoolOnce`, `ThreadPoolCallers` |
| `StopEnds` | `ObjectSleepers` |
| `EventsAreTaken` | `EventsOneThread` |
| `ServerEnds` | `WindowExit`, `WindowEndsClean` |
| `ShutdownHonoured` | `CaptureShutdown` |

`Rig`'s 68 landmarks are the script's own number, not a bound.

## 5. Not modelled

Most of the repository is a copy of dlib, and most of that is numerical or never
reached by the server: linear algebra, optimization, networks, machine learning,
image processing, file formats, the other widgets, the Windows variants of every
kernel. What the server takes from the detector and the shape predictor is in
the inputs of FaceDetector. Of what it does run:

* the values of landmarks and coordinates, image processing, the frame-rate
  counter, window sizes, drawing, printing;
* overwriting the static `Reader` (and its mutex) while another thread is
  inside `read()`; mmap failing for an open descriptor;
* Maya's dependency graph beyond what `compute` and the scripts use of it; the
  X server beyond a queue of events per window;
* submenus and separators (the server makes none), the scrollable region around
  the scroll bars, `show`, `hide` and `set_length` of a bar;
* the pool's registry of thread-end handlers (the server registers none), the
  destruction of the timers' clock at exit;
* plug-in registration and attribute declaration, which run once; the build.

## 6. What could come next

What the plan of this project named is done. Beyond it:

1. **More than one segment's contents** in SharedMemory, for a device that goes
   on reading the segment of a server that has ended, and a **device's thread
   from its creation on** in ShutdownHonoured, for a shutdown that comes before
   the thread's first statement. Both are in the list of hazards without a
   property.
2. **LastPairShown**: a measure of what is queued before the newest pair, the
   one liveness property that no theorem stands behind.
3. **`show`, `hide` and `set_length`** of a scroll bar, should the window come to
   use them.
