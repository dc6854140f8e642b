# Verification of video_detection

`video_detection` pulls pictures from cameras, runs a neural network on each of
them and shows what it found.  Every camera has a decoder object with a thread
of its own; the detector has another thread; they meet in one queue.  This
directory holds TLA+ models of the parts where the order of events matters,
configurations that check them with TLC, and proofs checked by TLAPS.

    tlc -workers 2 -config DetectionQueue.cfg MCFrameHistory.tla
    tlapm DetectionQueueProofs.tla

`PROJECT.json` names, for every definition, the lines of the source it stands
for, and lists runs, mutants, hazards, findings and theorems.  Paths below are
relative to `src/src/` unless they begin with another directory of `src/`.

## 1. Inventory

    main ──creates, Start()──> detector thread: Run ──> YOLO / DetectImg (GPU)
      │                              ▲ front, pop
      │                         g_imageQueue, lock_p
      │                              │ push (drop the oldest)
      └─creates, Start(),──> decoder threads: Run ── EventMessage ── m_callFun
        connectMessage()       ffmpeg, HK SDK, capture, opencv        = eventFunc

**main and thread lifetimes** (`main.cpp`, `threadPtr.cpp`,
`objdetection/objdetection.cpp`, `objdetection_manager.cpp`).  State: the
detector, one decoder per camera and its thread, `autoDelete_`, `m_recver`,
`m_callFun`.  Operations: `CreateDetection`, `iniModel`, `ini…`, `Start`,
`connectMessage`, return.  Hard: a decoder is owned by a `shared_ptr` and by its
own thread, which deletes it; it is started before it is connected; main
returns when one camera of DecodeType 2 fails, with threads running.  Correct
when: nobody uses a deleted decoder, nothing is deleted twice, a decoder that
calls reaches a running detector, one bad camera does not take away the others.

**Detector image queue** (`eventFunc` and the first half of `Run` of every
detector, e.g. `objdetection/fyApplyYolov8.cpp`).  State: `g_imageQueue`,
`lock_p`, the pixels behind the shallow `cv::Mat`s.  Operations: test, take,
push, displace.  Hard: two separate critical sections in `Run`, displacement by
other threads in between, shared pixels.  Correct when: `front()` never meets
an empty queue, the capacity holds, order per camera is kept, only overflow
loses pictures, and what the network sees is one picture of one camera.

**ffmpeg decoder** (`ffDecodecpu.cpp`).  State: six ffmpeg objects held by
members, `video_index`, the attempts to reconnect.  Operations: `init`,
`release`, the packet loop, reconnection.  Hard: `init` may fail at nine places
and is run again with what an earlier connection left.  Correct when: no member's object
is lost or freed twice, packets are read only with all of them, the index
belongs to the present connection, all attempts are made and then the thread ends.

**HK real-time decoder** (`DecodeHK.cpp`).  State: the port, `stop_`, the buffer
of the play library.  Operations: login, real play, the stream callback, the
decoder callback.  Hard: callbacks on the threads of two libraries with a raw
`this`; a full buffer.  Correct when: the pointer is valid in every callback and
the stream thread always returns.

**Yolo inference** (`tensorRT/utils/yolo.cpp`, `kernel_function.cu`, `yolov8/`,
`yolov8-seg/`, `yolov8-pose/`, and the second half of `Run` of the `fyApply`
detectors).  State: device buffers that survive from picture to picture, the
result.  Operations: `copy`, `preprocess`, `infer`, decode kernel, two nms
kernels, `reset`; segmentation and pose draw from the rows instead of collecting
them.  Hard: GPU threads in any order, at most `topK` rows, equal confidences,
stale buffers.  Correct when: the result is what was found in this picture, no
matter the order.

**tensorRT demo applications** (`tensorRT/yolov5` ... `yolov8`, `utils.cpp`): the
same class YOLO, with batches of several frames, reading an image, a video or a
camera in `main`.  State: the batch, `batchi`, the slots of the device buffers.
Operations: read, `task` (copy, preprocess, infer, postprocess, show, save,
reset).  Hard: the last batch fills fewer slots, or none; the number of batches
comes from what the container announces; kernels on grids rounded up to blocks.
Correct when: the network sees the frame, scaled and padded, each frame is shown
once with its own objects under its own number, and none is left out.

**wx detection** (`yolov5_v7/`, `objdetection/wxApplyYolov57.cpp`).  State: the
output buffers, the vector `nms()` walks along and erases from.  Hard: indexes
and a reference into that vector, the threads of `CalDetection`, stale rows.
Correct when: every suppression is justified by an object that is shown.

**HK capture and opencv decoders** (`captureHK.cpp`, `DecodeOpencv.cpp`): loops
of one picture per period that keep no state except `frame`.  Their life is part
of the start-up; a picture that cannot be read makes `cv::resize` throw and ends
the process.

**Depth detector, wx segmentation**: the queue of `DetectionQueue`; the latter also
the kernel and the `nms()` of `WxDetection`.  What they add is arithmetic on pixels.

Section 6 says what is not modelled.

## 2. The modules

| module | models | built on |
|---|---|---|
| `FrameQueue` | abstract: a first-in first-out buffer that drops the oldest | |
| `DetectionQueue` | `eventFunc` and `Run`, one action between two accesses to shared state | refines `FrameQueue` |
| `FrameHistory` | the same with the journey of one marked picture | `DetectionQueue` |
| `Startup` | main, the decoder threads as far as main sees them | |
| `FFDecoder` | `ffDecodecpu` | |
| `DecodeHK` | `DecodeHK` with the two libraries around it | |
| `DetectionResult` | abstract: what a detector may show for a picture | |
| `YoloDetection` | one detector thread of the YOLO family and its kernels | refines `DetectionResult` |
| `WxDetection` | the same for the wx detectors | refines `DetectionResult` |
| `PictureKernels` | the kernels around the network as operators on buffers, and what their chain should compute | |
| `BatchApp` | main and task of the demo applications | `PictureKernels` |
| `DetectionQueueProofs` | theorems: the queue, its refinement, the marked picture | `FrameHistory` |
| `FFDecoderProofs`, `StartupProofs`, `DecodeHKProofs`, `WxDetectionProofs`, `YoloDetectionProofs` | theorems | the module of that name |
| `BatchAppProofs` | theorems: how main counts frames, batches and files | `BatchApp` |
| `NetworkInputProofs` | theorems: what the kernels compute | `BatchAppProofs` |
| `MC…` | values of the constants for TLC | the module of that name |

**DetectionQueue.**  The program counter of a camera (`cpc`) and of the detector
(`dpc`) stand at the places where another thread may come between: before and
after each lock, between the capacity test and the push, between `front()` and
`pop()`, between the two halves of a picture that is written or cloned.  A
record owns its pixels, or refers to those of its decoder: `ReusesBuffer` is the
difference between `DecodeHK`/`captureHK`, which make a new `cv::Mat` for each
picture, and `ffDecodecpu`, which copies each into `curFrame`.  The
detectors `fyApplyYolov5`, `7`, `8`, `Seg`, `Pose`, the wx ones and the depth
one have the same two functions.  (They all read `g_bufsize` from the
configuration and none uses it: the capacity is the literal or default 100.)
That `Run` skips a picture whose `cv::Mat` is empty is left out: no decoder gets
an empty one as far as the queue.

**FrameHistory.**  No thread looks at what a picture shows, so a picture needs no
number: one camera is the `Witness`, exactly one of its pictures is marked, and
what it shows before and after is "before" and "after".  Any picture may be the
marked one, so what holds of it holds of each of any number of pictures.

**Startup.**  `connectMessage` is three steps since a `std::function` is two
words which the decoder may see one without the other: `EventMessage` tests
the manager, the call jumps to the invoker, and between the two assignments it
jumps to a null pointer (`CallUnset`).  `Start` is two steps, since
`pthread_detach` reads a member of an object the new thread may have deleted.
A configured `AIType` without a class gives a null pointer that main uses
(`LoadModel`, `crashed`).  An engine that is missing ends main in three ways
(`WithoutModel`): the fy classes return -1, the wx ones fail an assertion (the
build is a Debug build), the depth one uses a null engine.

**FFDecoder.**  `heap` counts live objects per member and `field` the members
that are not null; a leak or a double free is a difference of the two.  Steps of
`init` are a sequence so that failing at any of them is one action.  `fails` is
auxiliary.

**DecodeHK.**  The callback is one action per call of the play library that may
fail.  `local` is the variable `nPort` of the callback, which hides the member.

**YoloDetection.**  Each GPU thread takes its row and fills it in two steps;
each thread of an nms kernel is one step, in any order.  `kind` is the class of
the detector: `yolov8` uses nms kernel V2, the others V1; `pose` knows one label;
`seg` and `pose` draw the kept rows, `seg` not those whose box is `Empty` after
rounding and clipping.  `CallsCopy` distinguishes `fyApplyYolov7`, whose `Run`
never calls `copy`.  Boxes are model values with a confidence, a label and an
overlap relation: everything the kernels compare.

**WxDetection.**  A thread of `CalDetection` walks the anchors of its cell.  The
three loops of `nms()` are actions over `classes`, `m` and `n`; `std::sort` is
any arrangement in order of confidence.

**DetectionResult.**  Take a picture, show a result, turn to the next.  The
result may be a fault (network failed, memory never cleared); otherwise it is a
set of objects of this picture, each once, no two of a label overlapping, and a
surest one of every label if there was room for all.  `view` holds what the
detector adds: its labels and the objects it cannot draw.  Both detection
modules map their program counter and result to it.

**PictureKernels.**  A buffer is a function from 0.  `Kernel` is the buffer after
a launch: the threads <<dx, dy>> that exist in the rounded grid and pass the guard
write, all else stays; since no thread reads what another writes, a kernel is one
step.  Coordinates are exact fractions where the code has floats, so the rounding
error of a float is not modelled; the subtraction and division of `norm_device`
are abstracted to a number that still tells value and channel.  `Letterboxed`
states the result without buffers: bilinear weights as a tent function, outside
the picture the padding.

**BatchApp.**  One action per step of `main` and `task`.  The network is
recognised by its input: it answers what belongs to the frame whose reference
input stands in the slot, and something else (answer 0) for any other input.
`NetworkAssumption` says it is a function: equal inputs, equal answers.
A slot has `topK` rows and a count that goes on beyond them: `Postprocess` gives the
rows to any `topK` of the candidates above the threshold when there are more.
The nms kernel and its keep flag are left to `YoloDetection`: here an object that
has a row is shown.
`window` and `files` record what `show` and `save` do with the results.  Looking
at `imgsBatch[0]` of an empty vector is undefined: the program goes on, or
`ShowEmpty`.

## 3. The runs

| run | distinct states | expected |
|---|---|---|
| `DetectionQueue` | 69 841 | pass |
| `DetectionQueueAlias` | | `PictureIntact` violated |
| `Startup` | 4 401 | pass |
| `StartupReturn` | | `LifetimesAgree` violated |
| `StartupConnect` | | `MainUsesLiveDecoder` violated |
| `FFDecoder` | 547 | pass |
| `DecodeHK` | 1 145 | pass |
| `DecodeHKStuck` | | `DecodingGoesOn` violated |
| `YoloDetection` | 1 477 498 | pass |
| `YoloNoCopy` | | `ResultOfPicture` violated |
| `BatchApp` | 34 274 | pass |
| `WxDetection` | 50 229 | pass |

`DetectionQueue` (module `MCFrameHistory`): two decoders, a queue of three
records, one marked picture among any number.  Two decoders are
enough for one to displace while the other waits and the detector stands between
its sections; with capacity three the queue is empty, partly full and full, and a
displaced record is not the only one.  No bound cuts behaviours off: the
cameras run for ever and may deliver any number of pictures.  Shown: mutual
exclusion, no `pop` on an empty queue although decoders pop between test and take
(they always push again before they unlock), the capacity, pictures of a camera
in order and none twice, a picture lost only when `Capacity` others came after it,
that all of it implements `FrameQueue`, and that waiting records get the detector
to take one and callbacks return.  Whether the network gets the pixels that were
queued is a question only where they are shared: `DetectionQueueAlias` asks it.

`Startup`: three cameras, each `DecodeType` 1 to 4, an `AIType` of each family and one
without a class.  Three cameras let the first be running, the second fail and the third
still wait.  Shown: until main returns threads and objects live
equally long, nothing is deleted twice, and the only deleted decoder main may be
using is the one it has just started, whose thread has ended; a decoder that calls
has a receiver, a running detector and a function to jump to, except the one main is
connecting at this moment; with types 3 and 4 every camera gets its turn.
What main does with a decoder that is gone is the finding `StartupConnect`, what
happens after the return `StartupReturn`.  The end of a video (type 1), where
`cv::resize` throws on an empty picture, is the step `Throw`, which ends all.

`FFDecoder`: three attempts (`rccount`, ten in the code) so that first, middle
and last differ; five stream lists, among them one whose streams come back in
another order and one without video.  Shown: ownership, completeness before
reading, the index of the present connection, the full number of attempts for
each loss, and that a loss ends in packets, in the end of the thread, or in
`streams[-1]` (`crashed`: the camera's first connection offers no video, or a later one has
fewer streams than the index needs).

`DecodeHK`: two ports so that a second header after a reconnection gets another
one, buffers of two packets.  Shown: `this` is alive in every callback, and
while a callback waits for room the play thread makes some, so that the retry on the
member's port would succeed: what keeps the stream thread in `DecodeHKStuck` is the
wrong port and nothing else.

`YoloDetection`: five boxes and three rows; pictures with a chain of overlaps,
with equal confidences and two labels, with a box that cannot be drawn, and with
more objects than rows; all four kinds of detector.  The state carries over from
picture to picture without a bound.
Shown: no two threads share a row; with distinct confidences the result does not
depend on the order of the threads; and the detector implements
`DetectionResult`.  Excluded (`Fault`): the first picture (uninitialised device
memory) and a picture whose `executeV2` failed; the last clause of the promise is
for pictures whose objects fit into the rows, since beyond them the code drops
the threads that come last.

`BatchApp`: up to five frames, batches of one (an image), two and three: full
batches only, a rest, an empty last batch; videos that announce more or fewer
frames than they have; a camera.  A frame of 3x2 shrunk to 2x2 and one of 1x2
enlarged and padded to 3x3, blocks of two threads a side, so that every buffer
ends within a block and every border case of the interpolation occurs.  Three
candidates with two classes, above, at and below the threshold, with ties; two
rows in a slot, one too few for the fourth frame.
Shown: the network's input is the letterboxed frame in planes of red, green and
blue; each frame gets its own objects, whatever the slots held, all of them or, if
there are more than rows, `topK` of them; frames are shown
and saved in order, once, under their number; none that was announced is left
out; an empty batch reaches `task` only when a stream ended early or a camera was
unplugged; main ends.  What the bounds leave out: the engine's limit on the batch
size, which `init` asserts.

`WxDetection`: six objects in three cells, four rows; the same kinds of pictures
plus objects below `kConfThresh`, and a network that may fail.  Shown: the
reference `item` and the index `n` survive the erasures; what is suppressed is
suppressed by an object that is shown; nothing is lost but to a full buffer; the
detector implements `DetectionResult`; every picture is shown.

### Findings

- `DetectionQueueAlias`: `ffDecodecpu` overwrites `curFrame` while records that
  refer to it wait, so the network may see a later picture or a mixture of two.
- `StartupReturn`: when a camera of DecodeType 2 fails, main returns and deletes
  decoders and detector under running threads.  (A thread that ends at the same
  time deletes its decoder a second time.)
- `StartupConnect`: a decoder whose login fails may be gone before main has
  detached and connected it.
- `YoloNoCopy`: `fyApplyYolov7` never copies the picture to the device.
- `DecodeHKStuck`: a failing `InputData` is retried on the local port -1, which
  never succeeds, and the stream thread is stuck.

Also seen: the types 3, 4, 6, 102 and 202 that `bin/properties.ini` lists have no
class; the options dictionary of `init` and a packet that the codec refuses are
never freed; `captureHK` tries a failed capture again without a pause, and always
captures channel `byStartChan`; a decoder that calls while main is between the two
words of its `m_callFun` jumps to a null pointer although the function tests true, so the
answer `src/README.md:107` gives to `bad_function_call`, to test it first, is not
enough as long as `Start` comes before `connectMessage` (TLC refutes `ReceiverReady`
without its exception in a dozen steps); a camera that comes back without a video keeps
the index of the stream it had; the demo applications return -1 also when all went
well; `yolov8SegDect` and `yolov8PoseDect` end without a return value; the
segmentation and the pose detector read a section `switc` of the configuration.

### Fairness

`DetectionQueue`: a thread that can move does (weak fairness), and a thread that
keeps asking for the mutex gets it some day (strong fairness on the three lock
actions).  POSIX does not promise the latter for a default mutex; it is
reasonable here since every other thread decodes a picture, runs a network or
sleeps 10 ms between two critical sections.  No camera has to deliver
anything.  `Startup`: only main proceeds; it never waits.  `FFDecoder`: calls into
ffmpeg return, which `stimeout` ensures for the blocking ones.  `DecodeHK`: the
threads go on and the camera sends while it is asked to.  `WxDetection`: kernels and
the detector thread go on.  `BatchApp`: main is one thread that runs; reading a
frame and `waitKey` return.  The other runs state safety only.

## 4. The proofs

Every invariant and every refinement of the runs that are expected to pass is
proved for all values of the constants; what remains with TLC is liveness.  Each
inductive invariant below was checked by TLC on the instance of its run
before it was proved.

### Queue (`DetectionQueueProofs`)

| theorem | states |
|---|---|
| `HandOverInvariant` | `Spec => []HandOver` |
| `TypeCorrect`, `CriticalSectionsExclude`, `PopNeverEmpty`, `QueueBounded` | `TypeOK`, `MutualExclusion`, `NoPopOnEmpty`, `Bounded` |
| `QueueRefinement` | `Spec => ImplementsFrameQueue` |
| `NetworkSeesInOrder`, `OverflowOnlyLoses` | `InCameraOrder`, `LostOnlyToOverflow` of `HSpec` |

`NoPopOnEmpty` is not inductive.  `Run` unlocks after it has seen a record, and
a decoder may pop it before `Run` takes it.  `HandOver` adds `StillServed`: after
the test has found a record the queue is not empty, or a decoder has popped and
not yet pushed, and that decoder owns the mutex `Run` still needs.  Mutual
exclusion turns this into a non-empty queue at `front()`.  The capacity needs the
other half of the same window: between pop and push there is room for one.

The refinement maps a put to the capacity test and a take to `front()`.  In
between, the abstract queue already contains the record to be pushed, or no
longer the one to be popped; mutual exclusion makes sure only one of the two is
the case and that the decoder in the window is unique.

The order of the pictures needs one order over all the places a picture may be
in.  `OrderInv` says that along camera, queue, `video_data` and `analysed` the
kinds of the Witness never go back.  `LostInv` ties the count of later records
to the place of the marked one: while it waits, as many records lie behind it as
were pushed after it, so that it is at the front, and can be displaced, only
after `Capacity` of them.

The last two theorems assume that `ReusesBuffer` is false.  Otherwise TLC finds
both properties violated.  With it, that a picture arrives as it was queued is no
more than a lemma (`PicturesArriveIntact`); without it, `DetectionQueueAlias`
refutes it.

### ffmpeg decoder (`FFDecoderProofs`)

`DecoderInvariant`; `DecoderTypeCorrect`, `NothingLeaks` (`MembersOwned`),
`ReadsWhenReady` (`ReadyToRead`), `IndexIsCurrent` (`VideoIndexCurrent`) and
`GivesUpLate` (`GivesUpAfterAllAttempts`), for any number of attempts and any
stream lists.  `MembersOwned` alone does not say which members a failing step
finds set; `StepsTaken` does: those the steps of `init` so far acquire.  The
attempts are counted twice, by `ri` and by the auxiliary `fails`, and agree from the loss of
a connection on.

### main and threads (`StartupProofs`)

`StartupInvariant`; `StartupTypeCorrect`, `OwnersDoNotMeet` (`SafeUntilReturn`)
and `CallsAreReceived` (`ReceiverReady`), for any number of cameras.  The
invariant relates what main has done with a camera to what its thread may be
doing: main starts a thread only for a decoder it has just created.  Both properties
state the finding's limits rather than its absence: main's own use of a deleted
decoder is confined to the camera it has just started, after `pthread_create` and
with a thread that has ended, and a call through an unset invoker to the camera
whose function main is assigning.  Two more theorems
delimit the findings: without a camera of type 2 the ends of threads and objects
agree even after main has returned (`LifetimesWithoutFfmpeg`), and with type 4 only
main never uses a decoder that is gone (`CaptureIsConnectedAlive`).

### HK decoder (`DecodeHKProofs`)

`HKInvariant`; `HKTypeCorrect` and `CallbacksMeetDecoder` (`UserAlive`), for any
ports and buffers.  Nothing in the code ties a callback to the life of the
decoder; the stream does: `Run` returns only if it never had one, and every
callback began with one.  `RetryIsForEver` is the safety half of the finding
`DecodeHKStuck`: a callback in that loop stays in it.

### Detection (`WxDetectionProofs`, `YoloDetectionProofs`)

For any pictures, objects and overlap relation that is symmetric, any number of
threads and rows, and threads in any order:

| theorem | states |
|---|---|
| `WxInvariant`, `WxTypeCorrect` | the inductive invariant, `TypeOK` |
| `ItemStaysGood`, `DropsAreJustified`, `NothingIsLost` | `ItemStays`, `DropsJustified`, `NothingLost` |
| `WxKeepsPromise` | `Spec => ImplementsDetection` |
| `YoloInvariant`, `YoloTypeCorrect` | the inductive invariant, `TypeOK` |
| `RowsStayApart`, `OrderIsHidden` | `RowsApart`, `OrderOfThreadsHidden` |
| `ResultOfCopiedPicture` | `ResultOfPicture`, where `Run` calls `copy` |
| `YoloKeepsPromise` | `Spec => ImplementsDetection`, where `Run` calls `copy` |

Both invariants have a part for the decode kernel: a row up to the count is
reserved by one thread or holds an object of this picture, and as long as
there is room the count is that of the threads that took one.  For `nms()` of
wx it continues with three loops: the vector stays sorted, the item is
still at its place since only elements behind it are erased, what lies between
it and `n` does not overlap it, and every object of the picture is in the vector, in a
class that is still to come, shown, or overlapped by one that is shown.  For the GPU
it says what `keep` must be after the threads that ran.  In both it holds
only once the buffers are of this picture (`fresh`, `cleared`).  Without `copy` the
Yolo promise does not hold: the finding `YoloNoCopy`.

### Demo applications (`BatchAppProofs`, `NetworkInputProofs`)

| theorem | states |
|---|---|
| `CountInvariant` | the inductive invariant of main |
| `ShownInOrder`, `NoFrameLeftOut`, `EmptyBatchMeansShort` | `FramesInOrder`, `NothingLeftOut`, `EmptyOnlyWhenShort` |
| `AppTypeCorrect` | `TypeOK`, with the size of every buffer |
| `InputIsLetterboxed` | `NetworkInput` |
| `ResultsAreOwn` | `ResultOfFrame` |

`CountInv` makes frames read, batches done, windows and files functions of each
other, for streams and batches of any length.  `InputInv` adds that no kernel
changes the length of a buffer and that after `copy` each frame of the batch
is in its slot; the chain of the four kernels is then computed pixel by pixel,
for any sizes of frame, input and block.  The lemmas on the way are of use
by themselves: `Launch(n)` is exactly the n threads that have work for every
block size; each kernel writes every element once and stays within its slot; the
interpolation the kernel writes out is the tent function of `Letterboxed`.
`ResultInv` adds that `reset` has cleared every slot of the device and of the host
and that each slot holds the answer to its frame, of which `Postprocess` keeps as many
objects as there are rows.  The two recursive definitions on
the way, the sum over the pixels and the loop over the classes, are settled by the
least case that were wrong, which needs no induction rule.

### Assumptions

Each module names what it assumes of its constants, and TLC evaluates that in
every run.  Most of it is typing, and that `None` is not a value.
Beyond that: a capacity, a number of attempts or rows is positive; `Overlaps` is
symmetric, as the intersection over union is; the pixels of a frame are bytes
and its size, that of the input and of a batch are positive (`AppAssumption`);
blocks are not empty (`KernelAssumption`); equal inputs get equal answers
(`NetworkAssumption`).  `HistoryAssumption` serves the marked picture alone.

### Only model-checked

Liveness (`WaitingIsServed`, `CallbackReturns`, `LossIsSettled`,
`RetryWouldSucceed`, `EveryCameraServed`, `PictureShown`, `AppEnds`): fairness is
about `ENABLED`, which is beyond the prover.  The five runs that end in a
violation are counterexamples and need no proof.

## 5. Plan

1. The safety halves of the liveness properties: that a thread which
   waits is never stuck for want of another's step (no deadlock), and
   measures that each step of `init`, of the loops of `nms()` and of main decreases.
2. Theorems that delimit the findings, as those of `StartupProofs` and
   `DecodeHKProofs` do: which picture a record shows at worst when `ffDecodecpu`
   shares its buffer.
3. Simpler proofs where a lemma of `NetworkInputProofs` turned out to be needed
   twice.

## 6. Not modelled

- Masks, key points, depth maps and drawing: arithmetic on pixels that no later
  step depends on.  `DetectionResult` says which objects are drawn.
- `init` of the detectors beyond its failure, the command line, `properties.ini`,
  log files and time stamps: straight lines and I/O without state.
- `model.cpp` and `calibrator.cpp`, which build wx engines offline; the unused
  structures of `globale.h`; the old copies in `ffdecode/` and `yolov5_v6/`, which
  the build leaves out.
- Vendored code: the headers of the HK SDK (`HCNetSDK.h` alone has 51 500 of the
  93 000 lines of the tree, `LinuxPlayM4.h`), jsoncpp, minIni, the headers of
  log4cplus.  The project's own code, the older copies
  included, is about 15 700 lines, many of them one text six times over: the six
  `fyApply`/`wxApply` queues, the six demo applications, the three copies of
  `decode_*.cu`.  A model maps one of the copies and names the others here, so
  the share of all lines that is mapped stays small.
