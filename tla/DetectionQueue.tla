--------------------------- MODULE DetectionQueue ---------------------------
(***************************************************************************)
(* The hand-over of pictures from the decoder threads to the detector      *)
(* thread.  Every decoder calls EventMessage, which calls through          *)
(* m_callFun the detector's eventFunc: the picture is wrapped in an        *)
(* Image_vedio record and pushed on g_imageQueue under lock_p, displacing  *)
(* the oldest record when the queue is full.  The detector's Run tests     *)
(* the queue in one critical section and takes from it in another, then    *)
(* clones the picture outside the lock and runs the network on the clone.  *)
(*                                                                         *)
(* eventFunc keeps a shallow copy of the cv::Mat (`cv::Mat image = img`),  *)
(* so a record refers to the pixels the decoder wrote.  ffDecodecpu (and   *)
(* DecodeOpencv, when the native size is the configured one) writes every  *)
(* picture into the same buffer; DecodeHK and captureHK allocate a new one *)
(* per picture.  ReusesBuffer tells the two kinds apart.  A picture is     *)
(* Rows rows of pixels, written and cloned row by row.                     *)
(***************************************************************************)
EXTENDS Naturals, Sequences

CONSTANTS Cameras,       \* the decoder threads
          Detector,      \* the thread that executes Run
          Pictures,      \* what a camera may show
          Capacity,      \* g_bufsize
          ReusesBuffer,  \* the decoder writes every picture into one cv::Mat
          None           \* nobody, nothing

Rows == {"top", "bottom"}

Mats == [Rows -> Pictures \cup {None}]

\* Image_vedio: the camera, and the pixels when the record owns them.
Records == [camid : Cameras, image : Mats]

ASSUME QueueAssumption ==
  /\ Capacity \in Nat \ {0}
  /\ ReusesBuffer \in BOOLEAN
  /\ Detector \notin Cameras
  /\ None \notin Cameras \cup {Detector}
  /\ None \notin Pictures
  /\ None \notin Records

VARIABLES
  g_imageQueue,  \* the detector's queue of records
  lock_p,        \* the thread that owns the mutex, or None
  cpc,           \* where each decoder thread is
  curFrame,      \* the pixels of the cv::Mat each decoder writes to
  dpc,           \* where Run is
  flag,          \* Run's local: the queue was empty when it was tested
  video_data,    \* Run's local: the record taken, or None
  img            \* Run's local: the clone the network works on

cameraVars == <<cpc, curFrame>>
detectorVars == <<dpc, flag, video_data, img>>
vars == <<g_imageQueue, lock_p, cameraVars, detectorVars>>

Unset == [r \in Rows |-> None]

Init ==
  /\ g_imageQueue = <<>>
  /\ lock_p = None
  /\ cpc = [c \in Cameras |-> "decode"]
  /\ curFrame = [c \in Cameras |-> Unset]
  /\ dpc = "loop"
  /\ flag = FALSE
  /\ video_data = None
  /\ img = Unset

\* Mutant: every cv::Mat is shallow, whoever allocated it.
PixelsShared(r) == curFrame[r.camid]

\* The pixels a record shows now: a shallow cv::Mat of a reused buffer shows
\* what the decoder wrote last.
Pixels(r) == IF ReusesBuffer THEN curFrame[r.camid] ELSE r.image

-----------------------------------------------------------------------------
(* A decoder thread *)

Step(c, from, to) == cpc[c] = from /\ cpc' = [cpc EXCEPT ![c] = to]

\* A picture arrives and its first row is written.
Decode(c, p) ==
  /\ Step(c, "decode", "copy")
  /\ curFrame' = [curFrame EXCEPT ![c]["top"] = p]
  /\ UNCHANGED <<g_imageQueue, lock_p, detectorVars>>

\* The rest of the picture is written.
CopyTo(c) ==
  /\ Step(c, "copy", "lock")
  /\ curFrame' = [curFrame EXCEPT ![c]["bottom"] = curFrame[c]["top"]]
  /\ UNCHANGED <<g_imageQueue, lock_p, detectorVars>>

\* Mutant: eventFunc does not wait for the mutex.
EventLockUnchecked(c) ==
  /\ Step(c, "lock", "check")
  /\ lock_p' = c
  /\ UNCHANGED <<g_imageQueue, curFrame, detectorVars>>

EventLock(c) ==
  /\ Step(c, "lock", "check")
  /\ lock_p = None
  /\ lock_p' = c
  /\ UNCHANGED <<g_imageQueue, curFrame, detectorVars>>

\* Mutant: a full queue gives up its newest record.
EventOverflowNewest(c) ==
  /\ Step(c, "check", "push")
  /\ Len(g_imageQueue) >= Capacity
  /\ g_imageQueue' = SubSeq(g_imageQueue, 1, Len(g_imageQueue) - 1)
  /\ UNCHANGED <<lock_p, curFrame, detectorVars>>

\* Mutant: a full queue is cleared.
EventOverflowClears(c) ==
  /\ Step(c, "check", "push")
  /\ Len(g_imageQueue) >= Capacity
  /\ g_imageQueue' = <<>>
  /\ UNCHANGED <<lock_p, curFrame, detectorVars>>

\* Mutant: eventFunc waits for room without releasing the mutex.
EventOverflowWaits(c) ==
  /\ Step(c, "check", "check")
  /\ Len(g_imageQueue) >= Capacity
  /\ UNCHANGED <<g_imageQueue, lock_p, curFrame, detectorVars>>

\* The queue is full: its oldest record makes room.
EventOverflow(c) ==
  /\ Step(c, "check", "push")
  /\ Len(g_imageQueue) >= Capacity
  /\ g_imageQueue' = Tail(g_imageQueue)
  /\ UNCHANGED <<lock_p, curFrame, detectorVars>>

\* Mutant: > for >= in the capacity test.
EventRoomOneMore(c) ==
  /\ Step(c, "check", "push")
  /\ Len(g_imageQueue) <= Capacity
  /\ UNCHANGED <<g_imageQueue, lock_p, curFrame, detectorVars>>

EventRoom(c) ==
  /\ Step(c, "check", "push")
  /\ Len(g_imageQueue) < Capacity
  /\ UNCHANGED <<g_imageQueue, lock_p, curFrame, detectorVars>>

\* Mutant: the record does not get the number of the camera.
RecordWithoutCamid(c) == [camid |-> None, image |-> curFrame[c]]

Record(c) == [camid |-> c, image |-> curFrame[c]]

EventPush(c) ==
  /\ Step(c, "push", "unlock")
  /\ g_imageQueue' = Append(g_imageQueue, Record(c))
  /\ UNCHANGED <<lock_p, curFrame, detectorVars>>

EventUnlock(c) ==
  /\ Step(c, "unlock", "decode")
  /\ lock_p' = None
  /\ UNCHANGED <<g_imageQueue, curFrame, detectorVars>>

\* What eventFunc still has to do once the decoder has called it.
EventFunc(c) == \/ EventLock(c)
                \/ EventOverflow(c)
                \/ EventRoom(c)
                \/ EventPush(c)
                \/ EventUnlock(c)

-----------------------------------------------------------------------------
(* The detector thread *)

Goto(from, to) == dpc = from /\ dpc' = to

TestLock ==
  /\ Goto("loop", "test")
  /\ lock_p = None
  /\ lock_p' = Detector
  /\ UNCHANGED <<g_imageQueue, cameraVars, flag, video_data, img>>

\* Mutant: a single record is taken for an empty queue.
TestOneLeft ==
  /\ Goto("test", "tested")
  /\ flag' = (Len(g_imageQueue) <= 1)
  /\ UNCHANGED <<g_imageQueue, lock_p, cameraVars, video_data, img>>

Test ==
  /\ Goto("test", "tested")
  /\ flag' = (g_imageQueue = <<>>)
  /\ UNCHANGED <<g_imageQueue, lock_p, cameraVars, video_data, img>>

\* Mutant: Run does not look at flag.
TestUnlockAlways ==
  /\ Goto("tested", "lock")
  /\ lock_p' = None
  /\ UNCHANGED <<g_imageQueue, cameraVars, flag, video_data, img>>

\* After the unlock an empty queue sends Run to usleep and `continue`.
TestUnlock ==
  /\ Goto("tested", IF flag THEN "sleep" ELSE "lock")
  /\ lock_p' = None
  /\ UNCHANGED <<g_imageQueue, cameraVars, flag, video_data, img>>

Sleep ==
  /\ Goto("sleep", "loop")
  /\ UNCHANGED <<g_imageQueue, lock_p, cameraVars, flag, video_data, img>>

TakeLock ==
  /\ Goto("lock", "front")
  /\ lock_p = None
  /\ lock_p' = Detector
  /\ UNCHANGED <<g_imageQueue, cameraVars, flag, video_data, img>>

TakeFront ==
  /\ Goto("front", "pop")
  /\ video_data' = Head(g_imageQueue)
  /\ UNCHANGED <<g_imageQueue, lock_p, cameraVars, flag, img>>

TakePop ==
  /\ Goto("pop", "popped")
  /\ g_imageQueue' = Tail(g_imageQueue)
  /\ UNCHANGED <<lock_p, cameraVars, flag, video_data, img>>

TakeUnlock ==
  /\ Goto("popped", "clone")
  /\ lock_p' = None
  /\ UNCHANGED <<g_imageQueue, cameraVars, flag, video_data, img>>

\* video_data->image.clone(), without the lock: one row, then the other.  (Run skips
\* an empty picture here; the decoders hand on none: each is the result of
\* cv::resize, which throws on an empty one, or of a decoded frame.)
Clone ==
  /\ Goto("clone", "cloning")
  /\ img' = [img EXCEPT !["top"] = Pixels(video_data)["top"]]
  /\ UNCHANGED <<g_imageQueue, lock_p, cameraVars, flag, video_data>>

Cloned ==
  /\ Goto("cloning", "infer")
  /\ img' = [img EXCEPT !["bottom"] = Pixels(video_data)["bottom"]]
  /\ UNCHANGED <<g_imageQueue, lock_p, cameraVars, flag, video_data>>

\* The network runs on the clone; the locals go out of scope.
Infer ==
  /\ Goto("infer", "loop")
  /\ video_data' = None
  /\ img' = Unset
  /\ UNCHANGED <<g_imageQueue, lock_p, cameraVars, flag>>

Run == \/ TestLock \/ Test \/ TestUnlock \/ Sleep
       \/ TakeLock \/ TakeFront \/ TakePop \/ TakeUnlock
       \/ Clone \/ Cloned \/ Infer

-----------------------------------------------------------------------------

Camera(c) == (\E p \in Pictures : Decode(c, p)) \/ CopyTo(c) \/ EventFunc(c)

Next == Run \/ \E c \in Cameras : Camera(c)

Spec == Init /\ [][Next]_vars

(***************************************************************************)
(* Fairness.  A thread that may run does run.  lock_p is contended, so     *)
(* acquiring it needs strong fairness: the mutex does not starve a thread  *)
(* forever.  Nothing obliges a camera to deliver a picture.                *)
(***************************************************************************)
Fairness ==
  /\ WF_vars(Run)
  /\ SF_vars(TestLock)
  /\ SF_vars(TakeLock)
  /\ \A c \in Cameras : /\ WF_vars(CopyTo(c) \/ EventFunc(c))
                        /\ SF_vars(EventLock(c))

FairSpec == Spec /\ Fairness

-----------------------------------------------------------------------------

CameraSteps == {"decode", "copy", "lock", "check", "push", "unlock"}
DetectorSteps == {"loop", "test", "tested", "sleep", "lock", "front", "pop",
                  "popped", "clone", "cloning", "infer"}

\* Every variable has the values of its declaration in the code.
TypeOK ==
  /\ g_imageQueue \in Seq(Records)
  /\ lock_p \in Cameras \cup {Detector, None}
  /\ cpc \in [Cameras -> CameraSteps]
  /\ curFrame \in [Cameras -> Mats]
  /\ dpc \in DetectorSteps
  /\ flag \in BOOLEAN
  /\ video_data \in Records \cup {None}
  /\ img \in Mats

CameraInside(c) == cpc[c] \in {"check", "push", "unlock"}
DetectorInside == dpc \in {"test", "tested", "front", "pop", "popped"}

\* eventFunc and both critical sections of Run exclude one another: whoever
\* is between pthread_mutex_lock and pthread_mutex_unlock is the owner.
MutualExclusion ==
  /\ \A c \in Cameras : CameraInside(c) => lock_p = c
  /\ DetectorInside => lock_p = Detector

\* Run releases the mutex between its test for an empty queue and front()
\* and pop(); still neither is ever applied to an empty queue, although
\* decoders pop from it as well in between.
NoPopOnEmpty == dpc \in {"front", "pop"} => g_imageQueue # <<>>

\* The queue never outgrows g_bufsize, and between the pop and the push of a
\* decoder there is room for the record that is about to be pushed.
Bounded ==
  /\ Len(g_imageQueue) <= Capacity
  /\ \A c \in Cameras : cpc[c] = "push" => Len(g_imageQueue) < Capacity

\* The picture the network works on is one picture a camera delivered: the
\* pixels of the record as they were when eventFunc queued it.
PictureIntact == dpc = "infer" => img = video_data.image

-----------------------------------------------------------------------------
(* The queue is a FrameQueue.  A put takes effect at the capacity test and *)
(* a take at front(); the mutex hides the steps between.                   *)

Putting == \E c \in Cameras : cpc[c] = "push"
Putter == CHOOSE c \in Cameras : cpc[c] = "push"

AbstractQueue == IF Putting THEN Append(g_imageQueue, Record(Putter))
                 ELSE IF dpc = "pop" THEN Tail(g_imageQueue)
                 ELSE g_imageQueue

FQ == INSTANCE FrameQueue WITH q <- AbstractQueue, held <- video_data,
                               NoRecord <- None

\* Whatever the threads do in whatever order, decoders and detector see the
\* drop-oldest first-in first-out buffer FrameQueue describes.
ImplementsFrameQueue == FQ!Spec

\* A record that waits is followed by the detector taking one: no decoder can
\* keep Run out of the queue for ever by displacing records.
WaitingIsServed == g_imageQueue # <<>> ~> dpc = "clone"

\* A decoder that called the detector returns to decoding.
CallbackReturns == \A c \in Cameras : cpc[c] = "lock" ~> cpc[c] = "decode"
=============================================================================
