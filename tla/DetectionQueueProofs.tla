------------------------ MODULE DetectionQueueProofs ------------------------
(***************************************************************************)
(* Proofs about DetectionQueue and FrameHistory for any cameras and        *)
(* capacity.  First the invariants of the queue; then that it implements   *)
(* FrameQueue, since the mutex, the two critical sections of Run and the   *)
(* test, pop and push of eventFunc act as the atomic puts and takes of a   *)
(* bounded drop-oldest queue; at last, along the history of one picture,   *)
(* that the network sees the pictures in order and loses them only to      *)
(* overflow.  HistoryAssumption serves the last part alone: the others     *)
(* hold for any Pictures.                                                  *)
(***************************************************************************)
EXTENDS FrameHistory, TLAPS

\* The tail of a queue of records is one, shorter by one.
LEMMA TailOfRecords ==
  ASSUME NEW S, NEW s \in Seq(S), s # <<>>
  PROVE  /\ Head(s) \in S
         /\ Tail(s) \in Seq(S)
         /\ Len(s) \in Nat \ {0}
         /\ Len(Tail(s)) = Len(s) - 1
  OBVIOUS

\* An empty queue is a queue of length 0, and appending makes it non-empty.
LEMMA EmptyAndAppend ==
  ASSUME NEW S, NEW s \in Seq(S), NEW e \in S
  PROVE  /\ Len(s) \in Nat
         /\ s = <<>> <=> Len(s) = 0
         /\ Append(s, e) \in Seq(S)
         /\ Append(s, e) # <<>>
         /\ Len(Append(s, e)) = Len(s) + 1
  OBVIOUS

(***************************************************************************)
(* The inductive invariant.  NoPopOnEmpty alone is not inductive: between  *)
(* its two critical sections Run relies on what it saw in the first, and   *)
(* decoders pop in the meantime.  What survives is that a decoder that     *)
(* popped still owns the mutex and is about to push (StillServed), so that *)
(* the queue is not empty whenever the mutex is free.                      *)
(***************************************************************************)
StillServed ==
  /\ dpc = "tested" /\ ~flag => g_imageQueue # <<>>
  /\ dpc = "lock" => g_imageQueue # <<>> \/ Putting

\* Run clones and analyses only what it took.
Holding == dpc \in {"pop", "popped", "clone", "cloning", "infer"} =>
             video_data \in Records

HandOver == /\ TypeOK
            /\ MutualExclusion
            /\ NoPopOnEmpty
            /\ StillServed
            /\ Holding
            /\ Bounded

-----------------------------------------------------------------------------

\* The ownership of the mutex follows the program counters.
LEMMA MutexStep ==
  ASSUME TypeOK, MutualExclusion, [Next]_vars
  PROVE  MutualExclusion'
<1> USE QueueAssumption DEF MutualExclusion, CameraInside, DetectorInside, TypeOK
<1>1. CASE Run
  <2>1. CASE TestLock
    BY <2>1 DEF TestLock, Goto, cameraVars
  <2>2. CASE Test
    BY <2>2 DEF Test, Goto, cameraVars
  <2>3. CASE TestUnlock
    BY <2>3 DEF TestUnlock, Goto, cameraVars
  <2>4. CASE Sleep
    BY <2>4 DEF Sleep, Goto, cameraVars
  <2>5. CASE TakeLock
    BY <2>5 DEF TakeLock, Goto, cameraVars
  <2>6. CASE TakeFront
    BY <2>6 DEF TakeFront, Goto, cameraVars
  <2>7. CASE TakePop
    BY <2>7 DEF TakePop, Goto, cameraVars
  <2>8. CASE TakeUnlock
    BY <2>8 DEF TakeUnlock, Goto, cameraVars
  <2>9. CASE Clone \/ Cloned \/ Infer
    BY <2>9 DEF Clone, Cloned, Infer, Goto, cameraVars
  <2> QED
    BY <1>1, <2>1, <2>2, <2>3, <2>4, <2>5, <2>6, <2>7, <2>8, <2>9 DEF Run
<1>2. ASSUME NEW c \in Cameras, Camera(c)
      PROVE  MutualExclusion'
  <2>1. CASE \E p \in Pictures : Decode(c, p)
    BY <2>1 DEF Decode, Step, detectorVars
  <2>2. CASE CopyTo(c)
    BY <2>2 DEF CopyTo, Step, detectorVars
  <2>3. CASE EventLock(c)
    BY <2>3 DEF EventLock, Step, detectorVars
  <2>4. CASE EventOverflow(c)
    BY <2>4 DEF EventOverflow, Step, detectorVars
  <2>5. CASE EventRoom(c)
    BY <2>5 DEF EventRoom, Step, detectorVars
  <2>6. CASE EventPush(c)
    BY <2>6 DEF EventPush, Step, detectorVars
  <2>7. CASE EventUnlock(c)
    BY <2>7 DEF EventUnlock, Step, detectorVars
  <2> QED
    BY <1>2, <2>1, <2>2, <2>3, <2>4, <2>5, <2>6, <2>7 DEF Camera, EventFunc
<1>3. CASE UNCHANGED vars
  BY <1>3 DEF vars, cameraVars, detectorVars
<1> QED
  BY <1>1, <1>2, <1>3 DEF Next

-----------------------------------------------------------------------------

\* Init gives every variable a value of its type.
LEMMA InitTypes == Init => TypeOK
<1>1. Unset \in Mats
  BY DEF Unset, Mats
<1>2. <<>> \in Seq(Records)
  OBVIOUS
<1>3. ASSUME Init
      PROVE  cpc \in [Cameras -> CameraSteps]
  BY <1>3 DEF Init, CameraSteps
<1> QED
  BY <1>1, <1>2, <1>3 DEF Init, TypeOK, DetectorSteps

\* What a camera has written is a picture, and a record of it can be queued.
LEMMA RecordType ==
  ASSUME TypeOK, NEW c \in Cameras
  PROVE  Record(c) \in Records
BY DEF TypeOK, Record, Records

\* A record that can be queued shows pixels.
LEMMA PixelsType ==
  ASSUME TypeOK, NEW r \in Records
  PROVE  Pixels(r) \in Mats
BY DEF TypeOK, Pixels, Records

\* Every step keeps the types.
LEMMA TypeStep ==
  ASSUME TypeOK, NoPopOnEmpty, Holding, [Next]_vars
  PROVE  TypeOK'
<1> USE QueueAssumption DEF TypeOK, CameraSteps, DetectorSteps, Goto, Step
<1>1. CASE TestLock \/ Test \/ TestUnlock \/ Sleep \/ TakeLock \/ TakeUnlock
  BY <1>1 DEF TestLock, Test, TestUnlock, Sleep, TakeLock, TakeUnlock, cameraVars
<1>2. CASE TakeFront
  BY <1>2, TailOfRecords DEF TakeFront, NoPopOnEmpty, cameraVars
<1>3. CASE TakePop
  BY <1>3, TailOfRecords DEF TakePop, NoPopOnEmpty, cameraVars
<1>4. CASE Clone
  <2>1. Pixels(video_data) \in Mats
    BY <1>4, PixelsType DEF Clone, Holding
  <2> QED
    BY <1>4, <2>1 DEF Clone, Mats, Rows, cameraVars
<1>5. CASE Cloned
  <2>1. Pixels(video_data) \in Mats
    BY <1>5, PixelsType DEF Cloned, Holding
  <2> QED
    BY <1>5, <2>1 DEF Cloned, Mats, Rows, cameraVars
<1>6. CASE Infer
  BY <1>6 DEF Infer, Unset, Mats, cameraVars
<1>7. ASSUME NEW c \in Cameras, NEW p \in Pictures, Decode(c, p)
      PROVE  TypeOK'
  BY <1>7 DEF Decode, Mats, Rows, detectorVars
<1>8. ASSUME NEW c \in Cameras, CopyTo(c)
      PROVE  TypeOK'
  BY <1>8 DEF CopyTo, Mats, Rows, detectorVars
<1>9. ASSUME NEW c \in Cameras, EventFunc(c)
      PROVE  TypeOK'
  <2>1. CASE EventLock(c) \/ EventRoom(c) \/ EventUnlock(c)
    BY <2>1 DEF EventLock, EventRoom, EventUnlock, detectorVars
  <2>2. CASE EventOverflow(c)
    <3>1. g_imageQueue # <<>>
      BY <2>2, EmptyAndAppend DEF EventOverflow
    <3> QED
      BY <2>2, <3>1, TailOfRecords DEF EventOverflow, detectorVars
  <2>3. CASE EventPush(c)
    BY <2>3, RecordType, EmptyAndAppend DEF EventPush, detectorVars
  <2> QED
    BY <1>9, <2>1, <2>2, <2>3 DEF EventFunc
<1>10. CASE UNCHANGED vars
  BY <1>10 DEF vars, cameraVars, detectorVars
<1> QED
  BY <1>1, <1>2, <1>3, <1>4, <1>5, <1>6, <1>7, <1>8, <1>9, <1>10
     DEF Next, Run, Camera

-----------------------------------------------------------------------------

\* Each step leaves the queue as StillServed, NoPopOnEmpty and Bounded say, and
\* Run with a record when it needs one.
LEMMA QueueStep ==
  ASSUME HandOver, [Next]_vars
  PROVE  NoPopOnEmpty' /\ StillServed' /\ Holding' /\ Bounded'
<1> USE QueueAssumption
    DEF HandOver, NoPopOnEmpty, StillServed, Holding, Bounded, Putting, Goto, Step
<1>1. CASE TestLock \/ TestUnlock \/ Sleep \/ TakeUnlock \/ Clone \/ Cloned \/ Infer
  BY <1>1 DEF TestLock, TestUnlock, Sleep, TakeUnlock, Clone, Cloned, Infer,
              cameraVars
<1>2. CASE Test
  BY <1>2 DEF Test, cameraVars, TypeOK
<1>3. CASE TakeLock
  <2>1. ~Putting
    BY <1>3 DEF TakeLock, MutualExclusion, CameraInside
  <2> QED
    BY <1>3, <2>1 DEF TakeLock, cameraVars
<1>4. CASE TakeFront
  BY <1>4, TailOfRecords DEF TakeFront, cameraVars, TypeOK
<1>5. CASE TakePop
  <2>1. ~Putting
    BY <1>5 DEF TakePop, MutualExclusion, CameraInside, DetectorInside
  <2> QED
    BY <1>5, <2>1, TailOfRecords DEF TakePop, cameraVars, TypeOK
<1>6. ASSUME NEW c \in Cameras, CopyTo(c) \/ \E p \in Pictures : Decode(c, p)
      PROVE  NoPopOnEmpty' /\ StillServed' /\ Holding' /\ Bounded'
  BY <1>6 DEF CopyTo, Decode, detectorVars, TypeOK
<1>7. ASSUME NEW c \in Cameras, EventLock(c) \/ EventUnlock(c)
      PROVE  NoPopOnEmpty' /\ StillServed' /\ Holding' /\ Bounded'
  BY <1>7 DEF EventLock, EventUnlock, detectorVars, TypeOK
<1>8. ASSUME NEW c \in Cameras, EventOverflow(c)
      PROVE  NoPopOnEmpty' /\ StillServed' /\ Holding' /\ Bounded'
  <2>1. lock_p = c
    BY <1>8 DEF EventOverflow, MutualExclusion, CameraInside
  <2>2. /\ ~DetectorInside
        /\ \A d \in Cameras : d # c => cpc[d] # "push"
    BY <2>1 DEF MutualExclusion, CameraInside
  <2>3. g_imageQueue # <<>>
    BY <1>8, EmptyAndAppend DEF EventOverflow, TypeOK
  <2>4. Len(g_imageQueue') < Capacity
    BY <1>8, <2>3, TailOfRecords DEF EventOverflow, TypeOK
  <2>5. cpc'[c] = "push"
    BY <1>8 DEF EventOverflow, TypeOK
  <2> QED
    BY <1>8, <2>2, <2>4, <2>5, TailOfRecords, EmptyAndAppend
       DEF EventOverflow, DetectorInside, detectorVars, TypeOK
<1>9. ASSUME NEW c \in Cameras, EventRoom(c)
      PROVE  NoPopOnEmpty' /\ StillServed' /\ Holding' /\ Bounded'
  BY <1>9 DEF EventRoom, detectorVars, TypeOK
<1>10. ASSUME NEW c \in Cameras, EventPush(c)
       PROVE  NoPopOnEmpty' /\ StillServed' /\ Holding' /\ Bounded'
  <2>1. \A d \in Cameras : d # c => cpc[d] # "push"
    BY <1>10 DEF EventPush, MutualExclusion, CameraInside
  <2>2. /\ g_imageQueue' # <<>>
        /\ Len(g_imageQueue') <= Capacity
    BY <1>10, RecordType, EmptyAndAppend DEF EventPush, TypeOK
  <2> QED
    BY <1>10, <2>1, <2>2 DEF EventPush, detectorVars, TypeOK
<1>11. CASE UNCHANGED vars
  BY <1>11 DEF vars, cameraVars, detectorVars
<1> QED
  BY <1>1, <1>2, <1>3, <1>4, <1>5, <1>6, <1>7, <1>8, <1>9, <1>10, <1>11
     DEF Next, Run, Camera, EventFunc

\* HandOver holds in every reachable state.
THEOREM HandOverInvariant == Spec => []HandOver
<1>1. Init => HandOver
  <2> SUFFICES ASSUME Init PROVE HandOver
    OBVIOUS
  <2>1. TypeOK
    BY InitTypes
  <2> QED
    BY <2>1, QueueAssumption, EmptyAndAppend
       DEF Init, HandOver, MutualExclusion, CameraInside, DetectorInside,
           NoPopOnEmpty, StillServed, Holding, Bounded
<1>2. HandOver /\ [Next]_vars => HandOver'
  BY MutexStep, TypeStep, QueueStep DEF HandOver
<1> QED
  BY <1>1, <1>2, PTL DEF Spec

\* Every variable keeps to its declared values.
THEOREM TypeCorrect == Spec => []TypeOK
BY HandOverInvariant, PTL DEF HandOver

\* The critical sections of eventFunc and of Run exclude one another.
THEOREM CriticalSectionsExclude == Spec => []MutualExclusion
BY HandOverInvariant, PTL DEF HandOver

\* front() and pop() in Run never meet an empty queue.
THEOREM PopNeverEmpty == Spec => []NoPopOnEmpty
BY HandOverInvariant, PTL DEF HandOver

\* The queue stays within g_bufsize.
THEOREM QueueBounded == Spec => []Bounded
BY HandOverInvariant, PTL DEF HandOver

-----------------------------------------------------------------------------
(* The refinement *)

\* Run holds a record exactly from front() to the end of the iteration.
HandsFree == dpc \notin {"pop", "popped", "clone", "cloning", "infer"} =>
               video_data = None

\* Every iteration of Run starts without a record.
LEMMA HandsFreeStep ==
  ASSUME HandsFree, [Next]_vars
  PROVE  HandsFree'
<1> USE DEF HandsFree, Goto, Step
<1>1. CASE TestLock \/ Test \/ TestUnlock \/ Sleep \/ TakeLock
  BY <1>1 DEF TestLock, Test, TestUnlock, Sleep, TakeLock, cameraVars
<1>2. CASE TakeFront \/ TakePop \/ TakeUnlock \/ Clone \/ Cloned \/ Infer
  BY <1>2 DEF TakeFront, TakePop, TakeUnlock, Clone, Cloned, Infer, cameraVars
<1>3. ASSUME NEW c \in Cameras, Camera(c)
      PROVE  HandsFree'
  BY <1>3 DEF Camera, Decode, CopyTo, EventFunc, EventLock, EventOverflow,
              EventRoom, EventPush, EventUnlock, detectorVars
<1>4. CASE UNCHANGED vars
  BY <1>4 DEF vars, detectorVars
<1> QED
  BY <1>1, <1>2, <1>3, <1>4 DEF Next, Run

Implementation == HandOver /\ HandsFree

LEMMA ImplementationInvariant == Spec => []Implementation
<1>1. Init => HandsFree
  BY DEF Init, HandsFree
<1>2. HandsFree /\ [Next]_vars => HandsFree'
  BY HandsFreeStep
<1> QED
  BY <1>1, <1>2, HandOverInvariant, PTL DEF Spec, Implementation

-----------------------------------------------------------------------------

\* The decoder that is about to push is the one CHOOSE finds.
LEMMA ChooseOnly ==
  ASSUME NEW C, NEW f, NEW c \in C, f[c] = "push",
         \A d \in C : f[d] = "push" => d = c
  PROVE  (CHOOSE d \in C : f[d] = "push") = c
OBVIOUS

\* Who is past the capacity test has the mutex to itself.
LEMMA Alone ==
  ASSUME MutualExclusion, NEW c \in Cameras, CameraInside(c)
  PROVE  /\ ~DetectorInside
         /\ \A d \in Cameras : CameraInside(d) => d = c
BY QueueAssumption DEF MutualExclusion

\* A step of the capacity test puts the record of the camera.
LEMMA PutStep ==
  ASSUME Implementation, NEW c \in Cameras, EventOverflow(c) \/ EventRoom(c)
  PROVE  FQ!Put
<1> USE DEF Implementation, HandOver
<1>1. cpc[c] = "check" /\ CameraInside(c)
  BY DEF EventOverflow, EventRoom, Step, CameraInside
<1>2. dpc # "pop" /\ ~Putting
  BY <1>1, Alone DEF DetectorInside, Putting, CameraInside
<1>3. AbstractQueue = g_imageQueue
  BY <1>2 DEF AbstractQueue
<1>4. cpc' = [cpc EXCEPT ![c] = "push"]
  BY DEF EventOverflow, EventRoom, Step
<1>5. Putting' /\ \A d \in Cameras : cpc'[d] = "push" => d = c
  BY <1>2, <1>4 DEF Putting, TypeOK
<1>6. cpc'[c] = "push"
  BY <1>4 DEF TypeOK
<1>7. Putter' = c
  BY <1>5, <1>6, ChooseOnly DEF Putter
<1>8. Record(c)' = Record(c)
  BY DEF EventOverflow, EventRoom, Record
<1>9. AbstractQueue' = Append(g_imageQueue', Record(c))
  BY <1>5, <1>7, <1>8 DEF AbstractQueue, Record
<1>10. AbstractQueue' = FQ!Displace(g_imageQueue, Record(c))
  <2>1. CASE EventOverflow(c)
    BY <2>1, <1>9, QueueAssumption, EmptyAndAppend
       DEF EventOverflow, FQ!Displace, TypeOK
  <2>2. CASE EventRoom(c)
    BY <2>2, <1>9 DEF EventRoom, FQ!Displace
  <2> QED
    BY <2>1, <2>2
<1>11. UNCHANGED video_data
  BY DEF EventOverflow, EventRoom, detectorVars
<1> QED
  BY <1>3, <1>10, <1>11, RecordType DEF FQ!Put

\* The push itself is invisible: the put has already taken effect.
LEMMA PushStep ==
  ASSUME Implementation, NEW c \in Cameras, EventPush(c)
  PROVE  UNCHANGED <<AbstractQueue, video_data>>
<1> USE DEF Implementation, HandOver
<1>1. cpc[c] = "push" /\ CameraInside(c)
  BY DEF EventPush, Step, CameraInside
<1>2. dpc # "pop" /\ \A d \in Cameras : cpc[d] = "push" => d = c
  BY <1>1, Alone DEF DetectorInside, CameraInside
<1>3. Putter = c
  BY <1>1, <1>2, ChooseOnly DEF Putter
<1>4. AbstractQueue = Append(g_imageQueue, Record(c))
  BY <1>1, <1>3 DEF AbstractQueue, Putting
<1>5. ~Putting' /\ dpc' # "pop"
  BY <1>2 DEF EventPush, Step, Putting, TypeOK, detectorVars
<1>6. AbstractQueue' = g_imageQueue'
  BY <1>5 DEF AbstractQueue
<1> QED
  BY <1>4, <1>6 DEF EventPush, detectorVars

\* Neither camera work outside the lock nor locking and unlocking shows.
LEMMA QuietCameraStep ==
  ASSUME Implementation, NEW c \in Cameras,
         \/ CopyTo(c) \/ EventLock(c) \/ EventUnlock(c)
         \/ \E p \in Pictures : Decode(c, p)
  PROVE  UNCHANGED <<AbstractQueue, video_data>>
<1> USE DEF Implementation, HandOver
<1>1. /\ UNCHANGED <<g_imageQueue, dpc, video_data>>
      /\ \A d \in Cameras : (cpc'[d] = "push") <=> (cpc[d] = "push")
      /\ \A d \in Cameras : cpc[d] = "push" => curFrame'[d] = curFrame[d]
  BY DEF CopyTo, EventLock, EventUnlock, Decode, Step, detectorVars, TypeOK
<1>2. Putting' = Putting
  BY <1>1 DEF Putting
<1>3. CASE Putting
  <2> PICK c0 \in Cameras : cpc[c0] = "push"
    BY <1>3 DEF Putting
  <2>1. \A d \in Cameras : cpc[d] = "push" => d = c0
    BY Alone DEF CameraInside
  <2>2. Putter = c0 /\ Putter' = c0
    BY <1>1, <2>1, ChooseOnly DEF Putter
  <2> QED
    BY <1>1, <1>2, <1>3, <2>2 DEF AbstractQueue, Record
<1>4. CASE ~Putting
  BY <1>1, <1>2, <1>4 DEF AbstractQueue
<1> QED
  BY <1>3, <1>4

\* front() takes the oldest record.
LEMMA TakeStep ==
  ASSUME Implementation, TakeFront
  PROVE  FQ!Take
<1> USE DEF Implementation, HandOver
<1>1. dpc = "front" /\ dpc' = "pop" /\ UNCHANGED <<g_imageQueue, cpc>>
  BY DEF TakeFront, Goto, cameraVars
<1>2. ~Putting /\ ~Putting'
  BY <1>1, QueueAssumption
     DEF Putting, MutualExclusion, CameraInside, DetectorInside
<1>3. AbstractQueue = g_imageQueue /\ AbstractQueue' = Tail(g_imageQueue)
  BY <1>1, <1>2 DEF AbstractQueue
<1>4. video_data = None /\ g_imageQueue # <<>>
  BY <1>1 DEF HandsFree, NoPopOnEmpty
<1> QED
  BY <1>3, <1>4 DEF FQ!Take, TakeFront

\* pop() is invisible: front() has already taken the record.
LEMMA PopStep ==
  ASSUME Implementation, TakePop
  PROVE  UNCHANGED <<AbstractQueue, video_data>>
<1> USE DEF Implementation, HandOver
<1>1. dpc = "pop" /\ dpc' = "popped" /\ UNCHANGED cpc
  BY DEF TakePop, Goto, cameraVars
<1>2. ~Putting /\ ~Putting'
  BY <1>1, QueueAssumption
     DEF Putting, MutualExclusion, CameraInside, DetectorInside
<1> QED
  BY <1>1, <1>2 DEF AbstractQueue, TakePop

\* The end of the iteration releases the record.
LEMMA FinishStep ==
  ASSUME Implementation, Infer
  PROVE  FQ!Finish
<1> USE DEF Implementation, HandOver
<1>1. video_data # None
  BY QueueAssumption DEF Infer, Goto, Holding
<1>2. UNCHANGED AbstractQueue
  BY DEF Infer, Goto, AbstractQueue, Putting, Putter, Record, cameraVars
<1> QED
  BY <1>1, <1>2 DEF FQ!Finish, Infer

\* The other steps of Run concern only the mutex and the clone.
LEMMA QuietDetectorStep ==
  ASSUME \/ TestLock \/ Test \/ TestUnlock \/ Sleep
         \/ TakeLock \/ TakeUnlock \/ Clone \/ Cloned
  PROVE  UNCHANGED <<AbstractQueue, video_data>>
BY DEF TestLock, Test, TestUnlock, Sleep, TakeLock, TakeUnlock, Clone, Cloned,
       Goto, AbstractQueue, Putting, Putter, Record, cameraVars

\* The code's queue is a FrameQueue under every interleaving of any number of
\* decoders with the detector.
THEOREM QueueRefinement == Spec => ImplementsFrameQueue
<1>1. Init => FQ!Init
  BY DEF Init, FQ!Init, AbstractQueue, Putting
<1>2. Implementation /\ [Next]_vars => [FQ!Next]_(FQ!fqVars)
  <2> SUFFICES ASSUME Implementation, [Next]_vars
               PROVE  FQ!Next \/ UNCHANGED <<AbstractQueue, video_data>>
    BY DEF FQ!fqVars
  <2>1. CASE Run
    BY <2>1, TakeStep, PopStep, FinishStep, QuietDetectorStep
       DEF Run, FQ!Next
  <2>2. ASSUME NEW c \in Cameras, Camera(c)
        PROVE  FQ!Next \/ UNCHANGED <<AbstractQueue, video_data>>
    BY <2>2, PutStep, PushStep, QuietCameraStep
       DEF Camera, EventFunc, FQ!Next
  <2>3. CASE UNCHANGED vars
    BY <2>3 DEF vars, cameraVars, detectorVars, AbstractQueue, Putting, Putter,
                Record
  <2> QED
    BY <2>1, <2>2, <2>3 DEF Next
<1> QED
  BY <1>1, <1>2, ImplementationInvariant, PTL
     DEF Spec, ImplementsFrameQueue, FQ!Spec

-----------------------------------------------------------------------------

\* The rows cloned so far are those of the record that was queued.
ClonedSoFar == /\ dpc = "cloning" => img["top"] = video_data.image["top"]
               /\ PictureIntact

\* A decoder that allocates a cv::Mat per picture cannot disturb the clone.
LEMMA CloneStep ==
  ASSUME ReusesBuffer = FALSE, TypeOK, Holding, ClonedSoFar, [Next]_vars
  PROVE  ClonedSoFar'
<1> USE DEF ClonedSoFar, PictureIntact, Goto, Step
<1>1. CASE TestLock \/ Test \/ TestUnlock \/ Sleep \/ TakeLock
  BY <1>1 DEF TestLock, Test, TestUnlock, Sleep, TakeLock
<1>2. CASE TakeFront \/ TakePop \/ TakeUnlock \/ Infer
  BY <1>2 DEF TakeFront, TakePop, TakeUnlock, Infer
<1>3. CASE Clone
  BY <1>3 DEF Clone, Pixels, TypeOK, Mats, Rows
<1>4. CASE Cloned
  <2>1. img' = [img EXCEPT !["bottom"] = video_data.image["bottom"]]
    BY <1>4 DEF Cloned, Pixels
  <2>2. img \in Mats /\ img' \in Mats /\ video_data.image \in Mats
    BY <1>4, <2>1 DEF Cloned, TypeOK, Holding, Records, Mats, Rows
  <2>3. \A r \in Rows : img'[r] = video_data.image[r]
    BY <1>4, <2>1, <2>2 DEF Cloned, Mats, Rows
  <2>4. img' = video_data.image
    BY <2>2, <2>3 DEF Mats
  <2> QED
    BY <1>4, <2>4 DEF Cloned
<1>5. ASSUME NEW c \in Cameras, Camera(c)
      PROVE  ClonedSoFar'
  BY <1>5 DEF Camera, Decode, CopyTo, EventFunc, EventLock, EventOverflow,
              EventRoom, EventPush, EventUnlock, detectorVars
<1>6. CASE UNCHANGED vars
  BY <1>6 DEF vars, detectorVars
<1> QED
  BY <1>1, <1>2, <1>3, <1>4, <1>5, <1>6 DEF Next, Run

\* With a cv::Mat of its own per picture (DecodeHK, captureHK) nobody writes to a
\* record's pixels, so the clone has those that were queued; the proofs about the
\* marked picture cite it.
LEMMA PicturesArriveIntact ==
  ASSUME ReusesBuffer = FALSE
  PROVE  Spec => []PictureIntact
<1>1. Init => ClonedSoFar
  BY DEF Init, ClonedSoFar, PictureIntact
<1>2. HandOver /\ ClonedSoFar /\ [Next]_vars => ClonedSoFar'
  BY CloneStep DEF HandOver
<1>3. ClonedSoFar => PictureIntact
  BY DEF ClonedSoFar
<1> QED
  BY <1>1, <1>2, <1>3, HandOverInvariant, PTL DEF Spec

-----------------------------------------------------------------------------

(***************************************************************************)
(* The history of a picture.  The kinds of the Witness's pictures go one   *)
(* way, from its camera through the queue and video_data to the network;   *)
(* the inductive invariant orders all of these places at once.             *)
(***************************************************************************)
NotAfter(k, l) == \/ k = "before" /\ l \in {"before", "marked", "after"}
                  \/ k = "marked" /\ l \in {"marked", "after"}
                  \/ k = "after" /\ l = "after"

\* A picture of kind k came before one of kind l: there is one marked picture.
Precedes(k, l) == NotAfter(k, l) /\ ~(k = "marked" /\ l = "marked")

Kind(r) == r.image["top"]
Followed(r) == r.camid = Witness
Current == curFrame[Witness]["top"]

\* The Witness's current picture is not in the queue yet.
Unqueued == cpc[Witness] \in {"copy", "lock", "check", "push"}

\* The Witness is past a picture of kind k, ...
Shown(k) == IF Unqueued THEN Precedes(k, Current) ELSE NotAfter(k, Current)

\* ... and so is the queue.
Ahead(k) == /\ Shown(k)
            /\ \A i \in DOMAIN g_imageQueue :
                 Followed(g_imageQueue[i]) => Precedes(k, Kind(g_imageQueue[i]))

\* Run has a picture of the Witness that is no longer in the queue.
Held == dpc \in {"popped", "clone", "cloning", "infer"} /\ Followed(video_data)

QueueOrdered ==
  /\ \A i \in DOMAIN g_imageQueue :
       Followed(g_imageQueue[i]) => Shown(Kind(g_imageQueue[i]))
  /\ \A i, j \in DOMAIN g_imageQueue :
       i < j /\ Followed(g_imageQueue[i]) /\ Followed(g_imageQueue[j]) =>
         Precedes(Kind(g_imageQueue[i]), Kind(g_imageQueue[j]))

FrontTaken == dpc = "pop" => video_data = Head(g_imageQueue)

HeldAhead == Held => Ahead(Kind(video_data))

AnalysedAhead ==
  \A i \in DOMAIN analysed :
    Ahead(analysed[i]) /\ (Held => Precedes(analysed[i], Kind(video_data)))

OrderInv == /\ Unqueued => Current # None
            /\ FrontTaken
            /\ QueueOrdered
            /\ HeldAhead
            /\ AnalysedAhead
            /\ analysed \in Seq(Pictures)
            /\ InCameraOrder

\* The auxiliary variables add nothing to what the threads do.
LEMMA HistoryStep ==
  ASSUME [HNext]_hvars
  PROVE  [Next]_vars
<1>1. CASE HInfer
  BY <1>1 DEF HInfer, Next, Run
<1>2. CASE HOther
  BY <1>2 DEF HOther, Next, Run, Camera, EventFunc
<1>3. ASSUME NEW c \in Cameras, HDecode(c)
      PROVE  Next
  <2>1. PICK p \in IF c = Witness THEN Following(curFrame[c]["top"]) ELSE {"before"} :
               Decode(c, p)
    BY <1>3 DEF HDecode
  <2>2. p \in Pictures
    BY HistoryAssumption DEF HistoryAssumption, Following
  <2> QED
    BY <2>1, <2>2 DEF Next, Camera
<1>4. ASSUME NEW c \in Cameras, HEventPush(c)
      PROVE  Next
  BY <1>4 DEF HEventPush, Next, Camera, EventFunc
<1>5. CASE UNCHANGED hvars
  BY <1>5 DEF hvars
<1> QED
  BY <1>1, <1>2, <1>3, <1>4, <1>5 DEF HNext

\* The Witness's next picture follows the one before.
LEMMA NextPicture ==
  ASSUME NEW p \in Following(Current), NEW k, NotAfter(k, Current)
  PROVE  Precedes(k, p)
BY HistoryAssumption, QueueAssumption
   DEF HistoryAssumption, QueueAssumption, Following, NotAfter, Precedes

\* No step takes the Witness back.
LEMMA ShownStep ==
  ASSUME TypeOK, Unqueued => Current # None, [HNext]_hvars
  PROVE  /\ Unqueued' => Current' # None
         /\ \A k : Shown(k) => Shown(k)'
<1> USE HistoryAssumption DEF HistoryAssumption
<1>w. Witness \in Cameras /\ DOMAIN cpc = Cameras /\ DOMAIN curFrame = Cameras
      /\ DOMAIN curFrame[Witness] = Rows /\ "top" \in Rows
  BY DEF TypeOK, Mats, Rows
<1>1. CASE UNCHANGED <<Unqueued, Current>>
  BY <1>1 DEF Shown
<1>2. CASE UNCHANGED <<cpc, curFrame>>
  BY <1>1, <1>2 DEF Unqueued, Current
<1>3. ASSUME NEW c \in Cameras, HDecode(c)
      PROVE  /\ Unqueued' => Current' # None
             /\ \A k : Shown(k) => Shown(k)'
  <2>1. PICK p \in IF c = Witness THEN Following(curFrame[c]["top"]) ELSE {"before"} :
               Decode(c, p)
    BY <1>3 DEF HDecode
  <2>2. CASE c = Witness
    <3>1. /\ ~Unqueued /\ Unqueued' /\ Current' = p /\ p \in Following(Current)
      BY <1>w, <2>1, <2>2 DEF Decode, Step, Unqueued, Current
    <3>2. p # None
      BY <3>1, QueueAssumption DEF QueueAssumption, Following
    <3>3. \A k : NotAfter(k, Current) => Precedes(k, p)
      BY <3>1, NextPicture
    <3> QED
      BY <3>1, <3>2, <3>3 DEF Shown
  <2>3. CASE c # Witness
    BY <1>1, <1>w, <2>1, <2>3 DEF Decode, Step, Unqueued, Current
  <2> QED
    BY <2>2, <2>3
<1>4. ASSUME NEW c \in Cameras,
             CopyTo(c) \/ EventLock(c) \/ EventOverflow(c) \/ EventRoom(c) \/ EventUnlock(c)
      PROVE  /\ Unqueued' => Current' # None
             /\ \A k : Shown(k) => Shown(k)'
  <2>1. CASE CopyTo(c)
    <3>1. Current' = Current
      BY <1>w, <2>1 DEF CopyTo, Current
    <3>2. Unqueued' = Unqueued
      BY <1>w, <2>1 DEF CopyTo, Step, Unqueued
    <3> QED
      BY <1>1, <3>1, <3>2
  <2>2. CASE EventLock(c) \/ EventOverflow(c) \/ EventRoom(c) \/ EventUnlock(c)
    <3>1. Current' = Current
      BY <2>2 DEF EventLock, EventOverflow, EventRoom, EventUnlock, Current
    <3>2. Unqueued' = Unqueued
      BY <1>w, <2>2 DEF EventLock, EventOverflow, EventRoom, EventUnlock, Step, Unqueued
    <3> QED
      BY <1>1, <3>1, <3>2
  <2> QED
    BY <1>4, <2>1, <2>2
<1>5. ASSUME NEW c \in Cameras, HEventPush(c)
      PROVE  /\ Unqueued' => Current' # None
             /\ \A k : Shown(k) => Shown(k)'
  <2>1. Current' = Current /\ (Unqueued' => Unqueued)
    BY <1>w, <1>5 DEF HEventPush, EventPush, Step, Unqueued, Current
  <2> QED
    BY <2>1 DEF Shown, Precedes
<1>6. CASE HInfer \/ TestLock \/ Test \/ TestUnlock \/ Sleep \/ TakeLock \/ TakeFront
           \/ TakePop \/ TakeUnlock \/ Clone \/ Cloned
  BY <1>2, <1>6 DEF HInfer, Infer, TestLock, Test, TestUnlock, Sleep, TakeLock, TakeFront,
                    TakePop, TakeUnlock, Clone, Cloned, cameraVars
<1>7. CASE UNCHANGED hvars
  BY <1>2, <1>7 DEF hvars, vars, cameraVars
<1> QED
  BY <1>3, <1>4, <1>5, <1>6, <1>7 DEF HNext, HOther

\* The queue stays, loses its oldest record, or gets the Witness's current picture
\* or one of another camera.
LEMMA QueueSteps ==
  ASSUME TypeOK, NoPopOnEmpty, [HNext]_hvars
  PROVE  \/ g_imageQueue' = g_imageQueue
         \/ g_imageQueue # <<>> /\ g_imageQueue' = Tail(g_imageQueue)
         \/ \E c \in Cameras : /\ HEventPush(c)
                             /\ g_imageQueue' = Append(g_imageQueue, Record(c))
<1>1. ASSUME NEW c \in Cameras, EventOverflow(c)
      PROVE  g_imageQueue # <<>> /\ g_imageQueue' = Tail(g_imageQueue)
  BY <1>1, EmptyAndAppend, QueueAssumption DEF EventOverflow, TypeOK, QueueAssumption
<1>2. CASE TakePop
  BY <1>2 DEF TakePop, Goto, NoPopOnEmpty
<1>3. ASSUME NEW c \in Cameras,
             HDecode(c) \/ CopyTo(c) \/ EventLock(c) \/ EventRoom(c) \/ EventUnlock(c)
      PROVE  g_imageQueue' = g_imageQueue
  BY <1>3 DEF HDecode, Decode, CopyTo, EventLock, EventRoom, EventUnlock
<1>4. CASE HInfer \/ TestLock \/ Test \/ TestUnlock \/ Sleep \/ TakeLock \/ TakeFront
           \/ TakeUnlock \/ Clone \/ Cloned
  BY <1>4 DEF HInfer, Infer, TestLock, Test, TestUnlock, Sleep, TakeLock, TakeFront,
              TakeUnlock, Clone, Cloned
<1>5. ASSUME NEW c \in Cameras, HEventPush(c)
      PROVE  g_imageQueue' = Append(g_imageQueue, Record(c))
  BY <1>5 DEF HEventPush, EventPush
<1>6. CASE UNCHANGED hvars
  BY <1>6 DEF hvars, vars
<1> QED
  BY <1>1, <1>2, <1>3, <1>4, <1>5, <1>6 DEF HNext, HOther

\* Taking the tail moves every record one place to the front.
LEMMA TailElements ==
  ASSUME NEW S, NEW q \in Seq(S), q # <<>>
  PROVE  /\ 1 \in DOMAIN q /\ Head(q) = q[1] /\ Len(q) \in Nat
         /\ \A i \in DOMAIN Tail(q) : i + 1 \in DOMAIN q /\ Tail(q)[i] = q[i + 1] /\ i \in Nat
         /\ \A i \in DOMAIN q : i \in Nat /\ i > 0 /\ i <= Len(q)
                                 /\ (i # 1 => i - 1 \in DOMAIN Tail(q))
  OBVIOUS

\* Appending leaves the other records where they are.
LEMMA AppendElements ==
  ASSUME NEW S, NEW q \in Seq(S), NEW e
  PROVE  /\ Len(q) \in Nat
         /\ DOMAIN Append(q, e) = DOMAIN q \cup {Len(q) + 1}
         /\ \A i \in DOMAIN q : i \in Nat /\ i <= Len(q) /\ Append(q, e)[i] = q[i]
         /\ Append(q, e)[Len(q) + 1] = e
  OBVIOUS

\* A record of the Witness shows its current picture, which is not before any
\* picture the Witness is past.
LEMMA PushedRecord ==
  ASSUME TypeOK, NEW c \in Cameras, HEventPush(c), Followed(Record(c))
  PROVE  /\ c = Witness /\ Unqueued /\ ~Unqueued' /\ Current' = Current
         /\ Kind(Record(c)) = Current
<1>1. c = Witness
  BY DEF Followed, Record
<1>2. Witness \in Cameras
  BY HistoryAssumption DEF HistoryAssumption
<1> QED
  BY <1>1, <1>2 DEF HEventPush, EventPush, Step, Unqueued, Current, Record, Kind, TypeOK

\* What was ahead of all that comes stays ahead.
LEMMA AheadStep ==
  ASSUME TypeOK, NoPopOnEmpty, Unqueued => Current # None, [HNext]_hvars, NEW k, Ahead(k)
  PROVE  Ahead(k)'
<1>1. Shown(k)'
  BY ShownStep DEF Ahead
<1> SUFFICES ASSUME NEW i \in DOMAIN g_imageQueue', Followed(g_imageQueue'[i])
             PROVE  Precedes(k, Kind(g_imageQueue'[i]))
  BY <1>1 DEF Ahead, Followed, Kind
<1>2. g_imageQueue \in Seq(Records)
  BY DEF TypeOK
<1>3. CASE g_imageQueue' = g_imageQueue
  BY <1>3 DEF Ahead
<1>4. CASE g_imageQueue # <<>> /\ g_imageQueue' = Tail(g_imageQueue)
  <2>1. i + 1 \in DOMAIN g_imageQueue /\ g_imageQueue'[i] = g_imageQueue[i + 1]
    BY <1>2, <1>4, TailElements
  <2> QED
    BY <2>1 DEF Ahead
<1>5. ASSUME NEW c \in Cameras, HEventPush(c), g_imageQueue' = Append(g_imageQueue, Record(c))
      PROVE  Precedes(k, Kind(g_imageQueue'[i]))
  <2>1. CASE i \in DOMAIN g_imageQueue
    <3>1. g_imageQueue'[i] = g_imageQueue[i]
      BY <1>2, <1>5, <2>1, AppendElements
    <3> QED
      BY <2>1, <3>1 DEF Ahead
  <2>2. CASE i \notin DOMAIN g_imageQueue
    <3>1. g_imageQueue'[i] = Record(c)
      BY <1>2, <1>5, <2>2, AppendElements
    <3>2. Unqueued /\ Kind(Record(c)) = Current
      BY <1>5, <3>1, PushedRecord
    <3> QED
      BY <3>1, <3>2 DEF Ahead, Shown
  <2> QED
    BY <2>1, <2>2
<1> QED
  BY <1>3, <1>4, <1>5, QueueSteps

\* The queue stays in order.
LEMMA QueueOrderStep ==
  ASSUME TypeOK, NoPopOnEmpty, Unqueued => Current # None, QueueOrdered, [HNext]_hvars
  PROVE  QueueOrdered'
<1>1. \A k : Shown(k) => Shown(k)'
  BY ShownStep
<1>2. g_imageQueue \in Seq(Records)
  BY DEF TypeOK
<1>3. CASE g_imageQueue' = g_imageQueue
  BY <1>1, <1>3 DEF QueueOrdered, Followed, Kind
<1>4. CASE g_imageQueue # <<>> /\ g_imageQueue' = Tail(g_imageQueue)
  <2>1. \A i \in DOMAIN g_imageQueue' : /\ i + 1 \in DOMAIN g_imageQueue /\ i \in Nat
                                       /\ g_imageQueue'[i] = g_imageQueue[i + 1]
    BY <1>2, <1>4, TailElements
  <2>2. ASSUME NEW i \in DOMAIN g_imageQueue', Followed(g_imageQueue'[i]),
               NEW k, k = Kind(g_imageQueue'[i])
        PROVE  Shown(k)'
    BY <1>1, <2>1, <2>2 DEF QueueOrdered, Kind
  <2>3. ASSUME NEW i \in DOMAIN g_imageQueue', NEW j \in DOMAIN g_imageQueue', i < j,
               Followed(g_imageQueue'[i]), Followed(g_imageQueue'[j])
        PROVE  Precedes(Kind(g_imageQueue'[i]), Kind(g_imageQueue'[j]))
    <3>1. i + 1 < j + 1
      BY <2>1, <2>3
    <3> QED
      BY <2>1, <2>3, <3>1 DEF QueueOrdered
  <2> QED
    BY <2>2, <2>3 DEF QueueOrdered, Followed, Kind
<1>5. ASSUME NEW c \in Cameras, HEventPush(c), g_imageQueue' = Append(g_imageQueue, Record(c))
      PROVE  QueueOrdered'
  <2> DEFINE n == Len(g_imageQueue) + 1
             q == g_imageQueue'
  <2>1. /\ DOMAIN q = DOMAIN g_imageQueue \cup {n} /\ q[n] = Record(c) /\ n \in Nat
        /\ \A i \in DOMAIN g_imageQueue : i \in Nat /\ i < n /\ q[i] = g_imageQueue[i]
    BY <1>2, <1>5, AppendElements
  <2>2. Followed(Record(c)) => /\ Unqueued /\ ~Unqueued' /\ Current' = Current
                               /\ Kind(Record(c)) = Current
    BY <1>5, PushedRecord
  <2> HIDE DEF n, q
  <2>3. ASSUME NEW i \in DOMAIN q, Followed(q[i]), NEW k, k = Kind(q[i])
        PROVE  Shown(k)'
    <3>1. CASE i = n
      <4>1. k = Current /\ Current # None /\ ~Unqueued' /\ Current' = Current
        BY <2>1, <2>2, <2>3, <3>1
      <4>2. NotAfter(Current, Current)
        BY <4>1, HistoryAssumption DEF TypeOK, Mats, Rows, Current, HistoryAssumption, NotAfter
      <4> QED
        BY <4>1, <4>2 DEF Shown
    <3>2. CASE i \in DOMAIN g_imageQueue
      <4>1. q[i] = g_imageQueue[i]
        BY <2>1, <3>2
      <4>2. Shown(k)
        BY <2>3, <3>2, <4>1 DEF QueueOrdered
      <4> QED
        BY <1>1, <4>2
    <3> QED
      BY <2>1, <3>1, <3>2
  <2>4. ASSUME NEW i \in DOMAIN q, NEW j \in DOMAIN q, i < j, Followed(q[i]), Followed(q[j])
        PROVE  Precedes(Kind(q[i]), Kind(q[j]))
    <3>1. i # n /\ i \in DOMAIN g_imageQueue /\ q[i] = g_imageQueue[i]
      BY <2>1, <2>4
    <3>2. CASE j = n
      BY <2>1, <2>2, <2>4, <3>1, <3>2 DEF QueueOrdered, Shown
    <3>3. CASE j \in DOMAIN g_imageQueue
      BY <2>1, <2>4, <3>1, <3>3 DEF QueueOrdered
    <3> QED
      BY <2>1, <3>2, <3>3
  <2> QED
    BY <2>3, <2>4 DEF QueueOrdered, q, Followed, Kind
<1> QED
  BY <1>3, <1>4, <1>5, QueueSteps

\* Run is where it was, or takes the front, pops it, goes on with it or is done.
LEMMA RunSteps ==
  ASSUME [HNext]_hvars
  PROVE  \/ UNCHANGED <<dpc, video_data, analysed>>
         \/ /\ dpc \notin {"pop", "popped", "clone", "cloning", "infer"}
            /\ dpc' \notin {"pop", "popped", "clone", "cloning", "infer"}
            /\ UNCHANGED <<video_data, analysed>>
         \/ TakeFront /\ analysed' = analysed
         \/ TakePop /\ analysed' = analysed
         \/ /\ dpc \in {"popped", "clone", "cloning"}
            /\ dpc' \in {"clone", "cloning", "infer"}
            /\ UNCHANGED <<video_data, analysed>>
         \/ HInfer
<1>1. CASE HOther
  <2>1. analysed' = analysed
    BY <1>1 DEF HOther, history
  <2>2. CASE TestLock \/ Test \/ TestUnlock \/ Sleep \/ TakeLock
    BY <2>1, <2>2 DEF TestLock, Test, TestUnlock, Sleep, TakeLock, Goto
  <2>3. CASE TakeUnlock \/ Clone \/ Cloned
    BY <2>1, <2>3 DEF TakeUnlock, Clone, Cloned, Goto
  <2>4. ASSUME NEW c \in Cameras,
               CopyTo(c) \/ EventLock(c) \/ EventOverflow(c) \/ EventRoom(c) \/ EventUnlock(c)
        PROVE  UNCHANGED <<dpc, video_data, analysed>>
    BY <2>1, <2>4 DEF CopyTo, EventLock, EventOverflow, EventRoom, EventUnlock, detectorVars
  <2> QED
    BY <1>1, <2>1, <2>2, <2>3, <2>4 DEF HOther
<1>2. ASSUME NEW c \in Cameras, HDecode(c) \/ HEventPush(c)
      PROVE  UNCHANGED <<dpc, video_data, analysed>>
  BY <1>2 DEF HDecode, Decode, HEventPush, EventPush, history, detectorVars
<1>3. CASE UNCHANGED hvars
  BY <1>3 DEF hvars, vars, detectorVars, history
<1> QED
  BY <1>1, <1>2, <1>3 DEF HNext

\* Nobody changes the queue between front() and pop().
LEMMA FrontStep ==
  ASSUME MutualExclusion, FrontTaken, [HNext]_hvars
  PROVE  FrontTaken'
<1> SUFFICES ASSUME dpc' = "pop" PROVE video_data' = Head(g_imageQueue')
  BY DEF FrontTaken
<1>1. CASE TakeFront
  BY <1>1 DEF TakeFront
<1>2. CASE UNCHANGED <<dpc, video_data, analysed>>
  <2>1. lock_p = Detector /\ \A c \in Cameras : ~CameraInside(c)
    BY <1>2, QueueAssumption DEF MutualExclusion, DetectorInside, QueueAssumption
  <2>2. ~TakePop /\ ~\E c \in Cameras : EventOverflow(c) \/ HEventPush(c)
    BY <1>2, <2>1 DEF TakePop, Goto, EventOverflow, HEventPush, EventPush, Step, CameraInside
  <2>3. g_imageQueue' = g_imageQueue
    <3>1. ASSUME NEW c \in Cameras, HDecode(c)
          PROVE  g_imageQueue' = g_imageQueue
      BY <3>1 DEF HDecode, Decode
    <3>2. CASE HOther
      BY <2>2, <3>2 DEF HOther, TestLock, Test, TestUnlock, Sleep, TakeLock, TakeFront,
                        TakeUnlock, Clone, Cloned, CopyTo, EventLock, EventRoom, EventUnlock
    <3>3. CASE HInfer
      BY <3>3 DEF HInfer, Infer
    <3>4. CASE UNCHANGED hvars
      BY <3>4 DEF hvars, vars
    <3> QED
      BY <2>2, <3>1, <3>2, <3>3, <3>4 DEF HNext
  <2> QED
    BY <1>2, <2>3 DEF FrontTaken
<1>3. ~TakePop /\ ~HInfer
  BY DEF TakePop, HInfer, Infer, Goto
<1> QED
  BY <1>1, <1>2, <1>3, RunSteps

\* The record Run pops was ahead of the rest of the queue.
LEMMA PoppedAhead ==
  ASSUME TypeOK, NoPopOnEmpty, Unqueued => Current # None, FrontTaken, QueueOrdered,
         [HNext]_hvars, TakePop, Followed(video_data), NEW k, k = Kind(video_data)
  PROVE  /\ Ahead(k)'
         /\ \A l : Ahead(l) => Precedes(l, k)
<1> DEFINE q == g_imageQueue
<1>1. /\ q \in Seq(Records) /\ q # <<>> /\ q' = Tail(q) /\ video_data = Head(q)
  BY DEF TakePop, Goto, TypeOK, NoPopOnEmpty, FrontTaken
<1>2. /\ 1 \in DOMAIN q /\ video_data = q[1]
      /\ \A i \in DOMAIN q' : i + 1 \in DOMAIN q /\ q'[i] = q[i + 1] /\ 1 < i + 1
  <2>1. \A i \in DOMAIN Tail(q) : i > 0
    BY <1>1
  <2> QED
    BY <1>1, <2>1, TailElements
<1>3. Shown(k)'
  BY <1>2, ShownStep DEF QueueOrdered
<1>4. \A i \in DOMAIN q' : Followed(q'[i]) => Precedes(k, Kind(q'[i]))
  BY <1>2 DEF QueueOrdered
<1> QED
  BY <1>2, <1>3, <1>4 DEF Ahead, Followed, Kind

\* What Run has taken stays ahead of the queue.
LEMMA HeldStep ==
  ASSUME TypeOK, NoPopOnEmpty, Unqueued => Current # None, FrontTaken, QueueOrdered,
         HeldAhead, [HNext]_hvars
  PROVE  HeldAhead'
<1> SUFFICES ASSUME Held', NEW k, k = Kind(video_data)' PROVE Ahead(k)'
  BY DEF HeldAhead
<1>1. CASE Held /\ video_data' = video_data
  BY <1>1, AheadStep DEF HeldAhead, Kind
<1>2. CASE TakePop
  BY <1>2, PoppedAhead DEF TakePop, Held, Followed, Kind
<1>3. CASE TakeFront \/ HInfer
  BY <1>3 DEF TakeFront, HInfer, Infer, Goto, Held
<1> QED
  BY <1>1, <1>2, <1>3, RunSteps DEF Held, Followed

\* What was analysed stays ahead of all else, and in order.
LEMMA AnalysedStep ==
  ASSUME TypeOK, NoPopOnEmpty, PictureIntact, OrderInv, [HNext]_hvars
  PROVE  /\ AnalysedAhead' /\ analysed' \in Seq(Pictures) /\ InCameraOrder'
<1>1. /\ Unqueued => Current # None
      /\ FrontTaken /\ QueueOrdered /\ HeldAhead /\ AnalysedAhead
      /\ analysed \in Seq(Pictures) /\ InCameraOrder
  BY DEF OrderInv
<1>2. \A k : Ahead(k) => Ahead(k)'
  BY <1>1, AheadStep
<1>3. CASE UNCHANGED <<video_data, analysed>> /\ (Held' => Held)
  BY <1>1, <1>2, <1>3 DEF AnalysedAhead, Kind, InCameraOrder
<1>4. CASE TakePop /\ analysed' = analysed
  <2>1. ASSUME Held', NEW i \in DOMAIN analysed
        PROVE  Precedes(analysed[i], Kind(video_data'))
    BY <1>1, <1>4, <2>1, PoppedAhead DEF TakePop, AnalysedAhead, Held, Followed
  <2> QED
    BY <1>1, <1>2, <1>4, <2>1 DEF AnalysedAhead, InCameraOrder, Kind
<1>5. CASE TakeFront /\ analysed' = analysed
  <2>1. ~Held'
    BY <1>5 DEF TakeFront, Goto, Held
  <2> QED
    BY <1>1, <1>2, <1>5, <2>1 DEF AnalysedAhead, InCameraOrder
<1>6. CASE HInfer
  <2> DEFINE kind == img["top"]
  <2>1. dpc = "infer" /\ ~Held' /\ kind = Kind(video_data)
    BY <1>6 DEF HInfer, Infer, Goto, Held, PictureIntact, Kind
  <2>2. CASE analysed' = analysed
    BY <1>1, <1>2, <2>1, <2>2 DEF AnalysedAhead, InCameraOrder
  <2>3. CASE /\ Followed(video_data) /\ analysed' = Append(analysed, kind)
             /\ kind = "marked" \/ analysed = <<>> \/ Last(analysed) # kind
    <3>1. Held /\ Ahead(kind)
      BY <1>1, <2>1, <2>3 DEF Held, HeldAhead
    <3>2. kind \in Pictures
      BY <3>1, HistoryAssumption DEF Ahead, Shown, Precedes, NotAfter, HistoryAssumption
    <3> DEFINE n == Len(analysed) + 1
    <3> HIDE DEF kind
    <3>3. /\ DOMAIN analysed' = DOMAIN analysed \cup {n} /\ analysed'[n] = kind /\ n \in Nat
          /\ \A i \in DOMAIN analysed : i \in Nat /\ i < n /\ analysed'[i] = analysed[i]
      BY <1>1, <2>3, AppendElements
    <3> HIDE DEF n
    <3>4. AnalysedAhead'
      <4>1. \A i \in DOMAIN analysed' : \A k : k = analysed'[i] => Ahead(k)'
        BY <1>1, <1>2, <3>1, <3>3 DEF AnalysedAhead
      <4> QED
        BY <2>1, <4>1 DEF AnalysedAhead
    <3>5. analysed' \in Seq(Pictures)
      BY <1>1, <2>3, <3>2
    <3>6. ASSUME NEW i \in DOMAIN analysed
          PROVE  Rank(analysed[i]) < Rank(kind)
      <4>1. Precedes(analysed[i], kind)
        BY <1>1, <2>1, <3>1 DEF AnalysedAhead
      <4>2. analysed[i] # kind
        <5> SUFFICES ASSUME analysed[i] = kind PROVE FALSE
          OBVIOUS
        <5> DEFINE m == Len(analysed)
        <5>1. kind # "marked" /\ m \in DOMAIN analysed /\ i \in Nat /\ m \in Nat /\ i <= m
          BY <1>1, <4>1 DEF Precedes
        <5>2. analysed[m] # kind
          BY <2>3, <5>1 DEF Last
        <5>3. i < m
          BY <5>1, <5>2
        <5> HIDE DEF m
        <5>4. Rank(kind) < Rank(analysed[m]) /\ Precedes(analysed[m], kind)
          BY <1>1, <2>1, <3>1, <5>1, <5>3 DEF AnalysedAhead, InCameraOrder
        <5> QED
          BY <5>2, <5>4 DEF Precedes, NotAfter, Rank
      <4> QED
        BY <4>1, <4>2 DEF Precedes, NotAfter, Rank
    <3>7. InCameraOrder'
      <4> SUFFICES ASSUME NEW i \in DOMAIN analysed', NEW j \in DOMAIN analysed', i < j
                   PROVE  Rank(analysed'[i]) < Rank(analysed'[j])
        BY DEF InCameraOrder
      <4>1. i # n /\ i \in DOMAIN analysed /\ analysed'[i] = analysed[i]
        BY <3>3
      <4>2. CASE j = n
        BY <3>3, <3>6, <4>1, <4>2
      <4>3. CASE j \in DOMAIN analysed
        BY <1>1, <3>3, <4>1, <4>3 DEF InCameraOrder
      <4> QED
        BY <3>3, <4>2, <4>3
    <3> QED
      BY <3>4, <3>5, <3>7
  <2> HIDE DEF kind
  <2>4. \/ analysed' = analysed
        \/ /\ Followed(video_data) /\ analysed' = Append(analysed, kind)
           /\ kind = "marked" \/ analysed = <<>> \/ Last(analysed) # kind
    BY <1>6 DEF HInfer, Followed, kind
  <2> QED
    BY <2>2, <2>3, <2>4
<1> QED
  BY <1>3, <1>4, <1>5, <1>6, RunSteps DEF Held, Followed

\* At first there is nothing to order.
LEMMA InitOrder ==
  ASSUME HInit
  PROVE  OrderInv
<1>1. g_imageQueue = <<>> /\ analysed = <<>> /\ dpc = "loop" /\ ~Unqueued
  BY HistoryAssumption DEF HInit, Init, Unqueued, HistoryAssumption
<1> QED
  BY <1>1 DEF OrderInv, FrontTaken, QueueOrdered, HeldAhead, Held, AnalysedAhead, InCameraOrder

\* FrameHistory only watches DetectionQueue.
LEMMA HistoryIsSpec == HSpec => Spec
<1>1. HInit => Init
  BY DEF HInit
<1>2. [HNext]_hvars => [Next]_vars
  BY HistoryStep
<1> QED
  BY <1>1, <1>2, PTL DEF HSpec, Spec

\* The order holds throughout, unless the decoder writes into queued pictures.
LEMMA OrderInvariant ==
  ASSUME ReusesBuffer = FALSE
  PROVE  HSpec => []OrderInv
<1>1. HInit => OrderInv
  BY InitOrder
<1>2. HandOver /\ PictureIntact /\ OrderInv /\ [HNext]_hvars => OrderInv'
  <2> SUFFICES ASSUME HandOver, PictureIntact, OrderInv, [HNext]_hvars
               PROVE  OrderInv'
    OBVIOUS
  <2>1. /\ TypeOK /\ NoPopOnEmpty /\ MutualExclusion
        /\ Unqueued => Current # None
        /\ FrontTaken /\ QueueOrdered /\ HeldAhead
    BY DEF HandOver, OrderInv
  <2>2. (Unqueued => Current # None)' /\ FrontTaken' /\ QueueOrdered' /\ HeldAhead'
    BY <2>1, ShownStep, FrontStep, QueueOrderStep, HeldStep
  <2>3. AnalysedAhead' /\ (analysed \in Seq(Pictures))' /\ InCameraOrder'
    BY <2>1, AnalysedStep
  <2> QED
    BY <2>2, <2>3 DEF OrderInv
<1>3. Spec => []HandOver /\ []PictureIntact
  BY HandOverInvariant, PicturesArriveIntact
<1> QED
  BY <1>1, <1>2, <1>3, HistoryIsSpec, PTL DEF HSpec

\* From a camera whose decoder allocates a cv::Mat per picture, the network sees
\* the pictures in the camera's order and none twice, for any number of pictures
\* and cameras and any capacity of the queue.
THEOREM NetworkSeesInOrder ==
  ASSUME ReusesBuffer = FALSE
  PROVE  HSpec => []InCameraOrder
<1>1. OrderInv => InCameraOrder
  BY DEF OrderInv
<1> QED
  BY <1>1, OrderInvariant, PTL

-----------------------------------------------------------------------------
(* Where the marked record is *)

\* The marked record, while it waits, has as many records behind it as were pushed
\* after it.
PlaceOfMarked ==
  \A i \in DOMAIN g_imageQueue :
    IsMarked(g_imageQueue[i]) => behind = Len(g_imageQueue) - i

\* Once it was pushed the Witness is past it.
MarkedPushed == behind # None => behind \in 0 .. Capacity /\ Shown("marked")

LostInv == PlaceOfMarked /\ MarkedPushed /\ LostOnlyToOverflow

\* The record is somewhere between the queue and the end of the analysis.
Safe == \/ \E i \in DOMAIN g_imageQueue : IsMarked(g_imageQueue[i])
        \/ video_data # None /\ IsMarked(video_data)
        \/ "marked" \in ToSet(analysed)

\* LostOnlyToOverflow, said with Safe.
LEMMA SafeIs ==
  LostOnlyToOverflow <=>
    (behind # None /\ behind + (IF Putting THEN 1 ELSE 0) < Capacity => Safe)
BY DEF LostOnlyToOverflow, Safe, ToSet

\* The smaller of two numbers.
LEMMA MinOfTwo ==
  ASSUME NEW m \in Nat, NEW n \in Nat
  PROVE  Min({m, n}) \in Nat /\ Min({m, n}) = IF m <= n THEN m ELSE n
<1> DEFINE least == IF m <= n THEN m ELSE n
<1>1. least \in {m, n} /\ \A y \in {m, n} : least <= y
  OBVIOUS
<1>2. \A x \in {m, n} : (\A y \in {m, n} : x <= y) => x = least
  OBVIOUS
<1> HIDE DEF least
<1>3. (CHOOSE x \in {m, n} : \A y \in {m, n} : x <= y) = least
  BY <1>1, <1>2
<1>4. Min({m, n}) = least
  BY <1>3 DEF Min
<1> QED
  BY <1>4 DEF least

\* Run does not lose the marked record.
LEMMA RunKeeps ==
  ASSUME TypeOK, NoPopOnEmpty, PictureIntact, FrontTaken, HandsFree, Holding,
         [HNext]_hvars, Safe,
         UNCHANGED g_imageQueue \/ TakePop
  PROVE  Safe'
<1>1. CASE UNCHANGED <<video_data, analysed, g_imageQueue>>
  BY <1>1 DEF Safe, IsMarked
<1>2. CASE TakePop /\ analysed' = analysed
  <2>1. ASSUME NEW i \in DOMAIN g_imageQueue, IsMarked(g_imageQueue[i])
        PROVE  Safe'
    <3>1. /\ g_imageQueue \in Seq(Records) /\ g_imageQueue # <<>>
          /\ g_imageQueue' = Tail(g_imageQueue) /\ video_data' = video_data
          /\ video_data = Head(g_imageQueue) /\ video_data \in Records
      BY <1>2 DEF TakePop, Goto, TypeOK, NoPopOnEmpty, FrontTaken, Holding
    <3>2. CASE i = 1
      <4>1. video_data = g_imageQueue[i] /\ video_data # None
        BY <3>1, <3>2, TailElements, QueueAssumption DEF QueueAssumption
      <4> QED
        BY <2>1, <3>1, <4>1 DEF Safe, IsMarked
    <3>3. CASE i # 1
      <4>1. i - 1 \in DOMAIN g_imageQueue' /\ g_imageQueue'[i - 1] = g_imageQueue[i]
        <5>1. i - 1 \in DOMAIN Tail(g_imageQueue) /\ i \in Nat
          BY <3>1, <3>3, TailElements
        <5>2. (i - 1) + 1 = i
          BY <5>1
        <5> QED
          BY <3>1, <5>1, <5>2, TailElements
      <4> QED
        BY <2>1, <4>1 DEF Safe, IsMarked
    <3> QED
      BY <3>2, <3>3
  <2>2. video_data' = video_data
    BY <1>2 DEF TakePop
  <2> QED
    BY <1>2, <2>1, <2>2 DEF Safe
<1>3. CASE TakeFront /\ analysed' = analysed
  <2>1. g_imageQueue' = g_imageQueue /\ video_data = None
    BY <1>3 DEF TakeFront, Goto, HandsFree
  <2> QED
    BY <1>3, <2>1 DEF Safe, IsMarked
<1>4. CASE HInfer
  <2> DEFINE kind == img["top"]
  <2>1. /\ g_imageQueue' = g_imageQueue
        /\ video_data # None /\ IsMarked(video_data) => kind = "marked" /\ Followed(video_data)
    BY <1>4 DEF HInfer, Infer, Goto, PictureIntact, IsMarked, Followed
  <2>2. \/ analysed' = analysed /\ (Followed(video_data) => kind # "marked")
        \/ analysed' = Append(analysed, kind)
    BY <1>4 DEF HInfer, Followed
  <2> HIDE DEF kind
  <2>3. CASE analysed' = analysed /\ (Followed(video_data) => kind # "marked")
    BY <2>1, <2>3 DEF Safe, IsMarked
  <2>4. CASE analysed' = Append(analysed, kind)
    <3>1. ToSet(analysed) \subseteq ToSet(analysed') /\ kind \in ToSet(analysed')
      BY <2>4, AppendElements DEF ToSet
    <3> QED
      BY <2>1, <3>1 DEF Safe, IsMarked
  <2> QED
    BY <2>2, <2>3, <2>4
<1>5. HInfer => ~TakePop
  BY DEF HInfer, Infer, TakePop, Goto
<1> QED
  BY <1>1, <1>2, <1>3, <1>4, <1>5, RunSteps

\* The steps that count: eventFunc drops the oldest record and is about to put its
\* own, puts it, or Run pops; in every other step the queue stays.
LEMMA CountingSteps ==
  ASSUME HandOver, [HNext]_hvars
  PROVE  \/ /\ Len(g_imageQueue) >= Capacity /\ g_imageQueue # <<>>
            /\ g_imageQueue' = Tail(g_imageQueue)
            /\ Putting' /\ UNCHANGED <<history, video_data>>
         \/ \E c \in Cameras : /\ HEventPush(c) /\ Putting /\ ~Putting'
                               /\ Len(g_imageQueue) < Capacity
                               /\ UNCHANGED <<analysed, video_data>>
         \/ /\ g_imageQueue' = g_imageQueue \/ TakePop
            /\ behind' = behind /\ (Putting => Putting')
<1>0. /\ cpc \in [Cameras -> CameraSteps]
      /\ \A c, e \in Cameras : cpc[c] = "push" /\ cpc[e] = "push" => c = e
  BY DEF HandOver, TypeOK, MutualExclusion, CameraInside
<1>1. ASSUME NEW c \in Cameras, EventOverflow(c), history' = history
      PROVE  /\ Len(g_imageQueue) >= Capacity /\ g_imageQueue # <<>>
             /\ g_imageQueue' = Tail(g_imageQueue)
             /\ Putting' /\ UNCHANGED <<history, video_data>>
  <2>1. g_imageQueue # <<>>
    BY <1>1, EmptyAndAppend, QueueAssumption
       DEF EventOverflow, QueueAssumption, HandOver, TypeOK
  <2>2. Putting'
    BY <1>0, <1>1 DEF EventOverflow, Step, Putting
  <2> QED
    BY <1>1, <2>1, <2>2 DEF EventOverflow, detectorVars
<1>2. ASSUME NEW c \in Cameras, HEventPush(c)
      PROVE  /\ Putting /\ ~Putting' /\ Len(g_imageQueue) < Capacity
             /\ UNCHANGED <<analysed, video_data>>
  <2>1. cpc[c] = "push" /\ cpc' = [cpc EXCEPT ![c] = "unlock"]
    BY <1>2 DEF HEventPush, EventPush, Step
  <2>2. Putting /\ ~Putting'
    BY <1>0, <2>1 DEF Putting
  <2>3. Len(g_imageQueue) < Capacity
    BY <2>1 DEF HandOver, Bounded
  <2> QED
    BY <1>2, <2>2, <2>3 DEF HEventPush, EventPush, detectorVars
<1>3. ASSUME NEW c \in Cameras,
             HDecode(c) \/ CopyTo(c) \/ EventLock(c) \/ EventRoom(c) \/ EventUnlock(c),
             history' = history
      PROVE  g_imageQueue' = g_imageQueue /\ behind' = behind /\ (Putting => Putting')
  <2>1. g_imageQueue' = g_imageQueue /\ behind' = behind
    BY <1>3 DEF HDecode, Decode, CopyTo, EventLock, EventRoom, EventUnlock, history
  <2>2. \E from, to \in CameraSteps : from # "push" /\ Step(c, from, to)
    BY <1>3 DEF HDecode, Decode, CopyTo, EventLock, EventRoom, EventUnlock, CameraSteps
  <2>3. Putting => Putting'
    BY <1>0, <2>2 DEF Step, Putting
  <2> QED
    BY <2>1, <2>3
<1>4. CASE \/ TestLock \/ Test \/ TestUnlock \/ Sleep \/ TakeLock \/ TakeFront
           \/ TakePop \/ TakeUnlock \/ Clone \/ Cloned \/ Infer
  <2>1. g_imageQueue' = g_imageQueue \/ TakePop
    BY <1>4 DEF TestLock, Test, TestUnlock, Sleep, TakeLock, TakeFront, TakeUnlock, Clone,
                Cloned, Infer
  <2>2. cpc' = cpc
    BY <1>4 DEF TestLock, Test, TestUnlock, Sleep, TakeLock, TakeFront, TakePop, TakeUnlock,
                Clone, Cloned, Infer, cameraVars
  <2>3. behind' = behind \/ \E c \in Cameras : HEventPush(c)
    BY DEF HNext, HInfer, HOther, HDecode, hvars, history
  <2>4. ~\E c \in Cameras : HEventPush(c)
    BY <1>0, <2>2 DEF HEventPush, EventPush, Step
  <2> QED
    BY <2>1, <2>2, <2>3, <2>4 DEF Putting
<1>5. CASE UNCHANGED hvars
  BY <1>5 DEF hvars, vars, cameraVars, history, Putting
<1>6. \A c \in Cameras : HDecode(c) => history' = history
  BY DEF HDecode
<1>7. HOther => history' = history
  BY DEF HOther
<1>8. HInfer => Infer
  BY DEF HInfer
<1> QED
  BY <1>1, <1>2, <1>3, <1>4, <1>5, <1>6, <1>7, <1>8 DEF HNext, HOther

\* Every step keeps the place of the marked record and loses it only to overflow.
LEMMA LostStep ==
  ASSUME HandOver, HandsFree, PictureIntact, OrderInv, LostInv, [HNext]_hvars
  PROVE  LostInv'
<1>0. /\ TypeOK /\ NoPopOnEmpty /\ Holding /\ FrontTaken /\ QueueOrdered
      /\ Unqueued => Current # None
      /\ PlaceOfMarked /\ MarkedPushed /\ LostOnlyToOverflow
      /\ g_imageQueue \in Seq(Records) /\ Len(g_imageQueue) \in Nat
      /\ Len(g_imageQueue) <= Capacity /\ Capacity \in Nat /\ Capacity > 0
      /\ None \notin Nat
  BY QueueAssumption, HistoryAssumption
     DEF HandOver, OrderInv, LostInv, TypeOK, Bounded, QueueAssumption, HistoryAssumption
<1>s. \A k : Shown(k) => Shown(k)'
  BY <1>0, ShownStep
<1>t. ASSUME g_imageQueue # <<>>, g_imageQueue' = Tail(g_imageQueue), behind' = behind
      PROVE  PlaceOfMarked' /\ MarkedPushed'
  <2>1. \A i \in DOMAIN g_imageQueue' :
          /\ i \in Nat /\ i + 1 \in DOMAIN g_imageQueue
          /\ g_imageQueue'[i] = g_imageQueue[i + 1]
    BY <1>0, <1>t, TailElements
  <2>2. Len(g_imageQueue') = Len(g_imageQueue) - 1
    BY <1>0, <1>t, TailOfRecords
  <2>3. ASSUME NEW i \in DOMAIN g_imageQueue', IsMarked(g_imageQueue'[i])
        PROVE  behind' = Len(g_imageQueue') - i
    <3>1. behind = Len(g_imageQueue) - (i + 1)
      BY <1>0, <2>1, <2>3 DEF PlaceOfMarked
    <3>2. i \in Nat
      BY <2>1
    <3> QED
      BY <1>0, <1>t, <2>2, <3>1, <3>2
  <2> QED
    BY <1>0, <1>s, <1>t, <2>3 DEF PlaceOfMarked, IsMarked, MarkedPushed
<1>1. CASE /\ Len(g_imageQueue) >= Capacity /\ g_imageQueue # <<>>
           /\ g_imageQueue' = Tail(g_imageQueue)
           /\ Putting' /\ UNCHANGED <<history, video_data>>
  <2>1. behind' = behind /\ analysed' = analysed /\ PlaceOfMarked' /\ MarkedPushed'
    BY <1>1, <1>t DEF history
  <2>2. ASSUME behind' # None, behind' + 1 < Capacity
        PROVE  Safe'
    <3>1. behind \in Nat /\ Safe
      BY <1>0, <2>1, <2>2, SafeIs DEF MarkedPushed
    <3>2. ASSUME NEW i \in DOMAIN g_imageQueue, IsMarked(g_imageQueue[i])
          PROVE  i - 1 \in DOMAIN g_imageQueue' /\ g_imageQueue'[i - 1] = g_imageQueue[i]
      <4>1. behind = Len(g_imageQueue) - i /\ i \in Nat
        BY <1>0, <3>2, TailElements, <1>1 DEF PlaceOfMarked
      <4>2. i # 1
        BY <1>0, <1>1, <2>1, <2>2, <4>1
      <4>3. i - 1 \in DOMAIN Tail(g_imageQueue) /\ (i - 1) + 1 = i
        BY <1>0, <1>1, <4>1, <4>2, TailElements
      <4> QED
        BY <1>0, <1>1, <4>3, TailElements
    <3> QED
      BY <1>1, <2>1, <3>1, <3>2 DEF Safe, IsMarked
  <2>3. LostOnlyToOverflow'
    BY <1>1, <2>2 DEF LostOnlyToOverflow, Safe, ToSet
  <2> QED
    BY <2>1, <2>3 DEF LostInv
<1>2. ASSUME NEW c \in Cameras, HEventPush(c), Putting, ~Putting',
             Len(g_imageQueue) < Capacity, UNCHANGED <<analysed, video_data>>
      PROVE  LostInv'
  <2> DEFINE n == Len(g_imageQueue) + 1
             q == g_imageQueue'
  <2>1. q = Append(g_imageQueue, Record(c)) /\ Len(q) = n
    BY <1>0, <1>2 DEF HEventPush, EventPush
  <2>2. /\ DOMAIN q = DOMAIN g_imageQueue \cup {n} /\ q[n] = Record(c) /\ n \in Nat
        /\ \A i \in DOMAIN g_imageQueue : i \in Nat /\ i < n /\ q[i] = g_imageQueue[i]
    BY <1>0, <2>1, AppendElements
  <2>3. behind' = IF IsMarked(Record(c)) THEN 0
                  ELSE IF behind = None THEN None ELSE Min({behind + 1, Capacity})
    BY <1>2 DEF HEventPush
  <2> HIDE DEF n, q
  <2>4. CASE IsMarked(Record(c))
    <3>1. /\ Unqueued /\ ~Unqueued' /\ Current' = Current /\ Current = "marked"
      BY <1>0, <1>2, <2>4, PushedRecord DEF IsMarked, Followed, Kind
    <3>2. \A i \in DOMAIN g_imageQueue : ~IsMarked(g_imageQueue[i])
      BY <1>0, <3>1 DEF QueueOrdered, IsMarked, Followed, Kind, Shown, Precedes
    <3>3. PlaceOfMarked'
      <4> SUFFICES ASSUME NEW i \in DOMAIN q, IsMarked(q[i]) PROVE behind' = Len(q) - i
        BY DEF PlaceOfMarked, IsMarked, q
      <4>1. i = n
        BY <2>2, <3>2
      <4> QED
        BY <2>1, <2>2, <2>3, <2>4, <4>1
    <3>4. MarkedPushed'
      BY <1>0, <2>3, <2>4, <3>1 DEF MarkedPushed, Shown, NotAfter
    <3>5. \E i \in DOMAIN q : IsMarked(q[i])
      BY <2>2, <2>4
    <3>6. LostOnlyToOverflow'
      BY <3>5 DEF LostOnlyToOverflow, ToSet, q, IsMarked
    <3> QED
      BY <3>3, <3>4, <3>6 DEF LostInv
  <2>5. CASE ~IsMarked(Record(c))
    <3>1. CASE behind = None
      <4>1. \A i \in DOMAIN g_imageQueue : ~IsMarked(g_imageQueue[i])
        <5>1. \A i \in DOMAIN g_imageQueue : Len(g_imageQueue) - i \in Nat
          BY <1>0
        <5> QED
          BY <1>0, <3>1, <5>1 DEF PlaceOfMarked
      <4>2. \A i \in DOMAIN q : ~IsMarked(q[i])
        BY <2>2, <2>5, <4>1
      <4>3. behind' = None
        BY <2>3, <2>5, <3>1
      <4> QED
        BY <4>2, <4>3 DEF LostInv, PlaceOfMarked, MarkedPushed, LostOnlyToOverflow, IsMarked, q
    <3>2. CASE behind # None
      <4>1. behind \in Nat /\ behind <= Capacity /\ Shown("marked")
        BY <1>0, <3>2 DEF MarkedPushed
      <4>2. /\ behind' \in Nat /\ behind' <= Capacity
            /\ behind + 1 <= Capacity => behind' = behind + 1
            /\ behind' < Capacity => behind' = behind + 1
        <5>1. behind' = Min({behind + 1, Capacity})
          BY <2>3, <2>5, <3>2
        <5>2. behind + 1 \in Nat
          BY <4>1
        <5>3. behind' = IF behind + 1 <= Capacity THEN behind + 1 ELSE Capacity
          BY <1>0, <5>1, <5>2, MinOfTwo
        <5> QED
          BY <1>0, <4>1, <5>3
      <4>3. PlaceOfMarked'
        <5> SUFFICES ASSUME NEW i \in DOMAIN q, IsMarked(q[i]) PROVE behind' = Len(q) - i
          BY DEF PlaceOfMarked, IsMarked, q
        <5>1. i \in DOMAIN g_imageQueue /\ IsMarked(g_imageQueue[i]) /\ i \in Nat
          BY <2>2, <2>5
        <5>2. behind = Len(g_imageQueue) - i
          BY <1>0, <5>1 DEF PlaceOfMarked
        <5>3. i >= 1
          BY <1>0, <5>1
        <5> QED
          BY <1>0, <1>2, <2>1, <4>1, <4>2, <5>1, <5>2, <5>3 DEF n
      <4>4. MarkedPushed'
        BY <1>0, <1>s, <4>1, <4>2 DEF MarkedPushed
      <4>5. ASSUME behind' < Capacity PROVE Safe'
        <5>1. behind + 1 < Capacity /\ behind # None
          BY <1>0, <3>2, <4>1, <4>2, <4>5
        <5>2. Safe
          BY <1>0, <1>2, <5>1, SafeIs
        <5>3. \A i \in DOMAIN g_imageQueue : i \in DOMAIN q /\ q[i] = g_imageQueue[i]
          BY <2>2
        <5> QED
          BY <1>2, <5>2, <5>3 DEF Safe, IsMarked, q
      <4>6. LostOnlyToOverflow'
        BY <1>2, <4>2, <4>5 DEF LostOnlyToOverflow, Safe, ToSet
      <4> QED
        BY <4>3, <4>4, <4>6 DEF LostInv
    <3> QED
      BY <3>1, <3>2
  <2> QED
    BY <2>4, <2>5
<1>3. CASE /\ g_imageQueue' = g_imageQueue \/ TakePop
           /\ behind' = behind /\ (Putting => Putting')
  <2>1. PlaceOfMarked' /\ MarkedPushed'
    <3>1. CASE g_imageQueue' = g_imageQueue
      BY <1>0, <1>s, <1>3, <3>1 DEF PlaceOfMarked, MarkedPushed, IsMarked
    <3>2. CASE TakePop
      BY <1>0, <1>3, <1>t, <3>2 DEF TakePop, Goto, NoPopOnEmpty
    <3> QED
      BY <1>3, <3>1, <3>2
  <2>2. ASSUME behind' # None, behind' + (IF Putting' THEN 1 ELSE 0) < Capacity
        PROVE  Safe'
    <3>1. behind \in Nat
      BY <1>0, <1>3, <2>2 DEF MarkedPushed
    <3>2. behind + (IF Putting THEN 1 ELSE 0) < Capacity
      BY <1>0, <1>3, <2>2, <3>1
    <3>3. Safe
      BY <1>0, <1>3, <2>2, <3>2, SafeIs
    <3> QED
      BY <1>0, <1>3, <3>3, RunKeeps
  <2>3. LostOnlyToOverflow'
    BY <2>2 DEF LostOnlyToOverflow, Safe, ToSet
  <2> QED
    BY <2>1, <2>3 DEF LostInv
<1> QED
  BY <1>1, <1>2, <1>3, CountingSteps

\* A picture of a decoder that allocates a cv::Mat per picture, once it reached the
\* queue, is lost to overflow or not at all: as long as fewer than Capacity records
\* were put after it, it waits, is being worked on or has been analysed.
THEOREM OverflowOnlyLoses ==
  ASSUME ReusesBuffer = FALSE
  PROVE  HSpec => []LostOnlyToOverflow
<1>1. HInit => LostInv
  BY DEF HInit, Init, LostInv, PlaceOfMarked, MarkedPushed, LostOnlyToOverflow
<1>2. Implementation /\ PictureIntact /\ OrderInv /\ LostInv /\ [HNext]_hvars => LostInv'
  BY LostStep DEF Implementation
<1>3. LostInv => LostOnlyToOverflow
  BY DEF LostInv
<1>4. Spec => []Implementation /\ []PictureIntact
  BY ImplementationInvariant, PicturesArriveIntact
<1> QED
  BY <1>1, <1>2, <1>3, <1>4, OrderInvariant, HistoryIsSpec, PTL DEF HSpec
=============================================================================
