------------------------------ MODULE Startup -------------------------------
(***************************************************************************)
(* main(), the threads it starts and who owns what.                        *)
(*                                                                         *)
(* main creates the detector, starts its thread, and then for one camera   *)
(* after the other creates a decoder held by a std::shared_ptr, initialises*)
(* it, starts its thread and only then connects it to the detector.  The   *)
(* thread itself deletes the decoder when Run returns (SetAutoDelete), so  *)
(* a decoder has two owners.  When a camera of DecodeType 2 cannot be      *)
(* initialised main returns, which destroys the vectors of shared pointers *)
(* and the detector's manager while the threads run on until the process   *)
(* is gone.                                                                *)
(*                                                                         *)
(* Start is two steps (pthread_create, then pthread_detach of a member);   *)
(* connectMessage is three: m_recver, then the two words of the            *)
(* std::function m_callFun the decoder looks at: the manager, which        *)
(* operator bool tests, and the invoker, which the call jumps to (libstdc++*)
(* assigns by swapping them in this order, and nothing orders the          *)
(* decoder's reads).  A thread that comes between the two passes the test   *)
(* and jumps through an invoker nobody has set.                            *)
(***************************************************************************)
EXTENDS Integers, FiniteSets

CONSTANTS Channels,      \* [camera] ch, the number of cameras
          DecodeTypes,   \* values of DecodeType in properties.ini: 1 opencv,
                         \* 2 ffmpeg, 3 HK real-time, 4 HK capture
          AITypes        \* values of AIType

ASSUME StartupAssumption ==
  /\ Channels \in Nat \ {0}
  /\ DecodeTypes \subseteq 1 .. 4
  /\ AITypes \subseteq Int

Cameras == 1 .. Channels

VARIABLES
  AIType,        \* the configured detector
  DecodeType,    \* and way to decode
  pc,            \* where main is
  cam,           \* the camera main deals with
  detector,      \* the detector object
  object,        \* the decoder objects
  frees,         \* how often each was deleted
  autoDelete_,   \* its thread will delete it
  thread,        \* the decoder threads
  m_recver,      \* connectMessage has set the receiver,
  manager,       \* m_callFun.operator bool(),
  invoker        \* and the function m_callFun calls

config == <<AIType, DecodeType>>
mainVars == <<config, pc, cam>>
objectVars == <<detector, object, frees, autoDelete_>>
slotVars == <<m_recver, manager, invoker>>
vars == <<mainVars, objectVars, thread, slotVars>>

\* Which class ObjDetection_Manager::CreateDetection makes; the others stay
\* nullptr.
CreateDetection(type) ==
  CASE type = 101 -> "fyApplyYolov5"
    [] type = 103 -> "fyApplyYolov7"
    [] type = 104 -> "fyApplyYolov8"
    [] type = 105 -> "fyApplyYolov8Seg"
    [] type = 106 -> "fyApplyYolov8Pose"
    [] type \in {1, 5} -> "wxApplyYolov57seg"
    [] type = 2 -> "wxApplyYolov57"
    [] type = 201 -> "ApplyDepthAnything"
    [] OTHER -> "nullptr"

\* How main ends when iniModel of a class cannot load its network: the fy classes
\* return -1, the wx classes return -1 without coco.txt and assert the engine,
\* the constructor of DepthAnything uses what it did not get.
WithoutModel(class) ==
  CASE class \in {"wxApplyYolov57", "wxApplyYolov57seg"} -> {"exited", "crashed"}
    [] class = "ApplyDepthAnything" -> {"crashed"}
    [] OTHER -> {"exited"}

Init ==
  /\ AIType \in AITypes
  /\ DecodeType \in DecodeTypes
  /\ pc = "model"
  /\ cam = 1
  /\ detector = "none"
  /\ object = [c \in Cameras |-> "none"]
  /\ frees = [c \in Cameras |-> 0]
  /\ autoDelete_ = [c \in Cameras |-> FALSE]
  /\ thread = [c \in Cameras |-> "none"]
  /\ m_recver = [c \in Cameras |-> FALSE]
  /\ manager = [c \in Cameras |-> FALSE]
  /\ invoker = [c \in Cameras |-> FALSE]

-----------------------------------------------------------------------------
(* main *)

Goto(from, to) == pc = from /\ pc' = to

\* Mutant: <= for < in the loop over the cameras.
NextCameraPast == cam' = cam + 1 /\ pc' = "ini"

\* main turns to the next camera, or to its endless loop.  DecodeType 1 reads
\* one source whatever ch says.
NextCamera == IF cam + 1 \in Cameras /\ DecodeType # 1
              THEN cam' = cam + 1 /\ pc' = "ini"
              ELSE cam' = cam /\ pc' = "idle"

\* Deleting a decoder: its memory is gone, whoever else points to it.
Delete(c) == /\ object' = [object EXCEPT ![c] = "deleted"]
             /\ frees' = [frees EXCEPT ![c] = @ + 1]

\* Manager::Ini, GetDetection and iniModel through the pointer they return;
\* main returns -1 when iniModel does.
LoadModel ==
  /\ pc = "model"
  /\ IF CreateDetection(AIType) = "nullptr"
     THEN pc' = "crashed" /\ UNCHANGED detector
     ELSE /\ pc' \in {"startDetector"} \cup WithoutModel(CreateDetection(AIType))
          /\ detector' = IF pc' = "startDetector" THEN "alive" ELSE "deleted"
  /\ UNCHANGED <<config, cam, object, frees, autoDelete_, thread, slotVars>>

StartDetector ==
  /\ Goto("startDetector", "ini")
  /\ detector' = "running"
  /\ UNCHANGED <<config, cam, object, frees, autoDelete_, thread, slotVars>>

\* The decoder is created and initialised.
IniCamera ==
  /\ Goto("ini", "autoDelete")
  /\ object' = [object EXCEPT ![cam] = "alive"]
  /\ UNCHANGED <<config, cam, detector, frees, autoDelete_, thread, slotVars>>

\* Mutant: one camera of any type that fails ends the program.
IniCameraFailsReturns ==
  /\ Goto("ini", "return")
  /\ DecodeType \in {2, 4}
  /\ Delete(cam)
  /\ UNCHANGED <<config, cam, detector, autoDelete_, thread, slotVars>>

\* Its initialisation fails, which ini functions 2 and 4 can report: the
\* shared_ptr of the loop body deletes it; main gives up (2) or goes on (4).
IniCameraFails ==
  /\ pc = "ini"
  /\ DecodeType \in {2, 4}
  /\ Delete(cam)
  /\ IF DecodeType = 2 THEN pc' = "return" /\ cam' = cam ELSE NextCamera
  /\ UNCHANGED <<config, detector, autoDelete_, thread, slotVars>>

SetAutoDelete ==
  /\ Goto("autoDelete", "create")
  /\ autoDelete_' = [autoDelete_ EXCEPT ![cam] = TRUE]
  /\ UNCHANGED <<config, cam, detector, object, frees, thread, slotVars>>

\* Start(): pthread_create,
Create ==
  /\ Goto("create", "detach")
  /\ thread' = [thread EXCEPT ![cam] = "starting"]
  /\ UNCHANGED <<config, cam, objectVars, slotVars>>

\* and pthread_detach(this->thread_Id_).
Detach ==
  /\ Goto("detach", "recver")
  /\ UNCHANGED <<config, cam, objectVars, thread, slotVars>>

\* Mutant: the receiver is not stored.
ConnectNoRecver ==
  /\ Goto("recver", "manager")
  /\ UNCHANGED <<config, cam, objectVars, thread, slotVars>>

\* connectMessage(): the receiver,
ConnectRecver ==
  /\ Goto("recver", "manager")
  /\ m_recver' = [m_recver EXCEPT ![cam] = TRUE]
  /\ UNCHANGED <<config, cam, objectVars, thread, manager, invoker>>

\* the word operator bool looks at,
ConnectManager ==
  /\ Goto("manager", "invoker")
  /\ manager' = [manager EXCEPT ![cam] = TRUE]
  /\ UNCHANGED <<config, cam, objectVars, thread, m_recver, invoker>>

\* Mutant: push_back is missing, the loop body's shared_ptr was the last.
ConnectForgets ==
  /\ pc = "invoker"
  /\ invoker' = [invoker EXCEPT ![cam] = TRUE]
  /\ Delete(cam)
  /\ NextCamera
  /\ UNCHANGED <<config, detector, autoDelete_, thread, m_recver, manager>>

\* and the function; then push_back and the next camera.
ConnectInvoker ==
  /\ pc = "invoker"
  /\ invoker' = [invoker EXCEPT ![cam] = TRUE]
  /\ NextCamera
  /\ UNCHANGED <<config, objectVars, thread, m_recver, manager>>

\* return -1: the manager and with it the detector go first,
ReturnDetector ==
  /\ Goto("return", "vectors")
  /\ detector' = "deleted"
  /\ cam' = 1
  /\ UNCHANGED <<config, object, frees, autoDelete_, thread, slotVars>>

\* then the shared pointers of the cameras that were started, in order,
ReturnDecoder ==
  /\ pc = "vectors"
  /\ cam \in Cameras /\ thread[cam] # "none"
  /\ Delete(cam)
  /\ cam' = cam + 1
  /\ UNCHANGED <<config, pc, detector, autoDelete_, thread, slotVars>>

\* and with the last the process.
Exit ==
  /\ Goto("vectors", "exited")
  /\ cam \in Cameras => thread[cam] = "none"
  /\ UNCHANGED <<config, cam, objectVars, thread, slotVars>>

Main == \/ LoadModel \/ StartDetector
        \/ IniCamera \/ IniCameraFails \/ SetAutoDelete
        \/ Create \/ Detach
        \/ ConnectRecver \/ ConnectManager \/ ConnectInvoker
        \/ ReturnDetector \/ ReturnDecoder \/ Exit

-----------------------------------------------------------------------------
(* A decoder thread *)

Alive == pc \notin {"exited", "crashed"}

Become(c, from, to) == /\ Alive
                       /\ thread[c] = from
                       /\ thread' = [thread EXCEPT ![c] = to]

\* The source is open and pictures arrive.
Stream(c) ==
  /\ Become(c, "starting", "streaming")
  /\ UNCHANGED <<mainVars, objectVars, slotVars>>

\* EventMessage finds m_callFun callable (otherwise it only logs),
EventMessage(c) ==
  /\ Become(c, "streaming", "calling")
  /\ manager[c]
  /\ UNCHANGED <<mainVars, objectVars, slotVars>>

\* and calls the detector's eventFunc through it.  The call does not test
\* again: it reads the invoker and jumps to it,
Call(c) ==
  /\ Become(c, "calling", "streaming")
  /\ invoker[c]
  /\ UNCHANGED <<mainVars, objectVars, slotVars>>

\* also when the assignment in main has not come to that word yet.
CallUnset(c) ==
  /\ Alive /\ pc' = "crashed"
  /\ thread[c] = "calling" /\ ~invoker[c]
  /\ UNCHANGED <<config, cam, objectVars, thread, slotVars>>

\* Run returns: a source of type 1 or 3 that does not open, the last file of a
\* directory (type 1), the last failed reconnection of type 2.  A capture
\* thread of type 4 never returns.  ThreadPtr_routine deletes the decoder.
End(c) ==
  /\ \/ DecodeType \in {1, 3} /\ Become(c, "starting", "ended")
     \/ DecodeType \in {1, 2} /\ Become(c, "streaming", "ended")
  /\ IF autoDelete_[c] THEN Delete(c) ELSE UNCHANGED <<object, frees>>
  /\ UNCHANGED <<mainVars, detector, autoDelete_, slotVars>>

\* The source of type 1 or 4 gives no picture (the end of a video, a file that
\* is no image): read and imread leave it empty, cv::resize throws, nobody
\* catches it and the process is terminated.
Throw(c) ==
  /\ Alive /\ pc' = "crashed"
  /\ DecodeType \in {1, 4} /\ thread[c] = "streaming"
  /\ UNCHANGED <<config, cam, objectVars, thread, slotVars>>

Thread(c) == \/ Stream(c) \/ EventMessage(c) \/ Call(c) \/ CallUnset(c)
             \/ End(c) \/ Throw(c)

-----------------------------------------------------------------------------

Next == Main \/ \E c \in Cameras : Thread(c)

Spec == Init /\ [][Next]_vars

\* main is never blocked for ever: it waits for nobody.
FairSpec == Spec /\ WF_vars(Main)

-----------------------------------------------------------------------------

\* Every variable has the values of its declaration in the code.
TypeOK ==
  /\ AIType \in AITypes
  /\ DecodeType \in DecodeTypes
  /\ pc \in {"model", "startDetector", "ini", "autoDelete", "create", "detach",
             "recver", "manager", "invoker", "idle", "return", "vectors",
             "exited", "crashed"}
  /\ cam \in Cameras
  /\ detector \in {"none", "alive", "running", "deleted"}
  /\ object \in [Cameras -> {"none", "alive", "deleted"}]
  /\ frees \in [Cameras -> 0 .. 2]
  /\ thread \in [Cameras -> {"none", "starting", "streaming", "calling", "ended"}]
  /\ {autoDelete_, m_recver, manager, invoker} \subseteq [Cameras -> BOOLEAN]

Runs(c) == thread[c] \in {"starting", "streaming", "calling"}

\* The comment at every SetAutoDelete(true): thread and thread object live
\* equally long.  While the thread of a decoder runs its object exists, and
\* when the thread has ended the object is gone.
LifetimesAgree ==
  Alive => \A c \in Cameras : /\ Runs(c) => object[c] = "alive"
                              /\ thread[c] = "ended" => object[c] = "deleted"

\* main is about to use a decoder that its thread has already deleted.
Using == {"autoDelete", "create", "detach", "recver", "manager", "invoker"}
MainDangles == pc \in Using /\ object[cam] # "alive"

\* main uses a decoder (Start, connectMessage) only while it exists, although
\* its thread may have deleted it.
MainUsesLiveDecoder == ~MainDangles

\* Until main returns the two owners of a decoder, its thread and its shared_ptr,
\* do not meet: threads have their objects and no decoder is deleted twice.
\* main itself may come too late with its decoder, but only the present one, which
\* it has started and whose thread has already ended; not before Start has
\* created the thread, and never for capture threads, which do not end.
Serving == pc \notin {"return", "vectors", "exited", "crashed"}
DeletedOnce == \A c \in Cameras : frees[c] <= 1
SafeUntilReturn ==
  Serving => /\ LifetimesAgree
             /\ DeletedOnce
             /\ MainDangles => /\ pc \notin {"autoDelete", "create"}
                               /\ thread[cam] = "ended" /\ DecodeType # 4

\* A decoder that found m_callFun callable calls a running detector through
\* m_recver and the invoker, although it was started before it was connected;
\* except for the camera whose m_callFun main is assigning at this moment, the only
\* one that can meet a half-written function.  (The README's answer to
\* bad_function_call, that a function which tests true can be called, holds of
\* the others alone.)
ReceiverReady ==
  Serving => \A c \in Cameras :
             thread[c] = "calling" => /\ m_recver[c] /\ detector = "running"
                                      /\ invoker[c] \/ (pc = "invoker" /\ c = cam)

\* Once the detector runs every camera of DecodeType 3 and 4 is served: it gets
\* connected, or it is discarded because its own initialisation failed.  A camera
\* that fails does not keep the ones after it from starting; only a picture that
\* cannot be read or a call through a half-written function ends the program for
\* all of them.
Served(c) == invoker[c] \/ (object[c] = "deleted" /\ thread[c] = "none")
EveryCameraServed ==
  detector = "running" /\ DecodeType \in {3, 4} ~>
    pc = "crashed" \/ \A c \in Cameras : Served(c)
=============================================================================
