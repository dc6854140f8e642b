---------------------------- MODULE StartupProofs ----------------------------
(***************************************************************************)
(* Proofs about Startup for any number of cameras and any configuration.   *)
(***************************************************************************)
EXTENDS Startup, TLAPS

(***************************************************************************)
(* The inductive invariant.  SafeUntilReturn speaks of what both owners of *)
(* a decoder did; the invariant says which of them did it.  Cameras main   *)
(* has not come to are Untouched; main starts a thread only for a decoder  *)
(* it has just created and told to delete itself; and a decoder is deleted *)
(* once by its thread at its end and once by main, when its initialisation *)
(* failed or when main returns.                                            *)
(***************************************************************************)
Untouched(c) == thread[c] = "none" /\ object[c] = "none" /\ frees[c] = 0

MainInOrder ==
  /\ pc \in {"model", "startDetector"} =>
       cam = 1 /\ \A c \in Cameras : Untouched(c)
  /\ Serving /\ pc # "idle" => \A c \in Cameras : c > cam => Untouched(c)
  /\ pc = "ini" => Untouched(cam)
  /\ pc \in {"autoDelete", "create"} =>
       thread[cam] = "none" /\ object[cam] = "alive" /\ frees[cam] = 0
  /\ pc = "create" => autoDelete_[cam]
  /\ pc \in {"detach", "recver", "manager", "invoker"} => thread[cam] # "none"

\* main returns because a camera of type 2 failed, which it finds when it goes
\* along the cameras it has started.
Returning ==
  /\ pc \in {"return", "vectors"} => DecodeType = 2
  /\ pc = "return" => thread[cam] = "none"
  /\ pc = "vectors" => \E c \in Cameras : c >= cam /\ thread[c] = "none"

ByThread(c) == IF thread[c] = "ended" THEN 1 ELSE 0
ByMain(c) == IF \/ thread[c] = "none" /\ object[c] = "deleted"
                \/ pc \in {"vectors", "exited"} /\ c < cam
             THEN 1 ELSE 0

Owners ==
  \A c \in Cameras : /\ frees[c] <= ByThread(c) + ByMain(c)
                     /\ thread[c] # "none" => autoDelete_[c]
                     /\ thread[c] = "ended" => DecodeType # 4

Lifetimes ==
  Serving => \A c \in Cameras : /\ Runs(c) => object[c] = "alive"
                                /\ thread[c] = "ended" => object[c] = "deleted"

\* A decoder finds m_callFun callable only after its receiver was stored, without an
\* invoker only while main stands between the two words of its function, and runs
\* only while the detector does.
Connected ==
  /\ pc = "manager" => m_recver[cam]
  /\ \A c \in Cameras : /\ manager[c] => m_recver[c]
                        /\ thread[c] = "calling" => manager[c]
  /\ Serving /\ pc \notin {"model", "startDetector"} => detector = "running"
  /\ \A c \in Cameras :
       manager[c] => invoker[c] \/ (pc \in {"invoker", "crashed"} /\ c = cam)

StartupInv == /\ TypeOK
              /\ MainInOrder
              /\ Returning
              /\ Owners
              /\ Lifetimes
              /\ Connected

-----------------------------------------------------------------------------

\* A network that cannot be loaded ends the program one way or another.
LEMMA EndsWithoutModel ==
  ASSUME NEW class
  PROVE  WithoutModel(class) \subseteq {"exited", "crashed"}
<1>1. CASE class \in {"wxApplyYolov57", "wxApplyYolov57seg"}
  BY <1>1 DEF WithoutModel
<1>2. CASE class = "ApplyDepthAnything"
  BY <1>2 DEF WithoutModel
<1>3. CASE class \notin {"wxApplyYolov57", "wxApplyYolov57seg", "ApplyDepthAnything"}
  BY <1>3 DEF WithoutModel
<1> QED
  BY <1>1, <1>2, <1>3

\* Where LoadModel leaves main.
LEMMA LoadModelEnds ==
  ASSUME LoadModel
  PROVE  /\ pc' \in {"startDetector", "exited", "crashed"}
         /\ detector' \in {detector, "alive", "deleted"}
         /\ UNCHANGED <<cam, object, frees, autoDelete_, thread, slotVars>>
BY EndsWithoutModel DEF LoadModel, config

\* The initial states satisfy the invariant.
LEMMA InitStartup == Init => StartupInv
<1> SUFFICES ASSUME Init PROVE StartupInv
  OBVIOUS
<1> USE StartupAssumption DEF Init, Cameras
<1>1. TypeOK
  BY DEF TypeOK
<1>2. MainInOrder /\ Returning /\ Connected
  BY DEF MainInOrder, Returning, Connected, Untouched, Serving
<1>3. Owners /\ Lifetimes
  BY DEF Owners, Lifetimes, ByThread, ByMain, Runs
<1> QED
  BY <1>1, <1>2, <1>3 DEF StartupInv

\* The number of deletions stays a number, by whomever a decoder is deleted.
LEMMA FreesStep ==
  ASSUME TypeOK, [Next]_vars
  PROVE  frees' \in [Cameras -> Nat]
<1> USE DEF TypeOK, Delete
<1>1. CASE IniCameraFails \/ ReturnDecoder
  BY <1>1 DEF IniCameraFails, ReturnDecoder
<1>2. ASSUME NEW c \in Cameras, End(c)
      PROVE  frees' \in [Cameras -> Nat]
  BY <1>2 DEF End
<1>3. CASE UNCHANGED frees
  BY <1>3
<1>4. ASSUME NEW c \in Cameras,
             \/ Stream(c) \/ EventMessage(c) \/ Call(c) \/ CallUnset(c) \/ Throw(c)
      PROVE  UNCHANGED frees
  BY <1>4 DEF Stream, EventMessage, Call, CallUnset, Throw, objectVars
<1>5. \/ IniCameraFails \/ ReturnDecoder \/ (\E c \in Cameras : End(c))
      \/ UNCHANGED frees
  BY <1>4 DEF Next, Main, Thread, LoadModel, StartDetector, IniCamera, SetAutoDelete,
              Create, Detach, ConnectRecver, ConnectManager, ConnectInvoker,
              ReturnDetector, Exit, objectVars, vars
<1> QED
  BY <1>1, <1>2, <1>3, <1>5

\* A deletion is the thread's, at its end, or main's: the balance of the owners is
\* kept by every step.
LEMMA OwnersStep ==
  ASSUME StartupInv, [Next]_vars
  PROVE  Owners'
<1> USE DEF StartupInv, TypeOK, Owners, ByThread, ByMain, Cameras, config, slotVars
<1>1. CASE LoadModel
  BY <1>1, LoadModelEnds DEF LoadModel
<1>2. CASE StartDetector \/ Detach \/ ConnectRecver \/ ConnectManager \/ ConnectInvoker
  BY <1>2 DEF StartDetector, Detach, ConnectRecver, ConnectManager, ConnectInvoker,
              Goto, NextCamera, objectVars
<1>3. CASE IniCamera
  BY <1>3 DEF IniCamera, Goto, MainInOrder, Untouched
<1>4. CASE IniCameraFails
  BY <1>4 DEF IniCameraFails, NextCamera, Delete, MainInOrder, Untouched
<1>5. CASE SetAutoDelete
  BY <1>5 DEF SetAutoDelete, Goto
<1>6. CASE Create
  BY <1>6 DEF Create, Goto, MainInOrder, objectVars
<1>7. CASE ReturnDetector
  BY <1>7 DEF ReturnDetector, Goto
<1>8. CASE Exit
  BY <1>8 DEF Exit, Goto, objectVars
<1>9. CASE ReturnDecoder
  <2>1. frees \in [Cameras -> Nat] /\ frees' = [frees EXCEPT ![cam] = @ + 1]
    BY <1>9 DEF ReturnDecoder, Delete
  <2>2. ASSUME NEW c \in Cameras, c = cam
        PROVE  frees'[c] <= ByThread(c)' + ByMain(c)'
    <3>1. ByMain(c) = 0 /\ ByMain(c)' = 1 /\ ByThread(c)' = ByThread(c)
      BY <1>9, <2>2 DEF ReturnDecoder
    <3>2. ByThread(c) \in Nat /\ frees[c] <= ByThread(c) + ByMain(c)
      OBVIOUS
    <3> HIDE DEF ByThread, ByMain
    <3> QED
      BY <2>1, <2>2, <3>1, <3>2
  <2>3. ASSUME NEW c \in Cameras, c # cam
        PROVE  frees'[c] <= ByThread(c)' + ByMain(c)'
    BY <1>9, <2>1, <2>3 DEF ReturnDecoder, Delete
  <2>4. \A c \in Cameras : frees'[c] <= ByThread(c)' + ByMain(c)'
    BY <2>2, <2>3
  <2> QED
    BY <1>9, <2>4 DEF ReturnDecoder
<1>10. ASSUME NEW c \in Cameras, Stream(c) \/ EventMessage(c) \/ Call(c)
      PROVE  Owners'
  <2>1. PICK to \in {"streaming", "calling"} : thread' = [thread EXCEPT ![c] = to]
    BY <1>10 DEF Stream, EventMessage, Call, Become
  <2>2. thread[c] \notin {"none", "ended"} /\ UNCHANGED <<mainVars, objectVars>>
    BY <1>10 DEF Stream, EventMessage, Call, Become
  <2> QED
    BY <2>1, <2>2 DEF mainVars, objectVars
<1>11. ASSUME NEW c \in Cameras, End(c)
       PROVE  Owners'
  <2>1. /\ thread[c] \notin {"none", "ended"}
        /\ thread' = [thread EXCEPT ![c] = "ended"]
        /\ UNCHANGED <<mainVars, autoDelete_>> /\ DecodeType # 4
    BY <1>11 DEF End, Become
  <2>2. /\ object' = [object EXCEPT ![c] = "deleted"]
        /\ frees' = [frees EXCEPT ![c] = @ + 1]
    BY <1>11, <2>1 DEF End, Delete
  <2> QED
    BY <2>1, <2>2 DEF mainVars
<1>12. ASSUME NEW c \in Cameras, CallUnset(c) \/ Throw(c)
       PROVE  Owners'
  <2>1. pc \notin {"vectors", "exited"}
    BY <1>12 DEF CallUnset, Throw, Alive, Returning, Connected
  <2>2. pc' = "crashed" /\ UNCHANGED <<config, cam, object, frees, autoDelete_, thread>>
    BY <1>12 DEF CallUnset, Throw, objectVars
  <2>3. \A k \in Cameras : ByThread(k)' = ByThread(k) /\ ByMain(k)' = ByMain(k)
    BY <2>1, <2>2
  <2> HIDE DEF ByThread, ByMain
  <2> QED
    BY <2>2, <2>3
<1>13. CASE UNCHANGED vars
  BY <1>13 DEF vars, mainVars, objectVars
<1> QED
  BY <1>1, <1>2, <1>3, <1>4, <1>5, <1>6, <1>7, <1>9, <1>10, <1>11, <1>12, <1>13,
     <1>8 DEF Next, Main, Thread

\* Two owners, one deletion each.
LEMMA FreesBounded ==
  ASSUME frees \in [Cameras -> Nat], Owners
  PROVE  frees \in [Cameras -> 0 .. 2]
<1>1. \A c \in Cameras : ByThread(c) \in {0, 1} /\ ByMain(c) \in {0, 1}
  BY DEF ByThread, ByMain
<1> QED
  BY <1>1 DEF Owners

\* Every step keeps the types.
LEMMA StartupTypeStep ==
  ASSUME StartupInv, [Next]_vars
  PROVE  TypeOK'
<1> USE DEF StartupInv, TypeOK, config, slotVars
<1>1. frees' \in [Cameras -> 0 .. 2]
  <2>1. (frees \in [Cameras -> Nat] /\ Owners => frees \in [Cameras -> 0 .. 2])'
    BY FreesBounded, PTL
  <2> QED
    BY <2>1, FreesStep, OwnersStep
<1>2. CASE LoadModel
  BY <1>1, <1>2, LoadModelEnds DEF LoadModel, slotVars, config
<1>3. CASE StartDetector \/ IniCamera \/ SetAutoDelete \/ Create \/ Detach \/ Exit
  <2>1. CASE StartDetector \/ Detach \/ Exit
    BY <1>1, <2>1 DEF StartDetector, Detach, Exit, Goto, objectVars, slotVars, config
  <2>2. CASE IniCamera \/ SetAutoDelete
    <3>1. /\ object' \in [Cameras -> {"none", "alive", "deleted"}]
          /\ autoDelete_' \in [Cameras -> BOOLEAN]
      BY <2>2 DEF IniCamera, SetAutoDelete
    <3>2. /\ pc' \in {"autoDelete", "create"}
          /\ UNCHANGED <<config, cam, detector, thread, slotVars>>
      BY <2>2 DEF IniCamera, SetAutoDelete, Goto
    <3> QED
      BY <1>1, <3>1, <3>2 DEF slotVars, config
  <2>3. CASE Create
    BY <1>1, <2>3 DEF Create, Goto, objectVars, slotVars, config
  <2> QED
    BY <1>3, <2>1, <2>2, <2>3
<1>4. CASE ConnectRecver \/ ConnectManager
  <2>1. m_recver' \in [Cameras -> BOOLEAN] /\ manager' \in [Cameras -> BOOLEAN]
    BY <1>4 DEF ConnectRecver, ConnectManager
  <2>2. pc' \in {"manager", "invoker"} /\ UNCHANGED <<config, cam, objectVars, thread, invoker>>
    BY <1>4 DEF ConnectRecver, ConnectManager, Goto
  <2> QED
    BY <1>1, <2>1, <2>2 DEF objectVars, config
<1>5. CASE IniCameraFails
  BY <1>1, <1>5 DEF IniCameraFails, NextCamera, Delete
<1>6. CASE ConnectInvoker
  BY <1>1, <1>6 DEF ConnectInvoker, NextCamera, objectVars
<1>7. CASE ReturnDetector
  BY <1>1, <1>7, StartupAssumption
     DEF ReturnDetector, Goto, slotVars, config, Cameras
<1>8. CASE ReturnDecoder
  <2>1. PICK c \in Cameras : c >= cam /\ thread[c] = "none"
    BY <1>8 DEF ReturnDecoder, Returning
  <2>2. c # cam
    BY <1>8, <2>1 DEF ReturnDecoder
  <2>3. cam + 1 \in Cameras
    BY <2>1, <2>2, StartupAssumption DEF Cameras
  <2> QED
    BY <1>1, <1>8, <2>3 DEF ReturnDecoder, Delete
<1>9. ASSUME NEW c \in Cameras, Thread(c)
      PROVE  TypeOK'
  BY <1>1, <1>9 DEF Thread, Stream, EventMessage, Call, CallUnset, End, Throw, Become,
                    Delete, mainVars, objectVars, slotVars, config
<1>10. CASE UNCHANGED vars
  BY <1>1, <1>10 DEF vars, mainVars, objectVars, slotVars, config
<1> QED
  BY <1>2, <1>3, <1>4, <1>5, <1>7, <1>8, <1>9, <1>10, <1>6 DEF Next, Main

\* main comes to one camera after the other and finds it untouched.
LEMMA OrderStep ==
  ASSUME StartupInv, [Next]_vars
  PROVE  MainInOrder'
<1> USE DEF StartupInv, TypeOK, MainInOrder, Untouched, Serving, Cameras, config,
            slotVars
<1>1. CASE LoadModel
  BY <1>1, LoadModelEnds DEF LoadModel
<1>2. CASE StartDetector \/ Detach \/ ConnectRecver \/ ConnectManager
  BY <1>2 DEF StartDetector, Detach, ConnectRecver, ConnectManager, Goto, objectVars
<1>3. CASE IniCamera
  BY <1>3 DEF IniCamera, Goto
<1>4. CASE SetAutoDelete
  BY <1>4 DEF SetAutoDelete, Goto
<1>5. CASE Create
  BY <1>5 DEF Create, Goto, objectVars
<1>6. CASE IniCameraFails
  BY <1>6 DEF IniCameraFails, NextCamera, Delete
<1>7. CASE ConnectInvoker
  BY <1>7 DEF ConnectInvoker, NextCamera, objectVars
<1>8. CASE ReturnDetector \/ ReturnDecoder \/ Exit
  BY <1>8 DEF ReturnDetector, ReturnDecoder, Exit, Goto
<1>9. ASSUME NEW c \in Cameras, Stream(c) \/ EventMessage(c) \/ Call(c)
      PROVE  MainInOrder'
  <2>1. PICK to \in {"streaming", "calling"} : thread' = [thread EXCEPT ![c] = to]
    BY <1>9 DEF Stream, EventMessage, Call, Become
  <2>2. thread[c] # "none" /\ UNCHANGED <<mainVars, objectVars>>
    BY <1>9 DEF Stream, EventMessage, Call, Become
  <2> QED
    BY <2>1, <2>2 DEF mainVars, objectVars
<1>10. ASSUME NEW c \in Cameras, End(c)
       PROVE  MainInOrder'
  <2>1. thread' = [thread EXCEPT ![c] = "ended"]
    BY <1>10 DEF End, Become
  <2>2. thread[c] # "none" /\ UNCHANGED mainVars /\ UNCHANGED autoDelete_
    BY <1>10 DEF End, Become
  <2>3. \A k \in Cameras : k # c => object'[k] = object[k] /\ frees'[k] = frees[k]
    <3>1. CASE UNCHANGED <<object, frees>>
      BY <3>1
    <3>2. CASE Delete(c)
      BY <3>2 DEF Delete
    <3> QED
      BY <1>10, <3>1, <3>2 DEF End, Delete, objectVars
  <2> QED
    BY <2>1, <2>2, <2>3 DEF mainVars
<1>11. ASSUME NEW c \in Cameras, CallUnset(c) \/ Throw(c)
       PROVE  MainInOrder'
  BY <1>11 DEF CallUnset, Throw
<1>12. CASE UNCHANGED vars
  BY <1>12 DEF vars, mainVars, objectVars
<1> QED
  BY <1>1, <1>2, <1>3, <1>4, <1>8, <1>9, <1>12, <1>5, <1>6, <1>7, <1>10, <1>11
     DEF Next, Main, Thread

\* main returns along the cameras it has started.
LEMMA ReturnStep ==
  ASSUME StartupInv, [Next]_vars
  PROVE  Returning'
<1> USE DEF StartupInv, TypeOK, Returning, Cameras, config, slotVars, objectVars
<1>1. CASE LoadModel
  BY <1>1, LoadModelEnds DEF LoadModel
<1>2. CASE \/ StartDetector \/ IniCamera \/ SetAutoDelete \/ Create \/ Detach
           \/ ConnectRecver \/ ConnectManager \/ ConnectInvoker \/ Exit
  BY <1>2 DEF StartDetector, IniCamera, SetAutoDelete, Create, Detach, ConnectRecver,
              ConnectManager, ConnectInvoker, Exit, Goto, NextCamera
<1>3. CASE IniCameraFails
  BY <1>3 DEF IniCameraFails, NextCamera, config, MainInOrder, Untouched
<1>4. CASE ReturnDetector
  BY <1>4 DEF ReturnDetector, Goto, config
<1>5. CASE ReturnDecoder
  BY <1>5 DEF ReturnDecoder, config
<1>6. ASSUME NEW c \in Cameras, Stream(c) \/ EventMessage(c) \/ Call(c) \/ End(c)
      PROVE  Returning'
  <2>1. PICK to : thread' = [thread EXCEPT ![c] = to]
    BY <1>6 DEF Stream, EventMessage, Call, End, Become
  <2>2. thread[c] # "none" /\ UNCHANGED mainVars
    BY <1>6 DEF Stream, EventMessage, Call, End, Become
  <2> QED
    BY <2>1, <2>2 DEF mainVars
<1>7. ASSUME NEW c \in Cameras, CallUnset(c) \/ Throw(c)
      PROVE  Returning'
  BY <1>7 DEF CallUnset, Throw
<1>8. CASE UNCHANGED vars
  BY <1>8 DEF vars, mainVars, config
<1> QED
  BY <1>1, <1>2, <1>3, <1>4, <1>5, <1>6, <1>8, <1>7 DEF Next, Main, Thread

\* Until main returns only a thread that ends, or main for a decoder without a
\* thread, deletes.
LEMMA LifetimesStep ==
  ASSUME StartupInv, [Next]_vars
  PROVE  Lifetimes'
<1> USE DEF StartupInv, TypeOK, Lifetimes, Runs, Serving, config, slotVars
<1>1. CASE LoadModel
  BY <1>1, LoadModelEnds DEF LoadModel
<1>2. CASE StartDetector \/ Detach \/ ConnectRecver \/ ConnectManager \/ ConnectInvoker
  BY <1>2 DEF StartDetector, Detach, ConnectRecver, ConnectManager, ConnectInvoker,
              Goto, NextCamera, objectVars
<1>3. CASE IniCamera \/ SetAutoDelete \/ Create
  BY <1>3 DEF IniCamera, SetAutoDelete, Create, Goto, objectVars, MainInOrder,
              Untouched
<1>4. CASE IniCameraFails
  BY <1>4 DEF IniCameraFails, NextCamera, Delete, MainInOrder, Untouched
<1>5. CASE ReturnDetector \/ ReturnDecoder \/ Exit
  BY <1>5 DEF ReturnDetector, ReturnDecoder, Exit, Goto
<1>6. ASSUME NEW c \in Cameras,
             \/ Stream(c) \/ EventMessage(c) \/ Call(c) \/ CallUnset(c) \/ Throw(c)
      PROVE  Lifetimes'
  BY <1>6 DEF Stream, EventMessage, Call, CallUnset, Throw, Become, mainVars, objectVars
<1>7. ASSUME NEW c \in Cameras, End(c)
      PROVE  Lifetimes'
  <2>1. autoDelete_[c]
    BY <1>7 DEF End, Become, Owners
  <2>2. object' = [object EXCEPT ![c] = "deleted"]
    BY <1>7, <2>1 DEF End, Delete
  <2>3. thread' = [thread EXCEPT ![c] = "ended"] /\ UNCHANGED pc
    BY <1>7 DEF End, Become, mainVars
  <2> QED
    BY <2>2, <2>3
<1>8. CASE UNCHANGED vars
  BY <1>8 DEF vars, mainVars, objectVars
<1> QED
  BY <1>1, <1>2, <1>3, <1>4, <1>5, <1>6, <1>7, <1>8 DEF Next, Main, Thread

\* The slots of a decoder are filled in the order its thread relies on.
LEMMA ConnectedStep ==
  ASSUME StartupInv, [Next]_vars
  PROVE  Connected'
<1> USE DEF StartupInv, TypeOK, Connected, Serving, config
<1>1. CASE LoadModel
  BY <1>1, LoadModelEnds DEF LoadModel, slotVars
<1>2. CASE \/ StartDetector \/ IniCamera \/ SetAutoDelete \/ Create \/ Detach
           \/ ReturnDetector \/ ReturnDecoder \/ Exit
  BY <1>2 DEF StartDetector, IniCamera, SetAutoDelete, Create, Detach, ReturnDetector,
              ReturnDecoder, Exit, Goto, objectVars, slotVars
<1>3. CASE IniCameraFails \/ ConnectInvoker
  BY <1>3 DEF IniCameraFails, ConnectInvoker, NextCamera, objectVars, slotVars
<1>4. CASE ConnectRecver \/ ConnectManager
  BY <1>4 DEF ConnectRecver, ConnectManager, Goto, objectVars
<1>5. ASSUME NEW c \in Cameras, Thread(c)
      PROVE  Connected'
  BY <1>5 DEF Thread, Stream, EventMessage, Call, CallUnset, End, Throw, Become,
              mainVars, objectVars, slotVars
<1>6. CASE UNCHANGED vars
  BY <1>6 DEF vars, mainVars, objectVars, slotVars
<1> QED
  BY <1>1, <1>2, <1>3, <1>4, <1>5, <1>6 DEF Next, Main

-----------------------------------------------------------------------------

\* StartupInv holds in every reachable state.
THEOREM StartupInvariant == Spec => []StartupInv
<1>1. StartupInv /\ [Next]_vars => StartupInv'
  BY StartupTypeStep, OrderStep, ReturnStep, OwnersStep, LifetimesStep, ConnectedStep
     DEF StartupInv
<1> QED
  BY <1>1, InitStartup, PTL DEF Spec

\* Every variable keeps to its declared values; main stays within its cameras also
\* while it returns, and even then no decoder is deleted more than twice.
THEOREM StartupTypeCorrect == Spec => []TypeOK
BY StartupInvariant, PTL DEF StartupInv

\* Until main returns every running thread has its decoder, every ended one has
\* deleted it, and none is deleted twice.  A decoder main still goes on to use may be
\* gone in one case only: the thread main has just started for it has already ended.
THEOREM OwnersDoNotMeet == Spec => []SafeUntilReturn
<1>1. StartupInv => SafeUntilReturn
  <2> SUFFICES ASSUME StartupInv, Serving
               PROVE  /\ LifetimesAgree
                      /\ DeletedOnce
                      /\ MainDangles => /\ pc \notin {"autoDelete", "create"}
                                        /\ thread[cam] = "ended" /\ DecodeType # 4
    BY DEF SafeUntilReturn
  <2>1. LifetimesAgree
    BY DEF StartupInv, Lifetimes, LifetimesAgree
  <2>2. ASSUME NEW c \in Cameras
        PROVE  ByThread(c) + ByMain(c) <= 1
    BY DEF ByThread, ByMain, Serving
  <2>3. DeletedOnce
    BY <2>2 DEF StartupInv, TypeOK, Owners, DeletedOnce, ByThread, ByMain
  <2>4. ASSUME MainDangles
        PROVE  /\ pc \notin {"autoDelete", "create"}
               /\ thread[cam] = "ended" /\ DecodeType # 4
    <3>1. pc \in {"detach", "recver", "manager", "invoker"} /\ object[cam] # "alive"
      BY <2>4 DEF MainDangles, Using, StartupInv, MainInOrder
    <3>2. cam \in Cameras /\ thread[cam] # "none" /\ ~Runs(cam)
      BY <3>1 DEF StartupInv, TypeOK, MainInOrder, Lifetimes, Serving
    <3>3. thread[cam] = "ended"
      BY <3>2 DEF StartupInv, TypeOK, Runs
    <3> QED
      BY <3>1, <3>2, <3>3 DEF StartupInv, Owners
  <2> QED
    BY <2>1, <2>3, <2>4
<1> QED
  BY <1>1, StartupInvariant, PTL

\* A decoder that calls has a receiver, a running detector and, unless main stands
\* between the two words of its own function, an invoker to call through: the window
\* of a half-written function is that of one camera and one step of main.
THEOREM CallsAreReceived == Spec => []ReceiverReady
<1>1. StartupInv => ReceiverReady
  <2> SUFFICES ASSUME StartupInv, Serving, NEW c \in Cameras, thread[c] = "calling"
               PROVE  /\ m_recver[c] /\ detector = "running"
                      /\ invoker[c] \/ (pc = "invoker" /\ c = cam)
    BY DEF ReceiverReady
  <2>1. pc \notin {"model", "startDetector"}
    BY DEF StartupInv, MainInOrder, Untouched
  <2> QED
    BY <2>1 DEF StartupInv, Connected, Serving
<1> QED
  BY <1>1, StartupInvariant, PTL

\* Only a camera of type 2 makes main return under running threads: with the other
\* ways to decode threads and objects live equally long to the end.
THEOREM LifetimesWithoutFfmpeg ==
  ASSUME 2 \notin DecodeTypes
  PROVE  Spec => []LifetimesAgree
<1>1. StartupInv => LifetimesAgree
  <2> SUFFICES ASSUME StartupInv, Alive
               PROVE  \A c \in Cameras : /\ Runs(c) => object[c] = "alive"
                                         /\ thread[c] = "ended" => object[c] = "deleted"
    BY DEF LifetimesAgree
  <2>1. Serving
    BY DEF StartupInv, TypeOK, Returning, Alive, Serving
  <2> QED
    BY <2>1 DEF StartupInv, Lifetimes
<1> QED
  BY <1>1, StartupInvariant, PTL

\* Only a thread that can end while main connects its decoder deletes it under
\* main's hands: the capture threads of type 4 never do.
THEOREM CaptureIsConnectedAlive ==
  ASSUME DecodeTypes \subseteq {4}
  PROVE  Spec => []MainUsesLiveDecoder
<1>1. StartupInv => MainUsesLiveDecoder
  <2> SUFFICES ASSUME StartupInv, pc \in Using
               PROVE  object[cam] = "alive"
    BY DEF MainUsesLiveDecoder, MainDangles
  <2>1. CASE pc \in {"autoDelete", "create"}
    BY <2>1 DEF StartupInv, MainInOrder
  <2>2. CASE pc \in {"detach", "recver", "manager", "invoker"}
    <3>1. Runs(cam)
      BY <2>2 DEF StartupInv, TypeOK, MainInOrder, Owners, Runs
    <3> QED
      BY <2>2, <3>1 DEF StartupInv, TypeOK, Lifetimes, Serving
  <2> QED
    BY <2>1, <2>2 DEF Using
<1> QED
  BY <1>1, StartupInvariant, PTL
=============================================================================
