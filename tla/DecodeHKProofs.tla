--------------------------- MODULE DecodeHKProofs ---------------------------
(***************************************************************************)
(* Proofs about DecodeHK for any ports and any size of their buffers.      *)
(***************************************************************************)
EXTENDS DecodeHK, TLAPS

(***************************************************************************)
(* The inductive invariant.  Nothing in the code ties the callbacks to the *)
(* life of the decoder; they are tied through the stream.  Run returns     *)
(* only when it never got a stream (StreamKeepsRun), and all that a port   *)
(* or a callback does began with a callback of the stream (StreamCame).    *)
(***************************************************************************)
StreamKeepsRun ==
  /\ stream => rpc = "loop" /\ ~stop_
  /\ object = "deleted" => rpc = "ended"
  /\ rpc = "ended" => stop_

StreamCame ==
  /\ cb # "idle" => stream
  /\ \A p \in Ports : /\ port[p] # "free" => stream
                      /\ dec[p] # "idle" => port[p] = "playing"

\* The local nPort is set by a header and only while its port is set up.
LocalSet == IF cb = "setup"
            THEN local \in Ports /\ port[local] \in {"got", "mode", "open", "callback"}
            ELSE local = -1

HKInv == TypeOK /\ StreamKeepsRun /\ StreamCame /\ LocalSet

-----------------------------------------------------------------------------

\* What the next function of the play library makes of a port.
LEMMA SetupOrder ==
  /\ SetupStep["got"] = "mode" /\ SetupStep["mode"] = "open"
  /\ SetupStep["open"] = "callback" /\ SetupStep["callback"] = "playing"
BY DEF SetupStep

\* Only a port can take data, so the local nPort of a retry, -1, never does.
LEMMA NoPortRefuses == ~Accepts(-1)
BY DecodeHKAssumption DEF Accepts

\* The steps of the SDK's stream thread, each with what it changes.
LEMMA CallBackStep ==
  ASSUME HKInv, CallBack
  PROVE  HKInv'
<1> USE DecodeHKAssumption
    DEF HKInv, TypeOK, StreamKeepsRun, StreamCame, LocalSet, PortStates, runVars
<1>1. CASE SysHead
  BY <1>1 DEF SysHead, Return
<1>2. CASE SetupPort
  <2>1. /\ local \in Ports
        /\ port' = [port EXCEPT ![local] = SetupStep[port[local]]]
        /\ SetupStep[port[local]] \in {"mode", "open", "callback", "playing"}
    BY <1>2, SetupOrder DEF SetupPort
  <2> QED
    BY <1>2, <2>1 DEF SetupPort, Return
<1>3. CASE SetupFails
  BY <1>3 DEF SetupFails, Return
<1>4. CASE StreamData
  BY <1>4 DEF StreamData, InputData, Accepts, Return
<1>5. CASE InputFails
  BY <1>5 DEF InputFails
<1>6. CASE Retry
  BY <1>6, NoPortRefuses DEF Retry, vars, cbVars
<1>7. CASE RetryOnce
  BY <1>7, NoPortRefuses DEF RetryOnce, Return
<1> QED
  BY <1>1, <1>2, <1>3, <1>4, <1>5, <1>6, <1>7 DEF CallBack

\* Run's own steps: it ends only without a stream.
LEMMA RunStep ==
  ASSUME HKInv, Run
  PROVE  HKInv'
<1> USE DEF HKInv, TypeOK, StreamKeepsRun, StreamCame, LocalSet, cbVars
<1>1. CASE Login
  BY <1>1 DEF Login
<1>2. CASE RealPlay
  BY <1>2 DEF RealPlay
<1>3. CASE RunEnds
  BY <1>3 DEF RunEnds
<1> QED
  BY <1>1, <1>2, <1>3 DEF Run

\* The decoder thread of a port.
LEMMA DecoderStep ==
  ASSUME HKInv, NEW p \in Ports, Decoder(p)
  PROVE  HKInv'
<1> USE DecodeHKAssumption
    DEF HKInv, TypeOK, StreamKeepsRun, StreamCame, LocalSet, runVars, cbVars
<1>1. CASE DecCBFun(p)
  BY <1>1 DEF DecCBFun
<1>2. CASE EventMsg(p)
  BY <1>2 DEF EventMsg
<1> QED
  BY <1>1, <1>2 DEF Decoder

\* HKInv holds in every reachable state.
THEOREM HKInvariant == Spec => []HKInv
<1>1. Init => HKInv
  <2> SUFFICES ASSUME Init PROVE HKInv
    OBVIOUS
  <2>1. TypeOK
    <3>1. buffer \in [Ports -> 0 .. BufferSize]
      BY DecodeHKAssumption DEF Init
    <3>2. /\ port \in [Ports -> PortStates]
          /\ dec \in [Ports -> {"idle", "event"}]
      BY DEF Init, PortStates
    <3> QED
      BY <3>1, <3>2 DEF Init, TypeOK
  <2>2. StreamKeepsRun /\ StreamCame /\ LocalSet
    BY DEF Init, StreamKeepsRun, StreamCame, LocalSet
  <2> QED
    BY <2>1, <2>2 DEF HKInv
<1>2. HKInv /\ [Next]_vars => HKInv'
  <2>1. HKInv /\ UNCHANGED vars => HKInv'
    BY DEF HKInv, TypeOK, StreamKeepsRun, StreamCame, LocalSet, vars, runVars, cbVars
  <2> QED
    BY <2>1, CallBackStep, RunStep, DecoderStep DEF Next
<1> QED
  BY <1>1, <1>2, PTL DEF Spec

\* Every variable keeps to its declared values; no buffer takes more than it holds.
THEOREM HKTypeCorrect == Spec => []TypeOK
BY HKInvariant, PTL DEF HKInv

\* No callback of the SDK or of the play library meets a deleted decoder.
THEOREM CallbacksMeetDecoder == Spec => []UserAlive
<1>1. HKInv => UserAlive
  BY DEF HKInv, TypeOK, StreamKeepsRun, StreamCame, UserAlive
<1> QED
  BY <1>1, HKInvariant, PTL

\* A callback that retries after a failed InputData stays there for ever: its port
\* is -1, and only its own steps could change that.  (Why DecodingGoesOn fails.)
THEOREM RetryIsForEver == Spec => [](cb = "retry" => [](cb = "retry"))
<1>1. HKInv /\ cb = "retry" /\ [Next]_vars => (cb = "retry")'
  <2> SUFFICES ASSUME HKInv, cb = "retry", [Next]_vars
               PROVE  cb' = "retry"
    OBVIOUS
  <2>1. CASE CallBack
    <3>1. Retry
      BY <2>1 DEF CallBack, SysHead, SetupPort, SetupFails, StreamData, InputFails,
                  RetryOnce
    <3> QED
      BY <3>1, NoPortRefuses DEF HKInv, LocalSet, Retry, vars, cbVars
  <2>2. CASE Run
    BY <2>2 DEF Run, Login, RealPlay, RunEnds, cbVars
  <2>3. ASSUME NEW p \in Ports, Decoder(p)
        PROVE  cb' = "retry"
    BY <2>3 DEF Decoder, DecCBFun, EventMsg, cbVars
  <2>4. CASE UNCHANGED vars
    BY <2>4 DEF vars, cbVars
  <2> QED
    BY <2>1, <2>2, <2>3, <2>4 DEF Next
<1> QED
  BY <1>1, HKInvariant, PTL DEF Spec
=============================================================================
