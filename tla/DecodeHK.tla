------------------------------ MODULE DecodeHK ------------------------------
(***************************************************************************)
(* DecodeHK: one camera decoded with the HK SDK.  Run logs in and starts   *)
(* the stream, and then only sleeps.  The SDK's stream thread calls        *)
(* g_RealDataCallBack_V30, one call at a time: a system header gets a port *)
(* of the play library and opens it step by step, data are put into the    *)
(* buffer of the port.  The decoder thread of each playing port takes them *)
(* and calls DecCBFun, which hands a picture on to the detector or, within *)
(* captureHK_Peroid of the last one, drops it.                             *)
(*                                                                         *)
(* The SDK and the play library are external: every call of them may fail, *)
(* the SDK may send another header when it reconnects, and InputData       *)
(* succeeds if the stream of the port is open and its buffer has room.     *)
(***************************************************************************)
EXTENDS Integers

CONSTANTS Ports,         \* ports of the play library
          BufferSize     \* packets in the buffer of a port, 1 MB in the code

ASSUME DecodeHKAssumption ==
  /\ Ports \subseteq Nat
  /\ BufferSize \in Nat \ {0}

VARIABLES
  rpc,           \* where Run is
  stop_,
  object,        \* the decoder, "alive" or "deleted"
  stream,        \* the SDK calls the callback
  cb,            \* where g_RealDataCallBack_V30 is
  local,         \* its local nPort
  nPort,         \* the member nPort
  port,          \* how far each port is set up
  buffer,        \* packets in its buffer
  dec            \* where DecCBFun of each port is

runVars == <<rpc, stop_, object, stream>>
cbVars == <<cb, local, nPort, port>>
vars == <<runVars, cbVars, buffer, dec>>

\* What a system header does to its port, in this order.
SetupStep == [got |-> "mode", mode |-> "open", open |-> "callback",
              callback |-> "playing"]

Init ==
  /\ rpc = "login"
  /\ stop_ = FALSE
  /\ object = "alive"
  /\ stream = FALSE
  /\ cb = "idle"
  /\ local = -1
  /\ nPort = -1
  /\ port = [p \in Ports |-> "free"]
  /\ buffer = [p \in Ports |-> 0]
  /\ dec = [p \in Ports |-> "idle"]

-----------------------------------------------------------------------------
(* Run *)

Login ==
  /\ rpc = "login"
  /\ \/ rpc' = "realplay" /\ stop_' = stop_
     \/ rpc' = "loop" /\ stop_' = TRUE
  /\ UNCHANGED <<object, stream, cbVars, buffer, dec>>

\* Mutant: stop_ is set when the stream is there.
RealPlayStops ==
  /\ rpc = "realplay"
  /\ rpc' = "loop"
  /\ stream' \in BOOLEAN
  /\ stop_' = TRUE
  /\ UNCHANGED <<object, cbVars, buffer, dec>>

\* NET_DVR_RealPlay_V40 starts the callbacks or fails.
RealPlay ==
  /\ rpc = "realplay"
  /\ rpc' = "loop"
  /\ stream' \in BOOLEAN
  /\ stop_' = ~stream'
  /\ UNCHANGED <<object, cbVars, buffer, dec>>

\* The loop sleeps; when stop_ is set Run returns and the thread deletes the
\* decoder.
RunEnds ==
  /\ rpc = "loop" /\ stop_
  /\ rpc' = "ended"
  /\ object' = "deleted"
  /\ UNCHANGED <<stop_, stream, cbVars, buffer, dec>>

-----------------------------------------------------------------------------
(* g_RealDataCallBack_V30 *)

\* Mutant: int nPort = 0.
ReturnZero == cb' = "idle" /\ local' = 0

\* The local nPort is -1 again in the next call.
Return == cb' = "idle" /\ local' = -1

\* NET_DVR_SYSHEAD: a port, if there is one left; an empty header stops here.
SysHead ==
  /\ stream /\ cb = "idle"
  /\ \E p \in Ports :
       /\ port[p] = "free"
       /\ port' = [port EXCEPT ![p] = "got"]
       /\ nPort' = p
       /\ \/ cb' = "setup" /\ local' = p
          \/ Return
  /\ UNCHANGED <<runVars, buffer, dec>>

\* The next of SetStreamOpenMode, OpenStream, SetDecCallBackMend and Play.
SetupPort ==
  /\ cb = "setup"
  /\ port' = [port EXCEPT ![local] = SetupStep[@]]
  /\ IF port'[local] = "playing" THEN Return ELSE UNCHANGED <<cb, local>>
  /\ UNCHANGED <<runVars, nPort, buffer, dec>>

\* It fails: break, with nPort set to a port that does not play.
SetupFails ==
  /\ cb = "setup"
  /\ Return
  /\ UNCHANGED <<runVars, nPort, port, buffer, dec>>

Accepts(p) == p \in Ports /\ port[p] \in {"open", "callback", "playing"}
                          /\ buffer[p] < BufferSize

\* PlayM4_InputData(p, ...) succeeds and the callback returns.
InputData(p) ==
  /\ Accepts(p)
  /\ buffer' = [buffer EXCEPT ![p] = @ + 1]
  /\ Return
  /\ UNCHANGED <<runVars, nPort, port, dec>>

\* NET_DVR_STREAMDATA and the default case try the member nPort first.
StreamData ==
  /\ stream /\ cb = "idle" /\ nPort # -1
  /\ InputData(nPort)

InputFails ==
  /\ stream /\ cb = "idle" /\ nPort # -1
  /\ ~Accepts(nPort)
  /\ cb' \in {"retry", "retryOnce"}
  /\ UNCHANGED <<runVars, local, nPort, port, buffer, dec>>

\* After a sleep NET_DVR_STREAMDATA tries the local nPort, which no header has
\* set in this call, until it succeeds;
Retry ==
  /\ cb = "retry"
  /\ IF Accepts(local) THEN InputData(local) ELSE UNCHANGED vars

\* the default case tries it once and returns.
RetryOnce ==
  /\ cb = "retryOnce"
  /\ IF Accepts(local) THEN InputData(local)
     ELSE Return /\ UNCHANGED <<runVars, nPort, port, buffer, dec>>

-----------------------------------------------------------------------------
(* The decoder threads *)

\* Mutant: one mutex for both callbacks.
DecCBFunWaits(p) ==
  /\ cb = "idle"
  /\ port[p] = "playing" /\ dec[p] = "idle" /\ buffer[p] > 0
  /\ buffer' = [buffer EXCEPT ![p] = @ - 1]
  /\ dec' \in {dec, [dec EXCEPT ![p] = "event"]}
  /\ UNCHANGED <<runVars, cbVars>>

\* A packet gives a picture, which is scaled and handed on or dropped.
DecCBFun(p) ==
  /\ port[p] = "playing" /\ dec[p] = "idle" /\ buffer[p] > 0
  /\ buffer' = [buffer EXCEPT ![p] = @ - 1]
  /\ dec' \in {dec, [dec EXCEPT ![p] = "event"]}
  /\ UNCHANGED <<runVars, cbVars>>

\* EventMsg: EventMessage of the decoder that pUser points to.
EventMsg(p) ==
  /\ dec[p] = "event"
  /\ dec' = [dec EXCEPT ![p] = "idle"]
  /\ UNCHANGED <<runVars, cbVars, buffer>>

-----------------------------------------------------------------------------

Run == Login \/ RealPlay \/ RunEnds
CallBack == \/ SysHead \/ SetupPort \/ SetupFails
            \/ StreamData \/ InputFails \/ Retry \/ RetryOnce
Decoder(p) == DecCBFun(p) \/ EventMsg(p)
Next == Run \/ CallBack \/ \E p \in Ports : Decoder(p)

Spec == Init /\ [][Next]_vars

\* Threads go on, and the camera sends data as long as it is asked for.
FairSpec == /\ Spec
            /\ WF_vars(Run) /\ WF_vars(CallBack)
            /\ \A p \in Ports : WF_vars(Decoder(p))

-----------------------------------------------------------------------------

PortStates == {"free", "got", "mode", "open", "callback", "playing"}

\* Every variable has the values of its declaration in the code.
TypeOK ==
  /\ rpc \in {"login", "realplay", "loop", "ended"}
  /\ stop_ \in BOOLEAN
  /\ object \in {"alive", "deleted"}
  /\ stream \in BOOLEAN
  /\ cb \in {"idle", "setup", "retry", "retryOnce"}
  /\ {local, nPort} \subseteq Ports \cup {-1}
  /\ port \in [Ports -> PortStates]
  /\ buffer \in [Ports -> 0 .. BufferSize]
  /\ dec \in [Ports -> {"idle", "event"}]

\* pUser points to a living decoder in every callback of the two libraries,
\* although the thread that asked for them deletes it when Run returns.
UserAlive ==
  stream \/ cb # "idle" \/ (\E p \in Ports : dec[p] # "idle") => object = "alive"

\* A stream callback that retries does not keep the decoder thread from emptying the
\* buffer of a playing port: the port it should have retried comes to accept the
\* packet.  A retry is a sound answer to a full buffer, if it is to that port.
RetryWouldSucceed ==
  \A p \in Ports : cb = "retry" /\ nPort = p /\ port[p] = "playing" ~> Accepts(p)

\* "Decoding still runs at 25 frames" (comment in DecCBFun): once a port plays,
\* packets of the camera keep coming to the decoder.
DecodingGoesOn ==
  (\E p \in Ports : port[p] = "playing") ~> \E p \in Ports : buffer[p] > 0
=============================================================================
