----------------------------- MODULE FFDecoder ------------------------------
(***************************************************************************)
(* ffDecodecpu: one RTSP camera decoded with ffmpeg.  init() acquires the  *)
(* ffmpeg objects one after the other and calls release() when one of them *)
(* fails; Run() reads packets, sends the key frames of the video stream to *)
(* the codec and every picture that comes out to the detector; when the    *)
(* connection breaks it releases everything and tries init() up to rccount *)
(* times before the thread ends and the decoder deletes itself.            *)
(*                                                                         *)
(* heap counts the live objects each member was given and field says which *)
(* members are not NULL, so that an object nobody points to any more       *)
(* shows.  (The options dictionary of init and the packet that             *)
(* avcodec_send_packet refuses are never freed; they are not members and   *)
(* not counted.)  The camera is external: every call on it may fail, and   *)
(* the streams it offers may be others after each connection, even none    *)
(* with a video.                                                           *)
(***************************************************************************)
EXTENDS Integers, Sequences

CONSTANTS rccount,       \* attempts to reconnect, 10 in the code
          Sources        \* the stream lists a camera may offer

ASSUME FFAssumption == rccount \in Nat \ {0} /\ Sources \subseteq Seq({"audio", "video"})

\* The members of the decoder that release() frees.
Members == {"avdic", "ifmt_ctx", "codec_ctx", "buffer", "rawframe", "bgrframe"}

\* What init() does in order, and the members each step sets.
Steps == <<"avformat_open_input", "avformat_find_stream_info",
           "avcodec_find_decoder", "avcodec_alloc_context3",
           "avcodec_parameters_to_context", "avcodec_open2",
           "av_image_get_buffer_size", "av_malloc", "av_frame_alloc">>

Acquires(s) ==
  CASE s = "avformat_open_input" -> {"ifmt_ctx"}
    [] s = "avcodec_alloc_context3" -> {"codec_ctx"}
    [] s = "av_malloc" -> {"buffer"}
    [] s = "av_frame_alloc" -> {"rawframe", "bgrframe"}
    [] OTHER -> {}

VARIABLES
  pc,            \* where the decoder is
  step,          \* the step of init()
  ri,            \* attempts to reconnect so far, or -1 in iniffDecodecpu
  field,         \* the members that are not NULL
  heap,          \* live objects given to each member
  streams,       \* ifmt_ctx->streams
  video_index,   \* 0-based, -1 before the first connection
  fails          \* failed inits since packets were read last (auxiliary)

vars == <<pc, step, ri, field, heap, streams, video_index, fails>>

-----------------------------------------------------------------------------
(* init() and release() *)

Allocated(h, S) == [k \in Members |-> IF k \in S THEN h[k] + 1 ELSE h[k]]
Freed(h, S) == [k \in Members |-> IF k \in S THEN h[k] - 1 ELSE h[k]]

\* Mutant: the codec context is not freed, its pointer is set to NULL.
ReleaseNoCodec(f, h) == field' = {} /\ heap' = Freed(h, f \ {"codec_ctx"})

\* release(): every member that is not NULL is freed and set to NULL.
Release(f, h) == field' = {} /\ heap' = Freed(h, f)

\* The beginning of init(): av_dict_set fills avdic.
BeginInit(f, h) ==
  /\ pc' = "init"
  /\ step' = 1
  /\ field' = f \cup {"avdic"}
  /\ heap' = Allocated(h, {"avdic"} \ f)

\* The index of the first video stream, as the loop over nb_streams finds it.
Videos(s) == {i \in DOMAIN s : s[i] = "video"}
FirstVideo(s) == CHOOSE i \in Videos(s) : \A j \in Videos(s) : i <= j

\* avformat_open_input succeeds and leaves the options it did not use in avdic,
\* if any.
OpenInput ==
  /\ pc = "init" /\ step = 1
  /\ \E used \in SUBSET {"avdic"} :
       /\ field' = (field \cup {"ifmt_ctx"}) \ used
       /\ heap' = Freed(Allocated(heap, {"ifmt_ctx"}), used)
  /\ step' = 2
  /\ UNCHANGED <<pc, ri, streams, video_index, fails>>

\* Mutant: the stream found first is kept for ever.
FindStreamInfoOnce ==
  /\ pc = "init" /\ step = 2
  /\ streams' \in Sources
  /\ video_index' = IF video_index = -1 /\ Videos(streams') # {}
                    THEN FirstVideo(streams') - 1 ELSE video_index
  /\ pc' = IF video_index' + 1 \in DOMAIN streams' THEN "init" ELSE "crashed"
  /\ step' = 3
  /\ UNCHANGED <<ri, field, heap, fails>>

\* The streams of this connection become known; the index of the first video
\* stream is noted, if there is one.  streams[video_index] is read next, which
\* is undefined when the index is none of this connection's.
FindStreamInfo ==
  /\ pc = "init" /\ step = 2
  /\ streams' \in Sources
  /\ video_index' = IF Videos(streams') # {} THEN FirstVideo(streams') - 1
                    ELSE video_index
  /\ pc' = IF video_index' + 1 \in DOMAIN streams' THEN "init" ELSE "crashed"
  /\ step' = 3
  /\ UNCHANGED <<ri, field, heap, fails>>

\* The other steps of init(); after the last one packets can be read.
Acquire ==
  /\ pc = "init" /\ step > 2
  /\ field' = field \cup Acquires(Steps[step])
  /\ heap' = Allocated(heap, Acquires(Steps[step]))
  /\ IF step = Len(Steps)
     THEN pc' = "read" /\ step' = 1 /\ fails' = 0
     ELSE step' = step + 1 /\ UNCHANGED <<pc, fails>>
  /\ UNCHANGED <<ri, streams, video_index>>

\* Mutant: the loop over ri does not count.
AfterFailureForever ==
  /\ fails' = IF fails < rccount THEN fails + 1 ELSE fails
  /\ ri' = ri
  /\ pc' = IF ri = -1 THEN "deleted" ELSE "release"
  /\ step' = 1

\* Mutant: one attempt too few.
AfterFailureEarly ==
  /\ fails' = fails + 1
  /\ ri' = IF ri = -1 THEN ri ELSE ri + 1
  /\ pc' = IF ri = -1 THEN "deleted"
           ELSE IF ri + 2 < rccount THEN "release" ELSE "ended"
  /\ step' = 1

\* Mutant: one attempt too many.
AfterFailureMore ==
  /\ fails' = fails + 1
  /\ ri' = IF ri = -1 THEN ri ELSE ri + 1
  /\ pc' = IF ri = -1 THEN "deleted"
           ELSE IF ri < rccount THEN "release" ELSE "ended"
  /\ step' = 1

\* Mutant: continue where the code has break.
AfterFailureGoesOn ==
  /\ fails' = fails + 1
  /\ ri' = IF ri = -1 THEN ri ELSE ri + 1
  /\ pc' = IF ri = -1 THEN "deleted"
           ELSE IF ri + 1 < rccount THEN "release" ELSE "read"
  /\ step' = 1

\* What follows a failed init(): in iniffDecodecpu main drops the decoder, in
\* Run the loop over ri goes on or gives up.
AfterFailure ==
  /\ fails' = fails + 1
  /\ ri' = IF ri = -1 THEN ri ELSE ri + 1
  /\ pc' = IF ri = -1 THEN "deleted"
           ELSE IF ri + 1 < rccount THEN "release" ELSE "ended"
  /\ step' = 1

\* A step of init() fails, the last one perhaps for one of its two frames; all
\* that has been acquired is released.
InitFails ==
  /\ pc = "init"
  /\ \E got \in IF step = Len(Steps) THEN {{}, {"rawframe"}, {"bgrframe"}} ELSE {{}} :
       Release(field \cup got, Allocated(heap, got))
  /\ AfterFailure
  /\ UNCHANGED <<streams, video_index>>

-----------------------------------------------------------------------------
(* Run() *)

\* The connection is released and opened again.
Reconnect ==
  /\ pc = "release"
  /\ BeginInit({}, Freed(heap, field))
  /\ UNCHANGED <<ri, streams, video_index, fails>>

\* Mutant: ri is set to 0 once, before the loop over the packets.
ReadFailsKeepsCount ==
  /\ pc = "read"
  /\ pc' = "release"
  /\ ri' = IF ri = -1 THEN 0 ELSE ri
  /\ UNCHANGED <<step, field, heap, streams, video_index, fails>>

\* av_read_frame fails: the camera is gone, or silent for longer than stimeout.
ReadFails ==
  /\ pc = "read"
  /\ pc' = "release"
  /\ ri' = 0
  /\ UNCHANGED <<step, field, heap, streams, video_index, fails>>

\* A packet arrives: not of the video stream, or not a key frame, or to decode.
ReadPacket ==
  /\ pc = "read"
  /\ pc' \in {"unref", "send"}
  /\ UNCHANGED <<step, ri, field, heap, streams, video_index, fails>>

\* avcodec_send_packet fails: reconnect, too; pkt is not unreferenced.
SendFails ==
  /\ pc = "send"
  /\ pc' = "release"
  /\ ri' = 0
  /\ UNCHANGED <<step, field, heap, streams, video_index, fails>>

SendPacket ==
  /\ pc = "send"
  /\ pc' = "receive"
  /\ UNCHANGED <<step, ri, field, heap, streams, video_index, fails>>

\* avcodec_receive_frame: a picture, converted, copied to curFrame and handed
\* to the detector; then the next one is asked for.
ReceiveFrame ==
  /\ pc = "receive"
  /\ pc' = "event"
  /\ UNCHANGED <<step, ri, field, heap, streams, video_index, fails>>

EventMessage ==
  /\ pc = "event"
  /\ pc' = "receive"
  /\ UNCHANGED <<step, ri, field, heap, streams, video_index, fails>>

\* EAGAIN, the end of the stream or an error: no more pictures in this packet.
NoFrame ==
  /\ pc = "receive"
  /\ pc' = "unref"
  /\ UNCHANGED <<step, ri, field, heap, streams, video_index, fails>>

Unref ==
  /\ pc = "unref"
  /\ pc' = "read"
  /\ UNCHANGED <<step, ri, field, heap, streams, video_index, fails>>

\* The thread has ended: ThreadPtr_routine deletes the decoder and ~ffDecodecpu
\* releases what is left.
Delete ==
  /\ pc = "ended"
  /\ pc' = "deleted"
  /\ Release(field, heap)
  /\ UNCHANGED <<step, ri, streams, video_index, fails>>

-----------------------------------------------------------------------------

\* iniffDecodecpu, called by main, calls init() for the first time.
Init ==
  /\ pc = "init"
  /\ step = 1
  /\ ri = -1
  /\ field = {"avdic"}
  /\ heap = [k \in Members |-> IF k = "avdic" THEN 1 ELSE 0]
  /\ streams = <<>>
  /\ video_index = -1
  /\ fails = 0

Open == OpenInput \/ FindStreamInfo \/ Acquire \/ InitFails \/ Reconnect

Run == \/ ReadFails \/ ReadPacket \/ SendFails \/ SendPacket
       \/ ReceiveFrame \/ EventMessage \/ NoFrame \/ Unref \/ Delete

Next == Open \/ Run

Spec == Init /\ [][Next]_vars

\* Calls into ffmpeg return; stimeout makes the blocking ones return as well.
FairSpec == Spec /\ WF_vars(Next)

-----------------------------------------------------------------------------

\* Every variable has the values of its declaration in the code.
TypeOK ==
  /\ pc \in {"init", "release", "read", "send", "receive", "event", "unref",
             "ended", "deleted", "crashed"}
  /\ step \in DOMAIN Steps
  /\ ri \in -1 .. rccount
  /\ field \subseteq Members
  /\ heap \in [Members -> Nat]
  /\ streams \in Sources \cup {<<>>}
  /\ video_index \in Int
  /\ fails \in 0 .. rccount

\* No ffmpeg object of a member is ever lost or freed twice, whichever step of
\* init() fails and however often the connection breaks: a live object is
\* pointed to and a pointer points to a live object.
MembersOwned == \A k \in Members : heap[k] = IF k \in field THEN 1 ELSE 0

\* Packets are read and pictures decoded only with every member acquired; the
\* loop never goes on after its last attempt to reconnect failed.
Reading == pc \in {"read", "send", "receive", "event", "unref"}
ReadyToRead == Reading => Members \ {"avdic"} \subseteq field

\* video_index names a stream of the present connection, the video if it offers
\* one, also when the camera came back with its streams in another order.
VideoIndexCurrent ==
  Reading => /\ video_index + 1 \in DOMAIN streams
             /\ Videos(streams) # {} => streams[video_index + 1] = "video"

\* The thread gives up only after rccount attempts in a row, each loss of the
\* connection starting a new count.
GivesUpAfterAllAttempts == pc = "ended" => fails = rccount

\* A lost connection is settled: packets again, or the end of the decoder, unless
\* the camera comes back without the stream video_index names (streams[-1]).
LossIsSettled == pc = "release" ~> pc \in {"read", "ended", "crashed"}
=============================================================================
