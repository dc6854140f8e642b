---------------------------- MODULE FrameHistory ----------------------------
(***************************************************************************)
(* DetectionQueue with the history of a picture.  The threads never look   *)
(* at what a picture shows, so the pictures need no numbers: one camera is *)
(* the Witness, and exactly one of its pictures is marked.  What it shows  *)
(* earlier is "before", what it shows later is "after"; since any picture  *)
(* may be the marked one, what holds of it holds of all.  Two auxiliary    *)
(* variables remember what the network has run on and how many records     *)
(* followed the marked one into the queue.  They guard nothing: every      *)
(* behaviour of DetectionQueue is one of this module, with any number of   *)
(* pictures.                                                               *)
(***************************************************************************)
EXTENDS DetectionQueue, SequencesExt, FiniteSetsExt

CONSTANT Witness         \* the camera whose pictures are followed

ASSUME HistoryAssumption ==
  /\ Witness \in Cameras
  /\ Pictures = {"before", "marked", "after"}
  /\ None \notin Nat

VARIABLES analysed,      \* the kinds of the Witness's pictures the network ran
                         \* on, in that order, repetitions of a kind left out
          behind         \* records pushed after the marked one, counted up to
                         \* Capacity; None until the marked one is pushed

history == <<analysed, behind>>
hvars == <<vars, history>>

HInit == Init /\ analysed = <<>> /\ behind = None

\* What the Witness may show after a picture of that kind.
Following(kind) == IF kind \in {None, "before"} THEN {"before", "marked"}
                   ELSE {"after"}

HDecode(c) ==
  /\ \E p \in IF c = Witness THEN Following(curFrame[c]["top"]) ELSE {"before"} :
       Decode(c, p)
  /\ UNCHANGED history

IsMarked(r) == r.camid = Witness /\ r.image["top"] = "marked"

HEventPush(c) ==
  /\ EventPush(c)
  /\ behind' = IF IsMarked(Record(c)) THEN 0
               ELSE IF behind = None THEN None
               ELSE Min({behind + 1, Capacity})
  /\ UNCHANGED analysed

\* "before" and "after" stand for many pictures: the network may run on several
\* in a row.  The marked picture is one picture.
HInfer ==
  /\ Infer
  /\ analysed' =
       LET kind == img["top"]
       IN  IF video_data.camid # Witness THEN analysed
           ELSE IF kind # "marked" /\ analysed # <<>> /\ Last(analysed) = kind
                THEN analysed
           ELSE Append(analysed, kind)
  /\ UNCHANGED behind

HOther == /\ \/ TestLock \/ Test \/ TestUnlock \/ Sleep
             \/ TakeLock \/ TakeFront \/ TakePop \/ TakeUnlock \/ Clone \/ Cloned
             \/ \E c \in Cameras : \/ CopyTo(c) \/ EventLock(c)
                                   \/ EventOverflow(c) \/ EventRoom(c)
                                   \/ EventUnlock(c)
          /\ UNCHANGED history

HNext == HInfer \/ HOther \/ \E c \in Cameras : HDecode(c) \/ HEventPush(c)

HSpec == HInit /\ [][HNext]_hvars /\ Fairness

-----------------------------------------------------------------------------

Rank(kind) == CASE kind = "before" -> 1
                [] kind = "marked" -> 2
                [] kind = "after" -> 3

\* The network sees the pictures of one camera in the order the camera showed
\* them and none of them twice, whatever the other cameras do and however
\* often the queue overflows.
InCameraOrder ==
  \A i, j \in DOMAIN analysed :
    i < j => Rank(analysed[i]) < Rank(analysed[j])

\* A picture that reached the queue is lost only to overflow: as long as fewer
\* than Capacity records came after it, it waits, is being worked on or has
\* been analysed.
LostOnlyToOverflow ==
  behind # None /\ behind + (IF Putting THEN 1 ELSE 0) < Capacity =>
    \/ \E r \in ToSet(g_imageQueue) : IsMarked(r)
    \/ video_data # None /\ IsMarked(video_data)
    \/ "marked" \in ToSet(analysed)
=============================================================================
