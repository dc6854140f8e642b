----------------------------- MODULE FrameQueue -----------------------------
(***************************************************************************)
(* What a detector's image queue promises to the decoders and to its own   *)
(* inference loop: a first-in first-out buffer of at most Capacity         *)
(* records.  A record that arrives at a full buffer displaces the oldest   *)
(* one; nothing else is ever lost, and the loop works on one record at a   *)
(* time.  Putting and taking are atomic here; DetectionQueue shows that    *)
(* the mutex, the capacity test and the two critical sections of the code  *)
(* implement exactly this.                                                 *)
(***************************************************************************)
EXTENDS Naturals, Sequences

CONSTANTS Records,      \* what may be queued
          Capacity,     \* g_bufsize
          NoRecord      \* the loop holds nothing

VARIABLES q,            \* the records waiting, oldest first
          held          \* the record the loop took last

fqVars == <<q, held>>

Init == q = <<>> /\ held = NoRecord

\* The newest records that still fit once r has arrived.
Displace(s, r) == Append(IF Len(s) < Capacity THEN s ELSE Tail(s), r)

Put == \E r \in Records : q' = Displace(q, r) /\ UNCHANGED held

Take == /\ held = NoRecord
        /\ q # <<>>
        /\ held' = Head(q)
        /\ q' = Tail(q)

\* The loop is done with its record and turns to the queue again.
Finish == held # NoRecord /\ held' = NoRecord /\ UNCHANGED q

Next == Put \/ Take \/ Finish

Spec == Init /\ [][Next]_fqVars
=============================================================================
