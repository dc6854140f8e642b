--------------------------- MODULE MCFrameHistory ---------------------------
(* Two decoders, one of them followed, and a queue of three records. *)
EXTENDS FrameHistory

CONSTANTS c1, c2

MCCameras == {c1, c2}
MCPictures == {"before", "marked", "after"}
=============================================================================
