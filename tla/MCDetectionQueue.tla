-------------------------- MODULE MCDetectionQueue --------------------------
(* Two decoders, two pictures and a queue of two records for TLC. *)
EXTENDS DetectionQueue

CONSTANTS c1, c2, p1, p2

MCCameras == {c1, c2}
MCPictures == {p1, p2}
=============================================================================
