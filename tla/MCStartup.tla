----------------------------- MODULE MCStartup ------------------------------
(* Values of DecodeType and AIType for TLC. *)
EXTENDS Startup

\* All four ways to decode, two of them, and a single one.
MCAllDecodeTypes == 1 .. 4
MCOwnThread == {2, 3}
MCFfmpeg == {2}

\* A detector of each family (fy, wx, depth) and a value that properties.ini
\* lists and CreateDetection does not know.
MCAITypes == {104, 2, 201, 102}
=============================================================================
