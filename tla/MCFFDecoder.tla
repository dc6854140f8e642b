---------------------------- MODULE MCFFDecoder -----------------------------
(* The streams a camera may offer, for TLC. *)
EXTENDS FFDecoder

MCSources == {<<"video">>, <<"video", "audio">>, <<"audio", "video">>,
              <<"audio", "video", "video">>, <<"audio">>}
=============================================================================
