----------------------------- MODULE MCCodecPipe -----------------------------
(* Instances of CodecPipe for TLC; the cfg file gives the other constants. *)
EXTENDS CodecPipe

(* A component listed as hardware, one as software; the older names repeat *)
(* the first.                                                              *)
MCListed == <<[name |-> "vendor", hardware |-> TRUE],
              [name |-> "google", hardware |-> FALSE]>>

MCLegacy == <<"vendor", "exynos">>

MCStreams == {<<>>,
              <<"config", "frame", "frame", "frame", "frame", "eos">>,
              <<"frame", "frame", "frame">>,
              <<"frame", "invalid">>,
              <<"frame", "frame", "truncated">>}
=============================================================================
