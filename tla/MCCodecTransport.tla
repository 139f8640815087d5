-------------------------- MODULE MCCodecTransport --------------------------
(* Instances of CodecTransport for TLC; the cfg files give the constants.  *)
EXTENDS CodecTransport
=============================================================================
