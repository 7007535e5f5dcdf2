---------------------------- MODULE MCSendPath ----------------------------
(* Instances of SendPath for TLC: a two-byte and a one-byte packet. *)
EXTENDS SendPath

CONSTANTS a1, a2, b1

MCByte    == {a1, a2, b1}
MCPackets == {<<a1, a2>>, <<b1>>}
=============================================================================
