-------------------------- MODULE MCRewriteServer --------------------------
(* Instances of RewriteServer for TLC. *)
EXTENDS RewriteServer

MCStatus == {"NOT_CONNECTED", "CONNECTING", "CONNECTED"}
=============================================================================
