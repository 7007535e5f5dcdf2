---------------------------- MODULE MCIocpServer ----------------------------
(* Instances of IocpServer for TLC. *)
EXTENDS IocpServer, TLC

Symmetry == Permutations(Workers)
=============================================================================
