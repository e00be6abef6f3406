--------------------------- MODULE MCTcpBootstrap ---------------------------
(* Workers that bootstrap, and p3, which is started with index 0. *)
EXTENDS TcpBootstrap
CONSTANTS p1, p2, p3

GivenByHand == [p \in Proc |-> IF p = p3 THEN 0 ELSE NoIndex]
=============================================================================
