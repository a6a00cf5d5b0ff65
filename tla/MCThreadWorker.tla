--------------------------- MODULE MCThreadWorker ---------------------------
(***************************************************************************)
(* ThreadWorker for TLC.  Connections are interchangeable, and so are      *)
(* descriptors; buffers are not, the ring's slots have an order.           *)
(***************************************************************************)
EXTENDS ThreadWorker, TLC

Symmetric == Permutations(Conns) \cup Permutations(Fds)
=============================================================================
