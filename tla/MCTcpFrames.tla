----------------------------- MODULE MCTcpFrames -----------------------------
(***************************************************************************)
(* Lengths for TcpFrames: none, one byte, one that takes 2 bytes to say,   *)
(* one that takes 8, and one that does not fit into the buffer.            *)
(***************************************************************************)
EXTENDS TcpFrames

MCLengths == {0, 2, 3, 9}
==============================================================================
