------------------------------- MODULE MCPipe -------------------------------
(***************************************************************************)
(* Pipe with a two-byte buffer and counters of two bits: nread and nwrite  *)
(* overflow after four bytes, and a write of three bytes blocks.           *)
(***************************************************************************)
EXTENDS Pipe

MCWriteBufs == {<<0, 1, 0>>}
=============================================================================
