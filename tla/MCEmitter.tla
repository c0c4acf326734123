----------------------------- MODULE MCEmitter -----------------------------
(* Every admitted log length and every used size; fragments below, at and  *)
(* above a chunk.                                                          *)
EXTENDS Emitter
=============================================================================
