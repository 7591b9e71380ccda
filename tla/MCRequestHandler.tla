------------------------- MODULE MCRequestHandler -------------------------
(* Small instances of the request handler.                                 *)
EXTENDS RequestHandler, TLC

Symmetry == Permutations(Conns) \cup Permutations(Buffers)
=============================================================================
