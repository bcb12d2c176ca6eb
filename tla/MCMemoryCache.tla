--------------------------- MODULE MCMemoryCache ---------------------------
(* The in-process cache, under threads that get and set as they like. *)
EXTENDS MemoryCache
=============================================================================
