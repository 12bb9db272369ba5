--------------------------- MODULE MCRemoteCache ---------------------------
(* Bounded instance of RemoteCache for TLC. *)
EXTENDS RemoteCache, TLC

ContentSymmetry == Permutations(Content)
=============================================================================
