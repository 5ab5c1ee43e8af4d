--------------------------- MODULE MCGsadSessions ---------------------------
(* Small instances of GsadSessions: threads and tokens are interchangeable. *)
EXTENDS GsadSessions, TLC

Symmetric == Permutations(Threads) \cup Permutations(Tokens) \cup Permutations(Users)

=============================================================================
