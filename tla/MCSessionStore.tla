--------------------------- MODULE MCSessionStore ---------------------------
(* Small instances of SessionStore for TLC.                                *)
EXTENDS SessionStore

Symmetries == Permutations(Ids) \cup Permutations(SessionFiles)
=============================================================================
