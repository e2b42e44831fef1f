--------------------------- MODULE MCAuthStorage ---------------------------
(* Small instances of AuthStorage for TLC.                                 *)
EXTENDS AuthStorage, TLC

CONSTANTS p1, p2, c1, c2

(* One call in each process.                                               *)
Owners == (c1 :> p1) @@ (c2 :> p2)

(* The renamings that leave each call in its process.                      *)
Swaps == {s \in Permutations(Processes \cup Calls \cup Providers) :
            /\ \A p \in Processes : s[p] \in Processes
            /\ \A q \in Providers : s[q] \in Providers
            /\ \A c \in Calls : s[c] \in Calls /\ OwnerOf[s[c]] = s[OwnerOf[c]]}
=============================================================================
