------------------------------ MODULE FifoLock ------------------------------
(***************************************************************************)
(* What withFileMutationQueue promises: clients ask for a lock, enter one  *)
(* at a time in the order in which they asked for it, and each makes room  *)
(* for the next when it leaves, entered or not.                            *)
(***************************************************************************)
CONSTANTS Clients, Locks

VARIABLES
  lock,    \* the lock a client has asked for
  asked,   \* the clients that have asked
  pending, \* those that have not left
  inside,  \* those that hold their lock
  ahead    \* client -> the pending clients that asked for its lock before it

vars == <<lock, asked, pending, inside, ahead>>

Init ==
  /\ lock \in [Clients -> Locks]
  /\ asked = {} /\ pending = {} /\ inside = {}
  /\ ahead = [c \in Clients |-> {}]

Ask(c, l) ==
  /\ c \notin asked
  /\ asked' = asked \cup {c} /\ pending' = pending \cup {c}
  /\ lock' = [lock EXCEPT ![c] = l]
  /\ ahead' = [ahead EXCEPT ![c] = {d \in pending : lock[d] = l}]
  /\ UNCHANGED inside

Enter(c) ==
  /\ c \in pending \ inside /\ ahead[c] = {}
  /\ inside' = inside \cup {c}
  /\ UNCHANGED <<lock, asked, pending, ahead>>

Leave(c) ==
  /\ c \in pending /\ ahead[c] = {}
  /\ pending' = pending \ {c} /\ inside' = inside \ {c}
  /\ ahead' = [d \in Clients |-> ahead[d] \ {c}]
  /\ UNCHANGED <<lock, asked>>

Next == \E c \in Clients : (\E l \in Locks : Ask(c, l)) \/ Enter(c) \/ Leave(c)

Spec == Init /\ [][Next]_vars
-----------------------------------------------------------------------------
(* A lock is held by one client at a time.                                 *)
Exclusion == \A c, d \in inside : lock[c] = lock[d] => c = d
=============================================================================
