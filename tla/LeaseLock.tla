------------------------------ MODULE LeaseLock ------------------------------
(***************************************************************************)
(* What a lock with a lease promises, whoever implements it: at most one   *)
(* client holds it, a client works under the lock only while it holds it,  *)
(* and only its holder gives it back.  A lease that runs out takes the     *)
(* lock from a client that does not work under it any more.                *)
(***************************************************************************)
CONSTANTS
  Client,     (* the clients of the lock *)
  Nobody      (* no client               *)

VARIABLES
  holder,     (* the client that holds the lock, or Nobody   *)
  working     (* the clients that work as holders of the lock *)

TypeOK == holder \in Client \cup {Nobody} /\ working \in SUBSET Client

Init == holder = Nobody /\ working = {}

Acquire(c) == holder = Nobody /\ holder' = c /\ UNCHANGED working

Work(c) == holder = c /\ working' = working \cup {c} /\ UNCHANGED holder

\* The client stops working and gives the lock back, or leaves it to the lease.
Release(c) ==
  /\ holder = c
  /\ working' = working \ {c}
  /\ holder' \in {c, Nobody}

LeaseEnds == holder \notin working /\ holder' = Nobody /\ UNCHANGED working

Next == LeaseEnds \/ \E c \in Client : Acquire(c) \/ Work(c) \/ Release(c)

Spec == Init /\ [][Next]_<<holder, working>>

\* At most one client works under the lock, and it is the holder.
MutualExclusion == \A c \in working : c = holder
=============================================================================
