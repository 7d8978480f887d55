---------------------------- MODULE DoubleBarrier ----------------------------
(***************************************************************************)
(* What a double barrier promises, whoever implements it: nobody is let in *)
(* before Size processes have come, and nobody is let out before those who *)
(* have come have done their work, unless they have failed.  A failed      *)
(* process is one the others do not wait for: what it does is left open.   *)
(***************************************************************************)
EXTENDS Integers, FiniteSets

CONSTANTS
  Proc,       (* the processes           *)
  Size        (* the size of the barrier *)

VARIABLES
  place,      (* where each process is                 *)
  come        (* history: the processes that have come *)

Init ==
  /\ place = [p \in Proc |-> "away"]
  /\ come = {}

Move(p, from, to) == place[p] = from /\ place' = [place EXCEPT ![p] = to]

Come(p) == Move(p, "away", "before") /\ come' = come \cup {p}

LetIn(p) ==
  /\ Cardinality(come) >= Size
  /\ Move(p, "before", "inside")
  /\ UNCHANGED come

Finish(p) == Move(p, "inside", "behind") /\ UNCHANGED come

LetOut(p) ==
  /\ \A q \in Proc : place[q] \notin {"before", "inside"}
  /\ Move(p, "behind", "out")
  /\ UNCHANGED come

\* A process may fail at any time, also when it has just come.
Fail(p) ==
  /\ place' = [place EXCEPT ![p] = "failed"]
  /\ come' \in {come, come \cup {p}}

Next == \E p \in Proc : Come(p) \/ LetIn(p) \/ Finish(p) \/ LetOut(p) \/ Fail(p)

Spec == Init /\ [][Next]_<<place, come>>
=============================================================================
