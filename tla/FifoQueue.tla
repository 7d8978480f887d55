------------------------------ MODULE FifoQueue ------------------------------
(***************************************************************************)
(* What a queue promises, whoever implements it: elements are taken in the *)
(* order in which they were put, each by one client at most.  An element   *)
(* is known by its number in that order.                                   *)
(***************************************************************************)
EXTENDS Integers, Sequences

CONSTANTS
  Client,     (* the clients of the queue        *)
  First       (* the number of the first element *)

VARIABLES
  put,        (* the number of the element that is put next     *)
  queue,      (* the elements that wait, in their order         *)
  returned    (* history: the elements each client has returned *)

Init ==
  /\ put = First
  /\ queue = <<>>
  /\ returned = [c \in Client |-> {}]

Put ==
  /\ put' = put + 1
  /\ queue' = Append(queue, put)
  /\ UNCHANGED returned

\* The first element goes to the client that takes it, or to nobody if that fails
\* before it has it.
Take(c) ==
  /\ queue # <<>>
  /\ queue' = Tail(queue)
  /\ \/ returned' = [returned EXCEPT ![c] = @ \cup {Head(queue)}]
     \/ UNCHANGED returned
  /\ UNCHANGED put

Next == Put \/ \E c \in Client : Take(c)

Spec == Init /\ [][Next]_<<put, queue, returned>>
=============================================================================
