------------------------------- MODULE ZkQueue -------------------------------
(***************************************************************************)
(* The producer-consumer queue on ZooKeeper (Queue, on top of              *)
(* SyncPrimitive) with the producers and consumers of Test.queueTest.      *)
(*                                                                         *)
(* An element is a child of the root, named by the sequence number that    *)
(* ZooKeeper appends to "element" with ten digits.  consume() reads the    *)
(* number and asks for "element" + number: that is the name of the child   *)
(* only when the number has ten digits itself, from 10^9 on ("Unpadded").  *)
(***************************************************************************)
EXTENDS SyncPrimitive, FiniteSets

CONSTANTS
  Producer,      (* the processes that produce                             *)
  Consumer,      (* the processes that consume                             *)
  First,         (* the sequence number of the first element               *)
  Unpadded,      (* the first sequence number that needs no zeros          *)
  Quota,         (* args[2]: how many elements each one handles            *)
  Shared,        (* may the barrier of Test make its root under this one?  *)
  MaxFaults,     (* bound: calls that throw                                *)
  MaxCrashes     (* bound: processes that die                              *)

ASSUME ZkQueueAssumption ==
  /\ Producer \cup Consumer \subseteq Proc
  /\ Producer \cap Consumer = {}
  /\ {First, Unpadded, MaxFaults, MaxCrashes} \subseteq Nat
  /\ Quota \in Nat \ {0}
  /\ Shared \in BOOLEAN

VARIABLES
  crowded,       (* has the root a child that is no element?               *)
  next,          (* the sequence number ZooKeeper gives next               *)
  pc,            (* what each process does next                            *)
  turn,          (* the "i" of its loop                                    *)
  min,           (* the number a consumer has computed, or None            *)
  got,           (* history: the elements whose value consume() returned   *)
  faults, crashes

vars == <<zkVars, crowded, next, pc, turn, min, got, faults, crashes>>

None == -1

PC == {"produce", "check", "wait", "getData", "delete", "done", "dead"}

TypeOK ==
  /\ children \in SUBSET Nat
  /\ watch \in SUBSET Proc
  /\ events \in [Proc -> Nat]
  /\ crowded \in BOOLEAN
  /\ next \in Nat
  /\ pc \in [Proc -> PC]
  /\ turn \in [Proc -> 0 .. Quota]
  /\ min \in [Proc -> Nat \cup {None}]
  /\ got \in [Proc -> SUBSET Nat]
  /\ faults \in Nat
  /\ crashes \in Nat

Goto(p, l) == pc' = [pc EXCEPT ![p] = l]

Fault == faults < MaxFaults /\ faults' = faults + 1

\* Mutant: the loop takes one turn too many.
NextTurnOnceMore(p, l) ==
  /\ turn' = [turn EXCEPT ![p] = @ + 1]
  /\ Goto(p, IF turn[p] < Quota THEN l ELSE "done")

\* The loop of queueTest goes on: the next element, or the end.
NextTurn(p, l) ==
  /\ turn' = [turn EXCEPT ![p] = @ + 1]
  /\ Goto(p, IF turn[p] + 1 < Quota THEN l ELSE "done")

-----------------------------------------------------------------------------
\* produce(): the loop goes on whether or not the create has thrown, and
\* ZooKeeper may have made the child although it has.
Produce(p) ==
  /\ pc[p] = "produce"
  /\ \/ /\ SetChildren(children \cup {next})
        /\ next' = next + 1
        /\ UNCHANGED faults \/ Fault
     \/ Fault /\ UNCHANGED <<zkVars, next>>
  /\ NextTurn(p, "produce")
  /\ UNCHANGED <<crowded, min, got, crashes>>

\* consume() has thrown a KeeperException: the loop takes the turn again.
Retry(p) ==
  /\ Goto(p, "check")
  /\ min' = [min EXCEPT ![p] = None]
  /\ UNCHANGED <<turn, got>>

\* Mutant: the children are taken in the order ZooKeeper lists them.
CheckAnyListed(p) ==
  /\ pc[p] = "check"
  /\ GetChildren(p)
  /\ \/ children = {} /\ Goto(p, "wait") /\ UNCHANGED min
     \/ \E e \in children : min' = [min EXCEPT ![p] = e] /\ Goto(p, "getData")
  /\ UNCHANGED <<crowded, next, turn, got, faults, crashes>>

\* Mutant: the children are read without a watch.
CheckUnwatched(p) ==
  /\ pc[p] = "check"
  /\ \/ children = {} /\ Goto(p, "wait") /\ UNCHANGED min
     \/ \E e \in children : /\ \A f \in children : e <= f
                            /\ min' = [min EXCEPT ![p] = e]
                            /\ Goto(p, "getData")
  /\ UNCHANGED <<zkVars, crowded, next, turn, got, faults, crashes>>

\* consume() reads the children, in the monitor, and waits if there are none.
\* The name of a child that is no element raises NumberFormatException, which
\* ends the process.
Check(p) ==
  /\ pc[p] = "check"
  /\ \/ GetChildren(p) /\ crowded /\ Goto(p, "dead") /\ UNCHANGED <<turn, min, got, faults>>
     \/ /\ GetChildren(p)
        /\ ~crowded
        /\ children = {}
        /\ Goto(p, "wait")
        /\ UNCHANGED <<turn, min, got, faults>>
     \/ /\ GetChildren(p)
        /\ ~crowded
        /\ \E e \in children : /\ \A f \in children : e <= f
                               /\ min' = [min EXCEPT ![p] = e]
        /\ Goto(p, "getData")
        /\ UNCHANGED <<turn, got, faults>>
     \/ Fault /\ Retry(p) /\ UNCHANGED zkVars
  /\ UNCHANGED <<crowded, next, crashes>>

\* The name consume() asks for is the name of a child.
Named(e) == e \in children /\ e >= Unpadded

\* getData(), which throws NoNodeException if there is no such child.
GetData(p) ==
  /\ pc[p] = "getData"
  /\ \/ Named(min[p]) /\ Goto(p, "delete") /\ UNCHANGED <<turn, min, got, faults>>
     \/ ~Named(min[p]) /\ Retry(p) /\ UNCHANGED faults
     \/ Fault /\ Retry(p)
  /\ UNCHANGED <<zkVars, crowded, next, crashes>>

\* Mutant: consume() returns the value even if the child is gone by now.
DeleteAnyway(p) ==
  /\ pc[p] = "delete"
  /\ IF Named(min[p]) THEN SetChildren(children \ {min[p]}) ELSE UNCHANGED zkVars
  /\ got' = [got EXCEPT ![p] = @ \cup {min[p]}]
  /\ min' = [min EXCEPT ![p] = None]
  /\ NextTurn(p, "check")
  /\ UNCHANGED <<crowded, next, faults, crashes>>

\* Mutant: the child to delete is looked up again.
DeleteCurrentFirst(p) ==
  /\ pc[p] = "delete"
  /\ \E e \in children : (\A f \in children : e <= f) /\ SetChildren(children \ {e})
  /\ got' = [got EXCEPT ![p] = @ \cup {min[p]}]
  /\ min' = [min EXCEPT ![p] = None]
  /\ NextTurn(p, "check")
  /\ UNCHANGED <<crowded, next, faults, crashes>>

\* A process dies; the elements are persistent and stay.
Die(p) ==
  /\ crashes < MaxCrashes
  /\ crashes' = crashes + 1
  /\ Goto(p, "dead")
  /\ min' = [min EXCEPT ![p] = None]
  /\ UNCHANGED <<turn, got, faults>>

\* delete(), and the value is returned; ZooKeeper may carry it out although it
\* throws, or although the process dies before it has returned.
DeleteElement(p) ==
  /\ pc[p] = "delete"
  /\ \/ /\ Named(min[p])
        /\ SetChildren(children \ {min[p]})
        /\ \/ /\ got' = [got EXCEPT ![p] = @ \cup {min[p]}]
              /\ min' = [min EXCEPT ![p] = None]
              /\ NextTurn(p, "check")
              /\ UNCHANGED <<faults, crashes>>
           \/ Fault /\ Retry(p) /\ UNCHANGED crashes
           \/ Die(p)
     \/ ~Named(min[p]) /\ Retry(p) /\ UNCHANGED <<zkVars, faults, crashes>>
     \/ Fault /\ Retry(p) /\ UNCHANGED <<zkVars, crashes>>
  /\ UNCHANGED <<crowded, next>>

\* process(): notify() wakes the thread of the process if it waits.
Process(p) ==
  /\ Notify(p)
  /\ pc' = [pc EXCEPT ![p] = IF @ = "wait" THEN "check" ELSE @]
  /\ UNCHANGED <<crowded, next, turn, min, got, faults, crashes>>

\* A process dies between two calls.
Crash(p) ==
  /\ pc[p] # "dead"
  /\ Die(p)
  /\ Forget(p)
  /\ UNCHANGED <<crowded, next>>

\* The barrier of Test makes its root "/app1/barrier": the queue of Test has the
\* root "/app1".
MakeBarrierRoot ==
  /\ Shared
  /\ ~crowded
  /\ crowded' = TRUE
  /\ SetChildren(children)
  /\ UNCHANGED <<next, pc, turn, min, got, faults, crashes>>

-----------------------------------------------------------------------------
Init ==
  /\ ZkInit
  /\ crowded = FALSE
  /\ next = First
  /\ pc = [p \in Proc |-> IF p \in Producer THEN "produce"
                          ELSE IF p \in Consumer THEN "check" ELSE "done"]
  /\ turn = [p \in Proc |-> 0]
  /\ min = [p \in Proc |-> None]
  /\ got = [p \in Proc |-> {}]
  /\ faults = 0
  /\ crashes = 0

\* The thread of a process.
Run(p) == Produce(p) \/ Check(p) \/ GetData(p) \/ DeleteElement(p)

Next == MakeBarrierRoot \/ \E p \in Proc : Run(p) \/ Process(p) \/ Crash(p)

Spec == Init /\ [][Next]_vars

\* Threads are scheduled, ZooKeeper answers, and notifications are delivered.
Fairness == \A p \in Proc : WF_vars(Run(p)) /\ WF_vars(Process(p))

FairSpec == Spec /\ Fairness

-----------------------------------------------------------------------------
\* No element is returned to two consumers, although two may have read it.
ConsumedOnce == \A p, q \in Proc : p # q => got[p] \cap got[q] = {}

\* As long as no call has thrown and no process has died, every element that was
\* produced is in the queue or has been returned.
NothingLost ==
  faults = 0 /\ crashes = 0 =>
    \A e \in First .. next - 1 : e \in children \/ \E p \in Proc : e \in got[p]

\* "Remove first element": an element leaves the queue only as the first of it,
\* however long ago its consumer has read the children.
FirstOut ==
  [][\A e \in children \ children' : \A f \in children : e <= f]_vars

\* The elements of S in their order.
InLine(S) ==
  [i \in 1 .. Cardinality(S) |-> CHOOSE e \in S : Cardinality({f \in S : f < e}) = i - 1]

\* "Producer-consumer queue": put and take are atomic and in order, although it takes a
\* consumer three calls to take an element, which others may take in between.
Fifo == INSTANCE FifoQueue
          WITH Client <- Proc, put <- next, queue <- InLine(children), returned <- got
FifoSpec == Fifo!Spec

\* No lost wake-up: a consumer that waits, with no notification on its way,
\* watches a queue that is empty.
NoLostWakeup ==
  \A p \in Proc :
    pc[p] = "wait" /\ events[p] = 0 => p \in watch /\ children = {} /\ ~crowded

\* An element stays in the queue only if no consumer is left that has a turn.
EveryElementGoes ==
  \A e \in First .. First + Cardinality(Producer) * Quota - 1 :
    e \in children ~> e \notin children \/ \A p \in Consumer : pc[p] \in {"done", "dead"}
=============================================================================
