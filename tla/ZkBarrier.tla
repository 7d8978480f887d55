------------------------------ MODULE ZkBarrier ------------------------------
(***************************************************************************)
(* The double barrier on ZooKeeper (Barrier, on top of SyncPrimitive), and *)
(* the processes of Test and BarrierTest that enter it, work for a while   *)
(* and leave it.  A process has a znode under the root while it is in the  *)
(* barrier: the children are named by their processes.                     *)
(***************************************************************************)
EXTENDS SyncPrimitive, FiniteSets

CONSTANTS
  Size,          (* the size of the barrier                                *)
  GoesOn,        (* does a process leave after enter() has thrown?         *)
  MaxFaults,     (* bound: calls that throw                                *)
  MaxCrashes,    (* bound: processes that die                              *)
  MaxLost        (* bound: living processes that lose their session        *)

ASSUME ZkBarrierAssumption ==
  /\ IsFiniteSet(Proc)
  /\ Size \in Nat \ {0}
  /\ GoesOn \in BOOLEAN
  /\ {MaxFaults, MaxCrashes, MaxLost} \subseteq Nat

VARIABLES
  pc,            (* what the thread of each process does next              *)
  joined,        (* history: the processes that have had a znode           *)
  failed,        (* history: the processes of which enter() has thrown     *)
  lost,          (* the processes whose session expired while they lived   *)
  faults, crashes

vars == <<zkVars, pc, joined, failed, lost, faults, crashes>>

PC == {"create", "enter", "enterWait", "inside", "delete", "leave", "leaveWait",
       "left", "gone", "dead"}

TypeOK ==
  /\ children \in SUBSET Proc
  /\ watch \in SUBSET Proc
  /\ events \in [Proc -> Nat]
  /\ pc \in [Proc -> PC]
  /\ joined \in SUBSET Proc
  /\ failed \in SUBSET Proc
  /\ lost \in SUBSET Proc
  /\ faults \in Nat
  /\ crashes \in Nat

Goto(p, l) == pc' = [pc EXCEPT ![p] = l]

\* A call of p fails: now and then, and always once its session has expired.
Fails(p) ==
  \/ p \in lost /\ UNCHANGED faults
  \/ faults < MaxFaults /\ faults' = faults + 1

\* enter() has thrown: Test goes on to leave(), BarrierTest ends.
EnterThrows(p) ==
  /\ Fails(p)
  /\ failed' = failed \cup {p}
  /\ Goto(p, IF GoesOn THEN "delete" ELSE "gone")

-----------------------------------------------------------------------------
\* The create call of enter(); ZooKeeper may carry it out although it throws.
Create(p) ==
  /\ pc[p] = "create"
  /\ \/ /\ p \notin lost
        /\ SetChildren(children \cup {p})
        /\ joined' = joined \cup {p}
        /\ \/ Goto(p, "enter") /\ UNCHANGED <<failed, faults>>
           \/ EnterThrows(p)
     \/ EnterThrows(p) /\ UNCHANGED <<zkVars, joined>>
  /\ UNCHANGED <<lost, crashes>>

\* Mutant: a process counts itself twice.
EnterOffByOne(p) ==
  /\ pc[p] = "enter"
  /\ p \notin lost
  /\ GetChildren(p)
  /\ Goto(p, IF Cardinality(children) + 1 < Size THEN "enterWait" ELSE "inside")
  /\ UNCHANGED <<joined, failed, lost, faults, crashes>>

\* Mutant: the children are read without a watch.
EnterUnwatched(p) ==
  /\ pc[p] = "enter"
  /\ p \notin lost
  /\ Goto(p, IF Cardinality(children) < Size THEN "enterWait" ELSE "inside")
  /\ UNCHANGED <<zkVars, joined, failed, lost, faults, crashes>>

\* One turn of the loop of enter(), in the monitor: the children are read, and
\* the thread waits while there are fewer than Size.
Enter(p) ==
  /\ pc[p] = "enter"
  /\ \/ /\ p \notin lost
        /\ GetChildren(p)
        /\ Goto(p, IF Cardinality(children) < Size THEN "enterWait" ELSE "inside")
        /\ UNCHANGED <<failed, faults>>
     \/ EnterThrows(p) /\ UNCHANGED zkVars
  /\ UNCHANGED <<joined, lost, crashes>>

\* The process has done its work and calls leave().
EndWork(p) ==
  /\ pc[p] = "inside"
  /\ Goto(p, "delete")
  /\ UNCHANGED <<zkVars, joined, failed, lost, faults, crashes>>

\* The delete call of leave(): it throws if the process has no znode.
Delete(p) ==
  /\ pc[p] = "delete"
  /\ \/ /\ p \in children
        /\ SetChildren(children \ {p})
        /\ \/ Goto(p, "leave") /\ UNCHANGED faults
           \/ Fails(p) /\ Goto(p, "gone")
     \/ p \notin children /\ Goto(p, "gone") /\ UNCHANGED <<zkVars, faults>>
     \/ Fails(p) /\ Goto(p, "gone") /\ UNCHANGED zkVars
  /\ UNCHANGED <<joined, failed, lost, crashes>>

\* Mutant: the children are read without a watch.
LeaveUnwatched(p) ==
  /\ pc[p] = "leave"
  /\ p \notin lost
  /\ Goto(p, IF children # {} THEN "leaveWait" ELSE "left")
  /\ UNCHANGED <<zkVars, joined, failed, lost, faults, crashes>>

\* One turn of the loop of leave(), in the monitor.
Leave(p) ==
  /\ pc[p] = "leave"
  /\ \/ /\ p \notin lost
        /\ GetChildren(p)
        /\ Goto(p, IF children # {} THEN "leaveWait" ELSE "left")
        /\ UNCHANGED faults
     \/ Fails(p) /\ Goto(p, "gone") /\ UNCHANGED zkVars
  /\ UNCHANGED <<joined, failed, lost, crashes>>

\* Mutant: process() heeds the events of the children only, not those of the session.
ProcessOfChildren(p) ==
  /\ Notify(p)
  /\ pc' = [pc EXCEPT ![p] = CASE p \in lost -> @
                               [] p \notin lost /\ @ = "enterWait" -> "enter"
                               [] p \notin lost /\ @ = "leaveWait" -> "leave"
                               [] OTHER -> @]
  /\ UNCHANGED <<joined, failed, lost, faults, crashes>>

\* process(): notify() wakes the thread of the process if it waits.
Process(p) ==
  /\ Notify(p)
  /\ pc' = [pc EXCEPT ![p] = CASE @ = "enterWait" -> "enter"
                               [] @ = "leaveWait" -> "leave"
                               [] OTHER -> @]
  /\ UNCHANGED <<joined, failed, lost, faults, crashes>>

\* A process dies,
Crash(p) ==
  /\ pc[p] # "dead"
  /\ crashes < MaxCrashes
  /\ crashes' = crashes + 1
  /\ Goto(p, "dead")
  /\ Forget(p)
  /\ UNCHANGED <<joined, failed, lost, faults>>

\* and ZooKeeper expires its session: its ephemeral znode goes.
Expire(p) ==
  /\ pc[p] = "dead"
  /\ p \in children
  /\ SetChildren(children \ {p})
  /\ UNCHANGED <<pc, joined, failed, lost, faults, crashes>>

\* A process that lives is not heard of for 3000 ms (a pause, a network cut): its
\* session expires, its znode goes, and the process works on and is told later.
LoseSession(p) ==
  /\ pc[p] # "dead"
  /\ p \notin lost
  /\ Cardinality(lost) < MaxLost
  /\ lost' = lost \cup {p}
  /\ EndSession(p)
  /\ UNCHANGED <<pc, joined, failed, faults, crashes>>

-----------------------------------------------------------------------------
Init ==
  /\ ZkInit
  /\ pc = [p \in Proc |-> "create"]
  /\ joined = {}
  /\ failed = {}
  /\ lost = {}
  /\ faults = 0
  /\ crashes = 0

\* The thread of a process inside enter() or leave().
Run(p) == Create(p) \/ Enter(p) \/ Delete(p) \/ Leave(p)

Next ==
  \E p \in Proc :
    Run(p) \/ EndWork(p) \/ Process(p) \/ Crash(p) \/ Expire(p) \/ LoseSession(p)

Spec == Init /\ [][Next]_vars

\* Threads are scheduled, notifications are delivered, dead sessions expire.  The
\* work between enter() and leave() may take for ever.
Fairness == \A p \in Proc : WF_vars(Run(p)) /\ WF_vars(Process(p)) /\ WF_vars(Expire(p))

FairSpec == Spec /\ Fairness

-----------------------------------------------------------------------------
\* "Join barrier": nobody is let in before Size processes have come.
NoneInsideEarly ==
  \A p \in Proc : pc[p] = "inside" => Cardinality(joined) >= Size

\* Where a process is, as the others can know it: one that has lost its session counts
\* as failed, although it may be at work inside.
Out(p) == p \in failed \cup lost \/ pc[p] \in {"gone", "dead"}

Place(p) ==
  CASE Out(p) -> "failed"
    [] ~Out(p) /\ pc[p] = "create" -> "away"
    [] ~Out(p) /\ pc[p] \in {"enter", "enterWait"} -> "before"
    [] ~Out(p) /\ pc[p] = "inside" -> "inside"
    [] ~Out(p) /\ pc[p] \in {"delete", "leave", "leaveWait"} -> "behind"
    [] ~Out(p) /\ pc[p] = "left" -> "out"

\* enter() and leave() are those of a double barrier, of any number of processes, for
\* those that keep their session: nobody waits in leave() for one that has lost it.
Abstract == INSTANCE DoubleBarrier WITH place <- [p \in Proc |-> Place(p)], come <- joined
BarrierSpec == Abstract!Spec

\* No lost wake-up: a thread that waits, with no notification on its way, has
\* its watch set, and what it waits for has not come.
NoLostWakeup ==
  \A p \in Proc :
    /\ pc[p] = "enterWait" /\ events[p] = 0 => p \in watch /\ Cardinality(children) < Size
    /\ pc[p] = "leaveWait" /\ events[p] = 0 => p \in watch /\ children # {}

\* What enter() and leave() are to reach in the end.
AllEnter == \A p \in Proc : pc[p] = "create" ~> pc[p] = "inside"
AllLeave == \A p \in Proc : pc[p] = "inside" ~> pc[p] = "left"

\* A process that has lost its session does not wait for the others: enter() and leave()
\* end, however long the others stay.
LostComeOut ==
  \A p \in Proc :
    p \in lost /\ pc[p] # "inside" ~> pc[p] \in {"inside", "left", "gone", "dead"}

\* No process fails or loses its session, or leaves before all the others have seen
\* that it came.
Smooth ==
  /\ faults = 0 /\ crashes = 0 /\ lost = {}
  /\ \A p, q \in Proc : pc[p] = "delete" => pc[q] \notin {"create", "enter", "enterWait"}

\* In a run without failures, in which the work takes longer than the others need
\* to enter, every process gets in,
EveryoneEnters == []Smooth => AllEnter

\* and, if all work ends, out again.
EveryoneLeaves ==
  []Smooth /\ (\A p \in Proc : pc[p] = "inside" ~> pc[p] # "inside") => AllLeave

\* "Join barrier": every process gets in, however long the others work.
EveryoneJoins == [](faults = 0 /\ crashes = 0 /\ lost = {}) => AllEnter
=============================================================================
