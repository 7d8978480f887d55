--------------------------- MODULE ZkBarrierProofs ---------------------------
(***************************************************************************)
(* What ZkBarrier promises for any finite number of processes, any size of *)
(* the barrier and any number of failures, deaths and lost sessions.       *)
(*                                                                         *)
(* A process counts the znodes that are there; the promise is about the    *)
(* processes that have come.  The invariant BarrierInv relates the two:    *)
(* whoever has a znode has come, and as long as no call has thrown and its *)
(* session has not expired, whoever is in the barrier has one.             *)
(***************************************************************************)
EXTENDS ZkBarrier, FiniteSetTheorems, TLAPS

-----------------------------------------------------------------------------
\* The type invariant.
LEMMA TypeInit == Init => TypeOK
<1> SUFFICES ASSUME Init PROVE TypeOK
  OBVIOUS
<1>. QED BY DEF Init, ZkInit, TypeOK, PC

LEMMA GotoType ==
  ASSUME NEW p \in Proc, NEW l \in PC, pc \in [Proc -> PC], Goto(p, l)
  PROVE  pc' \in [Proc -> PC]
BY DEF Goto

LEMMA TypeStep == TypeOK /\ [Next]_vars => TypeOK'
<1> SUFFICES ASSUME TypeOK, [Next]_vars PROVE TypeOK'
  OBVIOUS
<1>t. /\ children \in SUBSET Proc /\ watch \in SUBSET Proc /\ events \in [Proc -> Nat]
      /\ pc \in [Proc -> PC] /\ joined \in SUBSET Proc /\ failed \in SUBSET Proc
      /\ lost \in SUBSET Proc /\ faults \in Nat /\ crashes \in Nat
  BY DEF TypeOK
<1>l. {"create", "enter", "enterWait", "inside", "delete", "leave", "leaveWait",
       "left", "gone", "dead"} = PC
  BY DEF PC
<1>1. ASSUME NEW p \in Proc, Create(p) PROVE TypeOK'
  <2>1. children' \in SUBSET Proc /\ watch' \in SUBSET Proc /\ events' \in [Proc -> Nat]
    BY <1>1, <1>t DEF Create, SetChildren, zkVars
  <2>2. /\ joined' \in SUBSET Proc /\ failed' \in SUBSET Proc /\ faults' \in Nat
        /\ UNCHANGED <<lost, crashes>>
    BY <1>1, <1>t DEF Create, EnterThrows, Fails
  <2>3. \E l \in {"enter", "delete", "gone"} : Goto(p, l)
    BY <1>1 DEF Create, EnterThrows
  <2>4. pc' \in [Proc -> PC]
    BY <2>3, <1>l, <1>t, GotoType
  <2>. QED BY <1>t, <2>1, <2>2, <2>4 DEF TypeOK
<1>2. ASSUME NEW p \in Proc, Enter(p) PROVE TypeOK'
  <2>1. children' \in SUBSET Proc /\ watch' \in SUBSET Proc /\ events' \in [Proc -> Nat]
    BY <1>2, <1>t DEF Enter, GetChildren, zkVars
  <2>2. failed' \in SUBSET Proc /\ faults' \in Nat /\ UNCHANGED <<joined, lost, crashes>>
    BY <1>2, <1>t DEF Enter, EnterThrows, Fails
  <2>3. \E l \in {"enterWait", "inside", "delete", "gone"} : Goto(p, l)
    BY <1>2 DEF Enter, EnterThrows
  <2>4. pc' \in [Proc -> PC]
    BY <2>3, <1>l, <1>t, GotoType
  <2>. QED BY <1>t, <2>1, <2>2, <2>4 DEF TypeOK
<1>3. ASSUME NEW p \in Proc, EndWork(p) PROVE TypeOK'
  <2>1. pc' \in [Proc -> PC]
    BY <1>3, <1>t, <1>l, GotoType DEF EndWork
  <2>. QED BY <1>3, <1>t, <2>1 DEF EndWork, zkVars, TypeOK
<1>4. ASSUME NEW p \in Proc, Delete(p) PROVE TypeOK'
  <2>1. children' \in SUBSET Proc /\ watch' \in SUBSET Proc /\ events' \in [Proc -> Nat]
    BY <1>4, <1>t DEF Delete, SetChildren, zkVars
  <2>2. faults' \in Nat /\ UNCHANGED <<joined, failed, lost, crashes>>
    BY <1>4, <1>t DEF Delete, Fails
  <2>3. \E l \in {"leave", "gone"} : Goto(p, l)
    BY <1>4 DEF Delete
  <2>4. pc' \in [Proc -> PC]
    BY <2>3, <1>l, <1>t, GotoType
  <2>. QED BY <1>t, <2>1, <2>2, <2>4 DEF TypeOK
<1>5. ASSUME NEW p \in Proc, Leave(p) PROVE TypeOK'
  <2>1. children' \in SUBSET Proc /\ watch' \in SUBSET Proc /\ events' \in [Proc -> Nat]
    BY <1>5, <1>t DEF Leave, GetChildren, zkVars
  <2>2. faults' \in Nat /\ UNCHANGED <<joined, failed, lost, crashes>>
    BY <1>5, <1>t DEF Leave, Fails
  <2>3. \E l \in {"leaveWait", "left", "gone"} : Goto(p, l)
    BY <1>5 DEF Leave
  <2>4. pc' \in [Proc -> PC]
    BY <2>3, <1>l, <1>t, GotoType
  <2>. QED BY <1>t, <2>1, <2>2, <2>4 DEF TypeOK
<1>6. ASSUME NEW p \in Proc, Process(p) PROVE TypeOK'
  <2>1. events' \in [Proc -> Nat]
    BY <1>6, <1>t DEF Process, Notify
  <2>2. pc' \in [Proc -> PC]
    BY <1>6, <1>t, <1>l DEF Process
  <2>. QED BY <1>6, <1>t, <2>1, <2>2 DEF Process, Notify, TypeOK
<1>7. ASSUME NEW p \in Proc, Crash(p) PROVE TypeOK'
  <2>1. children' \in SUBSET Proc /\ watch' \in SUBSET Proc /\ events' \in [Proc -> Nat]
    BY <1>7, <1>t DEF Crash, Forget
  <2>2. pc' \in [Proc -> PC]
    BY <1>7, <1>t, <1>l, GotoType DEF Crash
  <2>. QED BY <1>7, <1>t, <2>1, <2>2 DEF Crash, TypeOK
<1>8. ASSUME NEW p \in Proc, Expire(p) PROVE TypeOK'
  <2>1. children' \in SUBSET Proc /\ watch' \in SUBSET Proc /\ events' \in [Proc -> Nat]
    BY <1>8, <1>t DEF Expire, SetChildren
  <2>. QED BY <1>8, <1>t, <2>1 DEF Expire, TypeOK
<1>9. ASSUME NEW p \in Proc, LoseSession(p) PROVE TypeOK'
  <2>1. children' \in SUBSET Proc /\ watch' \in SUBSET Proc /\ events' \in [Proc -> Nat]
    BY <1>9, <1>t DEF LoseSession, EndSession
  <2>. QED BY <1>9, <1>t, <2>1 DEF LoseSession, TypeOK
<1>10. CASE UNCHANGED vars
  BY <1>10, <1>t DEF vars, zkVars, TypeOK
<1>. QED BY <1>1, <1>2, <1>3, <1>4, <1>5, <1>6, <1>7, <1>8, <1>9, <1>10 DEF Next, Run

\* The variables stay in their types.
THEOREM TypeCorrect == Spec => []TypeOK
BY TypeInit, TypeStep, PTL DEF Spec

-----------------------------------------------------------------------------
\* The wake-ups.  A step that changes the children notifies whoever watches them.
Waits == {"enterWait", "leaveWait"}

Notified ==
  /\ watch' = {}
  /\ events' = [p \in Proc |-> IF p \in watch THEN events[p] + 1 ELSE events[p]]

LEMMA NotifiedWakes ==
  ASSUME TypeOK, NoLostWakeup, Notified, \A p \in Proc : pc'[p] \in Waits => pc[p] \in Waits
  PROVE  NoLostWakeup'
<1>1. watch \in SUBSET Proc /\ events \in [Proc -> Nat]
  BY DEF TypeOK
<1>2. ASSUME NEW p \in Proc, pc'[p] \in Waits, events'[p] = 0 PROVE FALSE
  <2>1. events[p] = 0 /\ p \notin watch
    BY <1>1, <1>2 DEF Notified
  <2>. QED BY <1>2, <2>1 DEF NoLostWakeup, Waits
<1>. QED BY <1>2 DEF NoLostWakeup, Waits

\* A step that leaves the children as they are and makes no process wait.
LEMMA QuietWakes ==
  ASSUME NoLostWakeup, UNCHANGED <<children, watch, events>>,
         \A p \in Proc : pc'[p] \in Waits => pc'[p] = pc[p]
  PROVE  NoLostWakeup'
BY DEF NoLostWakeup, Waits

LEMMA WakeupStep == TypeOK /\ NoLostWakeup /\ [Next]_vars => NoLostWakeup'
<1> SUFFICES ASSUME TypeOK, NoLostWakeup, [Next]_vars PROVE NoLostWakeup'
  OBVIOUS
<1>t. watch \in SUBSET Proc /\ events \in [Proc -> Nat] /\ pc \in [Proc -> PC]
  BY DEF TypeOK
<1>1. ASSUME NEW p \in Proc, Create(p) PROVE NoLostWakeup'
  <2>1. \A q \in Proc : pc'[q] \in Waits => pc'[q] = pc[q]
    BY <1>1, <1>t DEF Create, EnterThrows, Goto, Waits
  <2>2. Notified \/ UNCHANGED zkVars
    BY <1>1 DEF Create, SetChildren, Notified
  <2>. QED BY <2>1, <2>2, NotifiedWakes, QuietWakes DEF zkVars
<1>2. ASSUME NEW p \in Proc, Enter(p) PROVE NoLostWakeup'
  <2>1. UNCHANGED <<children, events>> /\ watch \subseteq watch'
    BY <1>2 DEF Enter, GetChildren, zkVars
  <2>2. /\ pc'[p] = "enterWait" => p \in watch' /\ Cardinality(children) < Size
        /\ pc'[p] # "leaveWait"
    BY <1>2, <1>t DEF Enter, EnterThrows, GetChildren, Goto
  <2>3. \A q \in Proc \ {p} : pc'[q] = pc[q]
    BY <1>2, <1>t DEF Enter, EnterThrows, Goto
  <2>. QED BY <2>1, <2>2, <2>3 DEF NoLostWakeup
<1>3. ASSUME NEW p \in Proc, EndWork(p) PROVE NoLostWakeup'
  <2>1. \A q \in Proc : pc'[q] \in Waits => pc'[q] = pc[q]
    BY <1>3, <1>t DEF EndWork, Goto, Waits
  <2>. QED BY <1>3, <2>1, QuietWakes DEF EndWork, zkVars
<1>4. ASSUME NEW p \in Proc, Delete(p) PROVE NoLostWakeup'
  <2>1. \A q \in Proc : pc'[q] \in Waits => pc'[q] = pc[q]
    BY <1>4, <1>t DEF Delete, Goto, Waits
  <2>2. Notified \/ UNCHANGED zkVars
    BY <1>4 DEF Delete, SetChildren, Notified
  <2>. QED BY <2>1, <2>2, NotifiedWakes, QuietWakes DEF zkVars
<1>5. ASSUME NEW p \in Proc, Leave(p) PROVE NoLostWakeup'
  <2>1. UNCHANGED <<children, events>> /\ watch \subseteq watch'
    BY <1>5 DEF Leave, GetChildren, zkVars
  <2>2. pc'[p] # "enterWait" /\ (pc'[p] = "leaveWait" => p \in watch' /\ children # {})
    BY <1>5, <1>t DEF Leave, GetChildren, Goto
  <2>3. \A q \in Proc \ {p} : pc'[q] = pc[q]
    BY <1>5, <1>t DEF Leave, Goto
  <2>. QED BY <2>1, <2>2, <2>3 DEF NoLostWakeup
<1>6. ASSUME NEW p \in Proc, Process(p) PROVE NoLostWakeup'
  <2>1. pc'[p] \notin Waits
    BY <1>6, <1>t DEF Process, Waits
  <2>2. \A q \in Proc \ {p} : pc'[q] = pc[q] /\ events'[q] = events[q]
    BY <1>6, <1>t DEF Process, Notify
  <2>3. UNCHANGED <<children, watch>>
    BY <1>6 DEF Process, Notify
  <2>. QED BY <2>1, <2>2, <2>3 DEF NoLostWakeup, Waits
<1>7. ASSUME NEW p \in Proc, Crash(p) PROVE NoLostWakeup'
  <2>1. pc'[p] \notin Waits
    BY <1>7, <1>t DEF Crash, Goto, Waits
  <2>2. \A q \in Proc \ {p} :
          pc'[q] = pc[q] /\ events'[q] = events[q] /\ (q \in watch => q \in watch')
    BY <1>7, <1>t DEF Crash, Goto, Forget
  <2>3. UNCHANGED children
    BY <1>7 DEF Crash, Forget
  <2>. QED BY <2>1, <2>2, <2>3 DEF NoLostWakeup, Waits
<1>8. ASSUME NEW p \in Proc, Expire(p) PROVE NoLostWakeup'
  <2>1. Notified /\ UNCHANGED pc
    BY <1>8 DEF Expire, SetChildren, Notified
  <2>. QED BY <2>1, NotifiedWakes
<1>9. ASSUME NEW p \in Proc, LoseSession(p) PROVE NoLostWakeup'
  <2>1. events'[p] # 0
    BY <1>9, <1>t DEF LoseSession, EndSession
  <2>2. ASSUME NEW q \in Proc, q # p, events'[q] = 0
        PROVE  events[q] = 0 /\ (q \in watch => q \in watch' /\ UNCHANGED children)
    BY <1>9, <1>t, <2>2 DEF LoseSession, EndSession
  <2>. QED BY <1>9, <2>1, <2>2 DEF LoseSession, NoLostWakeup
<1>10. CASE UNCHANGED vars
  BY <1>10, QuietWakes DEF vars, zkVars
<1>. QED BY <1>1, <1>2, <1>3, <1>4, <1>5, <1>6, <1>7, <1>8, <1>9, <1>10 DEF Next, Run

\* No process waits for a notification that has been given already.
THEOREM WakeupsArrive == Spec => []NoLostWakeup
<1>1. Init => NoLostWakeup
  BY DEF Init, NoLostWakeup
<1>. QED BY <1>1, TypeInit, TypeStep, WakeupStep, PTL DEF Spec

-----------------------------------------------------------------------------
\* Who has come.
Passed == {"inside", "delete", "leave", "leaveWait", "left"}

\* A znode is the znode of a process that has come.
ZnodesJoined == children \subseteq joined

\* A process that has a znode ahead of it has not come yet.
CreateIsFirst == \A p \in Proc : pc[p] = "create" => p \notin joined

\* A process in the barrier has its znode, unless it has lost its session,
In(p) == pc[p] \in {"enter", "enterWait", "inside"} \/ (pc[p] = "delete" /\ p \notin failed)

InsideHasZnode == \A p \in Proc \ lost : In(p) => p \in children

\* and a process that has been let in was let in by Size processes.
PassedAfterSize ==
  \A p \in Proc \ failed : pc[p] \in Passed => Cardinality(joined) >= Size

BarrierInv ==
  /\ TypeOK
  /\ ZnodesJoined
  /\ CreateIsFirst
  /\ InsideHasZnode
  /\ PassedAfterSize
  /\ NoneInsideEarly

LEMMA BarrierInit == Init => BarrierInv
<1> SUFFICES ASSUME Init PROVE BarrierInv
  OBVIOUS
<1>1. children = {} /\ joined = {} /\ \A p \in Proc : pc[p] = "create"
  BY DEF Init, ZkInit
<1>. QED BY <1>1, TypeInit DEF BarrierInv, ZnodesJoined, CreateIsFirst, InsideHasZnode, In,
                              PassedAfterSize, Passed, NoneInsideEarly

\* The processes that have come only grow in number.
LEMMA JoinedGrows ==
  ASSUME joined \in SUBSET Proc, joined' \in SUBSET Proc, joined \subseteq joined'
  PROVE  /\ Cardinality(joined) \in Nat /\ Cardinality(joined') \in Nat
         /\ Cardinality(joined) <= Cardinality(joined')
<1>1. IsFiniteSet(joined) /\ IsFiniteSet(joined')
  BY ZkBarrierAssumption, FS_Subset
<1>2. Cardinality(joined) \in Nat /\ Cardinality(joined') \in Nat
  BY <1>1, FS_CardinalityType
<1>3. Cardinality(joined) <= Cardinality(joined')
  BY <1>1, FS_Subset
<1>. QED BY <1>2, <1>3

LEMMA EnoughHaveCome ==
  ASSUME joined \in SUBSET Proc, ZnodesJoined, Cardinality(children) >= Size
  PROVE  Cardinality(joined) >= Size
<1>1. IsFiniteSet(joined)
  BY ZkBarrierAssumption, FS_Subset
<1>2. children \in SUBSET joined
  BY DEF ZnodesJoined
<1>3. IsFiniteSet(children) /\ Cardinality(children) <= Cardinality(joined)
  BY <1>1, <1>2, FS_Subset
<1>4. Cardinality(joined) \in Nat /\ Cardinality(children) \in Nat /\ Size \in Nat
  BY <1>1, <1>3, FS_CardinalityType, ZkBarrierAssumption
<1>. QED BY <1>3, <1>4

\* A process comes with its znode, and does so once.
LEMMA JoinStep ==
  ASSUME TypeOK, ZnodesJoined, CreateIsFirst, [Next]_vars
  PROVE  joined \subseteq joined' /\ ZnodesJoined' /\ CreateIsFirst'
<1>t. pc \in [Proc -> PC]
  BY DEF TypeOK
<1>1. ASSUME NEW p \in Proc, Create(p)
      PROVE  joined \subseteq joined' /\ ZnodesJoined' /\ CreateIsFirst'
  <2>1. pc'[p] # "create" /\ \A q \in Proc \ {p} : pc'[q] = pc[q]
    BY <1>1, <1>t DEF Create, EnterThrows, Goto
  <2>2. joined \subseteq joined' /\ joined' \subseteq joined \cup {p} /\ ZnodesJoined'
    BY <1>1 DEF Create, SetChildren, zkVars, ZnodesJoined
  <2>. QED BY <2>1, <2>2 DEF CreateIsFirst
<1>2. ASSUME NEW p \in Proc, \/ Enter(p) \/ EndWork(p) \/ Delete(p) \/ Leave(p)
                             \/ Process(p) \/ Crash(p) \/ Expire(p) \/ LoseSession(p)
      PROVE  joined \subseteq joined' /\ ZnodesJoined' /\ CreateIsFirst'
  <2>1. \A q \in Proc : pc'[q] = "create" => pc[q] = "create"
    <3>1. CASE Enter(p) \/ EndWork(p) \/ Delete(p) \/ Leave(p)
      BY <3>1, <1>t DEF Enter, EnterThrows, EndWork, Delete, Leave, Goto
    <3>2. CASE Process(p)
      BY <3>2, <1>t DEF Process
    <3>3. CASE Crash(p) \/ Expire(p) \/ LoseSession(p)
      BY <3>3, <1>t DEF Crash, Expire, LoseSession, Goto
    <3>. QED BY <1>2, <3>1, <3>2, <3>3
  <2>2. joined' = joined /\ children' \subseteq children
    BY <1>2 DEF Enter, EndWork, Delete, Leave, Process, Crash, Expire, LoseSession,
                GetChildren, Notify, Forget, SetChildren, EndSession, zkVars
  <2>. QED BY <2>1, <2>2 DEF ZnodesJoined, CreateIsFirst
<1>3. CASE UNCHANGED vars
  BY <1>3 DEF vars, zkVars, ZnodesJoined, CreateIsFirst
<1>. QED BY <1>1, <1>2, <1>3 DEF Next, Run

\* Whoever gets inside, or past it without failing, has counted Size znodes.
LEMMA PassStep ==
  ASSUME TypeOK, [Next]_vars, NEW q \in Proc
  PROVE  /\ failed \subseteq failed'
         /\ pc'[q] = "inside" => pc[q] = "inside" \/ Cardinality(children) >= Size
         /\ q \notin failed' /\ pc'[q] \in Passed =>
              pc[q] \in Passed \/ Cardinality(children) >= Size
<1>t. pc \in [Proc -> PC]
  BY DEF TypeOK
<1>s. Cardinality(children) < Size \/ Cardinality(children) >= Size
  <2>1. IsFiniteSet(children)
    BY ZkBarrierAssumption, FS_Subset DEF TypeOK
  <2>. QED BY <2>1, FS_CardinalityType, ZkBarrierAssumption
<1>1. ASSUME NEW p \in Proc, Create(p)
      PROVE  /\ failed \subseteq failed'
             /\ pc'[q] = "inside" => pc[q] = "inside"
             /\ q \notin failed' /\ pc'[q] \in Passed => pc[q] \in Passed
  BY <1>1, <1>t DEF Create, EnterThrows, Goto, Passed
<1>2. ASSUME NEW p \in Proc, Enter(p)
      PROVE  /\ failed \subseteq failed'
             /\ pc'[q] = "inside" => pc[q] = "inside" \/ Cardinality(children) >= Size
             /\ q \notin failed' /\ pc'[q] \in Passed =>
                  pc[q] \in Passed \/ Cardinality(children) >= Size
  BY <1>2, <1>t, <1>s DEF Enter, EnterThrows, Goto, Passed
<1>3. ASSUME NEW p \in Proc, EndWork(p) \/ Delete(p) \/ Leave(p)
      PROVE  /\ UNCHANGED failed
             /\ pc'[q] = "inside" => pc[q] = "inside"
             /\ pc'[q] \in Passed => pc[q] \in Passed
  BY <1>3, <1>t DEF EndWork, Delete, Leave, Goto, Passed
<1>4. ASSUME NEW p \in Proc, Process(p) \/ Crash(p) \/ Expire(p) \/ LoseSession(p)
      PROVE  /\ UNCHANGED failed
             /\ pc'[q] = "inside" => pc[q] = "inside"
             /\ pc'[q] \in Passed => pc[q] \in Passed
  BY <1>4, <1>t DEF Process, Crash, Expire, LoseSession, Goto, Passed
<1>5. CASE UNCHANGED vars
  BY <1>5 DEF vars
<1>. QED BY <1>1, <1>2, <1>3, <1>4, <1>5 DEF Next, Run

\* The znode of a process that has not failed goes only with delete() or the session.
LEMMA ZnodeStep ==
  ASSUME TypeOK, InsideHasZnode, [Next]_vars
  PROVE  InsideHasZnode'
<1>t. pc \in [Proc -> PC]
  BY DEF TypeOK
<1>0. SUFFICES ASSUME NEW q \in Proc, q \notin lost', In(q)' PROVE q \in children'
  BY DEF InsideHasZnode
<1>l. q \notin lost
  BY <1>0 DEF Next, Run, Create, Enter, EndWork, Delete, Leave, Process, Crash, Expire,
              LoseSession, vars
<1>k. In(q) => q \in children
  BY <1>l DEF InsideHasZnode
<1>1. ASSUME NEW p \in Proc, Create(p) PROVE q \in children'
  <2>1. CASE q = p
    BY <1>0, <1>1, <2>1, <1>t DEF Create, SetChildren, EnterThrows, Goto, In
  <2>2. CASE q # p
    <3>1. pc'[q] = pc[q] /\ (q \in failed' <=> q \in failed)
      BY <1>1, <2>2, <1>t DEF Create, EnterThrows, Goto
    <3>2. children \subseteq children'
      BY <1>1 DEF Create, SetChildren, zkVars
    <3>. QED BY <1>0, <1>k, <3>1, <3>2 DEF In
  <2>. QED BY <2>1, <2>2
<1>2. ASSUME NEW p \in Proc, Enter(p) \/ EndWork(p) PROVE q \in children'
  <2>1. children' = children
    BY <1>2 DEF Enter, EndWork, GetChildren, zkVars
  <2>2. In(q)
    BY <1>0, <1>2, <1>t DEF Enter, EndWork, EnterThrows, Goto, In
  <2>. QED BY <1>k, <2>1, <2>2
<1>3. ASSUME NEW p \in Proc, Delete(p) \/ Leave(p) PROVE q \in children'
  <2>1. children \ {p} \subseteq children'
    BY <1>3 DEF Delete, Leave, SetChildren, GetChildren, zkVars
  <2>2. In(q) /\ q # p
    BY <1>0, <1>3, <1>t DEF Delete, Leave, Goto, In
  <2>. QED BY <1>k, <2>1, <2>2
<1>4. ASSUME NEW p \in Proc, Process(p) \/ Crash(p) PROVE q \in children'
  <2>1. children' = children
    BY <1>4 DEF Process, Crash, Notify, Forget
  <2>2. In(q)
    <3>1. CASE Process(p)
      BY <1>0, <3>1, <1>t DEF Process, In
    <3>2. CASE Crash(p)
      BY <1>0, <3>2, <1>t DEF Crash, Goto, In
    <3>. QED BY <1>4, <3>1, <3>2
  <2>. QED BY <1>k, <2>1, <2>2
<1>5. ASSUME NEW p \in Proc, Expire(p) PROVE q \in children'
  BY <1>0, <1>k, <1>5 DEF Expire, SetChildren, In
<1>6. ASSUME NEW p \in Proc, LoseSession(p) PROVE q \in children'
  BY <1>0, <1>k, <1>6 DEF LoseSession, EndSession, In
<1>7. CASE UNCHANGED vars
  BY <1>0, <1>k, <1>7 DEF vars, zkVars, In
<1>. QED BY <1>1, <1>2, <1>3, <1>4, <1>5, <1>6, <1>7 DEF Next, Run

LEMMA BarrierStep == BarrierInv /\ [Next]_vars => BarrierInv'
<1> SUFFICES ASSUME BarrierInv, [Next]_vars PROVE BarrierInv'
  OBVIOUS
<1>1. TypeOK /\ TypeOK' /\ ZnodesJoined /\ CreateIsFirst /\ InsideHasZnode
  BY TypeStep DEF BarrierInv
<1>2. joined \subseteq joined' /\ ZnodesJoined' /\ CreateIsFirst' /\ InsideHasZnode'
  BY <1>1, JoinStep, ZnodeStep
<1>3. joined \in SUBSET Proc /\ joined' \in SUBSET Proc
  BY <1>1 DEF TypeOK
<1>4. /\ Cardinality(joined) \in Nat /\ Cardinality(joined') \in Nat
      /\ Cardinality(joined) <= Cardinality(joined')
  BY <1>2, <1>3, JoinedGrows
<1>5. Cardinality(joined) >= Size => Cardinality(joined') >= Size
  BY <1>4, ZkBarrierAssumption
<1>6. Cardinality(children) >= Size => Cardinality(joined) >= Size
  BY <1>1, <1>3, EnoughHaveCome
<1>7. NoneInsideEarly'
  BY <1>1, <1>5, <1>6, PassStep DEF BarrierInv, NoneInsideEarly
<1>8. PassedAfterSize'
  BY <1>1, <1>5, <1>6, PassStep DEF BarrierInv, PassedAfterSize
<1>. QED BY <1>1, <1>2, <1>7, <1>8 DEF BarrierInv

LEMMA BarrierAlways == Spec => []BarrierInv
BY BarrierInit, BarrierStep, PTL DEF Spec

\* Nobody is let in before Size processes have come.
THEOREM NobodyEntersEarly == Spec => []NoneInsideEarly
<1>1. BarrierInv => NoneInsideEarly
  BY DEF BarrierInv
<1>. QED BY <1>1, BarrierAlways, PTL

-----------------------------------------------------------------------------
\* The double barrier: each step moves one process, or none.
Places == [p \in Proc |-> Place(p)]

\* A step of p moves p alone.
LEMMA OneMoves ==
  ASSUME NEW p \in Proc,
         \A q \in Proc \ {p} : /\ pc'[q] = pc[q]
                                /\ (q \in failed' \cup lost' <=> q \in failed \cup lost)
  PROVE  Places' = [Places EXCEPT ![p] = Place(p)']
<1>1. \A q \in Proc \ {p} : Place(q)' = Place(q)
  BY DEF Place, Out
<1>. QED BY <1>1 DEF Places

\* The process has failed and stays so, or fails now.
LEMMA FailStep ==
  ASSUME NEW p \in Proc, Places' = [Places EXCEPT ![p] = "failed"],
         joined' \in {joined, joined \cup {p}}
  PROVE  Abstract!Fail(p)
BY DEF Abstract!Fail, Places

LEMMA AbstractStep == BarrierInv /\ [Next]_vars => [Abstract!Next]_<<Places, joined>>
<1> SUFFICES ASSUME BarrierInv, [Next]_vars
             PROVE  [Abstract!Next]_<<Places, joined>>
  OBVIOUS
<1>t. /\ pc \in [Proc -> PC] /\ joined \in SUBSET Proc
      /\ failed \in SUBSET Proc /\ lost \in SUBSET Proc
  BY DEF BarrierInv, TypeOK
<1>p. \A p \in Proc : Places[p] = Place(p)
  BY DEF Places
<1>1. ASSUME NEW p \in Proc, Create(p) PROVE Abstract!Come(p) \/ Abstract!Fail(p)
  <2>1. Places' = [Places EXCEPT ![p] = Place(p)']
    <3>1. \A q \in Proc \ {p} : /\ pc'[q] = pc[q]
                                /\ (q \in failed' \cup lost' <=> q \in failed \cup lost)
      BY <1>1, <1>t DEF Create, EnterThrows, Goto
    <3>. QED BY <3>1, OneMoves
  <2>2. CASE p \in failed' \cup lost'
    <3>1. Place(p)' = "failed"
      BY <2>2 DEF Place, Out
    <3>2. joined' \in {joined, joined \cup {p}}
      BY <1>1 DEF Create
    <3>. QED BY <2>1, <3>1, <3>2, FailStep
  <2>3. CASE p \notin failed' \cup lost'
    <3>1. /\ p \notin failed \cup lost /\ pc[p] = "create" /\ pc'[p] = "enter"
          /\ joined' = joined \cup {p}
      BY <1>1, <2>3, <1>t DEF Create, EnterThrows, Goto
    <3>2. Place(p) = "away" /\ Place(p)' = "before"
      BY <2>3, <3>1 DEF Place, Out
    <3>. QED BY <2>1, <3>1, <3>2, <1>p DEF Abstract!Come, Abstract!Move, Places
  <2>. QED BY <2>2, <2>3
<1>2. ASSUME NEW p \in Proc, Enter(p)
      PROVE  Abstract!LetIn(p) \/ Abstract!Fail(p) \/ UNCHANGED <<Places, joined>>
  <2>1. Places' = [Places EXCEPT ![p] = Place(p)']
    <3>1. \A q \in Proc \ {p} : /\ pc'[q] = pc[q]
                                /\ (q \in failed' \cup lost' <=> q \in failed \cup lost)
      BY <1>2, <1>t DEF Enter, EnterThrows, Goto
    <3>. QED BY <3>1, OneMoves
  <2>j. joined' = joined
    BY <1>2 DEF Enter
  <2>2. CASE p \in failed' \cup lost'
    <3>1. Place(p)' = "failed"
      BY <2>2 DEF Place, Out
    <3>. QED BY <2>1, <2>j, <3>1, FailStep
  <2>3. CASE p \notin failed' \cup lost' /\ pc'[p] = "inside"
    <3>1. p \notin failed \cup lost /\ pc[p] = "enter"
      BY <1>2, <2>3, <1>t DEF Enter, EnterThrows, Goto
    <3>2. Place(p) = "before" /\ Place(p)' = "inside"
      BY <2>3, <3>1 DEF Place, Out
    <3>3. Cardinality(joined) >= Size
      <4>1. pc[p] # "inside" => Cardinality(children) >= Size
        BY <2>3, PassStep DEF BarrierInv
      <4>. QED BY <4>1, <3>1, <1>t, EnoughHaveCome DEF BarrierInv
    <3>4. Abstract!Cardinality(joined) = Cardinality(joined)
      BY DEF Abstract!Cardinality, Cardinality
    <3>. QED BY <2>1, <2>j, <3>2, <3>3, <3>4, <1>p DEF Abstract!LetIn, Abstract!Move, Places
  <2>4. CASE p \notin failed' \cup lost' /\ pc'[p] # "inside"
    <3>1. p \notin failed \cup lost /\ pc[p] = "enter" /\ pc'[p] = "enterWait"
      BY <1>2, <2>4, <1>t DEF Enter, EnterThrows, Goto
    <3>2. Place(p)' = Place(p)
      BY <2>4, <3>1 DEF Place, Out
    <3>. QED BY <2>1, <2>j, <3>2 DEF Places
  <2>. QED BY <2>2, <2>3, <2>4
<1>3. ASSUME NEW p \in Proc, EndWork(p)
      PROVE  Abstract!Finish(p) \/ UNCHANGED <<Places, joined>>
  <2>1. Places' = [Places EXCEPT ![p] = Place(p)']
    <3>1. \A q \in Proc \ {p} : /\ pc'[q] = pc[q]
                                /\ (q \in failed' \cup lost' <=> q \in failed \cup lost)
      BY <1>3, <1>t DEF EndWork, Goto
    <3>. QED BY <3>1, OneMoves
  <2>2. /\ pc[p] = "inside" /\ pc'[p] = "delete" /\ joined' = joined
        /\ failed' = failed /\ lost' = lost
    BY <1>3, <1>t DEF EndWork, Goto
  <2>3. CASE p \in failed \cup lost
    <3>1. Place(p)' = Place(p)
      BY <2>2, <2>3 DEF Place, Out
    <3>. QED BY <2>1, <2>2, <3>1 DEF Places
  <2>4. CASE p \notin failed \cup lost
    <3>1. Place(p) = "inside" /\ Place(p)' = "behind"
      BY <2>2, <2>4 DEF Place, Out
    <3>. QED BY <2>1, <2>2, <3>1, <1>p DEF Abstract!Finish, Abstract!Move, Places
  <2>. QED BY <2>3, <2>4
<1>4. ASSUME NEW p \in Proc, Delete(p)
      PROVE  Abstract!Fail(p) \/ UNCHANGED <<Places, joined>>
  <2>1. Places' = [Places EXCEPT ![p] = Place(p)']
    <3>1. \A q \in Proc \ {p} : /\ pc'[q] = pc[q]
                                /\ (q \in failed' \cup lost' <=> q \in failed \cup lost)
      BY <1>4, <1>t DEF Delete, Goto
    <3>. QED BY <3>1, OneMoves
  <2>2. pc[p] = "delete" /\ joined' = joined /\ failed' = failed /\ lost' = lost
    BY <1>4 DEF Delete
  <2>3. CASE pc'[p] = "gone"
    <3>1. Place(p)' = "failed"
      BY <2>3 DEF Place, Out
    <3>. QED BY <2>1, <2>2, <3>1, FailStep
  <2>4. CASE pc'[p] = "leave"
    <3>1. Place(p)' = Place(p)
      BY <2>2, <2>4 DEF Place, Out
    <3>. QED BY <2>1, <2>2, <3>1 DEF Places
  <2>. QED BY <1>4, <1>t, <2>3, <2>4 DEF Delete, Goto
<1>5. ASSUME NEW p \in Proc, Leave(p)
      PROVE  Abstract!LetOut(p) \/ Abstract!Fail(p) \/ UNCHANGED <<Places, joined>>
  <2>1. Places' = [Places EXCEPT ![p] = Place(p)']
    <3>1. \A q \in Proc \ {p} : /\ pc'[q] = pc[q]
                                /\ (q \in failed' \cup lost' <=> q \in failed \cup lost)
      BY <1>5, <1>t DEF Leave, Goto
    <3>. QED BY <3>1, OneMoves
  <2>2. pc[p] = "leave" /\ joined' = joined /\ failed' = failed /\ lost' = lost
    BY <1>5 DEF Leave
  <2>3. CASE pc'[p] = "gone"
    <3>1. Place(p)' = "failed"
      BY <2>3 DEF Place, Out
    <3>. QED BY <2>1, <2>2, <3>1, FailStep
  <2>4. CASE pc'[p] = "leaveWait" \/ p \in failed \cup lost
    <3>1. Place(p)' = Place(p) \/ pc'[p] = "gone"
      BY <2>2, <2>4 DEF Place, Out
    <3>. QED BY <2>1, <2>2, <2>3, <3>1 DEF Places
  <2>5. CASE pc'[p] = "left" /\ p \notin failed \cup lost
    <3>1. Place(p) = "behind" /\ Place(p)' = "out"
      BY <2>2, <2>5 DEF Place, Out
    <3>2. children = {}
      BY <1>5, <2>5, <1>t DEF Leave, Goto
    <3>3. \A q \in Proc \ lost : pc[q] \notin {"enter", "enterWait", "inside"}
      BY <3>2 DEF BarrierInv, InsideHasZnode, In
    <3>4. ASSUME NEW q \in Proc PROVE Places[q] \notin {"before", "inside"}
      <4>1. CASE q \in lost
        BY <4>1, <1>p DEF Place, Out
      <4>2. CASE q \notin lost
        BY <4>2, <3>3, <1>p, <1>t DEF Place, Out, PC
      <4>. QED BY <4>1, <4>2
    <3>. QED BY <2>1, <2>2, <3>1, <3>4, <1>p DEF Abstract!LetOut, Abstract!Move, Places
  <2>. QED BY <1>5, <1>t, <2>3, <2>4, <2>5 DEF Leave, Goto
<1>6. ASSUME NEW p \in Proc, Process(p) PROVE UNCHANGED <<Places, joined>>
  <2>1. joined' = joined /\ failed' = failed /\ lost' = lost
    BY <1>6 DEF Process
  <2>2. \A q \in Proc \ {p} : pc'[q] = pc[q]
    BY <1>6, <1>t DEF Process
  <2>3. \/ pc'[p] = pc[p]
        \/ pc[p] = "enterWait" /\ pc'[p] = "enter"
        \/ pc[p] = "leaveWait" /\ pc'[p] = "leave"
    BY <1>6, <1>t DEF Process
  <2>4. Place(p)' = Place(p)
    BY <2>1, <2>3 DEF Place, Out
  <2>5. Places' = [Places EXCEPT ![p] = Place(p)']
    BY <2>1, <2>2, OneMoves
  <2>. QED BY <2>1, <2>4, <2>5 DEF Places
<1>7. ASSUME NEW p \in Proc, Crash(p) \/ LoseSession(p) PROVE Abstract!Fail(p)
  <2>1. joined' = joined /\ failed' = failed /\ (pc'[p] = "dead" \/ p \in lost')
    BY <1>7, <1>t DEF Crash, LoseSession, Goto
  <2>2. \A q \in Proc \ {p} : /\ pc'[q] = pc[q]
                              /\ (q \in failed' \cup lost' <=> q \in failed \cup lost)
    BY <1>7, <1>t DEF Crash, LoseSession, Goto
  <2>3. Place(p)' = "failed"
    BY <2>1 DEF Place, Out
  <2>4. Places' = [Places EXCEPT ![p] = Place(p)']
    BY <2>2, OneMoves
  <2>. QED BY <2>1, <2>3, <2>4, FailStep
<1>8. ASSUME NEW p \in Proc, Expire(p) PROVE UNCHANGED <<Places, joined>>
  BY <1>8 DEF Expire, Places, Place, Out
<1>9. CASE UNCHANGED vars
  BY <1>9 DEF vars, Places, Place, Out
<1>10. CASE Next
  BY <1>10, <1>1, <1>2, <1>3, <1>4, <1>5, <1>6, <1>7, <1>8 DEF Next, Run, Abstract!Next, Places
<1>. QED BY <1>9, <1>10

\* enter() and leave() implement a double barrier, of any size and whatever fails; a
\* process that has lost its session counts as failed, although it may still be inside.
THEOREM ImplementsBarrier == Spec => BarrierSpec
<1> SUFFICES Spec => Abstract!Spec
  BY DEF BarrierSpec
<1>1. Init => Abstract!Init
  <2> SUFFICES ASSUME Init PROVE Abstract!Init
    OBVIOUS
  <2>1. \A p \in Proc : Place(p) = "away"
    BY DEF Init, Place, Out
  <2>. QED BY <2>1 DEF Init, Abstract!Init
<1>2. BarrierInv /\ [Next]_vars => [Abstract!Next]_<<[p \in Proc |-> Place(p)], joined>>
  BY AbstractStep DEF Places
<1>. QED BY <1>1, <1>2, BarrierAlways, PTL DEF Spec, Abstract!Spec
=============================================================================
