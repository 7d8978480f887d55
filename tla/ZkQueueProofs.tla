---------------------------- MODULE ZkQueueProofs ----------------------------
(***************************************************************************)
(* What ZkQueue promises for any number of processes, any quota and any    *)
(* number of failures and deaths.                                          *)
(*                                                                         *)
(* An element that a consumer has chosen may be gone when it asks for it,  *)
(* but as long as it is there it is the first: elements are added behind   *)
(* it only (MinIsFirst), because their numbers grow (Numbered).            *)
(***************************************************************************)
EXTENDS ZkQueue, Sequences, FiniteSetTheorems, TLAPS

\* A process that is not done has a turn left.
TurnsLeft == \A p \in Proc : pc[p] \notin {"done", "dead"} => turn[p] < Quota

\* The elements are numbered in the order in which they were made, and what a
\* consumer has got is not in the queue any more.
Numbered ==
  /\ \A e \in children : e < next
  /\ \A p \in Proc : \A e \in got[p] : e < next /\ e \notin children

\* The element a consumer has chosen stands before all that are there.
MinIsFirst ==
  \A p \in Proc : pc[p] \in {"getData", "delete"} =>
    min[p] < next /\ \A f \in children : min[p] <= f

TypeInv == TypeOK /\ TurnsLeft

-----------------------------------------------------------------------------
\* The type invariant and the turns.
LEMMA TypeInit == Init => TypeInv
<1> SUFFICES ASSUME Init PROVE TypeOK /\ TurnsLeft
  BY DEF TypeInv
<1>1. First \in Nat /\ Quota \in Nat /\ 0 < Quota
  BY ZkQueueAssumption
<1>2. pc \in [Proc -> PC] /\ turn \in [Proc -> 0 .. Quota] /\ TurnsLeft
  BY <1>1 DEF Init, PC, TurnsLeft
<1>3. min \in [Proc -> Nat \cup {None}] /\ got \in [Proc -> SUBSET Nat]
  BY DEF Init
<1>4. children \in SUBSET Nat /\ watch \in SUBSET Proc /\ events \in [Proc -> Nat]
  BY DEF Init, ZkInit
<1>. QED BY <1>1, <1>2, <1>3, <1>4 DEF Init, TypeOK

LEMMA NextTurnType ==
  ASSUME NEW p \in Proc, NEW l \in {"produce", "check"},
         pc \in [Proc -> PC], turn \in [Proc -> 0 .. Quota], TurnsLeft,
         pc[p] \notin {"done", "dead"}, NextTurn(p, l)
  PROVE  pc' \in [Proc -> PC] /\ turn' \in [Proc -> 0 .. Quota] /\ TurnsLeft'
<1>1. turn[p] + 1 \in 0 .. Quota /\ Quota \in Nat
  BY ZkQueueAssumption DEF TurnsLeft
<1>. QED BY <1>1 DEF NextTurn, Goto, PC, TurnsLeft

\* The program counter moves on without a turn.
LEMMA GotoType ==
  ASSUME NEW p \in Proc, NEW l \in PC,
         pc \in [Proc -> PC], turn \in [Proc -> 0 .. Quota], TurnsLeft,
         pc[p] \notin {"done", "dead"} \/ l = "dead",
         Goto(p, l), UNCHANGED turn
  PROVE  pc' \in [Proc -> PC] /\ turn' \in [Proc -> 0 .. Quota] /\ TurnsLeft'
BY DEF Goto, TurnsLeft, PC

LEMMA TypeStep == TypeInv /\ [Next]_vars => TypeInv'
<1> SUFFICES ASSUME TypeOK, TurnsLeft, [Next]_vars PROVE TypeOK' /\ TurnsLeft'
  BY DEF TypeInv
<1>t. /\ children \in SUBSET Nat /\ watch \in SUBSET Proc /\ events \in [Proc -> Nat]
      /\ crowded \in BOOLEAN /\ next \in Nat
      /\ pc \in [Proc -> PC] /\ turn \in [Proc -> 0 .. Quota]
      /\ min \in [Proc -> Nat \cup {None}] /\ got \in [Proc -> SUBSET Nat]
      /\ faults \in Nat /\ crashes \in Nat
  BY DEF TypeOK
<1>l. {"produce", "check", "wait", "getData", "delete", "done", "dead"} = PC /\ None = -1
  BY DEF PC, None
<1>1. ASSUME NEW p \in Proc, Produce(p) PROVE TypeOK' /\ TurnsLeft'
  <2>1. /\ children' \in SUBSET Nat /\ watch' \in SUBSET Proc /\ events' \in [Proc -> Nat]
    <3>1. CASE SetChildren(children \cup {next})
      <4>1. children' \in SUBSET Nat
        BY <1>t, <3>1 DEF SetChildren
      <4>2. watch' \in SUBSET Proc /\ events' \in [Proc -> Nat]
        BY <1>t, <3>1 DEF SetChildren
      <4>. QED BY <4>1, <4>2
    <3>2. CASE UNCHANGED zkVars
      BY <1>t, <3>2 DEF zkVars
    <3>. QED BY <1>1, <3>1, <3>2 DEF Produce
  <2>n. next' \in Nat /\ faults' \in Nat
    BY <1>1, <1>t DEF Produce, Fault
  <2>2. pc' \in [Proc -> PC] /\ turn' \in [Proc -> 0 .. Quota] /\ TurnsLeft'
    BY <1>1, <1>t, NextTurnType DEF Produce
  <2>3. UNCHANGED <<crowded, min, got, crashes>>
    BY <1>1 DEF Produce
  <2>. QED BY <1>t, <2>1, <2>n, <2>2, <2>3 DEF TypeOK
<1>2. ASSUME NEW p \in Proc, Check(p) PROVE TypeOK' /\ TurnsLeft'
  <2>1. children' \in SUBSET Nat /\ watch' \in SUBSET Proc /\ events' \in [Proc -> Nat]
    BY <1>2, <1>t DEF Check, GetChildren, zkVars
  <2>2. min' \in [Proc -> Nat \cup {None}] /\ faults' \in Nat
    BY <1>2, <1>t DEF Check, Retry, Fault
  <2>3. UNCHANGED turn /\ pc[p] = "check"
        /\ \E l \in {"dead", "wait", "getData", "check"} : Goto(p, l)
    BY <1>2 DEF Check, Retry
  <2>4. pc' \in [Proc -> PC] /\ turn' \in [Proc -> 0 .. Quota] /\ TurnsLeft'
    BY <1>t, <1>l, <2>3, GotoType
  <2>5. UNCHANGED <<crowded, next, got, crashes>>
    BY <1>2 DEF Check, Retry
  <2>. QED BY <1>t, <2>1, <2>2, <2>4, <2>5 DEF TypeOK
<1>3. ASSUME NEW p \in Proc, GetData(p) PROVE TypeOK' /\ TurnsLeft'
  <2>1. min' \in [Proc -> Nat \cup {None}] /\ faults' \in Nat
    BY <1>3, <1>t DEF GetData, Retry, Fault
  <2>2. UNCHANGED turn /\ pc[p] = "getData" /\ \E l \in {"check", "delete"} : Goto(p, l)
    BY <1>3 DEF GetData, Retry
  <2>3. pc' \in [Proc -> PC] /\ turn' \in [Proc -> 0 .. Quota] /\ TurnsLeft'
    BY <1>t, <1>l, <2>2, GotoType
  <2>4. UNCHANGED <<zkVars, crowded, next, got, crashes>>
    BY <1>3 DEF GetData, Retry
  <2>. QED BY <1>t, <2>1, <2>3, <2>4 DEF TypeOK, zkVars
<1>4. ASSUME NEW p \in Proc, DeleteElement(p) PROVE TypeOK' /\ TurnsLeft'
  <2>1. children' \in SUBSET Nat /\ watch' \in SUBSET Proc /\ events' \in [Proc -> Nat]
    <3>1. CASE SetChildren(children \ {min[p]})
      <4>1. children' \in SUBSET Nat
        BY <1>t, <3>1 DEF SetChildren
      <4>2. watch' \in SUBSET Proc /\ events' \in [Proc -> Nat]
        BY <1>t, <3>1 DEF SetChildren
      <4>. QED BY <4>1, <4>2
    <3>2. CASE UNCHANGED zkVars
      BY <1>t, <3>2 DEF zkVars
    <3>. QED BY <1>4, <3>1, <3>2 DEF DeleteElement
  <2>2. min' \in [Proc -> Nat \cup {None}] /\ faults' \in Nat /\ crashes' \in Nat
    BY <1>4, <1>t DEF DeleteElement, Retry, Fault, Die
  <2>3. got' \in [Proc -> SUBSET Nat]
    <3>1. UNCHANGED got \/ (min[p] \in children /\ got' = [got EXCEPT ![p] = @ \cup {min[p]}])
      BY <1>4 DEF DeleteElement, Named, Retry, Die
    <3>2. min[p] \in children => got[p] \cup {min[p]} \in SUBSET Nat
      BY <1>t
    <3>. QED BY <1>t, <3>1, <3>2
  <2>4. /\ pc[p] = "delete"
        /\ \/ NextTurn(p, "check")
           \/ UNCHANGED turn /\ \E l \in {"check", "dead"} : Goto(p, l)
    BY <1>4 DEF DeleteElement, Retry, Die
  <2>5. pc' \in [Proc -> PC] /\ turn' \in [Proc -> 0 .. Quota] /\ TurnsLeft'
    BY <1>t, <1>l, <2>4, GotoType, NextTurnType
  <2>6. UNCHANGED <<crowded, next>>
    BY <1>4 DEF DeleteElement
  <2>. QED BY <1>t, <2>1, <2>2, <2>3, <2>5, <2>6 DEF TypeOK
<1>5. ASSUME NEW p \in Proc, Process(p) PROVE TypeOK' /\ TurnsLeft'
  <2>1. events' \in [Proc -> Nat] /\ pc' \in [Proc -> PC] /\ TurnsLeft'
    BY <1>5, <1>t, <1>l DEF Process, Notify, TurnsLeft
  <2>2. UNCHANGED <<children, watch, crowded, next, turn, min, got, faults, crashes>>
    BY <1>5 DEF Process, Notify
  <2>. QED BY <1>t, <2>1, <2>2 DEF TypeOK
<1>6. ASSUME NEW p \in Proc, Crash(p) PROVE TypeOK' /\ TurnsLeft'
  <2>1. watch' \in SUBSET Proc /\ events' \in [Proc -> Nat]
    BY <1>6, <1>t DEF Crash, Forget
  <2>2. min' \in [Proc -> Nat \cup {None}] /\ crashes' \in Nat
    BY <1>6, <1>t DEF Crash, Die
  <2>3. Goto(p, "dead") /\ UNCHANGED <<children, crowded, next, turn, got, faults>>
    BY <1>6 DEF Crash, Die, Forget
  <2>4. pc' \in [Proc -> PC] /\ turn' \in [Proc -> 0 .. Quota] /\ TurnsLeft'
    BY <1>t, <1>l, <2>3, GotoType
  <2>. QED BY <1>t, <2>1, <2>2, <2>3, <2>4 DEF TypeOK
<1>7. CASE MakeBarrierRoot
  <2>1. children' \in SUBSET Nat /\ watch' \in SUBSET Proc /\ events' \in [Proc -> Nat]
    BY <1>7, <1>t DEF MakeBarrierRoot, SetChildren
  <2>. QED BY <1>7, <1>t, <2>1 DEF MakeBarrierRoot, TypeOK, TurnsLeft
<1>8. CASE UNCHANGED vars
  BY <1>8 DEF vars, zkVars, TypeOK, TurnsLeft
<1>. QED BY <1>1, <1>2, <1>3, <1>4, <1>5, <1>6, <1>7, <1>8 DEF Next, Run

\* The variables stay in their types.
THEOREM TypeCorrect == Spec => []TypeOK
<1>1. TypeInv => TypeOK
  BY DEF TypeInv
<1>. QED BY <1>1, TypeInit, TypeStep, PTL DEF Spec

LEMMA TypeAlways == Spec => []TypeInv
BY TypeInit, TypeStep, PTL DEF Spec

-----------------------------------------------------------------------------
\* The wake-ups.  A step that changes the children notifies whoever watches them.
Notified ==
  /\ watch' = {}
  /\ events' = [p \in Proc |-> IF p \in watch THEN events[p] + 1 ELSE events[p]]

LEMMA NotifiedWakes ==
  ASSUME TypeOK, NoLostWakeup, Notified, \A p \in Proc : pc'[p] = "wait" => pc[p] = "wait"
  PROVE  NoLostWakeup'
<1>1. watch \in SUBSET Proc /\ events \in [Proc -> Nat]
  BY DEF TypeOK
<1> SUFFICES ASSUME NEW p \in Proc, pc'[p] = "wait", events'[p] = 0 PROVE FALSE
  BY DEF NoLostWakeup
<1>2. events[p] = 0 /\ p \notin watch
  BY <1>1 DEF Notified
<1>. QED BY <1>2 DEF NoLostWakeup

LEMMA WakeupStep == TypeInv /\ NoLostWakeup /\ [Next]_vars => NoLostWakeup'
<1> SUFFICES ASSUME TypeOK, NoLostWakeup, [Next]_vars PROVE NoLostWakeup'
  BY DEF TypeInv
<1>t. watch \in SUBSET Proc /\ events \in [Proc -> Nat] /\ pc \in [Proc -> PC]
  BY DEF TypeOK
<1>1. ASSUME NEW p \in Proc, Produce(p) PROVE NoLostWakeup'
  <2>1. \A q \in Proc : pc'[q] = "wait" => pc[q] = "wait"
    BY <1>1, <1>t DEF Produce, NextTurn, Goto
  <2>2. Notified \/ UNCHANGED zkVars
    BY <1>1 DEF Produce, SetChildren, Notified
  <2>3. UNCHANGED crowded
    BY <1>1 DEF Produce
  <2>. QED BY <2>1, <2>2, <2>3, NotifiedWakes DEF NoLostWakeup, zkVars
<1>2. ASSUME NEW p \in Proc, Check(p) PROVE NoLostWakeup'
  <2>1. UNCHANGED <<children, events, crowded>> /\ watch \subseteq watch'
    BY <1>2 DEF Check, GetChildren, zkVars
  <2>2. pc'[p] = "wait" => p \in watch' /\ children = {} /\ ~crowded
    BY <1>2, <1>t DEF Check, GetChildren, Retry, Goto
  <2>3. \A q \in Proc \ {p} : pc'[q] = pc[q]
    BY <1>2, <1>t DEF Check, Retry, Goto
  <2>. QED BY <2>1, <2>2, <2>3 DEF NoLostWakeup
<1>3. ASSUME NEW p \in Proc, GetData(p) PROVE NoLostWakeup'
  <2>1. \A q \in Proc : pc'[q] = "wait" => pc[q] = "wait"
    BY <1>3, <1>t DEF GetData, Retry, Goto
  <2>2. UNCHANGED <<children, watch, events, crowded>>
    BY <1>3 DEF GetData, zkVars
  <2>. QED BY <2>1, <2>2 DEF NoLostWakeup
<1>4. ASSUME NEW p \in Proc, DeleteElement(p) PROVE NoLostWakeup'
  <2>1. \A q \in Proc : pc'[q] = "wait" => pc[q] = "wait"
    BY <1>4, <1>t DEF DeleteElement, NextTurn, Retry, Die, Goto
  <2>2. Notified \/ UNCHANGED zkVars
    BY <1>4 DEF DeleteElement, SetChildren, Notified
  <2>3. UNCHANGED crowded
    BY <1>4 DEF DeleteElement
  <2>. QED BY <2>1, <2>2, <2>3, NotifiedWakes DEF NoLostWakeup, zkVars
<1>5. ASSUME NEW p \in Proc, Process(p) PROVE NoLostWakeup'
  <2>1. pc'[p] # "wait"
    BY <1>5, <1>t DEF Process
  <2>2. \A q \in Proc \ {p} : pc'[q] = pc[q] /\ events'[q] = events[q]
    BY <1>5, <1>t DEF Process, Notify
  <2>3. UNCHANGED <<children, watch, crowded>>
    BY <1>5 DEF Process, Notify
  <2>. QED BY <2>1, <2>2, <2>3 DEF NoLostWakeup
<1>6. ASSUME NEW p \in Proc, Crash(p) PROVE NoLostWakeup'
  <2>1. pc'[p] # "wait"
    BY <1>6, <1>t DEF Crash, Die, Goto
  <2>2. \A q \in Proc \ {p} :
          pc'[q] = pc[q] /\ events'[q] = events[q] /\ (q \in watch => q \in watch')
    BY <1>6, <1>t DEF Crash, Die, Goto, Forget
  <2>3. UNCHANGED <<children, crowded>>
    BY <1>6 DEF Crash, Forget
  <2>. QED BY <2>1, <2>2, <2>3 DEF NoLostWakeup
<1>7. CASE MakeBarrierRoot
  <2>1. Notified /\ UNCHANGED pc
    BY <1>7 DEF MakeBarrierRoot, SetChildren, Notified
  <2>. QED BY <2>1, NotifiedWakes
<1>8. CASE UNCHANGED vars
  BY <1>8 DEF vars, zkVars, NoLostWakeup
<1>. QED BY <1>1, <1>2, <1>3, <1>4, <1>5, <1>6, <1>7, <1>8 DEF Next, Run

\* No consumer waits for a notification that has been given already.
THEOREM WakeupsArrive == Spec => []NoLostWakeup
<1>1. Init => NoLostWakeup
  BY DEF Init, NoLostWakeup
<1>. QED BY <1>1, TypeAlways, WakeupStep, PTL DEF Spec

-----------------------------------------------------------------------------
\* The order of the elements.
OrderInv == TypeInv /\ Numbered /\ MinIsFirst /\ ConsumedOnce

LEMMA OrderInit == Init => OrderInv
<1> SUFFICES ASSUME Init PROVE OrderInv
  OBVIOUS
<1>1. children = {} /\ got = [p \in Proc |-> {}]
      /\ \A p \in Proc : pc[p] \notin {"getData", "delete"}
  BY DEF Init, ZkInit
<1>. QED BY <1>1, TypeInit DEF OrderInv, Numbered, MinIsFirst, ConsumedOnce

\* A step that leaves the elements as they are and chooses none.
LEMMA OrderKept ==
  ASSUME TypeOK, Numbered, MinIsFirst, ConsumedOnce, UNCHANGED <<children, next, got>>,
         \A p \in Proc : pc'[p] \in {"getData", "delete"} =>
           pc[p] \in {"getData", "delete"} /\ min'[p] = min[p]
  PROVE  Numbered' /\ MinIsFirst' /\ ConsumedOnce'
BY DEF Numbered, MinIsFirst, ConsumedOnce

LEMMA OrderStep == OrderInv /\ [Next]_vars => OrderInv'
<1> SUFFICES ASSUME TypeOK, Numbered, MinIsFirst, ConsumedOnce, [Next]_vars
             PROVE  Numbered' /\ MinIsFirst' /\ ConsumedOnce'
  BY TypeStep DEF OrderInv, TypeInv
<1>t. /\ children \in SUBSET Nat /\ next \in Nat /\ pc \in [Proc -> PC]
      /\ min \in [Proc -> Nat \cup {None}] /\ got \in [Proc -> SUBSET Nat]
  BY DEF TypeOK
<1>1. ASSUME NEW p \in Proc, Produce(p) PROVE Numbered' /\ MinIsFirst' /\ ConsumedOnce'
  <2>1. \A q \in Proc : pc'[q] \in {"getData", "delete"} => pc[q] \in {"getData", "delete"}
    BY <1>1, <1>t DEF Produce, NextTurn, Goto
  <2>2. UNCHANGED <<min, got>>
    BY <1>1 DEF Produce
  <2>3. CASE UNCHANGED <<children, next>>
    BY <2>1, <2>2, <2>3, OrderKept
  <2>4. CASE children' = children \cup {next} /\ next' = next + 1
    <3>1. \A e \in children' : e < next'
      BY <1>t, <2>4 DEF Numbered
    <3>2. \A q \in Proc : \A e \in got[q] : e \in Nat /\ e < next /\ e \notin children
      BY <1>t DEF Numbered
    <3>3. \A q \in Proc : \A e \in got'[q] : e < next' /\ e \notin children'
      BY <1>t, <2>2, <2>4, <3>2
    <3>4. ASSUME NEW q \in Proc, pc'[q] \in {"getData", "delete"}
          PROVE  min'[q] < next' /\ \A f \in children' : min'[q] <= f
      <4>1. min[q] < next /\ \A f \in children : min[q] <= f
        BY <2>1, <3>4 DEF MinIsFirst
      <4>2. min[q] \in Int /\ children \subseteq Int
        BY <1>t DEF None
      <4>. QED BY <1>t, <2>2, <2>4, <4>1, <4>2
    <3>5. ConsumedOnce'
      BY <2>2 DEF ConsumedOnce
    <3>. QED BY <3>1, <3>3, <3>4, <3>5 DEF Numbered, MinIsFirst
  <2>. QED BY <1>1, <2>3, <2>4 DEF Produce, SetChildren, zkVars
<1>2. ASSUME NEW p \in Proc, Check(p) PROVE Numbered' /\ MinIsFirst' /\ ConsumedOnce'
  <2>1. UNCHANGED <<children, next, got>>
    BY <1>2 DEF Check, GetChildren, Retry, zkVars
  <2>2. \A q \in Proc \ {p} : pc'[q] = pc[q] /\ min'[q] = min[q]
    BY <1>2, <1>t DEF Check, Retry, Goto
  <2>3. pc'[p] = "getData" => min'[p] \in children /\ \A f \in children : min'[p] <= f
    BY <1>2, <1>t DEF Check, Retry, Goto
  <2>4. pc'[p] # "delete"
    BY <1>2, <1>t DEF Check, Retry, Goto
  <2>. QED BY <2>1, <2>2, <2>3, <2>4 DEF Numbered, MinIsFirst, ConsumedOnce
<1>3. ASSUME NEW p \in Proc, GetData(p) PROVE Numbered' /\ MinIsFirst' /\ ConsumedOnce'
  <2>1. \A q \in Proc : pc'[q] \in {"getData", "delete"} =>
          pc[q] \in {"getData", "delete"} /\ min'[q] = min[q]
    BY <1>3, <1>t DEF GetData, Retry, Goto
  <2>2. UNCHANGED <<children, next, got>>
    BY <1>3 DEF GetData, Retry, zkVars
  <2>. QED BY <2>1, <2>2, OrderKept
<1>4. ASSUME NEW p \in Proc, DeleteElement(p)
      PROVE  Numbered' /\ MinIsFirst' /\ ConsumedOnce'
  <2>1. \A q \in Proc : pc'[q] \in {"getData", "delete"} =>
          pc[q] \in {"getData", "delete"} /\ min'[q] = min[q]
    BY <1>4, <1>t DEF DeleteElement, NextTurn, Retry, Die, Goto
  <2>2. next' = next /\ children' \subseteq children
    BY <1>4 DEF DeleteElement, SetChildren, zkVars
  <2>3. CASE UNCHANGED got
    <3>1. Numbered' /\ ConsumedOnce'
      BY <2>2, <2>3 DEF Numbered, ConsumedOnce
    <3>. QED BY <2>1, <2>2, <3>1 DEF MinIsFirst
  <2>4. CASE /\ min[p] \in children
             /\ children' = children \ {min[p]}
             /\ got' = [got EXCEPT ![p] = @ \cup {min[p]}]
    <3>1. got'[p] = got[p] \cup {min[p]} /\ \A q \in Proc \ {p} : got'[q] = got[q]
      BY <1>t, <2>4
    <3>2. Numbered'
      BY <2>2, <2>4, <3>1 DEF Numbered
    <3>3. ConsumedOnce'
      BY <2>4, <3>1 DEF Numbered, ConsumedOnce
    <3>. QED BY <2>1, <2>2, <3>2, <3>3 DEF MinIsFirst
  <2>. QED BY <1>4, <2>3, <2>4 DEF DeleteElement, SetChildren, Named, Retry, Die
<1>5. ASSUME NEW p \in Proc, Process(p) PROVE Numbered' /\ MinIsFirst' /\ ConsumedOnce'
  <2>1. \A q \in Proc : pc'[q] \in {"getData", "delete"} =>
          pc[q] \in {"getData", "delete"} /\ min'[q] = min[q]
    BY <1>5, <1>t DEF Process
  <2>2. UNCHANGED <<children, next, got>>
    BY <1>5 DEF Process, Notify
  <2>. QED BY <2>1, <2>2, OrderKept
<1>6. ASSUME NEW p \in Proc, Crash(p) PROVE Numbered' /\ MinIsFirst' /\ ConsumedOnce'
  <2>1. \A q \in Proc : pc'[q] \in {"getData", "delete"} =>
          pc[q] \in {"getData", "delete"} /\ min'[q] = min[q]
    BY <1>6, <1>t DEF Crash, Die, Goto
  <2>2. UNCHANGED <<children, next, got>>
    BY <1>6 DEF Crash, Die, Forget
  <2>. QED BY <2>1, <2>2, OrderKept
<1>7. CASE MakeBarrierRoot
  BY <1>7, OrderKept DEF MakeBarrierRoot, SetChildren
<1>8. CASE UNCHANGED vars
  BY <1>8, OrderKept DEF vars, zkVars
<1>. QED BY <1>1, <1>2, <1>3, <1>4, <1>5, <1>6, <1>7, <1>8 DEF Next, Run

LEMMA OrderAlways == Spec => []OrderInv
BY OrderInit, OrderStep, PTL DEF Spec

\* No element is returned to two consumers.
THEOREM NobodyShares == Spec => []ConsumedOnce
<1>1. OrderInv => ConsumedOnce
  BY DEF OrderInv
<1>. QED BY <1>1, OrderAlways, PTL

\* The action of FirstOut.
OutInOrder == \A e \in children \ children' : \A f \in children : e <= f

LEMMA OutStep == OrderInv /\ [Next]_vars => [OutInOrder]_vars
<1> SUFFICES ASSUME OrderInv, Next, NEW e \in children \ children'
             PROVE  \A f \in children : e <= f
  BY DEF OutInOrder
<1>1. PICK p \in Proc : DeleteElement(p)
  <2>1. ASSUME NEW p \in Proc, Produce(p) PROVE FALSE
    BY <2>1 DEF Produce, SetChildren, zkVars
  <2>2. ASSUME NEW p \in Proc, Check(p) \/ GetData(p) \/ Process(p) \/ Crash(p)
        PROVE  FALSE
    BY <2>2 DEF Check, GetChildren, GetData, Process, Notify, Crash, Forget, zkVars
  <2>3. CASE MakeBarrierRoot
    BY <2>3 DEF MakeBarrierRoot, SetChildren
  <2>. QED BY <2>1, <2>2, <2>3 DEF Next, Run
<1>2. pc[p] = "delete" /\ e = min[p]
  BY <1>1 DEF DeleteElement, SetChildren, zkVars
<1>. QED BY <1>2 DEF OrderInv, MinIsFirst

\* Elements leave the queue in the order in which they came.
THEOREM FirstInFirstOut == Spec => FirstOut
<1>1. OrderInv /\ [Next]_vars
        => [\A e \in children \ children' : \A f \in children : e <= f]_vars
  BY OutStep DEF OutInOrder
<1>. QED BY <1>1, OrderAlways, PTL DEF Spec, FirstOut

-----------------------------------------------------------------------------
\* The elements that are there or have been returned.
LEMMA LossStep == OrderInv /\ NothingLost /\ [Next]_vars => NothingLost'
<1> SUFFICES ASSUME TypeOK, NothingLost, [Next]_vars, faults' = 0, crashes' = 0,
                    NEW e \in First .. next' - 1
             PROVE  e \in children' \/ \E p \in Proc : e \in got'[p]
  BY DEF OrderInv, TypeInv, NothingLost
<1>t. next \in Nat /\ First \in Nat /\ faults \in Nat /\ crashes \in Nat
      /\ got \in [Proc -> SUBSET Nat]
  BY ZkQueueAssumption DEF TypeOK
<1>k. e \in First .. next - 1 /\ faults = 0 /\ crashes = 0 =>
        e \in children \/ \E p \in Proc : e \in got[p]
  BY DEF NothingLost
<1>1. ASSUME NEW p \in Proc, Produce(p)
      PROVE  e \in children' \/ \E q \in Proc : e \in got'[q]
  <2>1. faults = 0 /\ crashes = 0 /\ UNCHANGED got
    BY <1>1, <1>t DEF Produce, Fault
  <2>2. \/ children' = children /\ next' = next
        \/ children' = children \cup {next} /\ next' = next + 1
    BY <1>1 DEF Produce, SetChildren, zkVars
  <2>3. e \in First .. next - 1 \/ (e = next /\ children' = children \cup {next})
    BY <1>t, <2>2
  <2>. QED BY <1>k, <2>1, <2>2, <2>3
<1>2. ASSUME NEW p \in Proc,
             Check(p) \/ GetData(p) \/ Process(p) \/ Crash(p)
      PROVE  e \in children' \/ \E q \in Proc : e \in got'[q]
  <2>1. UNCHANGED <<children, next, got>>
    BY <1>2 DEF Check, GetChildren, GetData, Retry, Process, Notify, Crash, Die, Forget,
                zkVars
  <2>2. faults = 0 /\ crashes = 0
    BY <1>2, <1>t DEF Check, GetData, Process, Crash, Die, Fault
  <2>. QED BY <1>k, <2>1, <2>2
<1>3. ASSUME NEW p \in Proc, DeleteElement(p)
      PROVE  e \in children' \/ \E q \in Proc : e \in got'[q]
  <2>1. next' = next /\ faults = 0 /\ crashes = 0
    BY <1>3, <1>t DEF DeleteElement, Fault, Die
  <2>2. \/ children' = children /\ got' = got
        \/ /\ children' = children \ {min[p]}
           /\ got' = [got EXCEPT ![p] = @ \cup {min[p]}]
    BY <1>3, <1>t DEF DeleteElement, SetChildren, Fault, Retry, Die, zkVars
  <2>3. \A q \in Proc : got[q] \subseteq got'[q]
    BY <1>t, <2>2
  <2>4. children' = children \/ (children' = children \ {min[p]} /\ min[p] \in got'[p])
    BY <1>t, <2>2
  <2>. QED BY <1>k, <2>1, <2>3, <2>4
<1>4. CASE MakeBarrierRoot
  <2>1. UNCHANGED <<children, next, got, faults, crashes>>
    BY <1>4 DEF MakeBarrierRoot, SetChildren
  <2>. QED BY <1>k, <2>1
<1>5. CASE UNCHANGED vars
  BY <1>5, <1>k DEF vars, zkVars
<1>. QED BY <1>1, <1>2, <1>3, <1>4, <1>5 DEF Next, Run

\* Without failures, what was produced is in the queue or has been returned.
THEOREM NoElementLost == Spec => []NothingLost
<1>1. Init => NothingLost
  <2> SUFFICES ASSUME Init PROVE First .. next - 1 = {}
    BY DEF NothingLost
  <2>. QED BY ZkQueueAssumption DEF Init
<1>. QED BY <1>1, OrderAlways, LossStep, PTL DEF Spec

-----------------------------------------------------------------------------
\* The abstract queue.  No element is missing between the first and the last.
Gapless == \E h \in Nat : h <= next /\ children = h .. next - 1

\* Numbers without a gap are in line as they are counted.
LEMMA LineIs ==
  ASSUME NEW h \in Nat, NEW m \in Int, h <= m + 1
  PROVE  InLine(h .. m) = [i \in 1 .. m - h + 1 |-> h + i - 1]
<1> DEFINE S == h .. m
<1>1. Cardinality(S) = m - h + 1
  BY FS_Interval
<1>2. ASSUME NEW e \in S PROVE Cardinality({f \in S : f < e}) = e - h
  <2>1. e \in Int /\ h <= e /\ e - 1 \in Int
    OBVIOUS
  <2>2. {f \in S : f < e} = h .. e - 1
    OBVIOUS
  <2>3. Cardinality(h .. e - 1) = IF h > e - 1 THEN 0 ELSE (e - 1) - h + 1
    BY <2>1, FS_Interval
  <2>4. (IF h > e - 1 THEN 0 ELSE (e - 1) - h + 1) = e - h
    BY <2>1
  <2>. QED BY <2>2, <2>3, <2>4
<1>3. ASSUME NEW i \in 1 .. m - h + 1
      PROVE  (CHOOSE e \in S : Cardinality({f \in S : f < e}) = i - 1) = h + i - 1
  <2>1. h + i - 1 \in S /\ Cardinality({f \in S : f < h + i - 1}) = i - 1
    <3>1. h + i - 1 \in S
      OBVIOUS
    <3>. QED BY <3>1, <1>2
  <2>2. \A e \in S : Cardinality({f \in S : f < e}) = i - 1 => e = h + i - 1
    BY <1>2
  <2>. QED BY <2>1, <2>2
<1>. QED BY <1>1, <1>3 DEF InLine

\* A number behind the last comes to the end of the line,
LEMMA LineGrows ==
  ASSUME NEW h \in Nat, NEW n \in Nat, h <= n
  PROVE  InLine((h .. n - 1) \cup {n}) = Append(InLine(h .. n - 1), n)
<1> DEFINE s == [i \in 1 .. n - h |-> h + i - 1]
           t == [i \in 1 .. n - h + 1 |-> h + i - 1]
<1>1. (h .. n - 1) \cup {n} = h .. n /\ (n - 1) - h + 1 = n - h
  OBVIOUS
<1>2. InLine(h .. n - 1) = s
  <2>1. n - 1 \in Int /\ h <= (n - 1) + 1
    OBVIOUS
  <2>. QED BY <1>1, <2>1, LineIs
<1>3. InLine(h .. n) = t
  BY LineIs
<1>4. s \in Seq(Nat) /\ Len(s) = n - h
  OBVIOUS
<1>5. Append(s, n) = t
  BY <1>4
<1>. QED BY <1>1, <1>2, <1>3, <1>5

\* and the first leaves it at the front.
LEMMA LineShrinks ==
  ASSUME NEW h \in Nat, NEW n \in Nat, h < n
  PROVE  /\ InLine(h .. n - 1) # <<>>
         /\ Head(InLine(h .. n - 1)) = h
         /\ InLine((h .. n - 1) \ {h}) = Tail(InLine(h .. n - 1))
<1> DEFINE s == [i \in 1 .. n - h |-> h + i - 1]
           t == [i \in 1 .. n - h - 1 |-> (h + 1) + i - 1]
<1>1. /\ (h .. n - 1) \ {h} = h + 1 .. n - 1
      /\ (n - 1) - h + 1 = n - h /\ (n - 1) - (h + 1) + 1 = n - h - 1
      /\ n - 1 \in Int /\ h + 1 \in Nat /\ h <= (n - 1) + 1 /\ h + 1 <= (n - 1) + 1
  OBVIOUS
<1>2. InLine(h .. n - 1) = s
  BY <1>1, LineIs
<1>3. InLine(h + 1 .. n - 1) = t
  BY <1>1, LineIs
<1>4. s \in Seq(Nat) /\ Len(s) = n - h /\ n - h > 0
  OBVIOUS
<1>5. s # <<>> /\ Head(s) = h
  BY <1>4
<1>6. Tail(s) = t
  <2>1. Tail(s) \in Seq(Nat) /\ Len(Tail(s)) = n - h - 1
    BY <1>4
  <2>2. \A i \in 1 .. n - h - 1 : Tail(s)[i] = s[i + 1]
    BY <1>4
  <2>3. t \in Seq(Nat) /\ Len(t) = n - h - 1 /\ \A i \in 1 .. n - h - 1 : s[i + 1] = t[i]
    OBVIOUS
  <2>. QED BY <2>1, <2>2, <2>3
<1>. QED BY <1>1, <1>2, <1>3, <1>5, <1>6

FifoInv == OrderInv /\ Gapless

\* A step puts the next element behind the others, takes the first, or does neither.
LEMMA FifoStep ==
  ASSUME FifoInv, [Next]_vars
  PROVE  /\ Gapless'
         /\ [Fifo!Next]_<<next, InLine(children), got>>
<1>t. next \in Nat /\ children \in SUBSET Nat /\ got \in [Proc -> SUBSET Nat]
  BY DEF FifoInv, OrderInv, TypeInv, TypeOK
<1>1. PICK h \in Nat : h <= next /\ children = h .. next - 1
  BY DEF FifoInv, Gapless
<1>u. ASSUME UNCHANGED <<children, next, got>>
      PROVE  Gapless' /\ [Fifo!Next]_<<next, InLine(children), got>>
  BY <1>u, <1>1 DEF Gapless
<1>2. ASSUME NEW p \in Proc, Produce(p)
      PROVE  Gapless' /\ [Fifo!Next]_<<next, InLine(children), got>>
  <2>1. CASE UNCHANGED <<children, next>>
    BY <1>2, <2>1, <1>u DEF Produce
  <2>2. CASE children' = children \cup {next} /\ next' = next + 1
    <3>1. children' = h .. next' - 1 /\ h <= next'
      BY <1>t, <1>1, <2>2
    <3>2. InLine(children') = Append(InLine(children), next)
      BY <1>t, <1>1, <2>2, LineGrows
    <3>3. got' = got
      BY <1>2 DEF Produce
    <3>. QED BY <2>2, <3>1, <3>2, <3>3 DEF Gapless, Fifo!Next, Fifo!Put
  <2>. QED BY <1>2, <2>1, <2>2 DEF Produce, SetChildren, zkVars
<1>3. ASSUME NEW p \in Proc, DeleteElement(p)
      PROVE  Gapless' /\ [Fifo!Next]_<<next, InLine(children), got>>
  <2>1. next' = next
    BY <1>3 DEF DeleteElement
  <2>2. CASE UNCHANGED <<children, got>>
    BY <2>1, <2>2, <1>u
  <2>3. CASE /\ min[p] \in children
             /\ children' = children \ {min[p]}
             /\ \/ got' = [got EXCEPT ![p] = @ \cup {min[p]}]
                \/ got' = got
    <3>1. \A f \in children : min[p] <= f
      BY <1>3 DEF DeleteElement, FifoInv, OrderInv, MinIsFirst
    <3>2. h < next /\ min[p] = h
      BY <1>t, <1>1, <2>3, <3>1
    <3>3. children' = (h + 1) .. next' - 1 /\ h + 1 \in Nat /\ h + 1 <= next'
      BY <1>t, <1>1, <2>1, <2>3, <3>2
    <3>4. /\ InLine(children) # <<>>
          /\ Head(InLine(children)) = min[p]
          /\ InLine(children') = Tail(InLine(children))
      BY <1>t, <1>1, <2>3, <3>2, LineShrinks
    <3>5. Fifo!Take(p)
      BY <2>1, <2>3, <3>4 DEF Fifo!Take
    <3>. QED BY <3>3, <3>5 DEF Gapless, Fifo!Next
  <2>. QED BY <1>3, <2>2, <2>3 DEF DeleteElement, SetChildren, Named, Retry, Die, zkVars
<1>4. ASSUME NEW p \in Proc, Check(p) \/ GetData(p) \/ Process(p) \/ Crash(p)
      PROVE  UNCHANGED <<children, next, got>>
  BY <1>4 DEF Check, GetChildren, GetData, Retry, Process, Notify, Crash, Die, Forget, zkVars
<1>5. CASE MakeBarrierRoot
  BY <1>5, <1>u DEF MakeBarrierRoot, SetChildren
<1>6. CASE UNCHANGED vars
  BY <1>6, <1>u DEF vars, zkVars
<1>. QED BY <1>u, <1>2, <1>3, <1>4, <1>5, <1>6 DEF Next, Run

\* Whatever fails, elements are taken in the order in which they were put, and none
\* twice: ZkQueue implements a queue.
THEOREM ImplementsFifo == Spec => FifoSpec
<1> SUFFICES Spec => Fifo!Spec
  BY DEF FifoSpec
<1>1. Init => FifoInv /\ Fifo!Init
  <2> SUFFICES ASSUME Init PROVE FifoInv /\ Fifo!Init
    OBVIOUS
  <2>1. First \in Nat /\ next = First /\ children = {} /\ got = [p \in Proc |-> {}]
    BY ZkQueueAssumption DEF Init, ZkInit
  <2>2. First .. First - 1 = {}
    BY <2>1
  <2>3. First - 1 \in Int /\ First <= (First - 1) + 1 /\ (First - 1) - First + 1 = 0
    BY <2>1
  <2>4. InLine(children) = <<>>
    <3>1. InLine(First .. First - 1) = [i \in 1 .. 0 |-> First + i - 1]
      BY <2>1, <2>3, LineIs
    <3>. QED BY <2>1, <2>2, <3>1
  <2>5. Gapless
    BY <2>1, <2>2 DEF Gapless
  <2>. QED BY <2>1, <2>4, <2>5, OrderInit DEF FifoInv, Fifo!Init
<1>2. FifoInv /\ [Next]_vars => FifoInv' /\ [Fifo!Next]_<<next, InLine(children), got>>
  BY FifoStep, OrderStep DEF FifoInv
<1>. QED BY <1>1, <1>2, PTL DEF Spec, Fifo!Spec
=============================================================================
