------------------------ MODULE LeaderElectionProofs ------------------------
(***************************************************************************)
(* What LeaderElection promises, for any set of processes and any number   *)
(* of starts, stops, lost connections and expired sessions: its types;     *)
(* that stop() revokes the offer; and, of the processes whose two threads  *)
(* have not been inside the library at once, that a leader has the lowest  *)
(* offer, that there is one leader and it stays in office, and that one    *)
(* that waits will be woken.                                               *)
(***************************************************************************)
EXTENDS LeaderElection, TLAPS

-----------------------------------------------------------------------------
(* The types.                                                               *)

\* The values the actions write belong to the types of the fields.
LEMMA Values ==
  /\ "app" \in Thread /\ "event" \in Thread
  /\ "START" \in State /\ "OFFER" \in State /\ "DETERMINE" \in State /\ "ELECTED" \in State
  /\ "READY" \in State /\ "FAILED" \in State /\ "STOP" \in State
  /\ "idle" \in PC /\ "create" \in PC /\ "determine" \in PC /\ "getData" \in PC
  /\ "exists" \in PC /\ "ready" \in PC /\ "delete" \in PC
  /\ None \in Nat \cup {None} /\ None \notin Nat
  /\ NewOffer \in Offer /\ NoOffer \in Offer
  BY DEF Thread, State, PC, None, Offer, NewOffer, NoOffer

\* A step of the library, of its user or of ZooKeeper keeps every variable in
\* its type.
LEMMA TypeStep == TypeOK /\ [Next]_vars => TypeOK'
<1> SUFFICES ASSUME TypeOK, [Next]_vars PROVE TypeOK'
  OBVIOUS
<1>z. /\ nodes \in [Proc -> SUBSET Nat]
      /\ nextId \in Nat
      /\ watch \in [Proc -> SUBSET Nat]
      /\ events \in [Proc -> SUBSET Nat]
  BY DEF TypeOK
<1>s. state \in [Proc -> State]
  BY DEF TypeOK
<1>o. offer \in [Proc -> Offer]
  BY DEF TypeOK
<1>p. pc \in [Proc \X Thread -> PC]
  BY DEF TypeOK
<1>l. /\ snap \in [Proc \X Thread -> SUBSET Nat]
      /\ todo \in [Proc \X Thread -> SUBSET Nat]
      /\ neighbour \in [Proc \X Thread -> Nat \cup {None}]
  BY DEF TypeOK
<1>e. /\ starts \in [Proc -> Nat]
      /\ stops \in [Proc -> Nat]
      /\ faults \in Nat
      /\ expiries \in Nat
      /\ alive \in SUBSET Proc
      /\ overlapped \in SUBSET Proc
  BY DEF TypeOK
<1>v. live \in SUBSET Nat
  BY <1>z DEF live
<1>1. ASSUME NEW p \in Proc, Start(p) PROVE TypeOK'
  <2>1. UNCHANGED <<nodes, nextId, alive, watch, events, snap, todo, neighbour, stops, faults, expiries>>
    BY <1>1 DEF Start, zkVars, libVars, envVars, locals
  <2>2. state' \in [Proc -> State]
    BY <1>1, <1>s, Values DEF Start, SetState
  <2>3. offer' \in [Proc -> Offer]
    BY <1>1, <1>o, Values DEF Start
  <2>4. pc' \in [Proc \X Thread -> PC]
    BY <1>1, <1>p, Values DEF Start, SetPC
  <2>5. starts' \in [Proc -> Nat]
    BY <1>1, <1>e DEF Start
  <2>o. overlapped' \in SUBSET Proc
    BY <1>1, <1>e DEF Start, Enter
  <2> QED
    BY <2>o, <2>1, <2>2, <2>3, <2>4, <2>5 DEF TypeOK
<1>2. ASSUME NEW p \in Proc, Stop(p) PROVE TypeOK'
  <2>1. UNCHANGED <<nodes, nextId, alive, watch, events, offer, snap, todo, neighbour, starts, faults, expiries>>
    BY <1>2 DEF Stop, zkVars, libVars, envVars, locals
  <2>2. state' \in [Proc -> State]
    BY <1>2, <1>s, Values DEF Stop, SetState
  <2>3. pc' \in [Proc \X Thread -> PC]
    BY <1>2, <1>p, Values DEF Stop, SetPC
  <2>4. stops' \in [Proc -> Nat]
    BY <1>2, <1>e DEF Stop
  <2>o. overlapped' \in SUBSET Proc
    BY <1>2, <1>e DEF Stop, Enter
  <2> QED
    BY <2>o, <2>1, <2>2, <2>3, <2>4 DEF TypeOK
<1>3. ASSUME NEW p \in Proc, CreateOffer(p) PROVE TypeOK'
  <2>1. UNCHANGED <<alive, watch, events, starts, stops, expiries>>
    BY <1>3 DEF CreateOffer, zkVars, libVars, envVars, locals
  <2>2. /\ nodes' \in [Proc -> SUBSET Nat]
        /\ nextId' \in Nat
    BY <1>3, <1>z DEF CreateOffer
  <2>3. state' \in [Proc -> State]
    BY <1>3, <1>s, Values DEF CreateOffer, BecomeFailed, SetState
  <2>4. offer' \in [Proc -> Offer]
    BY <1>3, <1>o, <1>z DEF CreateOffer, Offer
  <2>5. pc' \in [Proc \X Thread -> PC]
    BY <1>3, <1>p, Values DEF CreateOffer, BecomeFailed, Return, SetPC
  <2>6. /\ snap' \in [Proc \X Thread -> SUBSET Nat]
        /\ todo' \in [Proc \X Thread -> SUBSET Nat]
        /\ neighbour' \in [Proc \X Thread -> Nat \cup {None}]
    BY <1>3, <1>l, Values DEF CreateOffer, BecomeFailed, Return, locals
  <2>7. faults' \in Nat
    BY <1>3, <1>e DEF CreateOffer, CallFails, LoseConnection
  <2>o. overlapped' \in SUBSET Proc
    BY <1>3, <1>e DEF CreateOffer
  <2> QED
    BY <2>o, <2>1, <2>2, <2>3, <2>4, <2>5, <2>6, <2>7 DEF TypeOK
<1>4. ASSUME NEW p \in Proc, DeleteOffer(p) PROVE TypeOK'
  <2>1. UNCHANGED <<nextId, alive, offer, starts, stops, expiries>>
    BY <1>4 DEF DeleteOffer, zkVars, libVars, envVars, locals
  <2>2. /\ nodes' \in [Proc -> SUBSET Nat]
        /\ watch' \in [Proc -> SUBSET Nat]
        /\ events' \in [Proc -> SUBSET Nat]
    BY <1>4, <1>z DEF DeleteOffer, Remove
  <2>3. state' \in [Proc -> State]
    BY <1>4, <1>s, Values DEF DeleteOffer, BecomeFailed, SetState
  <2>4. pc' \in [Proc \X Thread -> PC]
    BY <1>4, <1>p, Values DEF DeleteOffer, BecomeFailed, Return, SetPC
  <2>5. /\ snap' \in [Proc \X Thread -> SUBSET Nat]
        /\ todo' \in [Proc \X Thread -> SUBSET Nat]
        /\ neighbour' \in [Proc \X Thread -> Nat \cup {None}]
    BY <1>4, <1>l, Values DEF DeleteOffer, BecomeFailed, Return
  <2>6. faults' \in Nat
    BY <1>4, <1>e DEF DeleteOffer, CallFails, LoseConnection
  <2>o. overlapped' \in SUBSET Proc
    BY <1>4, <1>e DEF DeleteOffer
  <2> QED
    BY <2>o, <2>1, <2>2, <2>3, <2>4, <2>5, <2>6 DEF TypeOK
<1>5. ASSUME NEW p \in Proc, Process(p) PROVE TypeOK'
  <2>1. UNCHANGED <<nodes, nextId, alive, watch, state, offer, snap, todo, neighbour, starts, stops, faults, expiries>>
    BY <1>5 DEF Process, zkVars, libVars, envVars, locals
  <2>2. events' \in [Proc -> SUBSET Nat]
    BY <1>5, <1>z DEF Process
  <2>3. pc' \in [Proc \X Thread -> PC]
    BY <1>5, <1>p, Values DEF Process, SetPC
  <2>o. overlapped' \in SUBSET Proc
    BY <1>5, <1>e DEF Process, Enter
  <2> QED
    BY <2>o, <2>1, <2>2, <2>3 DEF TypeOK
<1>6. ASSUME NEW p \in Proc, NEW th \in Thread, Determine(p, th) PROVE TypeOK'
  <2>1. UNCHANGED <<nodes, nextId, alive, watch, events, starts, stops, expiries>>
    BY <1>6 DEF Determine, zkVars, libVars, envVars, locals
  <2>2. state' \in [Proc -> State]
    BY <1>6, <1>s, Values DEF Determine, BecomeFailed, SetState
  <2>3. offer' \in [Proc -> Offer]
    BY <1>6, <1>o DEF Determine, Offer
  <2>4. pc' \in [Proc \X Thread -> PC]
    BY <1>6, <1>p, Values DEF Determine, BecomeFailed, Return, SetPC
  <2>5. /\ snap' \in [Proc \X Thread -> SUBSET Nat]
        /\ todo' \in [Proc \X Thread -> SUBSET Nat]
        /\ neighbour' \in [Proc \X Thread -> Nat \cup {None}]
    BY <1>6, <1>v, <1>l, Values DEF Determine, BecomeFailed, Return
  <2>6. faults' \in Nat
    BY <1>6, <1>e DEF Determine, CallFails, LoseConnection
  <2>o. overlapped' \in SUBSET Proc
    BY <1>6, <1>e DEF Determine
  <2> QED
    BY <2>o, <2>1, <2>2, <2>3, <2>4, <2>5, <2>6 DEF TypeOK
<1>7. ASSUME NEW p \in Proc, NEW th \in Thread, GetData(p, th) PROVE TypeOK'
  <2>1. UNCHANGED <<nodes, nextId, alive, watch, events, offer, starts, stops, expiries>>
    BY <1>7 DEF GetData, zkVars, libVars, envVars, locals
  <2>2. state' \in [Proc -> State]
    BY <1>7, <1>s, Values DEF GetData, BecomeFailed, SetState
  <2>3. pc' \in [Proc \X Thread -> PC]
    BY <1>7, <1>p, Values DEF GetData, BecomeFailed, Return, SetPC
  <2>4. snap' \in [Proc \X Thread -> SUBSET Nat]
    BY <1>7, <1>l, Values DEF GetData, BecomeFailed, Return
  <2>5. todo' \in [Proc \X Thread -> SUBSET Nat]
    BY <1>7, <1>l, Values, SMTT(30) DEF GetData, BecomeFailed, Return
  <2>6. neighbour' \in [Proc \X Thread -> Nat \cup {None}]
    BY <1>7, <1>l, Values DEF GetData, BecomeFailed, Return
  <2>7. faults' \in Nat
    BY <1>7, <1>e DEF GetData, CallFails, LoseConnection
  <2>o. overlapped' \in SUBSET Proc
    BY <1>7, <1>e DEF GetData
  <2> QED
    BY <2>o, <2>1, <2>2, <2>3, <2>4, <2>5, <2>6, <2>7 DEF TypeOK
<1>8. ASSUME NEW p \in Proc, NEW th \in Thread, Decide(p, th) PROVE TypeOK'
  <2>1. UNCHANGED <<nodes, nextId, alive, watch, events, offer, starts, stops, faults, expiries>>
    BY <1>8 DEF Decide, zkVars, libVars, envVars, locals
  <2>2. state' \in [Proc -> State]
    BY <1>8, <1>s, Values DEF Decide, SetState
  <2>3. pc' \in [Proc \X Thread -> PC]
    BY <1>8, <1>p, Values DEF Decide, Return, SetPC
  <2>4. /\ snap' \in [Proc \X Thread -> SUBSET Nat]
        /\ todo' \in [Proc \X Thread -> SUBSET Nat]
        /\ neighbour' \in [Proc \X Thread -> Nat \cup {None}]
    BY <1>8, <1>l, Values DEF Decide, Return
  <2>o. overlapped' \in SUBSET Proc
    BY <1>8, <1>e DEF Decide
  <2> QED
    BY <2>o, <2>1, <2>2, <2>3, <2>4 DEF TypeOK
<1>9. ASSUME NEW p \in Proc, NEW th \in Thread, Exists(p, th) PROVE TypeOK'
  <2>1. UNCHANGED <<nodes, nextId, alive, events, offer, starts, stops, expiries>>
    BY <1>9 DEF Exists, zkVars, libVars, envVars, locals
  <2>2. watch' \in [Proc -> SUBSET Nat]
    BY <1>9, <1>z, <1>v, ZenonT(40) DEF Exists
  <2>3. state' \in [Proc -> State]
    BY <1>9, <1>s, Values DEF Exists, BecomeFailed, SetState
  <2>4. pc' \in [Proc \X Thread -> PC]
    BY <1>9, <1>p, Values DEF Exists, BecomeFailed, Return, SetPC
  <2>5. /\ snap' \in [Proc \X Thread -> SUBSET Nat]
        /\ todo' \in [Proc \X Thread -> SUBSET Nat]
        /\ neighbour' \in [Proc \X Thread -> Nat \cup {None}]
    BY <1>9, <1>l, Values DEF Exists, BecomeFailed, Return, locals
  <2>6. faults' \in Nat
    BY <1>9, <1>e DEF Exists, CallFails, LoseConnection
  <2>o. overlapped' \in SUBSET Proc
    BY <1>9, <1>e DEF Exists
  <2> QED
    BY <2>o, <2>1, <2>2, <2>3, <2>4, <2>5, <2>6 DEF TypeOK
<1>10. ASSUME NEW p \in Proc, NEW th \in Thread, BecomeReady(p, th) PROVE TypeOK'
  <2>1. UNCHANGED <<nodes, nextId, alive, watch, events, offer, starts, stops, faults, expiries>>
    BY <1>10 DEF BecomeReady, zkVars, libVars, envVars, locals
  <2>2. state' \in [Proc -> State]
    BY <1>10, <1>s, Values DEF BecomeReady, SetState
  <2>3. pc' \in [Proc \X Thread -> PC]
    BY <1>10, <1>p, Values DEF BecomeReady, Return, SetPC
  <2>4. /\ snap' \in [Proc \X Thread -> SUBSET Nat]
        /\ todo' \in [Proc \X Thread -> SUBSET Nat]
        /\ neighbour' \in [Proc \X Thread -> Nat \cup {None}]
    BY <1>10, <1>l, Values DEF BecomeReady, Return
  <2>o. overlapped' \in SUBSET Proc
    BY <1>10, <1>e DEF BecomeReady
  <2> QED
    BY <2>o, <2>1, <2>2, <2>3, <2>4 DEF TypeOK
<1>11. ASSUME NEW p \in Proc, Expire(p) PROVE TypeOK'
  <2>1. UNCHANGED <<nextId, state, offer, pc, snap, todo, neighbour, starts, stops, faults>>
    BY <1>11 DEF Expire, zkVars, libVars, envVars, locals
  <2>2. /\ nodes' \in [Proc -> SUBSET Nat]
        /\ watch' \in [Proc -> SUBSET Nat]
        /\ events' \in [Proc -> SUBSET Nat]
    BY <1>11, <1>z DEF Expire, Remove
  <2>3. /\ expiries' \in Nat
        /\ alive' \in SUBSET Proc
    BY <1>11, <1>e DEF Expire
  <2>o. overlapped' \in SUBSET Proc
    BY <1>11, <1>e DEF Expire
  <2> QED
    BY <2>o, <2>1, <2>2, <2>3 DEF TypeOK
<1>12. CASE UNCHANGED vars
  BY <1>12 DEF TypeOK, vars, zkVars, libVars, envVars
<1> QED
  BY Values, <1>1, <1>2, <1>3, <1>4, <1>5, <1>6, <1>7, <1>8, <1>9, <1>10, <1>11, <1>12
  DEF Next, AppThread, EventThread, Step

\* Type correctness: no field of LeaderElectionSupport, no local variable of its
\* threads and no znode or watch of the election ever leaves its type.
THEOREM TypeCorrect == Spec => []TypeOK
<1>1. Init => TypeOK
  BY Values DEF Init, TypeOK
<1> QED
  BY <1>1, TypeStep, PTL DEF Spec

-----------------------------------------------------------------------------
(* The leader has the lowest offer.  Sequence numbers only grow: an offer  *)
(* that is before the own one was there when the own one was made, and so  *)
(* in whatever a thread has read since (SnapClosed).                       *)

\* Sequence numbers are given once.
Numbering ==
  /\ \A q \in Proc : \A o \in nodes[q] : o < nextId
  /\ \A q \in Proc : offer[q].path < nextId
  /\ \A t \in Proc \X Thread : \A o \in snap[t] : o < nextId

\* No znode belongs to two sessions, and no process knows a path of another's.
OneOwner ==
  \A p, q \in Proc : p # q => nodes[p] \cap nodes[q] = {} /\ offer[p].path \notin nodes[q]

\* The id of an offer is parsed from its path.
IdIsPath == \A p \in Proc : offer[p].id \in {None, offer[p].path}

\* A process that makes an offer has none yet, and is no leader.
Creating ==
  \A p \in Proc : pc[<<p, "app">>] = "create" =>
    offer[p].path = None /\ offer[p].id = None /\ state[p] # "ELECTED"

\* What a thread has read contains every offer that is there and stands before
\* one it has read.
SnapClosed ==
  \A t \in Proc \X Thread : \A s \in snap[t] : \A q \in Proc : \A o \in nodes[q] :
    o < s => o \in snap[t]

\* An ELECTED process that holds its offer holds the lowest.
LowestLeads ==
  \A p \in Proc : Elected(p) /\ Holds(p) => \A o \in live : offer[p].path <= o

OrderInv ==
  /\ TypeOK
  /\ Numbering
  /\ OneOwner
  /\ IdIsPath
  /\ Creating
  /\ SnapClosed
  /\ LowestLeads

\* A step that gives no number, makes no offer, reads no children and elects nobody.
Quietly ==
  /\ \A q \in Proc : nodes'[q] \subseteq nodes[q]
  /\ nextId' = nextId
  /\ offer' = offer
  /\ \A t \in Proc \X Thread : snap'[t] \in {snap[t], {}}
  /\ \A q \in Proc : pc'[<<q, "app">>] = "create" => pc[<<q, "app">>] = "create"
  /\ \A q \in Proc : state'[q] = "ELECTED" => state[q] = "ELECTED"

\* LowestLeads without "live".
LEMMA LowestUnfolded ==
  LowestLeads <=>
    \A p \in Proc : state[p] = "ELECTED" /\ offer[p].path \in nodes[p] =>
      \A q \in Proc : \A o \in nodes[q] : offer[p].path <= o
BY DEF LowestLeads, Elected, Holds, live

LEMMA LowestUnfoldedNext ==
  LowestLeads' <=>
    \A p \in Proc : state'[p] = "ELECTED" /\ offer'[p].path \in nodes'[p] =>
      \A q \in Proc : \A o \in nodes'[q] : offer'[p].path <= o
BY DEF LowestLeads, Elected, Holds, live

LEMMA QuietStep ==
  ASSUME OrderInv, TypeOK', Quietly
  PROVE  OrderInv'
<1>1. Numbering'
  BY DEF OrderInv, Numbering, Quietly
<1>2. OneOwner'
  BY DEF OrderInv, OneOwner, Quietly
<1>3. IdIsPath' /\ Creating'
  BY DEF OrderInv, IdIsPath, Creating, Quietly
<1>4. SnapClosed'
  BY DEF OrderInv, SnapClosed, Quietly
<1>5. LowestLeads'
  BY LowestUnfolded, LowestUnfoldedNext DEF OrderInv, Quietly
<1>. QED BY <1>1, <1>2, <1>3, <1>4, <1>5 DEF OrderInv

\* The parts of the type invariant that the steps below need.
LEMMA OrderTypes ==
  ASSUME TypeOK
  PROVE  /\ nodes \in [Proc -> SUBSET Nat] /\ nextId \in Nat
         /\ state \in [Proc -> State] /\ offer \in [Proc -> Offer]
         /\ pc \in [Proc \X Thread -> PC] /\ snap \in [Proc \X Thread -> SUBSET Nat]
BY DEF TypeOK

LEMMA OrderInit == Init => OrderInv
<1> SUFFICES ASSUME Init PROVE OrderInv
  OBVIOUS
<1>1. TypeOK
  BY Values DEF Init, TypeOK
<1>2. Numbering /\ OneOwner /\ IdIsPath /\ Creating /\ SnapClosed
  BY Values DEF Init, NoOffer, None, Numbering, OneOwner, IdIsPath, Creating, SnapClosed
<1>3. LowestLeads
  BY LowestUnfolded DEF Init
<1>. QED BY <1>1, <1>2, <1>3 DEF OrderInv

LEMMA StartStep == ASSUME OrderInv, TypeOK', NEW p \in Proc, Start(p) PROVE OrderInv'
<1>t. /\ nodes \in [Proc -> SUBSET Nat] /\ nextId \in Nat
      /\ state \in [Proc -> State] /\ offer \in [Proc -> Offer]
      /\ pc \in [Proc \X Thread -> PC] /\ snap \in [Proc \X Thread -> SUBSET Nat]
  BY OrderTypes DEF OrderInv
<1>1. CASE UNCHANGED offer /\ UNCHANGED pc
  <2>1. \A q \in Proc : state'[q] = "ELECTED" => state[q] = "ELECTED"
    BY <1>t DEF Start, SetState
  <2>2. UNCHANGED <<nodes, nextId, snap>>
    BY DEF Start, zkVars, locals
  <2>. QED BY <1>1, <2>1, <2>2, QuietStep DEF Quietly
<1>2. CASE /\ state' = [state EXCEPT ![p] = "OFFER"]
           /\ offer' = [offer EXCEPT ![p] = NewOffer]
           /\ pc' = [pc EXCEPT ![<<p, "app">>] = "create"]
  <2>1. UNCHANGED <<nodes, nextId, snap>>
    BY DEF Start, zkVars, locals
  <2>2. /\ offer'[p].path = None /\ offer'[p].id = None /\ state'[p] = "OFFER"
        /\ \A q \in Proc \ {p} : offer'[q] = offer[q] /\ state'[q] = state[q]
                                 /\ pc'[<<q, "app">>] = pc[<<q, "app">>]
    <3>1. offer'[p] = NewOffer /\ \A q \in Proc \ {p} : offer'[q] = offer[q]
      BY <1>t, <1>2
    <3>2. state'[p] = "OFFER" /\ \A q \in Proc \ {p} : state'[q] = state[q]
      BY <1>t, <1>2
    <3>3. \A q \in Proc \ {p} : pc'[<<q, "app">>] = pc[<<q, "app">>]
      BY <1>t, <1>2, Values
    <3>. QED BY <3>1, <3>2, <3>3 DEF NewOffer
  <2>3. None < nextId /\ \A q \in Proc : None \notin nodes[q]
    BY <1>t DEF None
  <2>4. Numbering'
    BY <2>1, <2>2, <2>3 DEF OrderInv, Numbering
  <2>5. OneOwner'
    <3>1. \A q, r \in Proc : q # r => nodes'[q] \cap nodes'[r] = {}
      BY <2>1 DEF OrderInv, OneOwner
    <3>2. ASSUME NEW q \in Proc, NEW r \in Proc, q # r PROVE offer'[q].path \notin nodes'[r]
      <4>1. offer[q].path \notin nodes[r]
        BY <3>2 DEF OrderInv, OneOwner
      <4>2. offer'[q].path \in {None, offer[q].path}
        BY <2>2
      <4>. QED BY <2>1, <2>3, <4>1, <4>2
    <3>. QED BY <3>1, <3>2 DEF OneOwner
  <2>6. IdIsPath' /\ Creating'
    BY <2>2 DEF OrderInv, IdIsPath, Creating
  <2>7. SnapClosed'
    BY <2>1 DEF OrderInv, SnapClosed
  <2>8. LowestLeads'
    BY <2>1, <2>2, LowestUnfolded, LowestUnfoldedNext DEF OrderInv
  <2>. QED BY <2>4, <2>5, <2>6, <2>7, <2>8 DEF OrderInv
<1>. QED BY <1>1, <1>2 DEF Start, SetState, SetPC

LEMMA CreateStep == ASSUME OrderInv, TypeOK', NEW p \in Proc, CreateOffer(p) PROVE OrderInv'
<1>t. /\ nodes \in [Proc -> SUBSET Nat] /\ nextId \in Nat
      /\ state \in [Proc -> State] /\ offer \in [Proc -> Offer]
      /\ pc \in [Proc \X Thread -> PC] /\ snap \in [Proc \X Thread -> SUBSET Nat]
  BY OrderTypes DEF OrderInv
<1>1. \A q \in Proc : state'[q] = "ELECTED" => state[q] = "ELECTED"
  BY <1>t DEF CreateOffer, BecomeFailed, SetState
<1>2. \A t \in Proc \X Thread : snap'[t] \in {snap[t], {}}
  BY <1>t DEF CreateOffer, BecomeFailed, Return, locals
<1>3. pc[<<p, "app">>] = "create"
  BY DEF CreateOffer
<1>4. /\ pc'[<<p, "app">>] # "create"
      /\ \A q \in Proc \ {p} : pc'[<<q, "app">>] = pc[<<q, "app">>]
  BY <1>t, Values DEF CreateOffer, BecomeFailed, Return, SetPC
<1>5. CASE UNCHANGED <<nodes, nextId, offer>>
  BY <1>1, <1>2, <1>4, <1>5, QuietStep DEF Quietly
<1>6. CASE /\ nodes' = [nodes EXCEPT ![p] = @ \cup {nextId}]
           /\ nextId' = nextId + 1
           /\ offer' \in {offer, [offer EXCEPT ![p].path = nextId]}
  <2>1. /\ nodes'[p] = nodes[p] \cup {nextId}
        /\ \A q \in Proc \ {p} : nodes'[q] = nodes[q] /\ offer'[q] = offer[q]
    BY <1>t, <1>6
  <2>2. offer'[p].path \in {None, nextId} /\ offer'[p].id = None
    BY <1>t, <1>3, <1>6 DEF OrderInv, Creating, Offer
  <2>3. /\ None < nextId /\ \A q \in Proc : None \notin nodes[q]
        /\ \A q \in Proc : \A o \in nodes[q] : o \in Nat /\ o < nextId
        /\ \A t \in Proc \X Thread : \A o \in snap[t] : o \in Nat /\ o < nextId
        /\ \A q \in Proc : offer[q].path \in Nat \cup {None} /\ offer[q].path < nextId
    BY <1>t DEF None, Offer, OrderInv, Numbering
  <2>4. Numbering'
    <3>1. \A q \in Proc : \A o \in nodes'[q] : o < nextId'
      BY <1>t, <1>6, <2>1, <2>3
    <3>2. \A q \in Proc : offer'[q].path < nextId'
      BY <1>t, <1>6, <2>1, <2>2, <2>3 DEF None
    <3>3. \A t \in Proc \X Thread : \A o \in snap'[t] : o < nextId'
      BY <1>t, <1>2, <1>6, <2>3
    <3>. QED BY <3>1, <3>2, <3>3 DEF Numbering
  <2>5. OneOwner'
    <3>1. ASSUME NEW q \in Proc, NEW r \in Proc, q # r
          PROVE  nodes'[q] \cap nodes'[r] = {}
      <4>1. nodes[q] \cap nodes[r] = {}
        BY <3>1 DEF OrderInv, OneOwner
      <4>2. nextId \notin nodes[q] /\ nextId \notin nodes[r]
        BY <1>t, <2>3
      <4>. QED BY <2>1, <3>1, <4>1, <4>2
    <3>2. ASSUME NEW q \in Proc, NEW r \in Proc, q # r
          PROVE  offer'[q].path \notin nodes'[r]
      <4>1. CASE q = p
        BY <1>t, <2>1, <2>2, <2>3, <3>2, <4>1
      <4>2. CASE q # p
        <5>1. offer'[q].path = offer[q].path /\ offer[q].path \notin nodes[r]
          BY <2>1, <3>2, <4>2 DEF OrderInv, OneOwner
        <5>2. offer[q].path # nextId
          BY <1>t, <2>3 DEF None
        <5>. QED BY <2>1, <5>1, <5>2
      <4>. QED BY <4>1, <4>2
    <3>. QED BY <3>1, <3>2 DEF OneOwner
  <2>6. IdIsPath' /\ Creating'
    BY <1>1, <1>4, <2>1, <2>2 DEF OrderInv, IdIsPath, Creating
  <2>7. SnapClosed'
    <3> SUFFICES ASSUME NEW t \in Proc \X Thread, NEW s \in snap'[t], NEW q \in Proc,
                        NEW o \in nodes'[q], o < s
                 PROVE  o \in snap'[t]
      BY DEF SnapClosed
    <3>1. snap'[t] = snap[t] /\ s \in snap[t]
      BY <1>2
    <3>2. o # nextId
      BY <1>t, <2>3, <3>1
    <3>3. o \in nodes[q]
      BY <2>1, <3>2
    <3>. QED BY <3>1, <3>3 DEF OrderInv, SnapClosed
  <2>8. LowestLeads'
    <3> SUFFICES ASSUME NEW q \in Proc, state'[q] = "ELECTED", offer'[q].path \in nodes'[q],
                        NEW r \in Proc, NEW o \in nodes'[r]
                 PROVE  offer'[q].path <= o
      BY LowestUnfoldedNext
    <3>1. q # p /\ state[q] = "ELECTED"
      BY <1>1, <1>3 DEF OrderInv, Creating
    <3>2. offer'[q].path = offer[q].path /\ offer[q].path \in nodes[q]
      BY <2>1, <3>1
    <3>3. CASE o \in nodes[r]
      BY <3>1, <3>2, <3>3, LowestUnfolded DEF OrderInv
    <3>4. CASE o = nextId
      BY <1>t, <2>3, <3>2, <3>4
    <3>. QED BY <2>1, <3>3, <3>4
  <2>. QED BY <2>4, <2>5, <2>6, <2>7, <2>8 DEF OrderInv
<1>. QED BY <1>5, <1>6 DEF CreateOffer

LEMMA DetermineStep ==
  ASSUME OrderInv, TypeOK', NEW p \in Proc, NEW th \in Thread, Determine(p, th)
  PROVE  OrderInv'
<1>t. /\ nodes \in [Proc -> SUBSET Nat] /\ nextId \in Nat
      /\ state \in [Proc -> State] /\ offer \in [Proc -> Offer]
      /\ pc \in [Proc \X Thread -> PC] /\ snap \in [Proc \X Thread -> SUBSET Nat]
  BY OrderTypes DEF OrderInv
<1>1. UNCHANGED <<nodes, nextId>>
  BY DEF Determine, zkVars
<1>2. \A q \in Proc : state'[q] = "ELECTED" => state[q] = "ELECTED"
  BY <1>t DEF Determine, BecomeFailed, SetState
<1>3. \A q \in Proc : pc'[<<q, "app">>] = "create" => pc[<<q, "app">>] = "create"
  BY <1>t, Values DEF Determine, BecomeFailed, Return, SetPC
<1>4. \A q \in Proc : /\ offer'[q].path = offer[q].path
                      /\ offer'[q].id \in {offer[q].id, offer[q].path}
  BY <1>t DEF Determine, Offer
<1>5. \A t \in Proc \X Thread : snap'[t] \in {snap[t], {}, live}
  BY <1>t DEF Determine, BecomeFailed, Return
<1>6. Numbering'
  <2>1. \A o \in live : o < nextId
    BY DEF live, OrderInv, Numbering
  <2>. QED BY <1>1, <1>4, <1>5, <2>1 DEF OrderInv, Numbering
<1>7. OneOwner'
  BY <1>1, <1>4 DEF OrderInv, OneOwner
<1>8. IdIsPath'
  BY <1>4 DEF OrderInv, IdIsPath
<1>9. Creating'
  BY <1>2, <1>3, <1>4 DEF OrderInv, Creating
<1>10. SnapClosed'
  <2>1. \A q \in Proc : nodes[q] \subseteq live
    BY DEF live
  <2>. QED BY <1>1, <1>5, <2>1 DEF OrderInv, SnapClosed
<1>11. LowestLeads'
  BY <1>1, <1>2, <1>4, LowestUnfolded, LowestUnfoldedNext DEF OrderInv
<1>. QED BY <1>6, <1>7, <1>8, <1>9, <1>10, <1>11 DEF OrderInv

LEMMA DecideStep ==
  ASSUME OrderInv, TypeOK', NEW p \in Proc, NEW th \in Thread, Decide(p, th)
  PROVE  OrderInv'
<1>t. /\ nodes \in [Proc -> SUBSET Nat] /\ nextId \in Nat
      /\ state \in [Proc -> State] /\ offer \in [Proc -> Offer]
      /\ pc \in [Proc \X Thread -> PC] /\ snap \in [Proc \X Thread -> SUBSET Nat]
  BY OrderTypes DEF OrderInv
<1>1. UNCHANGED <<nodes, nextId, offer>>
  BY DEF Decide, zkVars
<1>2. \A t \in Proc \X Thread : snap'[t] \in {snap[t], {}}
  BY <1>t DEF Decide, Return
<1>3. \A q \in Proc : pc'[<<q, "app">>] = "create" => pc[<<q, "app">>] = "create"
  BY <1>t, Values DEF Decide, Return, SetPC
<1>4. CASE UNCHANGED state
  BY <1>1, <1>2, <1>3, <1>4, QuietStep DEF Quietly
<1>5. CASE /\ offer[p].id \in snap[<<p, th>>]
           /\ Before(snap[<<p, th>>], offer[p].id) = {}
           /\ SetState(p, "ELECTED")
  <2>1. \A q \in Proc \ {p} : state'[q] = state[q]
    BY <1>t, <1>5 DEF SetState
  <2>2. offer[p].id = offer[p].path
    BY <1>t, <1>5 DEF OrderInv, IdIsPath, None
  <2>3. ASSUME NEW q \in Proc, NEW o \in nodes[q] PROVE offer[p].path <= o
    <3>1. offer[p].path \in Nat /\ o \in Nat
      BY <1>t, <1>5, <2>2
    <3>2. o \notin snap[<<p, th>>] \/ ~(o < offer[p].path)
      BY <1>5, <2>2 DEF Before
    <3>3. ~(o < offer[p].path)
      BY <1>5, <2>2, <3>2 DEF OrderInv, SnapClosed
    <3>. QED BY <3>1, <3>3
  <2>4. LowestLeads'
    BY <1>1, <2>1, <2>3, LowestUnfolded, LowestUnfoldedNext DEF OrderInv
  <2>6. offer[p].id # None
    BY <1>t, <1>5 DEF None
  <2>7. Numbering' /\ SnapClosed'
    BY <1>1, <1>2 DEF OrderInv, Numbering, SnapClosed
  <2>8. OneOwner' /\ IdIsPath'
    BY <1>1 DEF OrderInv, OneOwner, IdIsPath
  <2>9. Creating'
    BY <1>1, <1>3, <2>1, <2>6 DEF OrderInv, Creating
  <2>. QED BY <2>4, <2>7, <2>8, <2>9 DEF OrderInv
<1>. QED BY <1>4, <1>5 DEF Decide

\* The other steps.
LEMMA OtherStepsQuiet ==
  ASSUME TypeOK, NEW p \in Proc,
         \/ Stop(p) \/ DeleteOffer(p) \/ Process(p) \/ Expire(p)
         \/ \E th \in Thread : GetData(p, th) \/ Exists(p, th) \/ BecomeReady(p, th)
  PROVE  Quietly
<1>t. /\ nodes \in [Proc -> SUBSET Nat] /\ nextId \in Nat
      /\ state \in [Proc -> State] /\ offer \in [Proc -> Offer]
      /\ pc \in [Proc \X Thread -> PC] /\ snap \in [Proc \X Thread -> SUBSET Nat]
  BY OrderTypes
<1>1. CASE Stop(p)
  <2>1. \A q \in Proc : state'[q] = "ELECTED" => state[q] = "ELECTED"
    BY <1>1, <1>t DEF Stop, SetState
  <2>2. \A q \in Proc : pc'[<<q, "app">>] = "create" => pc[<<q, "app">>] = "create"
    BY <1>1, <1>t DEF Stop, SetPC
  <2>3. UNCHANGED <<nodes, nextId, offer, snap>>
    BY <1>1 DEF Stop, zkVars, locals
  <2>. QED BY <2>1, <2>2, <2>3 DEF Quietly
<1>2. CASE DeleteOffer(p)
  <2>1. \A q \in Proc : state'[q] = "ELECTED" => state[q] = "ELECTED"
    BY <1>2, <1>t DEF DeleteOffer, BecomeFailed, SetState
  <2>2. \A q \in Proc : pc'[<<q, "app">>] = "create" => pc[<<q, "app">>] = "create"
    BY <1>2, <1>t DEF DeleteOffer, BecomeFailed, Return, SetPC
  <2>3. \A t \in Proc \X Thread : snap'[t] \in {snap[t], {}}
    BY <1>2, <1>t DEF DeleteOffer, BecomeFailed, Return
  <2>4. \A q \in Proc : nodes'[q] \subseteq nodes[q]
    BY <1>2, <1>t DEF DeleteOffer, Remove
  <2>5. UNCHANGED <<nextId, offer>>
    BY <1>2 DEF DeleteOffer
  <2>. QED BY <2>1, <2>2, <2>3, <2>4, <2>5 DEF Quietly
<1>3. CASE Process(p)
  <2>1. \A q \in Proc : pc'[<<q, "app">>] = "create" => pc[<<q, "app">>] = "create"
    BY <1>3, <1>t, Values DEF Process, SetPC
  <2>2. UNCHANGED <<nodes, nextId, offer, snap, state>>
    BY <1>3 DEF Process, locals
  <2>. QED BY <2>1, <2>2 DEF Quietly
<1>4. CASE Expire(p)
  <2>1. \A q \in Proc : nodes'[q] \subseteq nodes[q]
    BY <1>4, <1>t DEF Expire, Remove
  <2>2. UNCHANGED <<nextId, offer, snap, state, pc>>
    BY <1>4 DEF Expire, libVars
  <2>. QED BY <2>1, <2>2 DEF Quietly
<1>5. ASSUME NEW th \in Thread, GetData(p, th) PROVE Quietly
  <2>1. \A q \in Proc : state'[q] = "ELECTED" => state[q] = "ELECTED"
    BY <1>5, <1>t DEF GetData, BecomeFailed, SetState
  <2>2. \A q \in Proc : pc'[<<q, "app">>] = "create" => pc[<<q, "app">>] = "create"
    BY <1>5, <1>t, Values DEF GetData, BecomeFailed, Return, SetPC
  <2>3. \A t \in Proc \X Thread : snap'[t] \in {snap[t], {}}
    BY <1>5, <1>t DEF GetData, BecomeFailed, Return
  <2>4. UNCHANGED <<nodes, nextId, offer>>
    BY <1>5 DEF GetData, zkVars
  <2>. QED BY <2>1, <2>2, <2>3, <2>4 DEF Quietly
<1>6. ASSUME NEW th \in Thread, Exists(p, th) PROVE Quietly
  <2>1. \A q \in Proc : state'[q] = "ELECTED" => state[q] = "ELECTED"
    BY <1>6, <1>t DEF Exists, BecomeFailed, SetState
  <2>2. \A q \in Proc : pc'[<<q, "app">>] = "create" => pc[<<q, "app">>] = "create"
    BY <1>6, <1>t, Values DEF Exists, BecomeFailed, Return, SetPC
  <2>3. \A t \in Proc \X Thread : snap'[t] \in {snap[t], {}}
    BY <1>6, <1>t DEF Exists, BecomeFailed, Return, locals
  <2>4. UNCHANGED <<nodes, nextId, offer>>
    BY <1>6 DEF Exists
  <2>. QED BY <2>1, <2>2, <2>3, <2>4 DEF Quietly
<1>7. ASSUME NEW th \in Thread, BecomeReady(p, th) PROVE Quietly
  <2>1. \A q \in Proc : state'[q] = "ELECTED" => state[q] = "ELECTED"
    BY <1>7, <1>t DEF BecomeReady, SetState
  <2>2. \A q \in Proc : pc'[<<q, "app">>] = "create" => pc[<<q, "app">>] = "create"
    BY <1>7, <1>t DEF BecomeReady, Return, SetPC
  <2>3. \A t \in Proc \X Thread : snap'[t] \in {snap[t], {}}
    BY <1>7, <1>t DEF BecomeReady, Return
  <2>4. UNCHANGED <<nodes, nextId, offer>>
    BY <1>7 DEF BecomeReady, zkVars
  <2>. QED BY <2>1, <2>2, <2>3, <2>4 DEF Quietly
<1>. QED BY <1>1, <1>2, <1>3, <1>4, <1>5, <1>6, <1>7

LEMMA OrderStep == OrderInv /\ [Next]_vars => OrderInv'
<1> SUFFICES ASSUME OrderInv, [Next]_vars PROVE OrderInv'
  OBVIOUS
<1>1. TypeOK /\ TypeOK'
  BY TypeStep DEF OrderInv
<1>2. ASSUME NEW p \in Proc, Start(p) \/ CreateOffer(p) PROVE OrderInv'
  BY <1>1, <1>2, StartStep, CreateStep
<1>3. ASSUME NEW p \in Proc, NEW th \in Thread, Determine(p, th) \/ Decide(p, th)
      PROVE  OrderInv'
  BY <1>1, <1>3, DetermineStep, DecideStep
<1>4. ASSUME NEW p \in Proc,
             \/ Stop(p) \/ DeleteOffer(p) \/ Process(p) \/ Expire(p)
             \/ \E th \in Thread : GetData(p, th) \/ Exists(p, th) \/ BecomeReady(p, th)
      PROVE  OrderInv'
  BY <1>1, <1>4, OtherStepsQuiet, QuietStep
<1>5. CASE UNCHANGED vars
  <2>1. Quietly
    BY <1>5 DEF vars, zkVars, libVars, Quietly
  <2>. QED BY <1>1, <2>1, QuietStep
<1>. QED BY Values, <1>2, <1>3, <1>4, <1>5 DEF Next, AppThread, EventThread, Step

LEMMA OrderAlways == Spec => []OrderInv
BY OrderInit, OrderStep, PTL DEF Spec

\* A leader that holds its offer, and whose threads have not overlapped, holds the
\* lowest offer of all, although it has decided so from children it read several
\* calls earlier.
THEOREM LeaderHasLowest == Spec => []LeaderIsLowest
<1>1. OrderInv => LeaderIsLowest
  BY DEF OrderInv, LowestLeads, LeaderIsLowest, Orderly
<1>. QED BY <1>1, OrderAlways, PTL

-----------------------------------------------------------------------------
(* There is one leader.  A leader whose session lives holds its offer: it  *)
(* had it when it read the children, and only stop(), which in an orderly  *)
(* process then does not run, and the end of the session take it away.     *)

\* Of the threads of an orderly process one at a time runs the library,
OneThread(p) ==
  \A th, u \in Thread : th # u => pc[<<p, th>>] = "idle" \/ pc[<<p, u>>] = "idle"

\* and has a list of children only while it reads their data.
SnapInUse(p) == \A th \in Thread : snap[<<p, th>>] # {} => pc[<<p, th>>] = "getData"

\* stop() deletes the offer in the state STOP.
Deleting(p) == pc[<<p, "app">>] = "delete" => state[p] = "STOP"

\* If the session lives, what a thread has read as its own offer is still there,
SnapHolds(p) ==
  \A th \in Thread : p \in alive /\ offer[p].id \in snap[<<p, th>>] => Holds(p)

\* and so is the offer of a leader.
ElectedHolds(p) == p \in alive /\ Elected(p) => Holds(p)

ProcInv(p) ==
  OneThread(p) /\ SnapInUse(p) /\ Deleting(p) /\ SnapHolds(p) /\ ElectedHolds(p)

LeaderInv == OrderInv /\ \A p \in Orderly : ProcInv(p)

LEMMA OneLeader == LeaderInv => ExclusiveLeader
<1> SUFFICES ASSUME LeaderInv, NEW p \in Orderly, NEW q \in Orderly, Elected(p), Elected(q),
                    p \in alive, q \in alive
             PROVE  p = q
  BY DEF ExclusiveLeader
<1>0. p \in Proc /\ q \in Proc
  BY DEF Orderly
<1>1. offer[p].path \in nodes[p] /\ offer[q].path \in nodes[q]
  BY DEF LeaderInv, ProcInv, ElectedHolds, Holds
<1>2. offer[p].path <= offer[q].path /\ offer[q].path <= offer[p].path
  BY <1>0, <1>1, LowestUnfolded DEF LeaderInv, OrderInv, Elected
<1>3. offer[p].path \in Nat /\ offer[q].path \in Nat
  BY <1>0, <1>1, OrderTypes DEF LeaderInv, OrderInv
<1>4. offer[p].path = offer[q].path
  BY <1>2, <1>3
<1>. QED BY <1>0, <1>1, <1>4 DEF LeaderInv, OrderInv, OneOwner

LEMMA LeaderInit == Init => LeaderInv
<1> SUFFICES ASSUME Init, NEW p \in Proc PROVE ProcInv(p)
  BY OrderInit DEF LeaderInv, Orderly
<1>1. /\ \A th \in Thread : pc[<<p, th>>] = "idle" /\ snap[<<p, th>>] = {}
      /\ state[p] = "STOP"
  BY DEF Init
<1>. QED BY <1>1, Values DEF ProcInv, OneThread, SnapInUse, Deleting, SnapHolds, ElectedHolds,
                             Elected

\* A process that has overlapped has done so for good, and a step of p makes no
\* other process overlap.
LEMMA OverlapGrows ==
  ASSUME NEW p \in Proc,
         \/ Start(p) \/ Stop(p) \/ CreateOffer(p) \/ DeleteOffer(p) \/ Process(p) \/ Expire(p)
         \/ \E th \in Thread : Step(p, th)
  PROVE  overlapped \subseteq overlapped' /\ overlapped' \subseteq overlapped \cup {p}
BY DEF Start, Stop, CreateOffer, DeleteOffer, Process, Expire, Step, Determine, GetData, Decide,
       Exists, BecomeReady, Enter

\* A step of p leaves the others alone.
LEMMA OthersKept ==
  ASSUME LeaderInv, OrderInv', NEW p \in Proc, p \in Orderly' => ProcInv(p)',
         alive' \subseteq alive, overlapped \subseteq overlapped',
         \A q \in Proc \ {p} :
           /\ nodes'[q] = nodes[q] /\ offer'[q] = offer[q] /\ state'[q] = state[q]
           /\ \A th \in Thread : /\ pc'[<<q, th>>] = pc[<<q, th>>]
                                 /\ snap'[<<q, th>>] = snap[<<q, th>>]
  PROVE  LeaderInv'
<1> SUFFICES ASSUME NEW q \in Proc, q \notin overlapped', q # p PROVE ProcInv(q)'
  BY DEF LeaderInv, Orderly
<1>1. ProcInv(q)
  BY DEF LeaderInv, Orderly
<1>2. OneThread(q)' /\ SnapInUse(q)' /\ Deleting(q)'
  BY <1>1, Values DEF ProcInv, OneThread, SnapInUse, Deleting
<1>3. SnapHolds(q)' /\ ElectedHolds(q)'
  BY <1>1 DEF ProcInv, SnapHolds, ElectedHolds, Holds, Elected
<1>. QED BY <1>2, <1>3 DEF ProcInv

\* A thread inside the library takes a step.
LEMMA ThreadStep ==
  ASSUME NEW p \in Proc, NEW th \in Thread, ProcInv(p), pc[<<p, th>>] # "idle",
         \A u \in Thread : u # th => /\ pc'[<<p, u>>] = pc[<<p, u>>]
                                     /\ snap'[<<p, u>>] = snap[<<p, u>>],
         snap'[<<p, th>>] # {} => pc'[<<p, th>>] = "getData",
         pc'[<<p, th>>] # "delete",
         p \in alive' /\ offer'[p].id \in snap'[<<p, th>>] => Holds(p)',
         ElectedHolds(p)'
  PROVE  ProcInv(p)'
<1>1. \A u \in Thread : u # th =>
        /\ pc[<<p, u>>] = "idle" /\ pc'[<<p, u>>] = "idle"
        /\ snap[<<p, u>>] = {} /\ snap'[<<p, u>>] = {}
  <2>1. \A u \in Thread : u # th => pc[<<p, u>>] = "idle" /\ snap[<<p, u>>] = {}
    BY DEF ProcInv, OneThread, SnapInUse
  <2>. QED BY <2>1
<1>2. OneThread(p)' /\ SnapInUse(p)'
  BY <1>1 DEF OneThread, SnapInUse
<1>3. Deleting(p)'
  BY <1>1, Values DEF Deleting
<1>4. SnapHolds(p)'
  BY <1>1 DEF SnapHolds
<1>. QED BY <1>2, <1>3, <1>4 DEF ProcInv

\* A thread enters the library, while the other is outside.
LEMMA EnterStep ==
  ASSUME NEW p \in Proc, NEW th \in Thread, ProcInv(p),
         \A u \in Thread : pc[<<p, u>>] = "idle",
         \A u \in Thread : u # th => pc'[<<p, u>>] = pc[<<p, u>>],
         \A u \in Thread : snap'[<<p, u>>] = snap[<<p, u>>],
         Deleting(p)', ElectedHolds(p)'
  PROVE  ProcInv(p)'
<1>1. \A u \in Thread : snap'[<<p, u>>] = {}
  BY DEF ProcInv, SnapInUse
<1>2. OneThread(p)' /\ SnapInUse(p)' /\ SnapHolds(p)'
  BY <1>1 DEF OneThread, SnapInUse, SnapHolds
<1>. QED BY <1>2 DEF ProcInv

\* What the steps of p do to the others: nothing.
LEMMA Private ==
  ASSUME OrderInv, NEW p \in Proc,
         \/ Start(p) \/ Stop(p) \/ CreateOffer(p) \/ DeleteOffer(p) \/ Process(p) \/ Expire(p)
         \/ \E th \in Thread : Step(p, th)
  PROVE  /\ alive' \subseteq alive
         /\ \A q \in Proc \ {p} :
              /\ nodes'[q] = nodes[q] /\ offer'[q] = offer[q] /\ state'[q] = state[q]
              /\ \A th \in Thread : /\ pc'[<<q, th>>] = pc[<<q, th>>]
                                    /\ snap'[<<q, th>>] = snap[<<q, th>>]
<1>t. /\ nodes \in [Proc -> SUBSET Nat] /\ nextId \in Nat
      /\ state \in [Proc -> State] /\ offer \in [Proc -> Offer]
      /\ pc \in [Proc \X Thread -> PC] /\ snap \in [Proc \X Thread -> SUBSET Nat]
  BY OrderTypes DEF OrderInv
<1>1. alive' \subseteq alive
  BY DEF Start, Stop, CreateOffer, DeleteOffer, Process, Expire, Step, Determine, GetData,
         Decide, Exists, BecomeReady, zkVars
<1>q. SUFFICES ASSUME NEW q \in Proc, q # p
               PROVE  /\ nodes'[q] = nodes[q] /\ offer'[q] = offer[q] /\ state'[q] = state[q]
                      /\ \A th \in Thread : /\ pc'[<<q, th>>] = pc[<<q, th>>]
                                            /\ snap'[<<q, th>>] = snap[<<q, th>>]
  BY <1>1
<1>2. nodes'[q] = nodes[q]
  <2>1. CASE Expire(p) \/ DeleteOffer(p)
    <3>1. offer[p].path \notin nodes[q] /\ nodes[p] \cap nodes[q] = {}
      BY <1>q DEF OrderInv, OneOwner
    <3>2. nodes'[q] \in {nodes[q], nodes[q] \ nodes[p], nodes[q] \ {offer[p].path}}
      BY <2>1, <1>t DEF Expire, DeleteOffer, Remove
    <3>. QED BY <3>1, <3>2
  <2>2. CASE CreateOffer(p)
    BY <2>2, <1>q, <1>t DEF CreateOffer
  <2>3. CASE Start(p) \/ Stop(p) \/ Process(p) \/ \E th \in Thread : Step(p, th)
    BY <2>3 DEF Start, Stop, Process, Step, Determine, GetData, Decide, Exists, BecomeReady,
                zkVars
  <2>. QED BY <2>1, <2>2, <2>3
<1>3. offer'[q] = offer[q]
  BY <1>q, <1>t, ZenonT(60) DEF Start, Stop, CreateOffer, DeleteOffer, Process, Expire, Step, Determine,
                    GetData, Decide, Exists, BecomeReady, libVars
<1>4. state'[q] = state[q]
  BY <1>q, <1>t, ZenonT(60) DEF Start, Stop, CreateOffer, DeleteOffer, Process, Expire, Step, Determine,
                    GetData, Decide, Exists, BecomeReady, libVars, BecomeFailed, SetState
<1>5. ASSUME NEW th \in Thread PROVE pc'[<<q, th>>] = pc[<<q, th>>]
  BY <1>q, <1>t, ZenonT(60) DEF Start, Stop, CreateOffer, DeleteOffer, Process, Expire, Step, Determine,
                    GetData, Decide, Exists, BecomeReady, libVars, BecomeFailed, Return, SetPC
<1>6. ASSUME NEW th \in Thread PROVE snap'[<<q, th>>] = snap[<<q, th>>]
  BY <1>q, <1>t, ZenonT(60) DEF Start, Stop, CreateOffer, DeleteOffer, Process, Expire, Step, Determine,
                    GetData, Decide, Exists, BecomeReady, libVars, BecomeFailed, Return, locals
<1>. QED BY <1>2, <1>3, <1>4, <1>5, <1>6

\* What each step does to p itself.
LEMMA EnteringStep ==
  ASSUME LeaderInv, NEW p \in Proc, Start(p) \/ Stop(p) \/ Process(p), p \notin overlapped'
  PROVE  ProcInv(p)'
<1>t. state \in [Proc -> State] /\ pc \in [Proc \X Thread -> PC]
  BY OrderTypes DEF LeaderInv, OrderInv
<1>i. ProcInv(p)
  <2>1. p \notin overlapped
    BY OverlapGrows
  <2>. QED BY <2>1 DEF LeaderInv, Orderly
<1>1. \A u \in Thread : pc[<<p, u>>] = "idle"
  BY DEF Start, Stop, Process, Enter
<1>2. \A u \in Thread : snap'[<<p, u>>] = snap[<<p, u>>]
  BY DEF Start, Stop, Process, locals
<1>3. CASE Start(p)
  <2>1. \A u \in Thread : u # "app" => pc'[<<p, u>>] = pc[<<p, u>>]
    BY <1>3, <1>t, Values DEF Start, SetPC
  <2>2. pc'[<<p, "app">>] # "delete" /\ state'[p] # "ELECTED"
    BY <1>1, <1>3, <1>t, Values DEF Start, SetPC, SetState
  <2>3. Deleting(p)' /\ ElectedHolds(p)'
    BY <2>2 DEF Deleting, ElectedHolds, Elected
  <2>. QED BY <1>i, <1>1, <1>2, <2>1, <2>3, Values, EnterStep
<1>4. CASE Stop(p)
  <2>1. \A u \in Thread : u # "app" => pc'[<<p, u>>] = pc[<<p, u>>]
    BY <1>4, <1>t, Values DEF Stop, SetPC
  <2>2. state'[p] = "STOP"
    BY <1>4, <1>t DEF Stop, SetState
  <2>3. Deleting(p)' /\ ElectedHolds(p)'
    BY <2>2 DEF Deleting, ElectedHolds, Elected
  <2>. QED BY <1>i, <1>1, <1>2, <2>1, <2>3, Values, EnterStep
<1>5. CASE Process(p)
  <2>1. \A u \in Thread : u # "event" => pc'[<<p, u>>] = pc[<<p, u>>]
    BY <1>5, <1>t, Values DEF Process, SetPC
  <2>2. UNCHANGED <<alive, nodes, offer, state>>
    BY <1>5 DEF Process
  <2>3. ElectedHolds(p)'
    BY <1>i, <2>2 DEF ProcInv, ElectedHolds, Elected, Holds
  <2>4. Deleting(p)'
    BY <1>1, <2>1, Values DEF Deleting
  <2>. QED BY <1>i, <1>1, <1>2, <2>1, <2>3, <2>4, Values, EnterStep
<1>. QED BY <1>3, <1>4, <1>5

LEMMA AppStep ==
  ASSUME LeaderInv, NEW p \in Proc, CreateOffer(p) \/ DeleteOffer(p), p \notin overlapped
  PROVE  ProcInv(p)'
<1>t. state \in [Proc -> State] /\ pc \in [Proc \X Thread -> PC]
      /\ snap \in [Proc \X Thread -> SUBSET Nat]
  BY OrderTypes DEF LeaderInv, OrderInv
<1>i. ProcInv(p)
  BY DEF LeaderInv, Orderly
<1>1. pc[<<p, "app">>] \in {"create", "delete"} /\ state[p] # "ELECTED"
  BY <1>i DEF CreateOffer, DeleteOffer, LeaderInv, OrderInv, Creating, ProcInv, Deleting
<1>2. snap[<<p, "app">>] = {}
  BY <1>1, <1>i, Values DEF ProcInv, SnapInUse
<1>3. \A u \in Thread : u # "app" => /\ pc'[<<p, u>>] = pc[<<p, u>>]
                                     /\ snap'[<<p, u>>] = snap[<<p, u>>]
  BY <1>t, Values DEF CreateOffer, DeleteOffer, BecomeFailed, Return, SetPC, locals
<1>4. snap'[<<p, "app">>] = {}
  BY <1>2, <1>t, Values DEF CreateOffer, DeleteOffer, BecomeFailed, Return, locals
<1>5. pc'[<<p, "app">>] \in {"idle", "determine"}
  BY <1>t, Values DEF CreateOffer, DeleteOffer, BecomeFailed, Return, SetPC
<1>6. state'[p] # "ELECTED"
  BY <1>1, <1>t DEF CreateOffer, DeleteOffer, BecomeFailed, SetState
<1>7. ElectedHolds(p)'
  BY <1>6 DEF ElectedHolds, Elected
<1>. QED BY <1>i, <1>1, <1>3, <1>4, <1>5, <1>7, Values, ThreadStep

LEMMA LibraryStep ==
  ASSUME LeaderInv, NEW p \in Proc, NEW th \in Thread, Step(p, th), p \notin overlapped
  PROVE  ProcInv(p)'
<1>t. /\ nodes \in [Proc -> SUBSET Nat] /\ offer \in [Proc -> Offer]
      /\ state \in [Proc -> State] /\ pc \in [Proc \X Thread -> PC]
      /\ snap \in [Proc \X Thread -> SUBSET Nat]
  BY OrderTypes DEF LeaderInv, OrderInv
<1>i. ProcInv(p)
  BY DEF LeaderInv, Orderly
<1>1. pc[<<p, th>>] \in {"determine", "getData", "exists", "ready"}
  BY DEF Step, Determine, GetData, Decide, Exists, BecomeReady
<1>2. \A u \in Thread : u # th => pc'[<<p, u>>] = pc[<<p, u>>]
  BY <1>t DEF Step, Determine, GetData, Decide, Exists, BecomeReady, BecomeFailed, Return, SetPC
<1>3. \A u \in Thread : u # th => snap'[<<p, u>>] = snap[<<p, u>>]
  BY <1>t DEF Step, Determine, GetData, Decide, Exists, BecomeReady, BecomeFailed, Return, locals
<1>4. UNCHANGED <<nodes, alive>> /\ offer'[p].path = offer[p].path
  BY <1>t DEF Step, Determine, GetData, Decide, Exists, BecomeReady, zkVars, Offer
<1>5. pc'[<<p, th>>] # "delete"
  BY <1>1, <1>t DEF Step, Determine, GetData, Decide, Exists, BecomeReady, BecomeFailed, Return, SetPC
<1>6. \/ snap'[<<p, th>>] = {}
      \/ /\ snap'[<<p, th>>] = snap[<<p, th>>] /\ pc'[<<p, th>>] = pc[<<p, th>>]
         /\ offer'[p].id = offer[p].id
      \/ /\ snap'[<<p, th>>] = live /\ pc'[<<p, th>>] = "getData"
         /\ offer'[p].id = offer[p].path
  <2>1. CASE Determine(p, th)
    <3>1. \/ Return(p, th)
          \/ /\ snap' = [snap EXCEPT ![<<p, th>>] = live]
             /\ pc' = [pc EXCEPT ![<<p, th>>] = "getData"]
             /\ offer' = [offer EXCEPT ![p].id = offer[p].path]
      BY <2>1 DEF Determine, BecomeFailed, SetPC
    <3>2. CASE Return(p, th)
      BY <3>2, <1>t DEF Return
    <3>3. CASE /\ snap' = [snap EXCEPT ![<<p, th>>] = live]
               /\ pc' = [pc EXCEPT ![<<p, th>>] = "getData"]
               /\ offer' = [offer EXCEPT ![p].id = offer[p].path]
      <4>1. snap'[<<p, th>>] = live /\ pc'[<<p, th>>] = "getData"
        BY <3>3, <1>t
      <4>2. offer'[p].id = offer[p].path
        BY <3>3, <1>t DEF Offer
      <4>. QED BY <4>1, <4>2
    <3>. QED BY <3>1, <3>2, <3>3
  <2>2. CASE GetData(p, th)
    BY <2>2, <1>t DEF GetData, BecomeFailed, Return
  <2>3. CASE Decide(p, th)
    BY <2>3, <1>t DEF Decide, Return
  <2>4. CASE Exists(p, th)
    <3>1. snap[<<p, th>>] = {}
      BY <2>4, <1>i DEF Exists, ProcInv, SnapInUse
    <3>. QED BY <2>4, <3>1, <1>t DEF Exists, BecomeFailed, Return, locals
  <2>5. CASE BecomeReady(p, th)
    BY <2>5, <1>t DEF BecomeReady, Return
  <2>. QED BY <2>1, <2>2, <2>3, <2>4, <2>5 DEF Step
<1>7. snap'[<<p, th>>] # {} => pc'[<<p, th>>] = "getData"
  BY <1>6, <1>i DEF ProcInv, SnapInUse
<1>8. p \in alive' /\ offer'[p].id \in snap'[<<p, th>>] => Holds(p)'
  <2>1. offer[p].path \in live => offer[p].path \in nodes[p]
    BY DEF live, LeaderInv, OrderInv, OneOwner
  <2>2. p \in alive /\ offer[p].id \in snap[<<p, th>>] => offer[p].path \in nodes[p]
    BY <1>i DEF ProcInv, SnapHolds, Holds
  <2>. QED BY <1>4, <1>6, <2>1, <2>2 DEF Holds
<1>9. ElectedHolds(p)'
  <2>1. state'[p] = "ELECTED" => state[p] = "ELECTED" \/ offer[p].id \in snap[<<p, th>>]
    BY <1>t DEF Step, Determine, GetData, Decide, Exists, BecomeReady, BecomeFailed, SetState
  <2>2. p \in alive /\ (state[p] = "ELECTED" \/ offer[p].id \in snap[<<p, th>>]) =>
          offer[p].path \in nodes[p]
    BY <1>i DEF ProcInv, SnapHolds, ElectedHolds, Elected, Holds
  <2>. QED BY <1>4, <2>1, <2>2 DEF ElectedHolds, Elected, Holds
<1>. QED BY <1>i, <1>1, <1>2, <1>3, <1>5, <1>7, <1>8, <1>9, ThreadStep

LEMMA ExpireStep ==
  ASSUME LeaderInv, NEW p \in Proc, Expire(p), p \notin overlapped
  PROVE  ProcInv(p)'
<1>1. ProcInv(p) /\ p \notin alive' /\ UNCHANGED <<state, pc, snap>>
  BY DEF LeaderInv, Orderly, Expire, libVars
<1>. QED BY <1>1 DEF ProcInv, OneThread, SnapInUse, Deleting, SnapHolds, ElectedHolds

LEMMA LeaderStep == ASSUME LeaderInv, [Next]_vars PROVE LeaderInv'
<1>1. OrderInv'
  BY OrderStep DEF LeaderInv
<1>2. ASSUME NEW p \in Proc,
             \/ Start(p) \/ Stop(p) \/ CreateOffer(p) \/ DeleteOffer(p) \/ Process(p) \/ Expire(p)
             \/ \E th \in Thread : Step(p, th)
      PROVE  LeaderInv'
  <2>1. overlapped \subseteq overlapped'
    BY <1>2, OverlapGrows
  <2>2. ASSUME p \notin overlapped' PROVE ProcInv(p)'
    BY <1>2, <2>1, <2>2, EnteringStep, AppStep, LibraryStep, ExpireStep
  <2>3. p \in Orderly' => ProcInv(p)'
    BY <2>2 DEF Orderly
  <2>4. OrderInv
    BY DEF LeaderInv
  <2>. QED BY <1>1, <1>2, <2>1, <2>3, <2>4, Private, OthersKept
<1>3. CASE UNCHANGED vars
  <2>1. \A p \in Orderly' : ProcInv(p)'
    BY <1>3 DEF LeaderInv, Orderly, ProcInv, OneThread, SnapInUse, Deleting, SnapHolds, ElectedHolds,
                Holds, Elected, vars, zkVars, libVars
  <2>. QED BY <1>1, <2>1 DEF LeaderInv
<1>. QED BY Values, <1>2, <1>3 DEF Next, AppThread, EventThread

LEMMA LeaderAlways == Spec => []LeaderInv
<1>1. LeaderInv /\ [Next]_vars => LeaderInv'
  BY LeaderStep
<1>. QED BY <1>1, LeaderInit, PTL DEF Spec

\* Of the processes whose session lives and whose threads have not overlapped, at
\* most one is the leader.
THEOREM LeaderIsExclusive == Spec => []ExclusiveLeader
<1>1. Spec => []LeaderInv
  BY LeaderAlways
<1>. QED BY <1>1, OneLeader, PTL

-----------------------------------------------------------------------------
(* stop() revokes the offer: it does not end in STOP unless the offer is   *)
(* gone, and no other thread writes STOP or makes an offer.                *)

\* A process without an offer has no path, and one that makes an offer has one.
Unset(p) ==
  /\ ~offer[p].set => offer[p].path = None
  /\ pc[<<p, "app">>] = "create" => offer[p].set

\* A process in STOP that is not inside stop() does not hold its offer.
Revoked(p) == state[p] = "STOP" /\ pc[<<p, "app">>] = "idle" => ~Holds(p)

\* Of the calls of the user only stop() is inside the library in STOP.
StopInside(p) == state[p] = "STOP" => pc[<<p, "app">>] \in {"idle", "delete"}

Revoking(p) == Unset(p) /\ Revoked(p) /\ StopInside(p)

RevokeInv == OrderInv /\ \A p \in Proc : Revoking(p)

LEMMA RevokeUser ==
  ASSUME RevokeInv, NEW p \in Proc, Start(p) \/ Stop(p)
  PROVE  Revoking(p)'
<1>t. /\ nodes \in [Proc -> SUBSET Nat] /\ offer \in [Proc -> Offer]
      /\ state \in [Proc -> State] /\ pc \in [Proc \X Thread -> PC]
  BY OrderTypes DEF RevokeInv, OrderInv
<1>1. Revoking(p) /\ pc[<<p, "app">>] = "idle"
  BY DEF RevokeInv, Start, Stop, Enter
<1>2. CASE Start(p)
  <2>1. state'[p] # "STOP"
    BY <1>2, <1>t DEF Start, SetState
  <2>2. \/ offer'[p] = offer[p] /\ pc'[<<p, "app">>] = "idle"
        \/ offer'[p].set
    BY <1>1, <1>2, <1>t DEF Start, NewOffer
  <2>. QED BY <1>1, <2>1, <2>2 DEF Revoking, Unset, Revoked, StopInside
<1>3. CASE Stop(p)
  <2>1. UNCHANGED <<nodes, offer>>
    BY <1>3 DEF Stop, zkVars
  <2>2. IF offer[p].set THEN pc'[<<p, "app">>] = "delete" ELSE pc'[<<p, "app">>] = "idle"
    BY <1>1, <1>3, <1>t, Values DEF Stop, SetPC
  <2>3. ~offer[p].set => ~Holds(p)'
    BY <1>1, <1>t, <2>1 DEF Revoking, Unset, Holds, None
  <2>. QED BY <1>1, <2>1, <2>2, <2>3 DEF Revoking, Unset, Revoked, StopInside
<1>. QED BY <1>2, <1>3

LEMMA RevokeApp ==
  ASSUME RevokeInv, NEW p \in Proc, CreateOffer(p) \/ DeleteOffer(p)
  PROVE  Revoking(p)'
<1>t. /\ nodes \in [Proc -> SUBSET Nat] /\ offer \in [Proc -> Offer]
      /\ state \in [Proc -> State] /\ pc \in [Proc \X Thread -> PC]
  BY OrderTypes DEF RevokeInv, OrderInv
<1>1. Revoking(p)
  BY DEF RevokeInv
<1>2. CASE CreateOffer(p)
  <2>1. pc[<<p, "app">>] = "create" /\ state[p] # "STOP" /\ offer[p].set
    BY <1>1, <1>2 DEF CreateOffer, Revoking, Unset, StopInside
  <2>2. state'[p] # "STOP" /\ offer'[p].set
    BY <1>2, <1>t, <2>1 DEF CreateOffer, BecomeFailed, SetState, Offer
  <2>. QED BY <2>2 DEF Revoking, Unset, Revoked, StopInside
<1>3. CASE DeleteOffer(p)
  <2>1. pc'[<<p, "app">>] = "idle" /\ UNCHANGED offer
    BY <1>3, <1>t, Values DEF DeleteOffer, BecomeFailed, Return, SetPC
  <2>2. Unset(p)'
    BY <1>1, <2>1 DEF Revoking, Unset
  <2>3. CASE offer[p].path = None /\ UNCHANGED nodes
    BY <1>t, <2>1, <2>2, <2>3 DEF Revoking, Revoked, StopInside, Holds, None
  <2>4. CASE Remove({offer[p].path}, {})
    <3>1. offer[p].path \notin nodes'[p]
      BY <1>t, <2>4 DEF Remove
    <3>. QED BY <2>1, <2>2, <3>1 DEF Revoking, Revoked, StopInside, Holds
  <2>5. CASE BecomeFailed(p, "app")
    <3>1. state'[p] = "FAILED"
      BY <1>t, <2>5 DEF BecomeFailed, SetState
    <3>. QED BY <2>2, <3>1 DEF Revoking, Revoked, StopInside
  <2>. QED BY <1>3, <2>3, <2>4, <2>5 DEF DeleteOffer
<1>. QED BY <1>2, <1>3

\* No thread that determines the status writes STOP, whatever stop() does meanwhile.
LEMMA RevokeLibrary ==
  ASSUME RevokeInv, NEW p \in Proc, NEW th \in Thread, Step(p, th)
  PROVE  Revoking(p)'
<1>t. /\ nodes \in [Proc -> SUBSET Nat] /\ offer \in [Proc -> Offer]
      /\ state \in [Proc -> State] /\ pc \in [Proc \X Thread -> PC]
  BY OrderTypes DEF RevokeInv, OrderInv
<1>1. Revoking(p)
  BY DEF RevokeInv
<1>2. /\ UNCHANGED nodes
      /\ offer'[p].path = offer[p].path /\ offer'[p].set = offer[p].set
  BY <1>t DEF Step, Determine, GetData, Decide, Exists, BecomeReady, zkVars, Offer
<1>3. /\ pc[<<p, th>>] \in {"determine", "getData", "exists", "ready"}
      /\ pc'[<<p, th>>] # "create"
  BY <1>t DEF Step, Determine, GetData, Decide, Exists, BecomeReady, BecomeFailed, Return, SetPC
<1>4. \A u \in Thread : u # th => pc'[<<p, u>>] = pc[<<p, u>>]
  BY <1>t DEF Step, Determine, GetData, Decide, Exists, BecomeReady, BecomeFailed, Return, SetPC
<1>5. state'[p] = "STOP" => state[p] = "STOP"
  BY <1>t DEF Step, Determine, GetData, Decide, Exists, BecomeReady, BecomeFailed, SetState
<1>6. Unset(p)'
  BY <1>1, <1>2, <1>3, <1>4, Values DEF Revoking, Unset
<1>7. state'[p] = "STOP" => pc'[<<p, "app">>] = pc[<<p, "app">>]
  BY <1>1, <1>3, <1>4, <1>5, Values DEF Revoking, StopInside
<1>. QED BY <1>1, <1>2, <1>5, <1>6, <1>7 DEF Revoking, Revoked, StopInside, Holds

LEMMA RevokeStep == ASSUME RevokeInv, [Next]_vars PROVE RevokeInv'
<1>1. OrderInv /\ OrderInv'
  BY OrderStep DEF RevokeInv
<1>t. nodes \in [Proc -> SUBSET Nat] /\ pc \in [Proc \X Thread -> PC]
  BY <1>1, OrderTypes DEF OrderInv
<1>2. ASSUME NEW p \in Proc,
             \/ Start(p) \/ Stop(p) \/ CreateOffer(p) \/ DeleteOffer(p) \/ Process(p) \/ Expire(p)
             \/ \E th \in Thread : Step(p, th)
      PROVE  RevokeInv'
  <2>2. Revoking(p)' \/ Process(p) \/ Expire(p)
    BY <1>2, RevokeUser, RevokeApp, RevokeLibrary
  <2>3. ASSUME NEW q \in Proc, q # p PROVE Revoking(q)'
    <3>1. /\ nodes'[q] = nodes[q] /\ offer'[q] = offer[q] /\ state'[q] = state[q]
          /\ pc'[<<q, "app">>] = pc[<<q, "app">>]
      BY <1>1, <1>2, <2>3, Private, Values
    <3>. QED BY <3>1 DEF RevokeInv, Revoking, Unset, Revoked, StopInside, Holds
  <2>4. Process(p) \/ Expire(p) => Revoking(p)'
    <3> SUFFICES ASSUME Process(p) \/ Expire(p) PROVE Revoking(p)'
      OBVIOUS
    <3>1. UNCHANGED <<state, offer>> /\ nodes'[p] \subseteq nodes[p]
      BY <1>t DEF Process, Expire, Remove, libVars
    <3>2. pc'[<<p, "app">>] = pc[<<p, "app">>]
      BY <1>t, Values DEF Process, Expire, libVars, SetPC
    <3>. QED BY <3>1, <3>2 DEF RevokeInv, Revoking, Unset, Revoked, StopInside, Holds
  <2>. QED BY <1>1, <2>2, <2>3, <2>4 DEF RevokeInv
<1>3. CASE UNCHANGED vars
  BY <1>1, <1>3 DEF vars, zkVars, libVars, RevokeInv, Revoking, Unset, Revoked, StopInside, Holds
<1>. QED BY Values, <1>2, <1>3 DEF Next, AppThread, EventThread

\* Once stop() has returned in STOP, the offer is gone, with process() running at any
\* time, and whatever calls fail: no process is stopped and still first in line.
THEOREM StopRevokesOffer == Spec => []StopRevokes
<1>1. Init => RevokeInv
  <2> SUFFICES ASSUME Init, NEW p \in Proc PROVE Revoking(p)
    BY OrderInit DEF RevokeInv
  <2>1. offer[p] = NoOffer /\ nodes[p] = {} /\ pc[<<p, "app">>] = "idle"
    BY Values DEF Init
  <2>. QED BY <2>1 DEF Revoking, Unset, Revoked, StopInside, Holds, NoOffer
<1>2. RevokeInv /\ [Next]_vars => RevokeInv'
  BY RevokeStep
<1>3. RevokeInv => StopRevokes
  BY DEF RevokeInv, Revoking, Revoked, StopRevokes
<1>. QED BY <1>1, <1>2, <1>3, PTL DEF Spec

-----------------------------------------------------------------------------
(* No wake-up is lost.  The neighbour a thread stands behind was the last  *)
(* offer before its own when the children were read; offers made since     *)
(* have higher numbers, so nothing can ever stand between the two.         *)

\* All that stands before the offer of p is n and what n stands behind.
Behind(p, n) ==
  /\ n \in Nat
  /\ n < offer[p].path
  /\ \A q \in Proc : \A o \in nodes[q] : o < offer[p].path => o <= n

\* ZooKeeper will notify p of the end of n, or has done so.
Told(p, n) == n \in watch[p] \cup events[p]

\* A thread that reads data is in DETERMINE; one that goes on to be READY stands
\* behind a neighbour, which it watches when it has called exists().
Waking(p) ==
  \A th \in Thread :
    /\ pc[<<p, th>>] = "getData" => state[p] # "READY"
    /\ Holds(p) /\ pc[<<p, th>>] \in {"exists", "ready"} => Behind(p, neighbour[<<p, th>>])
    /\ Holds(p) /\ pc[<<p, th>>] = "ready" => Told(p, neighbour[<<p, th>>])

\* A process that rests in READY is told of the end of its neighbour.
Resting(p) ==
  Holds(p) /\ state[p] = "READY" /\ Quiet(p) => \E n \in watch[p] \cup events[p] : Behind(p, n)

WatchLive == \A p \in Proc : \A w \in watch[p] : \E q \in Proc : w \in nodes[q]

WakeInv == LeaderInv /\ WatchLive /\ \A p \in Orderly : Waking(p) /\ Resting(p)

LEMMA WakeTypes ==
  ASSUME WakeInv
  PROVE  /\ nodes \in [Proc -> SUBSET Nat] /\ nextId \in Nat
         /\ state \in [Proc -> State] /\ offer \in [Proc -> Offer]
         /\ pc \in [Proc \X Thread -> PC] /\ snap \in [Proc \X Thread -> SUBSET Nat]
         /\ watch \in [Proc -> SUBSET Nat] /\ events \in [Proc -> SUBSET Nat]
         /\ neighbour \in [Proc \X Thread -> Nat \cup {None}]
BY DEF WakeInv, LeaderInv, OrderInv, TypeOK

\* Offers are made with the next number.
LEMMA NodesStep ==
  ASSUME WakeInv, [Next]_vars
  PROVE  \A q \in Proc : \A o \in nodes'[q] : o \in nodes[q] \/ o = nextId
<1>t. nodes \in [Proc -> SUBSET Nat]
  BY WakeTypes
<1>1. ASSUME NEW p \in Proc, NEW q \in Proc, CreateOffer(p)
      PROVE  nodes'[q] \subseteq nodes[q] \cup {nextId}
  BY <1>1, <1>t DEF CreateOffer
<1>2. ASSUME NEW p \in Proc, NEW q \in Proc, Expire(p) \/ DeleteOffer(p)
      PROVE  nodes'[q] \subseteq nodes[q]
  BY <1>2, <1>t DEF Expire, DeleteOffer, Remove
<1>3. ASSUME NEW p \in Proc, \/ Start(p) \/ Stop(p) \/ Process(p)
                             \/ \E th \in Thread : Step(p, th)
      PROVE  UNCHANGED nodes
  BY <1>3 DEF Start, Stop, Process, Step, Determine, GetData, Decide, Exists, BecomeReady, zkVars
<1>4. CASE UNCHANGED vars
  BY <1>4 DEF vars, zkVars
<1>. QED BY Values, <1>1, <1>2, <1>3, <1>4 DEF Next, AppThread, EventThread

\* A watched offer is one that is there: what is removed is watched no more.
LEMMA WatchStep ==
  ASSUME WakeInv, [Next]_vars
  PROVE  WatchLive'
<1>t. nodes \in [Proc -> SUBSET Nat] /\ watch \in [Proc -> SUBSET Nat]
  BY WakeTypes
<1>w. \A q \in Proc : \A w \in watch[q] : \E r \in Proc : w \in nodes[r]
  BY DEF WakeInv, WatchLive
<1>1. ASSUME NEW gone, NEW dead, Remove(gone, dead) PROVE WatchLive'
  <2> SUFFICES ASSUME NEW q \in Proc, NEW w \in watch'[q]
               PROVE  \E r \in Proc : w \in nodes'[r]
    BY DEF WatchLive
  <2>1. w \in watch[q] /\ w \notin gone
    BY <1>1, <1>t DEF Remove
  <2>2. PICK r \in Proc : w \in nodes[r]
    BY <1>w, <2>1
  <2>. QED BY <1>1, <1>t, <2>1, <2>2 DEF Remove
<1>2. CASE UNCHANGED <<nodes, watch>>
  BY <1>2 DEF WakeInv, WatchLive
<1>3. ASSUME NEW p \in Proc, CreateOffer(p) PROVE WatchLive'
  <2>1. watch' = watch /\ \A q \in Proc : nodes[q] \subseteq nodes'[q]
    BY <1>3, <1>t DEF CreateOffer
  <2>. QED BY <1>w, <2>1 DEF WatchLive
<1>4. ASSUME NEW p \in Proc, NEW th \in Thread, Exists(p, th) PROVE WatchLive'
  <2>1. nodes' = nodes
    BY <1>4 DEF Exists
  <2>2. ASSUME NEW q \in Proc, NEW w \in watch'[q] PROVE w \in watch[q] \/ w \in live
    BY <1>4, <1>t, <2>2 DEF Exists
  <2>3. \A w \in live : \E r \in Proc : w \in nodes[r]
    BY DEF live
  <2>. QED BY <1>w, <2>1, <2>2, <2>3 DEF WatchLive
<1>5. ASSUME NEW p \in Proc, Expire(p) PROVE WatchLive'
  BY <1>1, <1>5 DEF Expire
<1>6. ASSUME NEW p \in Proc, DeleteOffer(p) PROVE WatchLive'
  BY <1>1, <1>2, <1>6 DEF DeleteOffer
<1>7. ASSUME NEW p \in Proc, Start(p) \/ Stop(p) \/ Process(p)
      PROVE  UNCHANGED <<nodes, watch>>
  BY <1>7 DEF Start, Stop, Process, zkVars
<1>8. ASSUME NEW p \in Proc, NEW th \in Thread,
             Determine(p, th) \/ GetData(p, th) \/ Decide(p, th) \/ BecomeReady(p, th)
      PROVE  UNCHANGED <<nodes, watch>>
  BY <1>8 DEF Determine, GetData, Decide, BecomeReady, zkVars
<1>9. CASE UNCHANGED vars
  BY <1>2, <1>9 DEF vars, zkVars
<1>. QED BY Values, <1>2, <1>3, <1>4, <1>5, <1>6, <1>7, <1>8, <1>9 DEF Next, AppThread, EventThread, Step

\* A process that takes no step, and does not get its offer back, stays behind its
\* neighbour.
LEMMA WakeKept ==
  ASSUME WakeInv, NEW q \in Proc, q \notin overlapped, [Next]_vars,
         state'[q] = state[q], offer'[q] = offer[q], nodes'[q] \subseteq nodes[q],
         \A th \in Thread : /\ pc'[<<q, th>>] = pc[<<q, th>>]
                            /\ neighbour'[<<q, th>>] = neighbour[<<q, th>>],
         Holds(q)' => watch[q] \cup events[q] \subseteq watch'[q] \cup events'[q]
  PROVE  Waking(q)' /\ Resting(q)'
<1>1. Holds(q)' => Holds(q)
  BY DEF Holds
<1>2. Quiet(q)' => Quiet(q)
  BY DEF Quiet
<1>3. offer[q].path < nextId /\ offer[q].path \in Nat \cup {None} /\ nextId \in Nat
  BY WakeTypes DEF WakeInv, LeaderInv, OrderInv, Numbering, Offer
<1>4. \A n : Behind(q, n) => Behind(q, n)'
  <2> SUFFICES ASSUME NEW n, Behind(q, n), NEW r \in Proc, NEW o \in nodes'[r],
                      o < offer[q].path
               PROVE  o <= n
    BY DEF Behind
  <2>1. ~(nextId < offer[q].path)
    BY <1>3 DEF None
  <2>2. o \in nodes[r]
    BY <2>1, NodesStep
  <2>. QED BY <2>2 DEF Behind
<1>5. Waking(q)'
  BY <1>1, <1>4 DEF WakeInv, Orderly, Waking, Told
<1>6. Resting(q)'
  BY <1>1, <1>2, <1>4 DEF WakeInv, Orderly, Resting
<1>. QED BY <1>5, <1>6

\* What the steps of p do to the neighbours, watches and notifications of others.
LEMMA WakePrivate ==
  ASSUME WakeInv, NEW p \in Proc,
         \/ Start(p) \/ Stop(p) \/ CreateOffer(p) \/ DeleteOffer(p) \/ Process(p) \/ Expire(p)
         \/ \E th \in Thread : Step(p, th),
         NEW q \in Proc, q # p
  PROVE  /\ \A th \in Thread : neighbour'[<<q, th>>] = neighbour[<<q, th>>]
         /\ watch[q] \cup events[q] \subseteq watch'[q] \cup events'[q]
<1>t. /\ watch \in [Proc -> SUBSET Nat] /\ events \in [Proc -> SUBSET Nat]
      /\ neighbour \in [Proc \X Thread -> Nat \cup {None}]
  BY WakeTypes
<1>1. ASSUME NEW th \in Thread PROVE neighbour'[<<q, th>>] = neighbour[<<q, th>>]
  BY <1>t DEF Start, Stop, CreateOffer, DeleteOffer, Process, Expire, Step, Determine,
              GetData, Decide, Exists, BecomeReady, libVars, BecomeFailed, Return, locals
<1>s. SUFFICES watch[q] \cup events[q] \subseteq watch'[q] \cup events'[q]
  BY <1>1
<1>2. ASSUME NEW gone, NEW dead, q \notin dead, Remove(gone, dead)
      PROVE  watch[q] \cup events[q] \subseteq watch'[q] \cup events'[q]
  BY <1>2, <1>t DEF Remove
<1>3. CASE Expire(p) \/ DeleteOffer(p)
  BY <1>2, <1>3 DEF Expire, DeleteOffer
<1>4. CASE Process(p)
  BY <1>4, <1>t DEF Process
<1>5. CASE \/ Start(p) \/ Stop(p) \/ CreateOffer(p)
           \/ \E th \in Thread : Determine(p, th) \/ GetData(p, th) \/ Decide(p, th) \/ BecomeReady(p, th)
  BY <1>5 DEF Start, Stop, CreateOffer, Determine, GetData, Decide, BecomeReady, zkVars
<1>6. ASSUME NEW th \in Thread, Exists(p, th)
      PROVE  watch[q] \cup events[q] \subseteq watch'[q] \cup events'[q]
  BY <1>6, <1>t DEF Exists
<1>. QED BY <1>3, <1>4, <1>5, <1>6 DEF Step

LEMMA WakeEntering ==
  ASSUME WakeInv, NEW p \in Proc, Start(p) \/ Stop(p) \/ Process(p), p \notin overlapped'
  PROVE  Waking(p)' /\ Resting(p)'
<1>t. /\ state \in [Proc -> State] /\ pc \in [Proc \X Thread -> PC]
      /\ events \in [Proc -> SUBSET Nat] /\ offer \in [Proc -> Offer]
  BY WakeTypes
<1>1. \A u \in Thread : pc[<<p, u>>] = "idle"
  BY DEF Start, Stop, Process, Enter
<1>2. \A u \in Thread : pc'[<<p, u>>] \in {"idle", "create", "determine", "delete"}
  BY <1>1, <1>t, Values DEF Start, Stop, Process, SetPC
<1>3. Waking(p)'
  BY <1>2 DEF Waking
<1>4. CASE Start(p) \/ Stop(p)
  <2>1. state'[p] # "READY"
    BY <1>4, <1>t DEF Start, Stop, SetState
  <2>. QED BY <1>3, <2>1 DEF Resting
<1>5. CASE Process(p)
  <2> SUFFICES ASSUME Holds(p)', state'[p] = "READY", Quiet(p)'
               PROVE  \E n \in watch'[p] \cup events'[p] : Behind(p, n)'
    BY <1>3 DEF Resting
  <2>1. UNCHANGED <<nodes, watch, state, offer>>
    BY <1>5 DEF Process
  <2>2. PICK n \in watch[p] \cup events[p] : Behind(p, n)
    BY <1>1, <2>1, OverlapGrows DEF WakeInv, Orderly, Resting, Holds, Quiet
  <2>3. PICK o \in events[p] : /\ events' = [events EXCEPT ![p] = @ \ {o}]
                               /\ o # offer[p].path /\ state[p] # "STOP" =>
                                    SetPC(p, "event", "determine")
    BY <1>5 DEF Process
  <2>4. pc'[<<p, "event">>] = "idle"
    BY Values DEF Quiet
  <2>5. o = offer[p].path
    BY <1>t, <2>1, <2>3, <2>4, Values DEF SetPC
  <2>6. n # o
    BY <2>2, <2>5 DEF Behind
  <2>7. n \in watch'[p] \cup events'[p]
    BY <1>t, <2>1, <2>2, <2>3, <2>6
  <2>8. Behind(p, n)'
    BY <2>1, <2>2 DEF Behind
  <2>. QED BY <2>7, <2>8
<1>. QED BY <1>4, <1>5

LEMMA WakeApp ==
  ASSUME WakeInv, NEW p \in Proc, CreateOffer(p) \/ DeleteOffer(p), p \notin overlapped
  PROVE  Waking(p)' /\ Resting(p)'
<1>t. state \in [Proc -> State] /\ pc \in [Proc \X Thread -> PC]
  BY WakeTypes
<1>1. pc[<<p, "app">>] \in {"create", "delete"} /\ pc[<<p, "event">>] = "idle"
  BY Values DEF CreateOffer, DeleteOffer, WakeInv, LeaderInv, Orderly, ProcInv, OneThread
<1>2. \/ pc'[<<p, "app">>] = "determine"
      \/ pc'[<<p, "app">>] = "idle" /\ state'[p] # "READY"
  <2>1. CASE CreateOffer(p)
    BY <2>1, <1>t, Values DEF CreateOffer, BecomeFailed, Return, SetPC, SetState
  <2>2. CASE DeleteOffer(p)
    <3>1. state[p] = "STOP"
      BY <2>2 DEF DeleteOffer, WakeInv, LeaderInv, Orderly, ProcInv, Deleting
    <3>. QED BY <2>2, <3>1, <1>t, Values DEF DeleteOffer, BecomeFailed, Return, SetPC, SetState
  <2>. QED BY <2>1, <2>2
<1>3. pc'[<<p, "event">>] = "idle"
  BY <1>1, <1>t, Values DEF CreateOffer, DeleteOffer, BecomeFailed, Return, SetPC
<1>4. Waking(p)'
  BY <1>2, <1>3 DEF Waking, Thread
<1>5. Resting(p)'
  BY <1>2, Values DEF Resting, Quiet
<1>. QED BY <1>4, <1>5

LEMMA WakeLibrary ==
  ASSUME WakeInv, NEW p \in Proc, NEW th \in Thread, Step(p, th), p \notin overlapped
  PROVE  Waking(p)' /\ Resting(p)'
<1>t. /\ nodes \in [Proc -> SUBSET Nat] /\ offer \in [Proc -> Offer]
      /\ state \in [Proc -> State] /\ pc \in [Proc \X Thread -> PC]
      /\ snap \in [Proc \X Thread -> SUBSET Nat]
      /\ watch \in [Proc -> SUBSET Nat] /\ events \in [Proc -> SUBSET Nat]
      /\ neighbour \in [Proc \X Thread -> Nat \cup {None}]
  BY WakeTypes
<1>i. Waking(p)
  BY DEF WakeInv, Orderly
<1> DEFINE t == <<p, th>>
<1>n. t \in Proc \X Thread
  OBVIOUS
<1>1. pc[t] # "idle"
  BY DEF Step, Determine, GetData, Decide, Exists, BecomeReady
<1>2. \A u \in Thread : u # th => pc'[<<p, u>>] = "idle"
  <2>1. \A u \in Thread : u # th => pc[<<p, u>>] = "idle"
    BY <1>1 DEF WakeInv, LeaderInv, Orderly, ProcInv, OneThread
  <2>2. \A u \in Thread : u # th => pc'[<<p, u>>] = pc[<<p, u>>]
    BY <1>t DEF Step, Determine, GetData, Decide, Exists, BecomeReady, BecomeFailed, Return, SetPC
  <2>. QED BY <2>1, <2>2
<1>3. UNCHANGED nodes /\ offer'[p].path = offer[p].path
  BY <1>t DEF Step, Determine, GetData, Decide, Exists, BecomeReady, zkVars, Offer
<1>4. \A n : Behind(p, n) => Behind(p, n)'
  BY <1>3 DEF Behind
\* A thread that leaves the library, or goes back, leaves nothing to show,
<1>5. CASE \/ pc'[t] = "idle" /\ state'[p] # "READY"
           \/ pc'[t] = "determine"
           \/ pc'[t] = "getData" /\ state'[p] # "READY"
  <2>1. Waking(p)'
    BY <1>2, <1>5 DEF Waking
  <2>2. Resting(p)'
    BY <1>5 DEF Resting, Quiet
  <2>. QED BY <2>1, <2>2
\* a thread that has found its neighbour stands behind it,
<1>6. CASE /\ pc'[t] \in {"exists", "ready"}
           /\ Holds(p)' => Behind(p, neighbour[t])'
           /\ Holds(p)' /\ pc'[t] = "ready" => Told(p, neighbour[t])'
  <2>1. Waking(p)'
    BY <1>2, <1>6 DEF Waking
  <2>2. Resting(p)'
    BY <1>6 DEF Resting, Quiet
  <2>. QED BY <2>1, <2>2
<1>7. CASE Determine(p, th)
  <2>1. pc'[t] = "idle" \/ pc'[t] = "getData"
    BY <1>7, <1>t, <1>n DEF Determine, BecomeFailed, Return, SetPC
  <2>2. state'[p] # "READY"
    BY <1>7, <1>t DEF Determine, BecomeFailed, SetState
  <2>. QED BY <1>5, <2>1, <2>2
<1>8. CASE GetData(p, th)
  <2>1. pc[t] = "getData" /\ state[p] # "READY"
    BY <1>8, <1>i DEF GetData, Waking
  <2>2. \/ UNCHANGED <<pc, state>>
        \/ BecomeFailed(p, th)
    BY <1>8 DEF GetData
  <2>3. BecomeFailed(p, th) => pc'[t] = "idle" /\ state'[p] = "FAILED"
    BY <1>t, <1>n DEF BecomeFailed, Return, SetPC, SetState
  <2>. QED BY <1>5, <2>1, <2>2, <2>3
<1>9. CASE Decide(p, th)
  <2>1. pc[t] = "getData" /\ state[p] # "READY"
    BY <1>9, <1>i DEF Decide, Waking
  <2>2. CASE Return(p, th)
    <3>1. pc'[t] = "idle" /\ state'[p] # "READY"
      BY <1>9, <2>1, <2>2, <1>t, <1>n DEF Decide, Return, SetPC, SetState
    <3>. QED BY <1>5, <3>1
  <2>3. CASE /\ offer[p].id \in snap[t]
             /\ \E n \in snap[t] : /\ IsNeighbour(n, snap[t], offer[p].id)
                                   /\ neighbour' = [neighbour EXCEPT ![t] = n]
             /\ SetPC(p, th, "exists")
    <3>1. PICK n \in snap[t] : /\ IsNeighbour(n, snap[t], offer[p].id)
                               /\ neighbour' = [neighbour EXCEPT ![t] = n]
      BY <2>3
    <3>2. offer[p].id = offer[p].path
      BY <1>t, <2>3 DEF WakeInv, LeaderInv, OrderInv, IdIsPath, None
    <3>3. \A q \in Proc : \A o \in nodes[q] : o < offer[p].path => o \in snap[t]
      BY <1>n, <2>3, <3>2 DEF WakeInv, LeaderInv, OrderInv, SnapClosed
    <3>4. Behind(p, n)
      BY <1>t, <1>n, <3>1, <3>2, <3>3 DEF Behind, IsNeighbour, Before
    <3>5. pc'[t] = "exists" /\ neighbour'[t] = n
      BY <1>t, <1>n, <2>3, <3>1 DEF SetPC
    <3>6. Behind(p, neighbour[t])'
      BY <1>4, <3>4, <3>5 DEF Behind
    <3>. QED BY <1>6, <3>5, <3>6
  <2>. QED BY <1>9, <2>2, <2>3 DEF Decide
<1>10. CASE Exists(p, th)
  <2>1. pc[t] = "exists" /\ (Holds(p) => Behind(p, neighbour[t]))
    BY <1>10, <1>i DEF Exists, Waking
  <2>2. CASE /\ watch' = [watch EXCEPT ![p] = @ \cup {neighbour[t]}]
             /\ SetPC(p, th, "ready") /\ UNCHANGED locals
    <3>1. pc'[t] = "ready" /\ neighbour'[t] = neighbour[t]
      BY <1>t, <1>n, <2>2 DEF SetPC, locals
    <3>2. neighbour[t] \in watch'[p]
      BY <1>t, <2>2
    <3>3. Told(p, neighbour[t])'
      BY <3>1, <3>2 DEF Told, locals
    <3>4. Holds(p)' => Behind(p, neighbour[t])'
      BY <1>3, <2>1, <3>1 DEF Holds, Behind
    <3>. QED BY <1>6, <3>1, <3>3, <3>4
  <2>3. CASE SetPC(p, th, "determine")
    BY <1>5, <1>t, <1>n, <2>3 DEF SetPC
  <2>4. CASE BecomeFailed(p, th)
    <3>1. pc'[t] = "idle" /\ state'[p] = "FAILED"
      BY <1>t, <1>n, <2>4 DEF BecomeFailed, Return, SetPC, SetState
    <3>. QED BY <1>5, <3>1
  <2>. QED BY <1>10, <2>2, <2>3, <2>4 DEF Exists
\* and one that becomes READY leaves it to ZooKeeper.
<1>11. CASE BecomeReady(p, th)
  <2>1. pc[t] = "ready" /\ pc'[t] = "idle" /\ UNCHANGED <<watch, events>>
    BY <1>11, <1>t, <1>n DEF BecomeReady, Return, SetPC, zkVars
  <2>2. Waking(p)'
    BY <1>2, <2>1 DEF Waking
  <2>3. Holds(p) => Behind(p, neighbour[t]) /\ neighbour[t] \in watch[p] \cup events[p]
    BY <1>i, <2>1 DEF Waking, Told
  <2>4. Resting(p)'
    BY <1>3, <1>4, <2>1, <2>3 DEF Resting, Holds
  <2>. QED BY <2>2, <2>4
<1>. QED BY <1>7, <1>8, <1>9, <1>10, <1>11 DEF Step

LEMMA WakeStep ==
  ASSUME WakeInv, [Next]_vars
  PROVE  WakeInv'
<1>1. LeaderInv' /\ WatchLive'
  BY LeaderStep, WatchStep DEF WakeInv
<1>2. ASSUME NEW p \in Proc,
             \/ Start(p) \/ Stop(p) \/ CreateOffer(p) \/ DeleteOffer(p) \/ Process(p) \/ Expire(p)
             \/ \E th \in Thread : Step(p, th)
      PROVE  \A q \in Orderly' : Waking(q)' /\ Resting(q)'
  <2>o. overlapped \subseteq overlapped'
    BY <1>2, OverlapGrows
  <2>1. ASSUME NEW q \in Proc, q \notin overlapped', q # p PROVE Waking(q)' /\ Resting(q)'
    <3>1. /\ nodes'[q] = nodes[q] /\ offer'[q] = offer[q] /\ state'[q] = state[q]
          /\ \A th \in Thread : pc'[<<q, th>>] = pc[<<q, th>>]
      BY <1>2, <2>1, Private DEF WakeInv, LeaderInv
    <3>2. /\ \A th \in Thread : neighbour'[<<q, th>>] = neighbour[<<q, th>>]
          /\ watch[q] \cup events[q] \subseteq watch'[q] \cup events'[q]
      BY <1>2, <2>1, WakePrivate
    <3>. QED BY <2>1, <2>o, <3>1, <3>2, WakeKept
  <2>2. CASE Expire(p)
    <3>1. ~Holds(p)'
      BY <2>2, WakeTypes DEF Expire, Remove, libVars, Holds
    <3>2. nodes'[p] \subseteq nodes[p] /\ UNCHANGED <<offer, state, pc, neighbour>>
      BY <2>2, WakeTypes DEF Expire, Remove, libVars
    <3>3. p \notin overlapped' => Waking(p)' /\ Resting(p)'
      BY <2>o, <3>1, <3>2, WakeKept
    <3>. QED BY <2>1, <3>3 DEF Orderly
  <2>3. CASE ~Expire(p)
    <3>1. p \notin overlapped' => Waking(p)' /\ Resting(p)'
      BY <1>2, <2>o, <2>3, WakeEntering, WakeApp, WakeLibrary
    <3>. QED BY <2>1, <3>1 DEF Orderly
  <2>. QED BY <2>2, <2>3
<1>3. CASE UNCHANGED vars
  <2>1. ASSUME NEW q \in Orderly' PROVE Waking(q)' /\ Resting(q)'
    BY <1>3, WakeKept DEF vars, zkVars, libVars, Orderly
  <2>. QED BY <1>1, <2>1 DEF WakeInv
<1>4. (\A q \in Orderly' : Waking(q)' /\ Resting(q)') => WakeInv'
  BY <1>1 DEF WakeInv
<1>. QED BY Values, <1>2, <1>3, <1>4 DEF Next, AppThread, EventThread

\* A process that rests behind other offers watches the one just before its own, or
\* will be sent back to the determination, unless its threads have overlapped.
THEOREM WakeupsArrive == Spec => []NoLostWakeup
<1>1. Init => WakeInv
  <2> SUFFICES ASSUME Init PROVE WakeInv
    OBVIOUS
  <2>1. WatchLive
    BY DEF Init, WatchLive
  <2>2. \A p \in Proc : Waking(p) /\ Resting(p)
    BY DEF Init, Waking, Resting
  <2>. QED BY <2>1, <2>2, LeaderInit DEF WakeInv, Orderly
<1>2. WakeInv /\ [Next]_vars => WakeInv'
  BY WakeStep
<1>3. WakeInv => NoLostWakeup
  <2> SUFFICES ASSUME WakeInv, NEW p \in Orderly, state[p] = "READY", Holds(p), Quiet(p)
               PROVE  \/ \E w \in watch[p] : IsNeighbour(w, live, offer[p].path)
                      \/ \E o \in events[p] : o # offer[p].path
    BY DEF NoLostWakeup
  <2>0. p \in Proc
    BY DEF Orderly
  <2>1. PICK n \in watch[p] \cup events[p] : Behind(p, n)
    BY DEF WakeInv, Resting
  <2>2. n # offer[p].path
    BY <2>1 DEF Behind
  <2>3. ASSUME n \in watch[p] PROVE IsNeighbour(n, live, offer[p].path)
    <3>1. n \in live
      BY <2>0, <2>3 DEF WakeInv, WatchLive, live
    <3>2. \A o \in live : o < offer[p].path => o <= n
      BY <2>1 DEF Behind, live
    <3>. QED BY <2>1, <3>1, <3>2 DEF IsNeighbour, Before, Behind
  <2>. QED BY <2>1, <2>2, <2>3
<1>. QED BY <1>1, <1>2, <1>3, PTL DEF Spec

-----------------------------------------------------------------------------
(* A leader keeps its office in its first round: it watches nothing, since *)
(* it watched one offer at a time, whose notification is gone when the     *)
(* next determination runs.                                                *)

\* What p waits for in ZooKeeper.
Awaited(p) == watch[p] \cup events[p]

\* Before its first start() a process does nothing,
Untouched(p) ==
  starts[p] = 0 =>
    Awaited(p) = {} /\ ~offer[p].set /\ \A th \in Thread : pc[<<p, th>>] = "idle"

\* in the first round it awaits one offer at most, none while it determines its place,
\* and none when it is elected,
FirstRound(p) ==
  starts[p] \in {0, 1} =>
    /\ \A a, b \in Awaited(p) : a = b
    /\ watch[p] \cap events[p] = {}
    /\ Elected(p) => Awaited(p) = {}
    /\ \A th \in Thread : pc[<<p, th>>] \in {"create", "determine", "getData", "exists"} =>
         Awaited(p) = {} /\ ~Elected(p)

\* and what follows the determination happens in the state DETERMINE.
Determining(p) ==
  \A th \in Thread : pc[<<p, th>>] \in {"getData", "exists", "ready"} => state[p] = "DETERMINE"

OfficeInv ==
  LeaderInv /\ \A p \in Orderly : Untouched(p) /\ FirstRound(p) /\ Determining(p)

LEMMA OfficeTypes ==
  ASSUME OfficeInv
  PROVE  /\ nodes \in [Proc -> SUBSET Nat] /\ starts \in [Proc -> Nat]
         /\ state \in [Proc -> State] /\ offer \in [Proc -> Offer]
         /\ pc \in [Proc \X Thread -> PC]
         /\ watch \in [Proc -> SUBSET Nat] /\ events \in [Proc -> SUBSET Nat]
BY DEF OfficeInv, LeaderInv, OrderInv, TypeOK

\* A notification replaces a watch.
LEMMA RemoveAwaited ==
  ASSUME OfficeInv, NEW q \in Proc, NEW gone, NEW dead, Remove(gone, dead)
  PROVE  /\ Awaited(q)' \subseteq Awaited(q)
         /\ watch[q] \cap events[q] = {} => watch'[q] \cap events'[q] = {}
BY OfficeTypes DEF Remove, Awaited

\* A process that takes no step.
LEMMA OfficeKept ==
  ASSUME OfficeInv, NEW q \in Proc, q \notin overlapped,
         state'[q] = state[q], offer'[q] = offer[q], starts'[q] = starts[q],
         \A th \in Thread : pc'[<<q, th>>] = pc[<<q, th>>],
         Awaited(q)' \subseteq Awaited(q),
         watch[q] \cap events[q] = {} => watch'[q] \cap events'[q] = {}
  PROVE  Untouched(q)' /\ FirstRound(q)' /\ Determining(q)'
<1>1. Untouched(q) /\ FirstRound(q) /\ Determining(q)
  BY DEF OfficeInv, Orderly
<1>2. Untouched(q)'
  BY <1>1 DEF Untouched
<1>3. FirstRound(q)'
  BY <1>1 DEF FirstRound, Elected
<1>4. Determining(q)'
  BY <1>1 DEF Determining
<1>. QED BY <1>2, <1>3, <1>4

LEMMA OfficePrivate ==
  ASSUME OfficeInv, NEW p \in Proc,
         \/ Start(p) \/ Stop(p) \/ CreateOffer(p) \/ DeleteOffer(p) \/ Process(p) \/ Expire(p)
         \/ \E th \in Thread : Step(p, th),
         NEW q \in Proc, q # p
  PROVE  /\ starts'[q] = starts[q]
         /\ Awaited(q)' \subseteq Awaited(q)
         /\ watch[q] \cap events[q] = {} => watch'[q] \cap events'[q] = {}
<1>t. /\ starts \in [Proc -> Nat]
      /\ watch \in [Proc -> SUBSET Nat] /\ events \in [Proc -> SUBSET Nat]
  BY OfficeTypes
<1>1. starts'[q] = starts[q]
  BY <1>t DEF Start, Stop, CreateOffer, DeleteOffer, Process, Expire, Step, Determine,
              GetData, Decide, Exists, BecomeReady, envVars
<1>s. SUFFICES /\ Awaited(q)' \subseteq Awaited(q)
               /\ watch[q] \cap events[q] = {} => watch'[q] \cap events'[q] = {}
  BY <1>1
<1>2. CASE \E gone, dead : Remove(gone, dead)
  BY <1>2, RemoveAwaited
<1>3. CASE UNCHANGED <<watch, events>>
  BY <1>3 DEF Awaited
<1>4. CASE Expire(p) \/ DeleteOffer(p)
  BY <1>2, <1>3, <1>4 DEF Expire, DeleteOffer
<1>5. CASE Process(p)
  BY <1>5, <1>t DEF Process, Awaited
<1>6. CASE \/ Start(p) \/ Stop(p) \/ CreateOffer(p)
           \/ \E th \in Thread : Determine(p, th) \/ GetData(p, th) \/ Decide(p, th) \/ BecomeReady(p, th)
  BY <1>3, <1>6 DEF Start, Stop, CreateOffer, Determine, GetData, Decide, BecomeReady, zkVars
<1>7. CASE \E th \in Thread : Exists(p, th)
  <2>1. watch'[q] = watch[q] /\ events'[q] = events[q]
    BY <1>7, <1>t DEF Exists
  <2>. QED BY <2>1 DEF Awaited
<1>. QED BY <1>4, <1>5, <1>6, <1>7 DEF Step

LEMMA OfficeEntering ==
  ASSUME OfficeInv, NEW p \in Proc, Start(p) \/ Stop(p) \/ Process(p), p \notin overlapped'
  PROVE  Untouched(p)' /\ FirstRound(p)' /\ Determining(p)'
<1>t. /\ starts \in [Proc -> Nat] /\ state \in [Proc -> State] /\ offer \in [Proc -> Offer]
      /\ pc \in [Proc \X Thread -> PC] /\ events \in [Proc -> SUBSET Nat]
  BY OfficeTypes
<1>i. Untouched(p) /\ FirstRound(p)
  BY OverlapGrows DEF OfficeInv, Orderly
<1>1. \A u \in Thread : pc[<<p, u>>] = "idle"
  BY DEF Start, Stop, Process, Enter
<1>2. CASE Start(p)
  <2>1. starts[p] \in Nat /\ starts'[p] = starts[p] + 1
    BY <1>2, <1>t DEF Start
  <2>2. state'[p] # "ELECTED" /\ UNCHANGED <<watch, events>>
    BY <1>2, <1>t DEF Start, SetState, zkVars
  <2>3. \A u \in Thread : pc'[<<p, u>>] \in {"idle", "create"}
    BY <1>1, <1>2, <1>t DEF Start, SetPC
  <2>4. starts'[p] # 0 /\ (starts'[p] = 1 => Awaited(p)' = {})
    BY <1>i, <2>1, <2>2 DEF Untouched, Awaited
  <2>5. FirstRound(p)'
    BY <2>2, <2>4 DEF FirstRound, Elected, Awaited
  <2>6. Untouched(p)' /\ Determining(p)'
    BY <2>3, <2>4 DEF Untouched, Determining
  <2>. QED BY <2>5, <2>6
<1>3. CASE Stop(p)
  <2>1. state'[p] = "STOP" /\ UNCHANGED <<watch, events, starts, offer>>
    BY <1>3, <1>t DEF Stop, SetState, zkVars
  <2>2. \A u \in Thread : pc'[<<p, u>>] \in {"idle", "delete"}
    BY <1>1, <1>3, <1>t DEF Stop, SetPC
  <2>3. ~offer[p].set => \A u \in Thread : pc'[<<p, u>>] = "idle"
    BY <1>1, <1>3 DEF Stop
  <2>4. Untouched(p)'
    BY <1>i, <2>1, <2>3 DEF Untouched, Awaited
  <2>5. FirstRound(p)' /\ Determining(p)'
    BY <1>i, <2>1, <2>2 DEF FirstRound, Determining, Elected, Awaited
  <2>. QED BY <2>4, <2>5
<1>4. CASE Process(p)
  <2>1. PICK o \in events[p] : events' = [events EXCEPT ![p] = @ \ {o}]
    BY <1>4 DEF Process
  <2>2. UNCHANGED <<watch, state, offer, starts>>
    BY <1>4 DEF Process, envVars
  <2>3. \A u \in Thread : pc'[<<p, u>>] \in {"idle", "determine"}
    BY <1>1, <1>4, <1>t DEF Process, SetPC
  <2>4. starts[p] # 0
    BY <1>i, <2>1 DEF Untouched, Awaited
  <2>5. starts[p] = 1 => ~Elected(p) /\ Awaited(p)' = {}
    BY <1>i, <1>t, <2>1, <2>2 DEF FirstRound, Awaited
  <2>6. FirstRound(p)'
    BY <2>2, <2>4, <2>5 DEF FirstRound, Elected, Awaited
  <2>. QED BY <2>2, <2>3, <2>4, <2>6 DEF Untouched, Determining
<1>. QED BY <1>2, <1>3, <1>4

LEMMA OfficeApp ==
  ASSUME OfficeInv, NEW p \in Proc, CreateOffer(p) \/ DeleteOffer(p), p \notin overlapped
  PROVE  Untouched(p)' /\ FirstRound(p)' /\ Determining(p)'
<1>t. /\ state \in [Proc -> State] /\ pc \in [Proc \X Thread -> PC]
  BY OfficeTypes
<1>i. Untouched(p) /\ FirstRound(p)
  BY OverlapGrows DEF OfficeInv, Orderly
<1>1. pc[<<p, "app">>] \in {"create", "delete"} /\ pc[<<p, "event">>] = "idle"
  BY Values DEF CreateOffer, DeleteOffer, OfficeInv, LeaderInv, Orderly, ProcInv, OneThread
<1>2. starts'[p] = starts[p] /\ starts[p] # 0
  BY <1>1, <1>i, Values DEF Untouched, CreateOffer, DeleteOffer
<1>3. pc'[<<p, "event">>] = "idle" /\ pc'[<<p, "app">>] \in {"idle", "determine"}
  BY <1>1, <1>t, Values DEF CreateOffer, DeleteOffer, BecomeFailed, Return, SetPC
<1>4. state'[p] # "ELECTED"
  BY <1>t DEF CreateOffer, DeleteOffer, BecomeFailed, SetState, OfficeInv, LeaderInv, OrderInv,
              Creating, Orderly, ProcInv, Deleting
<1>5. Untouched(p)' /\ Determining(p)'
  BY <1>2, <1>3 DEF Untouched, Determining, Thread
<1>6. CASE CreateOffer(p)
  <2>1. UNCHANGED <<watch, events>> /\ pc[<<p, "app">>] = "create"
    BY <1>6 DEF CreateOffer
  <2>2. FirstRound(p)'
    BY <1>2, <1>4, <1>i, <2>1, Values DEF FirstRound, Elected, Awaited
  <2>. QED BY <1>5, <2>2
<1>7. CASE DeleteOffer(p)
  <2>1. pc'[<<p, "app">>] = "idle"
    BY <1>7, <1>t, Values DEF DeleteOffer, BecomeFailed, Return, SetPC
  <2>2. (\E gone, dead : Remove(gone, dead)) \/ UNCHANGED <<watch, events>>
    BY <1>7 DEF DeleteOffer
  <2>3. /\ Awaited(p)' \subseteq Awaited(p)
        /\ watch[p] \cap events[p] = {} => watch'[p] \cap events'[p] = {}
    BY <2>2, RemoveAwaited DEF Awaited
  <2>4. FirstRound(p)'
    BY <1>2, <1>3, <1>4, <1>i, <2>1, <2>3 DEF FirstRound, Elected, Thread
  <2>. QED BY <1>5, <2>4
<1>. QED BY <1>6, <1>7

LEMMA OfficeLibrary ==
  ASSUME OfficeInv, NEW p \in Proc, NEW th \in Thread, Step(p, th), p \notin overlapped
  PROVE  Untouched(p)' /\ FirstRound(p)' /\ Determining(p)'
<1>t. /\ state \in [Proc -> State] /\ pc \in [Proc \X Thread -> PC]
      /\ watch \in [Proc -> SUBSET Nat] /\ events \in [Proc -> SUBSET Nat]
  BY OfficeTypes
<1>i. Untouched(p) /\ FirstRound(p) /\ Determining(p)
  BY DEF OfficeInv, Orderly
<1> DEFINE t == <<p, th>>
<1>n. t \in Proc \X Thread
  OBVIOUS
<1>1. pc[t] \in {"determine", "getData", "exists", "ready"}
  BY DEF Step, Determine, GetData, Decide, Exists, BecomeReady
<1>2. \A u \in Thread : u # th => pc'[<<p, u>>] = "idle"
  <2>1. \A u \in Thread : u # th => pc[<<p, u>>] = "idle"
    BY <1>1 DEF OfficeInv, LeaderInv, Orderly, ProcInv, OneThread
  <2>2. \A u \in Thread : u # th => pc'[<<p, u>>] = pc[<<p, u>>]
    BY <1>t DEF Step, Determine, GetData, Decide, Exists, BecomeReady, BecomeFailed, Return, SetPC
  <2>. QED BY <2>1, <2>2
<1>3. starts'[p] = starts[p] /\ starts[p] # 0
  BY <1>1, <1>i DEF Untouched, Step, Determine, GetData, Decide, Exists, BecomeReady, envVars
<1>4. Untouched(p)'
  BY <1>3 DEF Untouched
<1>5. /\ starts[p] = 1 /\ pc[t] # "ready" => Awaited(p) = {} /\ ~Elected(p)
      /\ pc[t] # "determine" => state[p] = "DETERMINE"
  BY <1>1, <1>i DEF FirstRound, Determining
\* A thread that goes on does so in DETERMINE, and watches nothing before it has
\* called exists();
<1>6. CASE /\ pc'[t] \in {"determine", "getData", "exists"} /\ state'[p] = "DETERMINE"
           /\ starts[p] = 1 => Awaited(p)' = {}
  BY <1>2, <1>3, <1>4, <1>6 DEF FirstRound, Determining, Elected, Awaited
\* after that, and when it leaves, it awaits the one neighbour, if any.
<1>7. CASE /\ \/ pc'[t] = "ready" /\ state'[p] = "DETERMINE"
              \/ pc'[t] = "idle" /\ (starts[p] = 1 /\ Elected(p)' => Awaited(p)' = {})
           /\ starts[p] = 1 => /\ \A a, b \in Awaited(p)' : a = b
                               /\ watch'[p] \cap events'[p] = {}
  BY <1>2, <1>3, <1>4, <1>7 DEF FirstRound, Determining, Elected
<1>8. starts[p] = 1 => (\A a, b \in Awaited(p) : a = b) /\ watch[p] \cap events[p] = {}
  BY <1>i DEF FirstRound
<1>9. CASE Determine(p, th)
  <2>1. UNCHANGED <<watch, events>> /\ pc[t] = "determine"
    BY <1>9 DEF Determine, zkVars
  <2>2. \/ pc'[t] = "getData" /\ state'[p] = "DETERMINE"
        \/ pc'[t] = "idle" /\ state'[p] # "ELECTED"
    BY <1>9, <1>t, <1>n DEF Determine, BecomeFailed, Return, SetPC, SetState
  <2>3. starts[p] = 1 => Awaited(p)' = {}
    BY <1>5, <2>1 DEF Awaited
  <2>. QED BY <1>6, <1>7, <1>8, <2>1, <2>2, <2>3 DEF Awaited
<1>10. CASE GetData(p, th)
  <2>1. UNCHANGED <<watch, events>> /\ pc[t] = "getData"
    BY <1>10 DEF GetData, zkVars
  <2>2. \/ pc'[t] = "getData" /\ state'[p] = state[p]
        \/ pc'[t] = "idle" /\ state'[p] # "ELECTED"
    BY <1>10, <1>t, <1>n DEF GetData, BecomeFailed, Return, SetPC, SetState
  <2>3. starts[p] = 1 => Awaited(p)' = {}
    BY <1>5, <2>1 DEF Awaited
  <2>. QED BY <1>5, <1>6, <1>7, <1>8, <2>1, <2>2, <2>3 DEF Awaited
<1>11. CASE Decide(p, th)
  <2>1. UNCHANGED <<watch, events>> /\ pc[t] = "getData"
    BY <1>11 DEF Decide, zkVars
  <2>2. pc'[t] = "idle" \/ (pc'[t] = "exists" /\ state'[p] = state[p])
    <3>1. CASE Return(p, th)
      BY <3>1, <1>t, <1>n DEF Return, SetPC
    <3>2. CASE SetPC(p, th, "exists") /\ UNCHANGED <<state, todo>>
      BY <3>2, <1>t, <1>n DEF SetPC
    <3>. QED BY <1>11, <3>1, <3>2, Zenon DEF Decide
  <2>3. starts[p] = 1 => Awaited(p)' = {}
    BY <1>5, <2>1 DEF Awaited
  <2>. QED BY <1>5, <1>6, <1>7, <1>8, <2>1, <2>2, <2>3 DEF Awaited
<1>12. CASE Exists(p, th)
  <2>1. UNCHANGED events /\ pc[t] = "exists" /\ state[p] = "DETERMINE"
    BY <1>5, <1>12 DEF Exists
  <2>2. CASE /\ watch' = [watch EXCEPT ![p] = @ \cup {neighbour[t]}]
             /\ SetPC(p, th, "ready") /\ UNCHANGED state
    <3>1. pc'[t] = "ready" /\ watch'[p] = watch[p] \cup {neighbour[t]}
      BY <1>t, <1>n, <2>2 DEF SetPC
    <3>2. starts[p] = 1 => watch'[p] = {neighbour[t]} /\ events'[p] = {}
      BY <1>5, <2>1, <3>1 DEF Awaited
    <3>3. starts[p] = 1 => (\A a, b \in Awaited(p)' : a = b) /\ watch'[p] \cap events'[p] = {}
      BY <3>2 DEF Awaited
    <3>4. pc'[t] = "ready" /\ state'[p] = "DETERMINE"
      BY <2>1, <2>2, <3>1
    <3>5. starts[p] = 1 => \A a, b \in Awaited(p)' : a = b
      BY <3>3
    <3>6. starts[p] = 1 => watch'[p] \cap events'[p] = {}
      BY <3>3
    <3>7. starts[p] = 1 => /\ \A a, b \in Awaited(p)' : a = b
                           /\ watch'[p] \cap events'[p] = {}
      BY <3>5, <3>6
    <3>. QED BY <1>7, <3>4, <3>7
  <2>3. CASE SetPC(p, th, "determine") /\ UNCHANGED <<watch, state>>
    <3>1. pc'[t] = "determine" /\ (starts[p] = 1 => Awaited(p)' = {})
      BY <1>5, <1>t, <1>n, <2>1, <2>3 DEF SetPC, Awaited
    <3>. QED BY <1>6, <2>1, <2>3, <3>1
  <2>4. CASE BecomeFailed(p, th) /\ UNCHANGED watch
    <3>1. pc'[t] = "idle" /\ state'[p] # "ELECTED"
      BY <1>t, <1>n, <2>4 DEF BecomeFailed, Return, SetPC, SetState
    <3>. QED BY <1>7, <1>8, <2>1, <2>4, <3>1 DEF Elected, Awaited
  <2>. QED BY <1>12, <2>2, <2>3, <2>4 DEF Exists
<1>13. CASE BecomeReady(p, th)
  <2>1. UNCHANGED <<watch, events>> /\ pc'[t] = "idle" /\ state'[p] = "READY"
    BY <1>13, <1>t, <1>n DEF BecomeReady, Return, SetPC, SetState, zkVars
  <2>. QED BY <1>7, <1>8, <2>1 DEF Elected, Awaited
<1>. QED BY <1>9, <1>10, <1>11, <1>12, <1>13 DEF Step

LEMMA OfficeStep ==
  ASSUME OfficeInv, [Next]_vars
  PROVE  OfficeInv'
<1>1. LeaderInv'
  BY LeaderStep DEF OfficeInv
<1>2. ASSUME NEW p \in Proc,
             \/ Start(p) \/ Stop(p) \/ CreateOffer(p) \/ DeleteOffer(p) \/ Process(p) \/ Expire(p)
             \/ \E th \in Thread : Step(p, th)
      PROVE  \A q \in Orderly' : Untouched(q)' /\ FirstRound(q)' /\ Determining(q)'
  <2>o. overlapped \subseteq overlapped'
    BY <1>2, OverlapGrows
  <2>1. ASSUME NEW q \in Proc, q \notin overlapped', q # p PROVE Untouched(q)' /\ FirstRound(q)' /\ Determining(q)'
    <3>1. /\ offer'[q] = offer[q] /\ state'[q] = state[q]
          /\ \A th \in Thread : pc'[<<q, th>>] = pc[<<q, th>>]
      BY <1>2, <2>1, Private DEF OfficeInv, LeaderInv
    <3>2. /\ starts'[q] = starts[q]
          /\ Awaited(q)' \subseteq Awaited(q)
          /\ watch[q] \cap events[q] = {} => watch'[q] \cap events'[q] = {}
      BY <1>2, <2>1, OfficePrivate
    <3>. QED BY <2>1, <2>o, <3>1, <3>2, OfficeKept
  <2>2. CASE Expire(p)
    <3>1. Remove(nodes[p], {p}) /\ UNCHANGED <<offer, state, pc, starts>>
      BY <2>2 DEF Expire, libVars
    <3>2. p \notin overlapped' => Untouched(p)' /\ FirstRound(p)' /\ Determining(p)'
      BY <2>o, <3>1, RemoveAwaited, OfficeKept
    <3>. QED BY <2>1, <3>2 DEF Orderly
  <2>3. CASE ~Expire(p)
    <3>1. p \notin overlapped' => Untouched(p)' /\ FirstRound(p)' /\ Determining(p)'
      BY <1>2, <2>o, <2>3, OfficeEntering, OfficeApp, OfficeLibrary
    <3>. QED BY <2>1, <3>1 DEF Orderly
  <2>. QED BY <2>2, <2>3
<1>3. CASE UNCHANGED vars
  <2>1. ASSUME NEW q \in Orderly' PROVE Untouched(q)' /\ FirstRound(q)' /\ Determining(q)'
    BY <1>3, OfficeKept DEF vars, zkVars, libVars, envVars, Awaited, Orderly
  <2>. QED BY <1>1, <2>1 DEF OfficeInv
<1>4. (\A q \in Orderly' : Untouched(q)' /\ FirstRound(q)' /\ Determining(q)') => OfficeInv'
  BY <1>1 DEF OfficeInv
<1>. QED BY Values, <1>2, <1>3, <1>4 DEF Next, AppThread, EventThread

\* No step but a call of its user takes a leader out of office in its first round.
LEMMA OfficeHeld ==
  ASSUME OfficeInv, [Next]_vars, NEW q \in Orderly, Elected(q), starts[q] = 1
  PROVE  Elected(q)' \/ state'[q] = "STOP" \/ starts'[q] # starts[q]
<1>t. state \in [Proc -> State] /\ starts \in [Proc -> Nat] /\ q \in Proc
  BY OfficeTypes DEF Orderly
<1>1. ASSUME NEW p \in Proc,
             \/ Start(p) \/ Stop(p) \/ CreateOffer(p) \/ DeleteOffer(p) \/ Process(p) \/ Expire(p)
             \/ \E th \in Thread : Step(p, th)
      PROVE  Elected(q)' \/ state'[q] = "STOP" \/ starts'[q] # starts[q]
  <2>1. CASE q # p
    BY <1>1, <1>t, <2>1, Private DEF OfficeInv, LeaderInv, Elected
  <2>2. CASE q = p
    <3>1. CASE Start(p)
      BY <2>2, <3>1, <1>t DEF Start
    <3>2. CASE Stop(p)
      BY <2>2, <3>2, <1>t DEF Stop, SetState
    <3>3. ~CreateOffer(p) /\ ~DeleteOffer(p)
      BY <2>2 DEF CreateOffer, DeleteOffer, OfficeInv, LeaderInv, OrderInv, Creating, ProcInv,
                  Deleting, Elected
    <3>4. CASE Process(p) \/ Expire(p)
      BY <2>2, <3>4 DEF Process, Expire, libVars, Elected
    <3>5. ASSUME NEW th \in Thread PROVE ~Step(p, th)
      <4>1. Step(p, th) => pc[<<p, th>>] \in {"determine", "getData", "exists", "ready"}
        BY DEF Step, Determine, GetData, Decide, Exists, BecomeReady
      <4>. QED BY <2>2, <4>1 DEF OfficeInv, FirstRound, Determining, Elected
    <3>. QED BY <1>1, <3>1, <3>2, <3>3, <3>4, <3>5
  <2>. QED BY <2>1, <2>2
<1>2. CASE UNCHANGED vars
  BY <1>2 DEF vars, libVars, Elected
<1>. QED BY Values, <1>1, <1>2 DEF Next, AppThread, EventThread

\* A leader of the first round is not demoted by the library, unless its threads have
\* overlapped.
THEOREM LeaderStays == Spec => LeaderKeepsOffice
<1>1. Init => OfficeInv
  <2> SUFFICES ASSUME Init, NEW p \in Proc
               PROVE  Untouched(p) /\ FirstRound(p) /\ Determining(p)
    BY LeaderInit DEF OfficeInv, Orderly
  <2>1. /\ Awaited(p) = {} /\ ~offer[p].set /\ state[p] = "STOP"
        /\ \A th \in Thread : pc[<<p, th>>] = "idle"
    BY DEF Init, Awaited, NoOffer
  <2>. QED BY <2>1 DEF Untouched, FirstRound, Determining, Elected, Awaited
<1>2. OfficeInv /\ [Next]_vars => OfficeInv'
  BY OfficeStep
<1>3. OfficeInv /\ [Next]_vars =>
        [\A p \in Orderly : Elected(p) /\ Holds(p) /\ starts[p] = 1 =>
           Elected(p)' \/ state'[p] = "STOP" \/ starts'[p] # starts[p]]_vars
  BY OfficeHeld
<1>. QED BY <1>1, <1>2, <1>3, PTL DEF Spec, LeaderKeepsOffice
=============================================================================
