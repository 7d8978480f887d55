--------------------------- MODULE LeaderElection ---------------------------
(***************************************************************************)
(* The leader election library of the study application                    *)
(* (com.zy.zookeeper.government.leader.LeaderElectionSupport).             *)
(*                                                                         *)
(* Every process owns one LeaderElectionSupport and one ZooKeeper session. *)
(* Two threads of a process run the library: "app", the thread that calls  *)
(* start() and stop() (both synchronized), and "event", the ZooKeeper      *)
(* event thread that calls process(), which is not synchronized: it may    *)
(* run while start() or stop() does.  A process of which that has happened *)
(* is in "overlapped", and most of the promises below exclude it.          *)
(*                                                                         *)
(* A step of a thread ends at a call to ZooKeeper: the work between two    *)
(* calls is one step, except where the other thread can see the difference *)
(* and a promise about overlapping threads depends on it.                  *)
(*                                                                         *)
(* An offer znode is named by the sequence number ZooKeeper gives it.      *)
(***************************************************************************)
EXTENDS Integers

CONSTANTS
  Proc,         (* the processes that stand for election                   *)
  Configured,   (* those that were given a ZooKeeper handle and a hostname *)
  MaxStarts,    (* bound: calls of start() per process                     *)
  MaxStops,     (* bound: calls of stop() per process                      *)
  MaxFaults,    (* bound: lost connections, over all processes             *)
  MaxExpiries   (* bound: expired sessions, over all processes             *)

ASSUME LeaderElectionAssumption ==
  /\ Configured \subseteq Proc
  /\ {MaxStarts, MaxStops, MaxFaults, MaxExpiries} \subseteq Nat

VARIABLES
  (* the ZooKeeper service *)
  nodes,      (* the offers each session has created and still holds       *)
  nextId,     (* the next sequence number of the parent znode              *)
  alive,      (* the sessions that have not expired                        *)
  watch,      (* the offers each session watches                           *)
  events,     (* the NodeDeleted notifications not yet handled             *)
  (* the library *)
  state,      (* the field "state"                                         *)
  offer,      (* the field "leaderOffer"                                   *)
  pc,         (* the call each thread makes next                           *)
  snap,       (* the children a thread has read                            *)
  todo,       (* those of them whose data it has not read yet              *)
  neighbour,  (* the offer it stands behind                                *)
  (* the environment *)
  starts, stops, faults, expiries,
  (* history *)
  overlapped  (* the processes of which both threads have been in the      *)
              (* library at once                                           *)

zkVars  == <<nodes, nextId, alive, watch, events>>
libVars == <<state, offer, pc, snap, todo, neighbour>>
envVars == <<starts, stops, faults, expiries>>
vars    == <<zkVars, libVars, envVars, overlapped>>

Thread == {"app", "event"}
State  == {"START", "OFFER", "DETERMINE", "ELECTED", "READY", "FAILED", "STOP"}
PC     == {"idle", "create", "determine", "getData", "exists", "ready", "delete"}

None  == -1                            \* no znode path, or no id, in an offer
Offer == [path : Nat \cup {None}, id : Nat \cup {None}, set : BOOLEAN]
NoOffer == [path |-> None, id |-> None, set |-> FALSE]    \* leaderOffer == null
NewOffer == [path |-> None, id |-> None, set |-> TRUE]    \* new LeaderOffer()

TypeOK ==
  /\ nodes \in [Proc -> SUBSET Nat]
  /\ nextId \in Nat
  /\ alive \in SUBSET Proc
  /\ watch \in [Proc -> SUBSET Nat]
  /\ events \in [Proc -> SUBSET Nat]
  /\ state \in [Proc -> State]
  /\ offer \in [Proc -> Offer]
  /\ pc \in [Proc \X Thread -> PC]
  /\ snap \in [Proc \X Thread -> SUBSET Nat]
  /\ todo \in [Proc \X Thread -> SUBSET Nat]
  /\ neighbour \in [Proc \X Thread -> Nat \cup {None}]
  /\ starts \in [Proc -> Nat]
  /\ stops \in [Proc -> Nat]
  /\ faults \in Nat
  /\ expiries \in Nat
  /\ overlapped \in SUBSET Proc

-----------------------------------------------------------------------------
(* The ZooKeeper service, as the library uses it.                          *)

\* The children of the election's root.
live == UNION {nodes[p] : p \in Proc}

\* What the removal of the znodes "gone" does: every session that watches one
\* of them is notified of it, once, and a session "dead" loses its watches.
Remove(gone, dead) ==
  /\ nodes' = [p \in Proc |-> nodes[p] \ gone]
  /\ events' = [p \in Proc |-> IF p \in dead THEN events[p]
                               ELSE events[p] \cup (watch[p] \cap gone)]
  /\ watch' = [p \in Proc |-> IF p \in dead THEN {} ELSE watch[p] \ gone]

\* The connection breaks under a call of p: ConnectionLossException.
LoseConnection(p) ==
  /\ p \in alive
  /\ faults < MaxFaults
  /\ faults' = faults + 1

\* A call of p throws and ZooKeeper has not carried it out: the connection is
\* lost before it arrives, or the session has expired.
CallFails(p) ==
  \/ LoseConnection(p)
  \/ p \notin alive /\ UNCHANGED faults

\* ZooKeeper expires the session of p: its offers go, and its watches.  The
\* library handles NodeDeleted alone, so p is not told.
Expire(p) ==
  /\ p \in alive
  /\ expiries < MaxExpiries
  /\ expiries' = expiries + 1
  /\ alive' = alive \ {p}
  /\ Remove(nodes[p], {p})
  /\ UNCHANGED <<nextId, libVars, starts, stops, faults, overlapped>>

-----------------------------------------------------------------------------
(* The library.                                                            *)

\* A thread of p enters the library.  The other may be inside, for process() does
\* not take the monitor that start() and stop() hold; if it is, p has overlapped.
Enter(p, th) ==
  /\ pc[<<p, th>>] = "idle"
  /\ overlapped' = IF \A t \in Thread : pc[<<p, t>>] = "idle" THEN overlapped
                   ELSE overlapped \cup {p}

SetPC(p, th, l) == pc' = [pc EXCEPT ![<<p, th>>] = l]
SetState(p, s)  == state' = [state EXCEPT ![p] = s]

\* A thread leaves the library, and with it its local variables.
Return(p, th) ==
  /\ SetPC(p, th, "idle")
  /\ snap' = [snap EXCEPT ![<<p, th>>] = {}]
  /\ todo' = [todo EXCEPT ![<<p, th>>] = {}]
  /\ neighbour' = [neighbour EXCEPT ![<<p, th>>] = None]

BecomeFailed(p, th) ==
  /\ SetState(p, "FAILED")
  /\ Return(p, th)

locals == <<snap, todo, neighbour>>

\* start() up to the create call of makeOffer().  A missing ZooKeeper handle or
\* hostname raises IllegalStateException and leaves the state START.
Start(p) ==
  /\ Enter(p, "app")
  /\ starts[p] < MaxStarts
  /\ starts' = [starts EXCEPT ![p] = @ + 1]
  /\ \/ /\ p \notin Configured
        /\ SetState(p, "START")
        /\ UNCHANGED <<offer, pc>>
     \/ /\ p \in Configured
        /\ SetState(p, "OFFER")
        /\ offer' = [offer EXCEPT ![p] = NewOffer]
        /\ SetPC(p, "app", "create")
  /\ UNCHANGED <<zkVars, locals, stops, faults, expiries>>

\* The create call of makeOffer(): the znode may exist although the call threw.
CreateOffer(p) ==
  /\ pc[<<p, "app">>] = "create"
  /\ \/ /\ p \in alive
        /\ nodes' = [nodes EXCEPT ![p] = @ \cup {nextId}]
        /\ nextId' = nextId + 1
        /\ \/ /\ offer' = [offer EXCEPT ![p].path = nextId]
              /\ SetPC(p, "app", "determine")
              /\ UNCHANGED <<state, locals, faults>>
           \/ /\ LoseConnection(p)
              /\ BecomeFailed(p, "app")
              /\ UNCHANGED offer
     \/ /\ CallFails(p)
        /\ BecomeFailed(p, "app")
        /\ UNCHANGED <<nodes, nextId, offer>>
  /\ UNCHANGED <<alive, watch, events, starts, stops, expiries, overlapped>>

\* determineElectionStatus() up to the answer of getChildren().  Without a path
\* it throws NullPointerException, which nothing catches.
Determine(p, th) ==
  /\ pc[<<p, th>>] = "determine"
  /\ \/ /\ offer[p].path = None
        /\ SetState(p, "DETERMINE")
        /\ Return(p, th)
        /\ UNCHANGED <<offer, faults>>
     \/ /\ offer[p].path # None
        /\ offer' = [offer EXCEPT ![p].id = offer[p].path]
        /\ \/ /\ p \in alive
              /\ SetState(p, "DETERMINE")
              /\ snap' = [snap EXCEPT ![<<p, th>>] = live]
              /\ todo' = [todo EXCEPT ![<<p, th>>] = live]
              /\ SetPC(p, th, "getData")
              /\ UNCHANGED <<neighbour, faults>>
           \/ /\ CallFails(p)
              /\ BecomeFailed(p, th)
  /\ UNCHANGED <<zkVars, starts, stops, expiries, overlapped>>

\* Mutant: getData() leaves a watch on every offer it reads.
GetDataWatching(p, th) ==
  /\ pc[<<p, th>>] = "getData"
  /\ p \in alive
  /\ \E o \in todo[<<p, th>>] \cap live :
       /\ todo' = [todo EXCEPT ![<<p, th>>] = @ \ {o}]
       /\ watch' = [watch EXCEPT ![p] = @ \cup {o}]
  /\ UNCHANGED <<nodes, nextId, alive, events, state, offer, pc, snap, neighbour, envVars, overlapped>>

\* toLeaderOffers(): one getData() for each child.  A child that is gone by now
\* throws NoNodeException.
GetData(p, th) ==
  /\ pc[<<p, th>>] = "getData"
  /\ \E o \in todo[<<p, th>>] :
       \/ /\ p \in alive /\ o \in live
          /\ todo' = [todo EXCEPT ![<<p, th>>] = @ \ {o}]
          /\ UNCHANGED <<state, pc, snap, neighbour, faults>>
       \/ /\ p \in alive /\ o \notin live
          /\ BecomeFailed(p, th)
          /\ UNCHANGED faults
       \/ /\ CallFails(p)
          /\ BecomeFailed(p, th)
  /\ UNCHANGED <<zkVars, offer, starts, stops, expiries, overlapped>>

\* Mutant: IdComparator sorts the other way round.
BeforeReversed(S, own) == {o \in S : o > own}

\* The offers of the children read that stand before the one with id "own".
Before(S, own) == {o \in S : o < own}

\* The offer a thread stands behind: the last one before its own.
IsNeighbour(n, S, own) == n \in Before(S, own) /\ \A o \in Before(S, own) : o <= n

\* The loop of determineElectionStatus() over the sorted offers: first in line
\* becomes the leader, any other goes on to stat its neighbour, and a thread
\* that does not find its own offer does nothing at all.
Decide(p, th) ==
  /\ pc[<<p, th>>] = "getData"
  /\ todo[<<p, th>>] = {}
  /\ \/ /\ offer[p].id \notin snap[<<p, th>>]
        /\ Return(p, th)
        /\ UNCHANGED state
     \/ /\ offer[p].id \in snap[<<p, th>>]
        /\ Before(snap[<<p, th>>], offer[p].id) = {}
        /\ SetState(p, "ELECTED")
        /\ Return(p, th)
     \/ /\ offer[p].id \in snap[<<p, th>>]
        /\ \E n \in snap[<<p, th>>] :
             /\ IsNeighbour(n, snap[<<p, th>>], offer[p].id)
             /\ neighbour' = [neighbour EXCEPT ![<<p, th>>] = n]
        /\ snap' = [snap EXCEPT ![<<p, th>>] = {}]
        /\ SetPC(p, th, "exists")
        /\ UNCHANGED <<state, todo>>
  /\ UNCHANGED <<zkVars, offer, envVars, overlapped>>

\* Mutant: a process whose neighbour has died takes office at once.
ExistsTakesOffice(p, th) ==
  /\ pc[<<p, th>>] = "exists"
  /\ \/ /\ p \in alive /\ neighbour[<<p, th>>] \in live
        /\ watch' = [watch EXCEPT ![p] = @ \cup {neighbour[<<p, th>>]}]
        /\ SetPC(p, th, "ready")
        /\ UNCHANGED <<state, locals>>
     \/ /\ p \in alive /\ neighbour[<<p, th>>] \notin live
        /\ SetState(p, "ELECTED")
        /\ Return(p, th)
        /\ UNCHANGED watch
  /\ UNCHANGED <<nodes, nextId, alive, events, offer, envVars, overlapped>>

\* Mutant: the neighbour is stat'ed without a watch.
ExistsUnwatched(p, th) ==
  /\ pc[<<p, th>>] = "exists"
  /\ p \in alive
  /\ SetPC(p, th, IF neighbour[<<p, th>>] \in live THEN "ready" ELSE "determine")
  /\ UNCHANGED <<zkVars, state, offer, locals, envVars, overlapped>>

\* The exists() call of becomeReady(), which sets the watch.  A neighbour that
\* is gone sends the thread back to the determination.
Exists(p, th) ==
  /\ pc[<<p, th>>] = "exists"
  /\ \/ /\ p \in alive /\ neighbour[<<p, th>>] \in live
        /\ watch' = [watch EXCEPT ![p] = @ \cup {neighbour[<<p, th>>]}]
        /\ SetPC(p, th, "ready")
        /\ UNCHANGED <<state, locals, faults>>
     \/ /\ p \in alive /\ neighbour[<<p, th>>] \notin live
        /\ SetPC(p, th, "determine")
        /\ neighbour' = [neighbour EXCEPT ![<<p, th>>] = None]
        /\ UNCHANGED <<state, watch, snap, todo, faults>>
     \/ /\ CallFails(p)
        /\ BecomeFailed(p, th)
        /\ UNCHANGED watch
  /\ UNCHANGED <<nodes, nextId, alive, events, offer, starts, stops, expiries, overlapped>>

\* The rest of becomeReady(), once exists() has answered.
BecomeReady(p, th) ==
  /\ pc[<<p, th>>] = "ready"
  /\ SetState(p, "READY")
  /\ Return(p, th)
  /\ UNCHANGED <<zkVars, offer, envVars, overlapped>>

\* process(), up to the call of determineElectionStatus().
Process(p) ==
  /\ Enter(p, "event")
  /\ \E o \in events[p] :
       /\ events' = [events EXCEPT ![p] = @ \ {o}]
       /\ IF o # offer[p].path /\ state[p] # "STOP"
          THEN SetPC(p, "event", "determine")
          ELSE UNCHANGED pc
  /\ UNCHANGED <<nodes, nextId, alive, watch, state, offer, locals, envVars>>

\* stop() up to the delete call; there is none before the first start().
Stop(p) ==
  /\ Enter(p, "app")
  /\ stops[p] < MaxStops
  /\ stops' = [stops EXCEPT ![p] = @ + 1]
  /\ SetState(p, "STOP")
  /\ IF offer[p].set THEN SetPC(p, "app", "delete") ELSE UNCHANGED pc
  /\ UNCHANGED <<zkVars, offer, locals, starts, faults, expiries>>

\* Mutant: stop() swallows the exception of the delete call.
DeleteSwallowing(p) ==
  /\ pc[<<p, "app">>] = "delete"
  /\ \/ /\ p \in alive /\ offer[p].path \in live
        /\ Remove({offer[p].path}, {})
        /\ UNCHANGED faults
     \/ /\ offer[p].path \notin live
        /\ UNCHANGED <<nodes, watch, events, faults>>
     \/ /\ CallFails(p)
        /\ UNCHANGED <<nodes, watch, events>>
  /\ Return(p, "app")
  /\ UNCHANGED <<nextId, alive, state, offer, starts, stops, expiries, overlapped>>

\* The delete call of stop().  The field leaderOffer is not cleared; an offer
\* without a path raises IllegalArgumentException, which nothing catches.
DeleteOffer(p) ==
  /\ pc[<<p, "app">>] = "delete"
  /\ \/ /\ offer[p].path = None
        /\ Return(p, "app")
        /\ UNCHANGED <<nodes, watch, events, state, faults>>
     \/ /\ p \in alive /\ offer[p].path \in live
        /\ Remove({offer[p].path}, {})
        /\ \/ Return(p, "app") /\ UNCHANGED <<state, faults>>
           \/ LoseConnection(p) /\ BecomeFailed(p, "app")
     \/ /\ p \in alive /\ offer[p].path \notin live \cup {None}
        /\ BecomeFailed(p, "app")
        /\ UNCHANGED <<nodes, watch, events, faults>>
     \/ /\ offer[p].path # None
        /\ CallFails(p)
        /\ BecomeFailed(p, "app")
        /\ UNCHANGED <<nodes, watch, events>>
  /\ UNCHANGED <<nextId, alive, offer, starts, stops, expiries, overlapped>>

-----------------------------------------------------------------------------
Init ==
  /\ nodes = [p \in Proc |-> {}]
  /\ nextId = 0
  /\ alive = Proc
  /\ watch = [p \in Proc |-> {}]
  /\ events = [p \in Proc |-> {}]
  /\ state = [p \in Proc |-> "STOP"]
  /\ offer = [p \in Proc |-> NoOffer]
  /\ pc = [t \in Proc \X Thread |-> "idle"]
  /\ snap = [t \in Proc \X Thread |-> {}]
  /\ todo = [t \in Proc \X Thread |-> {}]
  /\ neighbour = [t \in Proc \X Thread |-> None]
  /\ starts = [p \in Proc |-> 0]
  /\ stops = [p \in Proc |-> 0]
  /\ faults = 0
  /\ expiries = 0
  /\ overlapped = {}

\* What a thread of the library does once it has been entered.
Step(p, th) ==
  \/ Determine(p, th)
  \/ GetData(p, th)
  \/ Decide(p, th)
  \/ Exists(p, th)
  \/ BecomeReady(p, th)

\* The two threads of p inside the library: what happens without a call of the
\* user.
AppThread(p)   == CreateOffer(p) \/ DeleteOffer(p) \/ Step(p, "app")
EventThread(p) == Process(p) \/ Step(p, "event")

Next ==
  \E p \in Proc : Start(p) \/ Stop(p) \/ AppThread(p) \/ EventThread(p) \/ Expire(p)

Spec == Init /\ [][Next]_vars

\* Threads are scheduled and ZooKeeper answers: a thread inside the library
\* goes on, and a pending notification is handled.  Nobody must call start() or
\* stop(), and no session must expire.
Fairness == \A p \in Proc : WF_vars(AppThread(p)) /\ WF_vars(EventThread(p))

FairSpec == Spec /\ Fairness

-----------------------------------------------------------------------------
(* What the library promises.                                              *)
(*                                                                         *)
(* The fields are not protected against the two threads of a process, so   *)
(* all promises but StopRevokes exclude a process that has overlapped: its *)
(* last writer may be either thread.  StopRace shows what then happens.    *)

Elected(p) == state[p] = "ELECTED"
Holds(p)   == offer[p].path \in nodes[p]
Quiet(p)   == \A th \in Thread : pc[<<p, th>>] = "idle"

\* The processes that run the library with one thread at a time.
Orderly == Proc \ overlapped

\* "The offer with the lowest sequence number is said to be the leader": a process
\* that is ELECTED on an offer ZooKeeper still holds has the lowest offer of all,
\* those of overlapped processes included.  It decided so from children read
\* several calls earlier, and other offers came and went meanwhile.
LeaderIsLowest ==
  \A p \in Orderly : Elected(p) /\ Holds(p) => \A o \in live : offer[p].path <= o

\* "An exclusive leader system": of the orderly processes whose session lives, at
\* most one is ELECTED.
ExclusiveLeader ==
  \A p, q \in Orderly : Elected(p) /\ Elected(q) /\ p \in alive /\ q \in alive => p = q

\* No wake-up is lost to other processes, sessions or failures: an orderly process
\* that rests in READY behind other offers either watches the offer just before its
\* own, or a notification that will send it back to the determination is on its way.
\* (An overlapped one may lose it: READY is written after exists() has answered, and
\* may hide what process() has found meanwhile.)
NoLostWakeup ==
  \A p \in Orderly :
    state[p] = "READY" /\ Holds(p) /\ Quiet(p) =>
      \/ \E w \in watch[p] : IsNeighbour(w, live, offer[p].path)
      \/ \E o \in events[p] : o # offer[p].path

\* A leader is never demoted: an orderly process ELECTED in its first round, on an
\* offer it holds, stays so until its user calls stop() or start(), or its session
\* expires.  (In a later round a notification of the round before may demote it.)
LeaderKeepsOffice ==
  [][\A p \in Orderly : Elected(p) /\ Holds(p) /\ starts[p] = 1 =>
       Elected(p)' \/ state'[p] = "STOP" \/ starts'[p] # starts[p]]_vars

\* stop() "revokes any outstanding leader offers": a process that rests in STOP does
\* not hold the offer it knows of, however its calls failed and whatever process()
\* did meanwhile: a stop() that could not delete it has ended in FAILED.
StopRevokes ==
  \A p \in Proc : state[p] = "STOP" /\ pc[<<p, "app">>] = "idle" => ~Holds(p)

\* "Stops all election services": once stop() has returned, the process stays
\* in STOP until start() is called, whatever notifications still arrive.
StopIsFinal ==
  [][\A p \in Proc : state[p] = "STOP" /\ pc[<<p, "app">>] = "idle" =>
       state'[p] = "STOP" \/ starts'[p] # starts[p]]_vars

\* The process whose offer is the lowest.
First(p) == Holds(p) /\ \A o \in live : offer[p].path <= o

\* Succession: an orderly process whose offer has become the lowest gets to know: it
\* is elected, unless one of its calls failed or the offer went.
LowestIsToldOrFails ==
  \A p \in Proc :
    First(p) ~> \/ ~First(p) \/ p \in overlapped
                \/ state[p] \in {"ELECTED", "FAILED"}
=============================================================================
