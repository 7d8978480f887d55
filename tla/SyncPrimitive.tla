---------------------------- MODULE SyncPrimitive ----------------------------
(***************************************************************************)
(* What Barrier and Queue share: a root znode whose children the processes *)
(* read, and SyncPrimitive, the watcher of each process.                   *)
(*                                                                         *)
(* Every process has a ZooKeeper session and a monitor ("mutex").  Its     *)
(* thread reads the children in the monitor, which leaves a watch, and may *)
(* wait there; the event thread needs the monitor to notify, so that a     *)
(* notification never falls between the read and the wait.                 *)
(***************************************************************************)
EXTENDS Integers

CONSTANT Proc      (* the processes *)

VARIABLES
  children,        (* the children of the root                             *)
  watch,           (* the sessions that watch them                         *)
  events           (* per session: notifications not yet handled           *)

zkVars == <<children, watch, events>>

ZkInit ==
  /\ children = {}
  /\ watch = {}
  /\ events = [p \in Proc |-> 0]

\* ZooKeeper adds or removes a child: every session that watches the children is
\* notified, and its watch is used up.
SetChildren(new) ==
  /\ children' = new
  /\ watch' = {}
  /\ events' = [p \in Proc |-> IF p \in watch THEN events[p] + 1 ELSE events[p]]

\* getChildren(root, true) is answered.
GetChildren(p) == watch' = watch \cup {p} /\ UNCHANGED <<children, events>>

\* The event thread of p calls process(), which does a notify().
Notify(p) ==
  /\ events[p] > 0
  /\ events' = [events EXCEPT ![p] = @ - 1]
  /\ UNCHANGED <<children, watch>>

\* ZooKeeper ends the session of p: its child and its watch go, and p is told.
EndSession(p) ==
  LET told == {p} \cup (IF p \in children THEN watch ELSE {})
  IN  /\ children' = children \ {p}
      /\ watch' = watch \ told
      /\ events' = [q \in Proc |-> IF q \in told THEN events[q] + 1 ELSE events[q]]

\* The process p dies: nobody is left to be notified.
Forget(p) ==
  /\ watch' = watch \ {p}
  /\ events' = [events EXCEPT ![p] = 0]
  /\ UNCHANGED children
=============================================================================
