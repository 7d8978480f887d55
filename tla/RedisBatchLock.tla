--------------------------- MODULE RedisBatchLock ---------------------------
(***************************************************************************)
(* The lock on several Redis keys: tryLock(keyList), tryLock(keyList,      *)
(* timeout, unit) and unLock(keyList) of RedisLockHandler.                 *)
(*                                                                         *)
(* Every round sends one setnx per key of the list through a pipeline.     *)
(* Redis carries out the commands of a pipeline in order, with those of    *)
(* other clients in between.  One step is one command, or the work of the  *)
(* handler between two commands.  The lifetime of a key (60 s) is longer   *)
(* than anything that happens here: a key with a lifetime stays.           *)
(***************************************************************************)
EXTENDS Integers, Sequences, SequencesExt

CONSTANTS
  Client,      (* the threads that lock                                    *)
  Nobody,      (* no client                                                *)
  Key,         (* the keys                                                 *)
  KeyList,     (* the list of keys each client locks                       *)
  Waits,       (* the clients that give a timeout                          *)
  MaxAttempts, (* bound: rounds of a call with a timeout                   *)
  MaxCalls,    (* bound: calls per client                                  *)
  MaxFaults    (* bound: commands that throw                               *)

ASSUME RedisBatchLockAssumption ==
  /\ Nobody \notin Client
  /\ KeyList \in [Client -> Seq(Key)]
  /\ Waits \subseteq Client
  /\ {MaxAttempts, MaxCalls, MaxFaults} \subseteq Nat

VARIABLES
  owner,       (* per key: whose setnx made it, Nobody if it is not there  *)
  mortal,      (* the keys that have a lifetime                            *)
  pc,          (* what each client does next                               *)
  needLocking, (* the list "needLocking"                                   *)
  locked,      (* the list "locked"                                        *)
  results,     (* the answers of the pipeline                              *)
  next,        (* the index of the next command, or of the next answer     *)
  attempts, calls, faults

vars == <<owner, mortal, pc, needLocking, locked, results, next, attempts, calls, faults>>
localVars == <<needLocking, locked, results, next, attempts>>

\* "held": the call has returned true; "refused": it has returned false.
PC == {"idle", "pipeline", "answers", "release", "held", "refused"}

TypeOK ==
  /\ owner \in [Key -> Client \cup {Nobody}]
  /\ mortal \in SUBSET Key
  /\ pc \in [Client -> PC]
  /\ needLocking \in [Client -> Seq(Key)]
  /\ locked \in [Client -> Seq(Key)]
  /\ results \in [Client -> Seq({0, 1})]
  /\ next \in [Client -> Nat \ {0}]
  /\ attempts \in [Client -> Nat]
  /\ calls \in [Client -> Nat]
  /\ faults \in Nat

Goto(c, l) == pc' = [pc EXCEPT ![c] = l]

Owned(c) == {k \in Key : owner[k] = c}

\* The result of needLocking.removeAll(locked), and whether it is empty.
Without(s, t) ==
  LET rest[n \in 0 .. Len(s)] ==
        IF n = 0 THEN <<>>
        ELSE IF Contains(t, s[n]) THEN rest[n - 1] ELSE Append(rest[n - 1], s[n])
  IN  rest[Len(s)]
Covers(t, s)  == ToSet(s) \subseteq ToSet(t)

\* The local variables of a call that has ended.
Forget(c) ==
  /\ needLocking' = [needLocking EXCEPT ![c] = <<>>]
  /\ locked' = [locked EXCEPT ![c] = <<>>]
  /\ results' = [results EXCEPT ![c] = <<>>]
  /\ next' = [next EXCEPT ![c] = 1]
  /\ attempts' = [attempts EXCEPT ![c] = 0]

-----------------------------------------------------------------------------
\* tryLock(keyList, timeout, unit) is called, and fills the first pipeline.
Call(c) ==
  /\ pc[c] \in {"idle", "refused"}
  /\ calls[c] < MaxCalls
  /\ calls' = [calls EXCEPT ![c] = @ + 1]
  /\ attempts' = [attempts EXCEPT ![c] = 1]
  /\ needLocking' = [needLocking EXCEPT ![c] = KeyList[c]]
  /\ Goto(c, "pipeline")
  /\ UNCHANGED <<owner, mortal, locked, results, next, faults>>

\* Redis carries out the next setnx of the pipeline.
PipelinedSetnx(c) ==
  /\ pc[c] = "pipeline"
  /\ next[c] <= Len(KeyList[c])
  /\ LET k == KeyList[c][next[c]] IN
       /\ owner' = [owner EXCEPT ![k] = IF @ = Nobody THEN c ELSE @]
       /\ results' = [results EXCEPT ![c] = Append(@, IF owner[k] = Nobody THEN 1 ELSE 0)]
  /\ next' = [next EXCEPT ![c] = @ + 1]
  /\ UNCHANGED <<mortal, pc, needLocking, locked, attempts, calls, faults>>

\* Mutant: the answers are counted from 0 as the list counts them.
PipelineEndsAtZero(c) ==
  /\ pc[c] = "pipeline"
  /\ next[c] > Len(KeyList[c])
  /\ next' = [next EXCEPT ![c] = 0]
  /\ Goto(c, "answers")
  /\ UNCHANGED <<owner, mortal, needLocking, locked, results, attempts, calls, faults>>

\* syncAndReturnAll() has all the answers.
PipelineEnds(c) ==
  /\ pc[c] = "pipeline"
  /\ next[c] > Len(KeyList[c])
  /\ next' = [next EXCEPT ![c] = 1]
  /\ Goto(c, "answers")
  /\ UNCHANGED <<owner, mortal, needLocking, locked, results, attempts, calls, faults>>

\* Mutant: the keys get no lifetime.
AnswerNoExpiry(c) ==
  /\ pc[c] = "answers"
  /\ next[c] <= Len(results[c])
  /\ locked' = [locked EXCEPT ![c] = IF results[c][next[c]] = 1
                                     THEN Append(@, needLocking[c][next[c]]) ELSE @]
  /\ next' = [next EXCEPT ![c] = @ + 1]
  /\ UNCHANGED <<owner, mortal, pc, needLocking, results, attempts, calls, faults>>

\* The loop over the answers looks at the next one: the key it is taken to be
\* about is the one needLocking has at the same index.
Answer(c) ==
  /\ pc[c] = "answers"
  /\ next[c] <= Len(results[c])
  /\ LET k == needLocking[c][next[c]] IN
       IF results[c][next[c]] = 1
       THEN /\ mortal' = IF owner[k] # Nobody THEN mortal \cup {k} ELSE mortal
            /\ locked' = [locked EXCEPT ![c] = Append(@, k)]
       ELSE UNCHANGED <<mortal, locked>>
  /\ next' = [next EXCEPT ![c] = @ + 1]
  /\ UNCHANGED <<owner, pc, needLocking, results, attempts, calls, faults>>

\* Mutant: one key is enough to return true.
EndOfRoundAnyKey(c) ==
  /\ pc[c] = "answers"
  /\ next[c] > Len(results[c])
  /\ IF locked[c] # <<>> THEN Goto(c, "held") /\ Forget(c)
     ELSE Goto(c, "release") /\ UNCHANGED localVars
  /\ UNCHANGED <<owner, mortal, calls, faults>>

\* The rest of a round: true when every key is locked; otherwise, with a timeout
\* and before the deadline, the next round, which adds the whole list again.
EndOfRound(c) ==
  /\ pc[c] = "answers"
  /\ next[c] > Len(results[c])
  /\ \/ /\ Covers(locked[c], needLocking[c])
        /\ Goto(c, "held")
        /\ Forget(c)
     \/ /\ ~Covers(locked[c], needLocking[c])
        /\ c \in Waits /\ attempts[c] < MaxAttempts
        /\ attempts' = [attempts EXCEPT ![c] = @ + 1]
        /\ needLocking' = [needLocking EXCEPT ![c] = Without(@, locked[c]) \o KeyList[c]]
        /\ results' = [results EXCEPT ![c] = <<>>]
        /\ next' = [next EXCEPT ![c] = 1]
        /\ Goto(c, "pipeline")
        /\ UNCHANGED locked
     \/ /\ ~Covers(locked[c], needLocking[c])
        /\ Goto(c, "release")
        /\ UNCHANGED localVars
  /\ UNCHANGED <<owner, mortal, calls, faults>>

Delete(ks) ==
  /\ owner' = [k \in Key |-> IF k \in ks THEN Nobody ELSE owner[k]]
  /\ mortal' = mortal \ ks

\* Mutant: the call returns false and keeps what it has locked.
ReleaseNothing(c) ==
  /\ pc[c] = "release"
  /\ Goto(c, "refused")
  /\ Forget(c)
  /\ UNCHANGED <<owner, mortal, calls, faults>>

\* Mutant: all the keys of the list are released.
ReleaseWholeList(c) ==
  /\ pc[c] = "release"
  /\ Delete(ToSet(KeyList[c]))
  /\ Goto(c, "refused")
  /\ Forget(c)
  /\ UNCHANGED <<calls, faults>>

\* The keys that were locked are released, and the call returns false.
ReleasePart(c) ==
  /\ pc[c] = "release"
  /\ Delete(ToSet(locked[c]))
  /\ Goto(c, "refused")
  /\ Forget(c)
  /\ UNCHANGED <<calls, faults>>

Fault == faults < MaxFaults /\ faults' = faults + 1

\* A command throws, and Redis may have carried it out: the call logs it and
\* returns true.
Throw(c) ==
  /\ pc[c] \in {"pipeline", "answers", "release"}
  /\ Fault
  /\ Goto(c, "held")
  /\ Forget(c)
  /\ \/ UNCHANGED <<owner, mortal>>
     \/ pc[c] = "release" /\ Delete(ToSet(locked[c]))
  /\ UNCHANGED calls

\* unLock(keyList), which a client calls when it has worked under the locks; it
\* swallows what the command throws.
UnLock(c) ==
  /\ pc[c] = "held"
  /\ \/ Delete(ToSet(KeyList[c])) /\ UNCHANGED faults
     \/ Fault /\ (Delete(ToSet(KeyList[c])) \/ UNCHANGED <<owner, mortal>>)
  /\ Goto(c, "idle")
  /\ UNCHANGED <<localVars, calls>>

-----------------------------------------------------------------------------
Init ==
  /\ owner = [k \in Key |-> Nobody]
  /\ mortal = {}
  /\ pc = [c \in Client |-> "idle"]
  /\ needLocking = [c \in Client |-> <<>>]
  /\ locked = [c \in Client |-> <<>>]
  /\ results = [c \in Client |-> <<>>]
  /\ next = [c \in Client |-> 1]
  /\ attempts = [c \in Client |-> 0]
  /\ calls = [c \in Client |-> 0]
  /\ faults = 0

Step(c) ==
  \/ PipelinedSetnx(c)
  \/ PipelineEnds(c)
  \/ Answer(c)
  \/ EndOfRound(c)
  \/ ReleasePart(c)
  \/ UnLock(c)

Next == \E c \in Client : Call(c) \/ Step(c) \/ Throw(c)

Spec == Init /\ [][Next]_vars

-----------------------------------------------------------------------------
(* What the lock promises, as long as no command has thrown.               *)

\* "Returns true when all are got": a client that has been told true made every
\* key of its list, so no two clients with a key in common work at a time.
TrueMeansAll ==
  faults = 0 => \A c \in Client : pc[c] = "held" => ToSet(KeyList[c]) \subseteq Owned(c)

\* "Releases the part that is locked and returns failure": a client that has been
\* told false at once has left no key in Redis.  (With a timeout it may have.)
FalseMeansNone ==
  faults = 0 => \A c \in Client \ Waits : pc[c] = "refused" => Owned(c) = {}

\* Every key that a call without a timeout leaves in Redis has a lifetime.
HeldKeysAreMortal ==
  faults = 0 => \A c \in Client \ Waits :
    pc[c] \in {"held", "refused", "idle"} => Owned(c) \subseteq mortal

\* A call never deletes a key that another client made.
OnlyOwnKeysGo ==
  [][\A k \in Key : owner[k] # Nobody /\ owner'[k] # owner[k] =>
       faults > 0 \/ pc[owner[k]] # pc'[owner[k]]]_vars
=============================================================================
