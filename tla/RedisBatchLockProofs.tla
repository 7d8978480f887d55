------------------------ MODULE RedisBatchLockProofs ------------------------
(***************************************************************************)
(* What RedisBatchLock promises for any clients and any bounds.  What a    *)
(* call without a timeout leaves behind holds for any lists and whatever   *)
(* the other clients do.  That true means all keys, and that nobody        *)
(* deletes the key of another, holds for any lists that are locked without *)
(* a timeout, and for lists of at most two keys with one: from the second  *)
(* round on, a call takes the answers for those of other keys, and it is   *)
(* of two keys only that the other one must be its own.                    *)
(*                                                                         *)
(* The invariant follows a call: which answers are the ones about which    *)
(* keys (CallInv), that the keys a client made are among those answered    *)
(* with 1, then among those locked (LeftInv); with timeouts, that there is *)
(* a key at the index of every answer (ListInv), and that the keys taken   *)
(* for answered, locked or held are the client's own (HeldInv).            *)
(***************************************************************************)
EXTENDS RedisBatchLock, WellFoundedInduction, TLAPS

Asked(c) == pc[c] \in {"pipeline", "answers"}

\* What is known of the variables, waiting clients included.
Basics ==
  /\ owner \in [Key -> Client \cup {Nobody}]
  /\ pc \in [Client -> PC]
  /\ results \in [Client -> Seq({0, 1})]
  /\ next \in [Client -> Nat \ {0}]
  /\ attempts \in [Client -> Nat]
  /\ calls \in [Client -> Nat]
  /\ faults \in Nat
  /\ DOMAIN needLocking = Client
  /\ DOMAIN locked = Client

\* The local variables of a call without a timeout: its answers are in the order
\* of the keys that it needs.
CallInv(c) ==
  /\ locked[c] \in Seq(Key)
  /\ pc[c] \in {"idle", "held", "refused"} =>
       needLocking[c] = <<>> /\ locked[c] = <<>> /\ results[c] = <<>> /\ next[c] = 1
  /\ pc[c] # "idle" /\ pc[c] # "held" /\ pc[c] # "refused" => needLocking[c] = KeyList[c]
  /\ pc[c] = "pipeline" =>
       Len(results[c]) = next[c] - 1 /\ next[c] <= Len(KeyList[c]) + 1 /\ locked[c] = <<>>
  /\ pc[c] = "answers" =>
       Len(results[c]) = Len(KeyList[c]) /\ next[c] <= Len(KeyList[c]) + 1

\* The keys a client made are known to its call, and those of which the answer has
\* been looked at have a lifetime.
LeftInv(c) ==
  /\ pc[c] \in {"idle", "refused"} => \A k \in Key : owner[k] # c
  /\ Asked(c) =>
       \A k \in Key : owner[k] = c =>
         \E i \in 1 .. Len(results[c]) : results[c][i] = 1 /\ KeyList[c][i] = k
  /\ pc[c] = "answers" =>
       \A i \in 1 .. Len(results[c]) : i < next[c] /\ results[c][i] = 1 =>
         /\ KeyList[c][i] \in ToSet(locked[c])
         /\ owner[KeyList[c][i]] = c => KeyList[c][i] \in mortal
  /\ pc[c] = "release" => \A k \in Key : owner[k] = c => k \in ToSet(locked[c])
  /\ pc[c] = "held" => \A k \in Key : owner[k] = c => k \in ToSet(KeyList[c]) /\ k \in mortal

LeftAll == faults = 0 => \A c \in Client \ Waits : LeftInv(c)

Inv == Basics /\ (\A c \in Client \ Waits : CallInv(c)) /\ LeftAll

-----------------------------------------------------------------------------
\* The lists of keys.
LEMMA Lists ==
  ASSUME NEW c \in Client
  PROVE  /\ KeyList[c] \in Seq(Key)
         /\ Len(KeyList[c]) \in Nat
         /\ \A i \in 1 .. Len(KeyList[c]) : KeyList[c][i] \in Key
BY RedisBatchLockAssumption

\* ToSet in terms of the length.
LEMMA Elements ==
  ASSUME NEW S, NEW s \in Seq(S)
  PROVE  \A k : k \in ToSet(s) <=> \E i \in 1 .. Len(s) : s[i] = k
BY DEF ToSet

LEMMA ElementsOfAppend ==
  ASSUME NEW S, NEW s \in Seq(S), NEW e \in S
  PROVE  ToSet(Append(s, e)) = ToSet(s) \cup {e}
<1>1. Append(s, e) \in Seq(S) /\ Len(Append(s, e)) = Len(s) + 1
  OBVIOUS
<1>2. \A i \in 1 .. Len(s) + 1 : Append(s, e)[i] = IF i <= Len(s) THEN s[i] ELSE e
  OBVIOUS
<1>3. \A k : k \in ToSet(s) <=> \E i \in 1 .. Len(s) : s[i] = k
  BY Elements
<1>4. \A k : k \in ToSet(Append(s, e)) <=> \E i \in 1 .. Len(s) + 1 : Append(s, e)[i] = k
  <2> DEFINE t == Append(s, e)
  <2>1. t \in Seq(S) /\ Len(t) = Len(s) + 1
    BY <1>1
  <2> HIDE DEF t
  <2>2. \A k : k \in ToSet(t) <=> \E i \in 1 .. Len(t) : t[i] = k
    BY <2>1, Elements
  <2>. QED BY <2>1, <2>2 DEF t
<1>5. Len(s) \in Nat
  OBVIOUS
<1>6. ASSUME NEW k PROVE k \in ToSet(Append(s, e)) <=> k \in ToSet(s) \cup {e}
  <2>1. ASSUME NEW i \in 1 .. Len(s), s[i] = k PROVE k \in ToSet(Append(s, e))
    BY <1>2, <1>4, <1>5, <2>1
  <2>2. k = e => k \in ToSet(Append(s, e))
    <3>1. Len(s) + 1 \in 1 .. Len(s) + 1 /\ ~(Len(s) + 1 <= Len(s))
      BY <1>5
    <3>. QED BY <1>2, <1>4, <3>1
  <2>3. ASSUME NEW i \in 1 .. Len(s) + 1, Append(s, e)[i] = k PROVE k \in ToSet(s) \cup {e}
    BY <1>2, <1>3, <1>5, <2>3
  <2>. QED BY <1>3, <1>4, <2>1, <2>2, <2>3
<1>. QED BY <1>6

\* What a step of one client does to the keys: others gain none, and lose a
\* lifetime with the key alone.
LEMMA KeysStep ==
  ASSUME Basics, NEW c \in Client, Call(c) \/ Step(c) \/ Throw(c)
  PROVE  \A k \in Key : /\ owner'[k] \in {c, Nobody, owner[k]}
                        /\ k \in mortal /\ owner'[k] # Nobody => k \in mortal'
<1>0. owner \in [Key -> Client \cup {Nobody}] /\ next \in [Client -> Nat \ {0}]
  BY DEF Basics
<1>1. CASE Call(c) \/ PipelineEnds(c) \/ EndOfRound(c)
  BY <1>1 DEF Call, PipelineEnds, EndOfRound
<1>2. CASE PipelinedSetnx(c)
  BY <1>0, <1>2 DEF PipelinedSetnx
<1>3. CASE Answer(c)
  BY <1>0, <1>3 DEF Answer
<1>4. CASE ReleasePart(c)
  BY <1>0, <1>4 DEF ReleasePart, Delete
<1>5. CASE Throw(c)
  BY <1>0, <1>5 DEF Throw, Delete
<1>6. CASE UnLock(c)
  BY <1>0, <1>6 DEF UnLock, Delete
<1>. QED BY <1>1, <1>2, <1>3, <1>4, <1>5, <1>6 DEF Step

\* A step of one client leaves the local variables of another alone.
LEMMA OthersWait ==
  ASSUME Basics, NEW c \in Client, Call(c) \/ Step(c) \/ Throw(c), NEW d \in Client, d # c
  PROVE  /\ pc'[d] = pc[d] /\ needLocking'[d] = needLocking[d] /\ locked'[d] = locked[d]
         /\ results'[d] = results[d] /\ next'[d] = next[d]
<1>0. /\ pc \in [Client -> PC] /\ results \in [Client -> Seq({0, 1})]
      /\ next \in [Client -> Nat \ {0}]
      /\ DOMAIN needLocking = Client /\ DOMAIN locked = Client
  BY DEF Basics
<1>. QED
  BY <1>0 DEF Step, Call, PipelinedSetnx, PipelineEnds, Answer, EndOfRound, ReleasePart, UnLock,
     Throw, Goto, Forget, localVars

\* Exceptions are counted, and Throw is one.
LEMMA FaultsStep ==
  ASSUME Basics, NEW c \in Client, Call(c) \/ Step(c) \/ Throw(c), faults' = 0
  PROVE  faults = 0 /\ (Call(c) \/ Step(c))
<1>0. faults \in Nat
  BY DEF Basics
<1>1. Throw(c) => faults' = faults + 1
  BY DEF Throw, Fault
<1>2. UnLock(c) => faults' \in {faults, faults + 1}
  BY DEF UnLock, Fault
<1>3. CASE Call(c) \/ PipelinedSetnx(c) \/ PipelineEnds(c) \/ Answer(c)
  BY <1>3 DEF Call, Step, PipelinedSetnx, PipelineEnds, Answer
<1>4. CASE EndOfRound(c) \/ ReleasePart(c)
  BY <1>4 DEF Step, EndOfRound, ReleasePart
<1>. QED BY <1>0, <1>1, <1>2, <1>3, <1>4 DEF Step

LEMMA BasicsStep ==
  ASSUME Basics, [Next]_vars
  PROVE  Basics'
<1>0. Basics
  OBVIOUS
<1> USE DEF Basics, PC
<1>1. ASSUME NEW c \in Client, Call(c) PROVE Basics'
  BY <1>1 DEF Call, Goto
<1>2. ASSUME NEW c \in Client, PipelinedSetnx(c) PROVE Basics'
  <2>1. owner' \in [Key -> Client \cup {Nobody}]
    BY <1>2 DEF PipelinedSetnx
  <2>2. results' \in [Client -> Seq({0, 1})] /\ next' \in [Client -> Nat \ {0}]
    BY <1>2 DEF PipelinedSetnx
  <2>. QED BY <1>2, <2>1, <2>2 DEF PipelinedSetnx
<1>3. ASSUME NEW c \in Client, PipelineEnds(c) PROVE Basics'
  BY <1>3 DEF PipelineEnds, Goto
<1>4. ASSUME NEW c \in Client, Answer(c) PROVE Basics'
  BY <1>4 DEF Answer
<1>5. ASSUME NEW c \in Client, EndOfRound(c) PROVE Basics'
  <2>1. /\ results' = results \/ results' = [results EXCEPT ![c] = <<>>]
        /\ next' = next \/ next' = [next EXCEPT ![c] = 1]
    BY <1>5 DEF EndOfRound, Forget, localVars
  <2>2. results' \in [Client -> Seq({0, 1})]
    <3>1. <<>> \in Seq({0, 1})
      OBVIOUS
    <3>. QED BY <2>1, <3>1
  <2>3. next' \in [Client -> Nat \ {0}]
    BY <2>1
  <2>6. attempts' \in [Client -> Nat]
    <3>1. \/ attempts' = attempts \/ attempts' = [attempts EXCEPT ![c] = 0]
          \/ attempts' = [attempts EXCEPT ![c] = @ + 1]
      BY <1>5 DEF EndOfRound, Forget, localVars
    <3>2. attempts \in [Client -> Nat] /\ \A n \in Nat : n + 1 \in Nat
      OBVIOUS
    <3> HIDE DEF Basics
    <3>. QED BY <3>1, <3>2
  <2>4. pc' \in [Client -> PC]
    <3>1. Goto(c, "held") \/ Goto(c, "pipeline") \/ Goto(c, "release")
      BY <1>5 DEF EndOfRound
    <3>. QED BY <3>1 DEF Goto
  <2>5. DOMAIN locked' = Client /\ DOMAIN needLocking' = Client
    BY <1>5 DEF EndOfRound, Forget, localVars
  <2>. QED BY <1>5, <2>2, <2>3, <2>4, <2>5, <2>6 DEF EndOfRound
<1>6. ASSUME NEW c \in Client, ReleasePart(c) PROVE Basics'
  BY <1>6 DEF ReleasePart, Delete, Goto, Forget
<1>7. ASSUME NEW c \in Client, UnLock(c) PROVE Basics'
  BY <1>7 DEF UnLock, Delete, Goto, Fault, localVars
<1>8. ASSUME NEW c \in Client, Throw(c) PROVE Basics'
  BY <1>8 DEF Throw, Delete, Goto, Forget, Fault
<1>9. CASE UNCHANGED vars
  BY <1>9 DEF vars
<1>. QED BY <1>1, <1>2, <1>3, <1>4, <1>5, <1>6, <1>7, <1>8, <1>9 DEF Next, Step

-----------------------------------------------------------------------------
\* A step of a call without a timeout keeps the answers in the order of its keys.
LEMMA CallOwn ==
  ASSUME Basics, NEW c \in Client \ Waits, CallInv(c), Call(c) \/ Step(c) \/ Throw(c)
  PROVE  CallInv(c)'
<1>0. /\ c \in Client /\ pc \in [Client -> PC] /\ results \in [Client -> Seq({0, 1})]
      /\ next \in [Client -> Nat \ {0}]
      /\ DOMAIN needLocking = Client /\ DOMAIN locked = Client
  BY DEF Basics
<1>1. CASE Call(c)
  BY <1>0, <1>1, Lists DEF CallInv, Call, Goto
<1>2. CASE PipelinedSetnx(c)
  <2>1. /\ pc'[c] = "pipeline" /\ needLocking'[c] = KeyList[c] /\ locked'[c] = <<>>
        /\ next'[c] = next[c] + 1 /\ next[c] <= Len(KeyList[c])
    BY <1>0, <1>2 DEF CallInv, PipelinedSetnx
  <2>2. Len(results'[c]) = Len(results[c]) + 1
    <3>1. \E e \in {0, 1} : results' = [results EXCEPT ![c] = Append(@, e)]
      BY <1>2 DEF PipelinedSetnx
    <3>. QED BY <1>0, <3>1
  <2>3. Len(results[c]) = next[c] - 1
    BY <1>2 DEF CallInv, PipelinedSetnx
  <2>. QED BY <1>0, <2>1, <2>2, <2>3, Lists DEF CallInv
<1>3. CASE PipelineEnds(c)
  BY <1>0, <1>3, Lists DEF CallInv, PipelineEnds, Goto
<1>4. CASE Answer(c)
  <2>1. /\ pc[c] = "answers" /\ pc'[c] = "answers" /\ needLocking'[c] = KeyList[c]
        /\ results'[c] = results[c] /\ next'[c] = next[c] + 1 /\ next[c] <= Len(results[c])
    BY <1>0, <1>4 DEF CallInv, Answer
  <2>2. locked'[c] = locked[c] \/ locked'[c] = Append(locked[c], KeyList[c][next[c]])
    BY <1>0, <1>4 DEF CallInv, Answer
  <2>3. next[c] \in 1 .. Len(KeyList[c])
    BY <1>0, <2>1, Lists DEF CallInv
  <2>4. locked'[c] \in Seq(Key)
    <3>1. locked[c] \in Seq(Key) /\ KeyList[c][next[c]] \in Key
      BY <2>3, Lists DEF CallInv
    <3>2. Append(locked[c], KeyList[c][next[c]]) \in Seq(Key)
      BY <3>1
    <3>. QED BY <2>2, <3>1, <3>2
  <2>. QED BY <1>0, <2>1, <2>3, <2>4, Lists DEF CallInv
<1>5. CASE EndOfRound(c)
  <2>1. CASE Goto(c, "held") /\ Forget(c)
    BY <1>0, <2>1 DEF CallInv, Goto, Forget
  <2>2. CASE Goto(c, "release") /\ UNCHANGED localVars
    BY <1>0, <1>5, <2>2 DEF CallInv, EndOfRound, Goto, localVars
  <2>. QED BY <1>5, <2>1, <2>2 DEF EndOfRound
<1>6. CASE ReleasePart(c) \/ Throw(c)
  <2>1. pc'[c] \in {"held", "refused"}
    BY <1>0, <1>6 DEF ReleasePart, Throw, Goto
  <2>2. needLocking'[c] = <<>> /\ locked'[c] = <<>> /\ results'[c] = <<>> /\ next'[c] = 1
    BY <1>0, <1>6 DEF ReleasePart, Throw, Forget
  <2>. QED BY <2>1, <2>2 DEF CallInv
<1>7. CASE UnLock(c)
  BY <1>0, <1>7 DEF CallInv, UnLock, Goto, localVars
<1>. QED BY <1>1, <1>2, <1>3, <1>4, <1>5, <1>6, <1>7 DEF Step

\* Only the client's own steps, and only before the first exception, matter to what
\* it has left.
LEMMA LeftOwn ==
  ASSUME Basics, NEW c \in Client \ Waits, CallInv(c), LeftInv(c),
         Call(c) \/ Step(c), faults' = faults
  PROVE  LeftInv(c)'
<1>0. /\ c \in Client /\ pc \in [Client -> PC] /\ results \in [Client -> Seq({0, 1})]
      /\ next \in [Client -> Nat \ {0}] /\ owner \in [Key -> Client \cup {Nobody}]
      /\ faults \in Nat /\ Nobody \notin Client
      /\ DOMAIN needLocking = Client /\ DOMAIN locked = Client
  BY RedisBatchLockAssumption DEF Basics
<1>1. CASE Call(c)
  BY <1>0, <1>1 DEF CallInv, LeftInv, Asked, Call, Goto
<1>2. CASE PipelinedSetnx(c)
  <2> DEFINE i == next[c]
             k == KeyList[c][i]
             e == IF owner[k] = Nobody THEN 1 ELSE 0
  <2>1. /\ pc[c] = "pipeline" /\ i \in 1 .. Len(KeyList[c]) /\ Len(results[c]) = i - 1
        /\ k \in Key
    BY <1>0, <1>2, Lists DEF CallInv, PipelinedSetnx
  <2>2. /\ pc'[c] = "pipeline"
        /\ owner' = [owner EXCEPT ![k] = IF @ = Nobody THEN c ELSE @]
        /\ results'[c] = Append(results[c], e)
    BY <1>0, <1>2 DEF PipelinedSetnx
  <2>3. /\ Len(results'[c]) = i /\ results'[c][i] = e
        /\ \A j \in 1 .. Len(results[c]) : results'[c][j] = results[c][j]
    BY <1>0, <2>1, <2>2
  <2>4. ASSUME NEW l \in Key, owner'[l] = c
        PROVE  \E j \in 1 .. i : results'[c][j] = 1 /\ KeyList[c][j] = l
    <3>1. CASE owner[l] = c
      BY <1>0, <2>1, <2>3, <3>1 DEF LeftInv, Asked
    <3>2. CASE owner[l] # c
      <4>1. l = k /\ e = 1
        BY <1>0, <2>1, <2>2, <2>4, <3>2
      <4>. QED BY <1>0, <2>1, <2>3, <4>1
    <3>. QED BY <3>1, <3>2
  <2>. QED BY <2>2, <2>3, <2>4 DEF LeftInv, Asked
<1>3. CASE PipelineEnds(c)
  BY <1>0, <1>3 DEF LeftInv, Asked, PipelineEnds, Goto
<1>4. CASE Answer(c)
  <2> DEFINE i == next[c]
             k == KeyList[c][i]
  <2>1. /\ pc[c] = "answers" /\ pc'[c] = "answers" /\ UNCHANGED <<owner, results>>
        /\ next'[c] = i + 1 /\ i \in 1 .. Len(results[c])
        /\ needLocking[c] = KeyList[c] /\ k \in Key /\ Len(results[c]) \in Nat
    BY <1>0, <1>4, Lists DEF CallInv, Answer
  <2>2. ToSet(locked[c]) \subseteq ToSet(locked'[c]) /\ mortal \subseteq mortal'
    <3>1. ToSet(Append(locked[c], k)) = ToSet(locked[c]) \cup {k}
      BY <2>1, ElementsOfAppend DEF CallInv
    <3>. QED BY <1>0, <1>4, <2>1, <3>1, ZenonT(40) DEF Answer
  <2>3. results[c][i] = 1 => k \in ToSet(locked'[c]) /\ (owner[k] = c => k \in mortal')
    <3>1. ToSet(Append(locked[c], k)) = ToSet(locked[c]) \cup {k}
      BY <2>1, ElementsOfAppend DEF CallInv
    <3>. QED BY <1>0, <1>4, <2>1, <3>1 DEF Answer
  <2>4. ASSUME NEW j \in 1 .. Len(results[c]), j < i + 1, results[c][j] = 1
        PROVE  KeyList[c][j] \in ToSet(locked'[c])
               /\ (owner[KeyList[c][j]] = c => KeyList[c][j] \in mortal')
    <3>1. j < i \/ j = i
      BY <1>0, <2>1, <2>4
    <3>. QED BY <2>1, <2>2, <2>3, <2>4, <3>1 DEF LeftInv
  <2>. QED BY <2>1, <2>4 DEF LeftInv, Asked
<1>5. CASE EndOfRound(c)
  <2>1. /\ pc[c] = "answers" /\ UNCHANGED <<owner, mortal>>
        /\ next[c] > Len(results[c]) /\ Len(results[c]) = Len(KeyList[c])
    BY <1>5 DEF EndOfRound, CallInv
  <2>2. ASSUME NEW k \in Key, owner[k] = c
        PROVE  k \in ToSet(locked[c]) /\ k \in mortal /\ k \in ToSet(KeyList[c])
    <3>1. PICK i \in 1 .. Len(results[c]) : results[c][i] = 1 /\ KeyList[c][i] = k
      BY <2>1, <2>2 DEF LeftInv, Asked
    <3>2. i < next[c]
      BY <1>0, <2>1, <3>1
    <3>3. k \in ToSet(KeyList[c])
      BY <2>1, <3>1, Lists, Elements
    <3>. QED BY <2>1, <2>2, <3>1, <3>2, <3>3 DEF LeftInv
  <2>3. CASE pc'[c] = "held"
    BY <2>1, <2>2, <2>3 DEF LeftInv, Asked
  <2>4. CASE pc'[c] = "release" /\ locked'[c] = locked[c]
    BY <2>1, <2>2, <2>4 DEF LeftInv, Asked
  <2>. QED BY <1>0, <1>5, <2>3, <2>4 DEF EndOfRound, Goto, localVars
<1>6. CASE ReleasePart(c)
  <2>1. pc[c] = "release" /\ pc'[c] = "refused"
    BY <1>0, <1>6 DEF ReleasePart, Goto
  <2>2. \A k \in Key : owner'[k] # c
    BY <1>0, <1>6, <2>1 DEF ReleasePart, Delete, LeftInv
  <2>. QED BY <2>1, <2>2 DEF LeftInv, Asked
<1>7. CASE UnLock(c)
  <2>1. pc[c] = "held" /\ pc'[c] = "idle"
    BY <1>0, <1>7 DEF UnLock, Goto
  <2>2. Delete(ToSet(KeyList[c]))
    BY <1>0, <1>7 DEF UnLock, Fault
  <2>3. \A k \in Key : owner'[k] # c
    BY <1>0, <2>1, <2>2 DEF Delete, LeftInv
  <2>. QED BY <2>1, <2>3 DEF LeftInv, Asked
<1>. QED BY <1>1, <1>2, <1>3, <1>4, <1>5, <1>6, <1>7 DEF Step

-----------------------------------------------------------------------------
LEMMA InvInit == Init => Inv
<1> SUFFICES ASSUME Init PROVE Inv
  OBVIOUS
<1>1. Basics
  BY DEF Init, Basics, PC
<1>2. \A c \in Client : CallInv(c)
  BY DEF Init, CallInv
<1>3. \A c \in Client : LeftInv(c)
  BY RedisBatchLockAssumption DEF Init, LeftInv, Asked
<1>. QED BY <1>1, <1>2, <1>3 DEF Inv, LeftAll

LEMMA InvStep ==
  ASSUME Inv, [Next]_vars
  PROVE  Inv'
<1>1. Basics'
  BY BasicsStep DEF Inv
<1>2. CASE UNCHANGED vars
  BY <1>1, <1>2 DEF Inv, vars, CallInv, LeftAll, LeftInv, Asked
<1>3. ASSUME NEW c \in Client, Call(c) \/ Step(c) \/ Throw(c) PROVE Inv'
  <2>1. ASSUME NEW d \in Client \ Waits PROVE CallInv(d)'
    <3>1. CASE d = c
      BY <1>3, <3>1, CallOwn DEF Inv
    <3>2. CASE d # c
      BY <1>3, <3>2, OthersWait DEF Inv, CallInv
    <3>. QED BY <3>1, <3>2
  <2>2. ASSUME NEW d \in Client \ Waits, faults' = 0 PROVE LeftInv(d)'
    <3>1. faults = 0 /\ faults' = faults /\ (Call(c) \/ Step(c))
      BY <1>3, <2>2, FaultsStep DEF Inv
    <3>2. CallInv(d) /\ LeftInv(d)
      BY <3>1 DEF Inv, LeftAll
    <3>3. CASE d = c
      BY <3>1, <3>2, <3>3, LeftOwn DEF Inv
    <3>4. CASE d # c
      <4>1. /\ pc'[d] = pc[d] /\ locked'[d] = locked[d]
            /\ results'[d] = results[d] /\ next'[d] = next[d]
        BY <1>3, <3>4, OthersWait DEF Inv
      <4>2. \A k \in Key : owner'[k] = d => owner[k] = d /\ (k \in mortal => k \in mortal')
        BY <1>3, <3>4, KeysStep, RedisBatchLockAssumption DEF Inv
      <4>3. \A j \in 1 .. Len(results[d]) : pc[d] = "answers" => KeyList[d][j] \in Key
        BY <3>2, Lists DEF CallInv
      <4>4. ASSUME pc[d] = "answers", NEW i \in 1 .. Len(results[d]), i < next[d], results[d][i] = 1
            PROVE  /\ KeyList[d][i] \in ToSet(locked[d])
                   /\ owner'[KeyList[d][i]] = d => KeyList[d][i] \in mortal'
        BY <3>2, <4>2, <4>3, <4>4 DEF LeftInv
      <4>5. Asked(d) => \A k \in Key : owner'[k] = d =>
              \E i \in 1 .. Len(results[d]) : results[d][i] = 1 /\ KeyList[d][i] = k
        BY <3>2, <4>2 DEF LeftInv
      <4>6. /\ pc[d] \in {"idle", "refused"} => \A k \in Key : owner'[k] # d
            /\ pc[d] = "release" => \A k \in Key : owner'[k] = d => k \in ToSet(locked[d])
            /\ pc[d] = "held" =>
                 \A k \in Key : owner'[k] = d => k \in ToSet(KeyList[d]) /\ k \in mortal'
        BY <3>2, <4>2 DEF LeftInv
      <4>. QED BY <4>1, <4>4, <4>5, <4>6 DEF LeftInv, Asked
    <3>. QED BY <3>3, <3>4
  <2>. QED BY <1>1, <2>1, <2>2 DEF Inv, LeftAll
<1>. QED BY <1>2, <1>3 DEF Next

LEMMA InvAlways == Spec => []Inv
<1>1. Inv /\ [Next]_vars => Inv'
  BY InvStep
<1>. QED BY <1>1, InvInit, PTL DEF Spec

\* As long as no command has thrown, a call without a timeout that was refused has
\* left no key, whatever the clients that give a timeout do.
THEOREM NothingIsLeft == Spec => []FalseMeansNone
<1>1. Inv => FalseMeansNone
  BY DEF Inv, LeftAll, LeftInv, FalseMeansNone, Owned
<1>. QED BY <1>1, InvAlways, PTL

\* As long as no command has thrown, no key that a call without a timeout has left
\* stays for ever, whatever the clients that give a timeout do.
THEOREM KeysAreMortal == Spec => []HeldKeysAreMortal
<1>1. Inv => HeldKeysAreMortal
  BY DEF Inv, LeftAll, LeftInv, HeldKeysAreMortal, Owned
<1>. QED BY <1>1, InvAlways, PTL

-----------------------------------------------------------------------------
(* What removeAll() leaves: induction over the list.                       *)

Less == {e \in Nat \X Nat : e[1] < e[2]}

LEMMA Induction ==
  ASSUME NEW T, 0 \in T, \A n \in Nat : n \in T => n + 1 \in T
  PROVE  Nat \subseteq T
<1>1. IsWellFoundedOn(Less, Nat)
  <2>1. Less = OpToRel(<, Nat)
    BY DEF Less, OpToRel
  <2>. QED BY <2>1, NatLessThanWellFounded
<1> SUFFICES ASSUME Nat \ T # {} PROVE FALSE
  OBVIOUS
<1>2. PICK n \in Nat \ T : \A m \in Nat \ T : <<m, n>> \notin Less
  BY <1>1, WFMin
<1>3. n # 0 /\ n - 1 \in Nat /\ n - 1 < n /\ (n - 1) + 1 = n
  BY <1>2
<1>4. n - 1 \in T
  BY <1>2, <1>3 DEF Less
<1>. QED BY <1>2, <1>3, <1>4

\* f[n] is what is left of the first n elements.
Leaves(f, s, t, m) ==
  f = [n \in 0 .. m |->
         IF n = 0 THEN <<>>
         ELSE IF Contains(t, s[n]) THEN f[n - 1] ELSE Append(f[n - 1], s[n])]

LEMMA LeavesExist ==
  ASSUME NEW s, NEW t
  PROVE  \A m \in Nat : \E f : Leaves(f, s, t, m)
<1> DEFINE T == {m \in Nat : \E f : Leaves(f, s, t, m)}
<1>1. 0 \in T
  <2> DEFINE f == [n \in 0 .. 0 |-> <<>>]
  <2>1. f = [n \in 0 .. 0 |->
               IF n = 0 THEN <<>>
               ELSE IF Contains(t, s[n]) THEN f[n - 1] ELSE Append(f[n - 1], s[n])]
    OBVIOUS
  <2>. QED BY <2>1 DEF Leaves
<1>2. ASSUME NEW m \in Nat, m \in T PROVE m + 1 \in T
  <2>1. PICK f : Leaves(f, s, t, m)
    BY <1>2
  <2> DEFINE k == m + 1
             g == [n \in 0 .. k |->
                     IF n \in 0 .. m THEN f[n]
                     ELSE IF Contains(t, s[k]) THEN f[m] ELSE Append(f[m], s[k])]
  <2>2. /\ DOMAIN f = 0 .. m
        /\ \A n \in 0 .. m : f[n] = IF n = 0 THEN <<>>
                                    ELSE IF Contains(t, s[n]) THEN f[n - 1]
                                    ELSE Append(f[n - 1], s[n])
    <3> DEFINE h == [n \in 0 .. m |->
                       IF n = 0 THEN <<>>
                       ELSE IF Contains(t, s[n]) THEN f[n - 1] ELSE Append(f[n - 1], s[n])]
    <3>1. f = h
      BY <2>1 DEF Leaves
    <3>2. DOMAIN h = 0 .. m /\ \A n \in 0 .. m : h[n] = IF n = 0 THEN <<>>
                                    ELSE IF Contains(t, s[n]) THEN f[n - 1]
                                    ELSE Append(f[n - 1], s[n])
      OBVIOUS
    <3> HIDE DEF h
    <3>. QED BY <3>1, <3>2
  <2>3. k \in Nat /\ k - 1 = m /\ k \notin 0 .. m /\ k # 0
    OBVIOUS
  <2>4. \A n \in 0 .. m : g[n] = f[n]
    OBVIOUS
  <2>5. g[k] = IF Contains(t, s[k]) THEN f[m] ELSE Append(f[m], s[k])
    BY <2>3
  <2>6. DOMAIN g = 0 .. k /\ g = [n \in 0 .. k |-> g[n]]
    OBVIOUS
  <2> HIDE DEF g
  <2>7. ASSUME NEW n \in 0 .. k
        PROVE  g[n] = IF n = 0 THEN <<>>
                      ELSE IF Contains(t, s[n]) THEN g[n - 1] ELSE Append(g[n - 1], s[n])
    <3>1. CASE n = k
      <4>1. g[k - 1] = f[m]
        BY <2>3, <2>4
      <4>. QED BY <2>3, <2>5, <3>1, <4>1
    <3>2. CASE n # k
      <4>1. n \in 0 .. m /\ g[n] = f[n]
        BY <2>3, <2>4, <2>7, <3>2
      <4>2. n # 0 => g[n - 1] = f[n - 1]
        BY <2>4, <4>1
      <4>. QED BY <2>2, <4>1, <4>2
    <3>. QED BY <3>1, <3>2
  <2>8. Leaves(g, s, t, k)
    BY <2>6, <2>7 DEF Leaves
  <2>. QED BY <2>3, <2>8
<1> HIDE DEF T
<1>3. Nat \subseteq T
  BY <1>1, <1>2, Induction
<1>. QED BY <1>3 DEF T

LEMMA WithoutIs ==
  ASSUME NEW S, NEW s \in Seq(S), NEW t
  PROVE  \E f : /\ Without(s, t) = f[Len(s)] /\ f[0] = <<>>
                /\ \A n \in 1 .. Len(s) :
                     f[n] = IF Contains(t, s[n]) THEN f[n - 1] ELSE Append(f[n - 1], s[n])
<1> DEFINE f == CHOOSE f : Leaves(f, s, t, Len(s))
<1>1. Without(s, t) = f[Len(s)]
  BY DEF Without, Leaves
<1>2. Len(s) \in Nat
  OBVIOUS
<1>3. Leaves(f, s, t, Len(s))
  BY <1>2, LeavesExist
<1> HIDE DEF f
<1>4. \A n \in 0 .. Len(s) : f[n] = IF n = 0 THEN <<>>
                                    ELSE IF Contains(t, s[n]) THEN f[n - 1]
                                    ELSE Append(f[n - 1], s[n])
  <2> DEFINE h == [n \in 0 .. Len(s) |->
                     IF n = 0 THEN <<>>
                     ELSE IF Contains(t, s[n]) THEN f[n - 1] ELSE Append(f[n - 1], s[n])]
  <2>1. f = h
    BY <1>3 DEF Leaves
  <2>2. \A n \in 0 .. Len(s) : h[n] = IF n = 0 THEN <<>>
                                    ELSE IF Contains(t, s[n]) THEN f[n - 1]
                                    ELSE Append(f[n - 1], s[n])
    OBVIOUS
  <2> HIDE DEF h
  <2>. QED BY <2>1, <2>2
<1>5. f[0] = <<>> /\ \A n \in 1 .. Len(s) :
        f[n] = IF Contains(t, s[n]) THEN f[n - 1] ELSE Append(f[n - 1], s[n])
  BY <1>2, <1>4
<1>. QED BY <1>1, <1>5

\* It is a list of elements that were there before.
LEMMA WithoutType ==
  ASSUME NEW S, NEW s \in Seq(S), NEW t
  PROVE  Without(s, t) \in Seq(S)
<1>1. PICK f : /\ Without(s, t) = f[Len(s)] /\ f[0] = <<>>
               /\ \A n \in 1 .. Len(s) :
                    f[n] = IF Contains(t, s[n]) THEN f[n - 1] ELSE Append(f[n - 1], s[n])
  BY WithoutIs
<1> DEFINE T == {n \in Nat : n <= Len(s) => f[n] \in Seq(S)}
<1>2. 0 \in T
  <2>1. <<>> \in Seq(S) /\ 0 \in Nat
    OBVIOUS
  <2>. QED BY <1>1, <2>1
<1>3. ASSUME NEW n \in Nat, n \in T PROVE n + 1 \in T
  <2> SUFFICES ASSUME n + 1 <= Len(s) PROVE f[n + 1] \in Seq(S)
    OBVIOUS
  <2> DEFINE k == n + 1
  <2>1. k \in 1 .. Len(s) /\ k - 1 = n /\ n <= Len(s)
    OBVIOUS
  <2>2. f[n] \in Seq(S) /\ s[k] \in S
    BY <1>3, <2>1
  <2>3. f[k] = IF Contains(t, s[k]) THEN f[n] ELSE Append(f[n], s[k])
    BY <1>1, <2>1
  <2> HIDE DEF k
  <2>. QED BY <2>2, <2>3 DEF k
<1> HIDE DEF T
<1>4. Nat \subseteq T
  BY <1>2, <1>3, Induction
<1>5. Len(s) \in Nat /\ Len(s) <= Len(s)
  OBVIOUS
<1>. QED BY <1>1, <1>4, <1>5 DEF T

\* Nothing locked, nothing removed.
LEMMA WithoutNone ==
  ASSUME NEW S, NEW s \in Seq(S)
  PROVE  Without(s, <<>>) = s
<1>1. PICK f : /\ Without(s, <<>>) = f[Len(s)] /\ f[0] = <<>>
               /\ \A n \in 1 .. Len(s) :
                    f[n] = IF Contains(<<>>, s[n]) THEN f[n - 1] ELSE Append(f[n - 1], s[n])
  BY WithoutIs
<1>2. \A e : ~Contains(<<>>, e)
  BY DEF Contains
<1> DEFINE P(n) == f[n] \in Seq(S) /\ Len(f[n]) = n /\ \A i \in 1 .. n : f[n][i] = s[i]
           T == {n \in Nat : n <= Len(s) => P(n)}
<1>3. 0 \in T
  <2>1. <<>> \in Seq(S) /\ Len(<<>>) = 0 /\ f[0] = <<>> /\ 1 .. 0 = {}
    BY <1>1
  <2>2. P(0)
    BY <2>1
  <2> HIDE DEF P
  <2>. QED BY <2>2
<1>4. ASSUME NEW n \in Nat, n \in T PROVE n + 1 \in T
  <2> SUFFICES ASSUME n + 1 <= Len(s) PROVE P(n + 1)
    OBVIOUS
  <2> DEFINE k == n + 1
             u == f[n]
  <2>1. k \in 1 .. Len(s) /\ k - 1 = n /\ n <= Len(s)
    OBVIOUS
  <2>2. u \in Seq(S) /\ Len(u) = n /\ (\A i \in 1 .. n : u[i] = s[i]) /\ s[k] \in S
    BY <1>4, <2>1
  <2>3. f[k] = Append(u, s[k])
    BY <1>1, <1>2, <2>1
  <2> HIDE DEF u
  <2>4. Append(u, s[k]) \in Seq(S) /\ Len(Append(u, s[k])) = k
    BY <2>2
  <2>5. \A i \in 1 .. k : Append(u, s[k])[i] = s[i]
    BY <2>2
  <2>. QED BY <2>3, <2>4, <2>5
<1> HIDE DEF T
<1>5. Nat \subseteq T
  BY <1>3, <1>4, Induction
<1>6. Len(s) \in Nat /\ Len(s) <= Len(s)
  OBVIOUS
<1> DEFINE u == Without(s, <<>>)
<1>7. u \in Seq(S) /\ Len(u) = Len(s) /\ \A i \in 1 .. Len(s) : u[i] = s[i]
  BY <1>1, <1>5, <1>6 DEF T
<1> HIDE DEF u
<1>8. u = s
  BY <1>7
<1>. QED BY <1>8 DEF u

-----------------------------------------------------------------------------
(* If lists that are waited for have two keys at most.                     *)

ShortLists == \A c \in Waits : Len(KeyList[c]) <= 2

InCall(c) == pc[c] \in {"pipeline", "answers", "release"}

\* The lists of a call hold keys of its client, needLocking all of them, the whole
\* KeyList behind what is left from the round before; so every answer finds a key at
\* its index.
ListInv(c) ==
  /\ needLocking[c] \in Seq(ToSet(KeyList[c])) /\ locked[c] \in Seq(ToSet(KeyList[c]))
  /\ InCall(c) => /\ ToSet(KeyList[c]) \subseteq ToSet(needLocking[c])
                  /\ Len(KeyList[c]) <= Len(needLocking[c])
  /\ ~InCall(c) => locked[c] = <<>> /\ results[c] = <<>> /\ next[c] = 1
  /\ Asked(c) => next[c] <= Len(KeyList[c]) + 1
  /\ pc[c] = "pipeline" => Len(results[c]) = next[c] - 1
  /\ pc[c] = "answers" => Len(results[c]) = Len(KeyList[c])

\* The keys the answers of 1 are taken to be about are the client's own.
AnswersHeld(c) ==
  \A i \in 1 .. Len(results[c]) : results[c][i] = 1 => owner[needLocking[c][i]] = c

\* An answer is about the key at its index, or one of two keys is held already.
Aligned(c) ==
  \/ \A i \in 1 .. Len(KeyList[c]) : needLocking[c][i] = KeyList[c][i]
  \/ c \in Waits /\ \E k \in ToSet(KeyList[c]) : owner[k] = c

\* The keys answered with 1, locked or held are the client's own.
HeldInv(c) ==
  /\ Asked(c) => AnswersHeld(c) /\ Aligned(c)
  /\ \A k \in ToSet(locked[c]) : owner[k] = c
  /\ pc[c] = "held" => \A k \in ToSet(KeyList[c]) : owner[k] = c

HeldAll == faults = 0 => \A c \in Client : HeldInv(c)

ListsInv == TypeOK /\ \A c \in Client : ListInv(c)

LEMMA KeysOfList ==
  ASSUME NEW c \in Client
  PROVE  /\ KeyList[c] \in Seq(ToSet(KeyList[c])) /\ ToSet(KeyList[c]) \subseteq Key
         /\ \A s \in Seq(ToSet(KeyList[c])) : s \in Seq(Key)
<1>1. KeyList[c] \in Seq(Key)
  BY Lists
<1>2. ToSet(KeyList[c]) \subseteq Key
  BY <1>1, Elements
<1>3. \A i \in 1 .. Len(KeyList[c]) : KeyList[c][i] \in ToSet(KeyList[c])
  BY <1>1, Elements
<1>4. \A s \in Seq(ToSet(KeyList[c])) : s \in Seq(Key)
  <2> DEFINE S == ToSet(KeyList[c])
  <2> HIDE DEF S
  <2>1. S \subseteq Key
    BY <1>2 DEF S
  <2>2. \A s \in Seq(S) : s \in Seq(Key)
    BY <2>1
  <2>. QED BY <2>2 DEF S
<1>5. KeyList[c] \in Seq(ToSet(KeyList[c]))
  <2> DEFINE S == ToSet(KeyList[c])
             l == KeyList[c]
  <2>1. l \in Seq(Key) /\ \A i \in 1 .. Len(l) : l[i] \in S
    BY <1>1, <1>3
  <2> HIDE DEF S, l
  <2>2. l \in Seq(S)
    BY <2>1
  <2>. QED BY <2>2 DEF S, l
<1>. QED BY <1>2, <1>4, <1>5

\* The list of the next round: what is left, then all the keys.
LEMMA NextRound ==
  ASSUME NEW S, NEW l \in Seq(S), NEW s \in Seq(S), NEW t
  PROVE  LET u == Without(s, t) \o l
         IN  /\ u \in Seq(S) /\ Len(l) <= Len(u) /\ ToSet(l) \subseteq ToSet(u)
             /\ t = <<>> /\ Len(l) <= Len(s) => \A i \in 1 .. Len(l) : u[i] = s[i]
<1> DEFINE w == Without(s, t)
           u == w \o l
<1>1. w \in Seq(S)
  BY WithoutType
<1>2. t = <<>> => w = s
  BY WithoutNone
<1> HIDE DEF w
<1>3. u \in Seq(S) /\ Len(u) = Len(w) + Len(l) /\ Len(l) \in Nat /\ Len(w) \in Nat
  BY <1>1
<1>4. \A i \in 1 .. Len(l) : u[Len(w) + i] = l[i]
  BY <1>1
<1>5. \A i \in 1 .. Len(w) : u[i] = w[i]
  BY <1>1
<1> HIDE DEF u
<1>6. ToSet(l) \subseteq ToSet(u)
  <2> SUFFICES ASSUME NEW k \in ToSet(l) PROVE k \in ToSet(u)
    OBVIOUS
  <2>1. PICK i \in 1 .. Len(l) : l[i] = k
    BY Elements
  <2>2. Len(w) + i \in 1 .. Len(u) /\ u[Len(w) + i] = k
    BY <1>3, <1>4, <2>1
  <2>. QED BY <1>3, <2>2, Elements
<1>7. ASSUME t = <<>>, Len(l) <= Len(s), NEW i \in 1 .. Len(l) PROVE u[i] = s[i]
  <2>1. i \in 1 .. Len(w)
    BY <1>2, <1>3, <1>7
  <2>. QED BY <1>2, <1>5, <1>7, <2>1
<1>. QED BY <1>3, <1>6, <1>7 DEF u, w

LEMMA ListOwn ==
  ASSUME Basics, NEW c \in Client, ListInv(c), Call(c) \/ Step(c) \/ Throw(c)
  PROVE  ListInv(c)'
<1> DEFINE l == KeyList[c]
           S == ToSet(l)
<1>0. /\ pc \in [Client -> PC] /\ results \in [Client -> Seq({0, 1})]
      /\ next \in [Client -> Nat \ {0}]
      /\ DOMAIN needLocking = Client /\ DOMAIN locked = Client
  BY DEF Basics
<1>l. l \in Seq(S) /\ Len(l) \in Nat /\ <<>> \in Seq(S)
  BY KeysOfList
<1>i. /\ needLocking[c] \in Seq(S) /\ locked[c] \in Seq(S)
      /\ InCall(c) => S \subseteq ToSet(needLocking[c]) /\ Len(l) <= Len(needLocking[c])
      /\ ~InCall(c) => locked[c] = <<>> /\ results[c] = <<>> /\ next[c] = 1
      /\ Asked(c) => next[c] <= Len(l) + 1
      /\ pc[c] = "pipeline" => Len(results[c]) = next[c] - 1
      /\ pc[c] = "answers" => Len(results[c]) = Len(l)
  BY DEF ListInv
<1>p. ListInv(c)' <=>
        /\ needLocking'[c] \in Seq(S) /\ locked'[c] \in Seq(S)
        /\ InCall(c)' => S \subseteq ToSet(needLocking'[c]) /\ Len(l) <= Len(needLocking'[c])
        /\ ~InCall(c)' => locked'[c] = <<>> /\ results'[c] = <<>> /\ next'[c] = 1
        /\ Asked(c)' => next'[c] <= Len(l) + 1
        /\ pc'[c] = "pipeline" => Len(results'[c]) = next'[c] - 1
        /\ pc'[c] = "answers" => Len(results'[c]) = Len(l)
  BY DEF ListInv
<1>f. Forget(c) /\ pc'[c] \in {"held", "refused"} => ListInv(c)'
  BY <1>0, <1>l, <1>p DEF Forget, InCall, Asked
<1>1. CASE Call(c)
  <2>1. /\ pc[c] \in {"idle", "refused"} /\ pc'[c] = "pipeline" /\ needLocking'[c] = l
        /\ UNCHANGED <<locked, results, next>>
    BY <1>0, <1>1 DEF Call, Goto
  <2>2. locked'[c] = <<>> /\ results'[c] = <<>> /\ next'[c] = 1
    BY <1>i, <2>1 DEF InCall
  <2>. QED BY <1>l, <1>p, <2>1, <2>2 DEF InCall, Asked
<1>2. CASE PipelinedSetnx(c)
  <2>1. /\ pc[c] = "pipeline" /\ pc'[c] = "pipeline" /\ UNCHANGED <<needLocking, locked>>
        /\ next'[c] = next[c] + 1 /\ next[c] <= Len(l)
    BY <1>0, <1>2 DEF PipelinedSetnx
  <2>2. \E e \in {0, 1} : results'[c] = Append(results[c], e)
    BY <1>0, <1>2 DEF PipelinedSetnx
  <2>3. Len(results'[c]) = Len(results[c]) + 1
    BY <1>0, <2>2
  <2>4. next[c] \in Nat /\ Len(results[c]) = next[c] - 1
    BY <1>0, <1>i, <2>1
  <2>. QED BY <1>i, <1>l, <1>p, <2>1, <2>3, <2>4 DEF InCall, Asked
<1>3. CASE PipelineEnds(c)
  <2>1. /\ pc[c] = "pipeline" /\ pc'[c] = "answers" /\ UNCHANGED <<needLocking, locked, results>>
        /\ next'[c] = 1 /\ next[c] > Len(l)
    BY <1>0, <1>3 DEF PipelineEnds, Goto
  <2>2. next[c] \in Nat /\ next[c] <= Len(l) + 1 /\ Len(results[c]) = next[c] - 1
    BY <1>0, <1>i, <2>1 DEF Asked
  <2>. QED BY <1>i, <1>l, <1>p, <2>1, <2>2 DEF InCall, Asked
<1>4. CASE Answer(c)
  <2> DEFINE k == needLocking[c][next[c]]
  <2>1. /\ pc[c] = "answers" /\ pc'[c] = "answers" /\ UNCHANGED <<needLocking, results>>
        /\ next'[c] = next[c] + 1 /\ next[c] <= Len(results[c])
        /\ locked'[c] = locked[c] \/ locked'[c] = Append(locked[c], k)
    BY <1>0, <1>4 DEF Answer
  <2>2. /\ next[c] \in Nat \ {0} /\ Len(results[c]) = Len(l)
        /\ Len(l) <= Len(needLocking[c]) /\ Len(needLocking[c]) \in Nat
    BY <1>0, <1>i, <2>1 DEF InCall
  <2>3. k \in S
    <3>1. next[c] \in 1 .. Len(needLocking[c])
      BY <1>l, <2>1, <2>2
    <3> HIDE DEF S
    <3>. QED BY <1>i, <3>1
  <2>4. locked'[c] \in Seq(S)
    <3> DEFINE t == locked[c]
    <3>1. t \in Seq(S) /\ (locked'[c] = t \/ locked'[c] = Append(t, k))
      BY <1>i, <2>1
    <3> HIDE DEF S, k, t
    <3>2. Append(t, k) \in Seq(S)
      BY <2>3, <3>1
    <3>. QED BY <3>1, <3>2
  <2>. QED BY <1>i, <1>l, <1>p, <2>1, <2>2, <2>4 DEF InCall, Asked
<1>5. CASE EndOfRound(c)
  <2>1. CASE Goto(c, "held") /\ Forget(c)
    BY <1>0, <1>f, <2>1 DEF Goto
  <2>2. CASE Goto(c, "release") /\ UNCHANGED localVars
    <3>1. pc[c] = "answers" /\ pc'[c] = "release" /\ UNCHANGED <<needLocking, locked, results, next>>
      BY <1>0, <1>5, <2>2 DEF EndOfRound, Goto, localVars
    <3>. QED BY <1>i, <1>p, <3>1 DEF InCall, Asked
  <2>3. CASE /\ Goto(c, "pipeline") /\ UNCHANGED locked
             /\ needLocking' = [needLocking EXCEPT ![c] = Without(@, locked[c]) \o KeyList[c]]
             /\ results' = [results EXCEPT ![c] = <<>>] /\ next' = [next EXCEPT ![c] = 1]
    <3>1. /\ pc'[c] = "pipeline" /\ locked'[c] = locked[c] /\ results'[c] = <<>> /\ next'[c] = 1
          /\ needLocking'[c] = Without(needLocking[c], locked[c]) \o l
      BY <1>0, <2>3 DEF Goto
    <3>2. /\ needLocking'[c] \in Seq(S) /\ Len(l) <= Len(needLocking'[c])
          /\ ToSet(l) \subseteq ToSet(needLocking'[c])
      <4> DEFINE m == needLocking[c]
                 t == locked[c]
      <4>1. m \in Seq(S) /\ needLocking'[c] = Without(m, t) \o l
        BY <1>i, <3>1
      <4> HIDE DEF m, t, l, S
      <4>. QED BY <1>l, <4>1, NextRound
    <3>3. /\ S \subseteq ToSet(needLocking'[c]) /\ locked'[c] \in Seq(S)
          /\ Len(results'[c]) = next'[c] - 1 /\ next'[c] <= Len(l) + 1
      BY <1>i, <1>l, <3>1, <3>2
    <3> HIDE DEF l, S
    <3>4. InCall(c)' /\ pc'[c] # "answers"
      BY <3>1 DEF InCall
    <3>. QED BY <1>p, <3>2, <3>3, <3>4
  <2>. QED BY <1>5, <2>1, <2>2, <2>3 DEF EndOfRound
<1>6. CASE ReleasePart(c) \/ Throw(c)
  <2>1. pc'[c] \in {"held", "refused"} /\ Forget(c)
    BY <1>0, <1>6 DEF ReleasePart, Throw, Goto
  <2>. QED BY <1>f, <2>1
<1>7. CASE UnLock(c)
  <2>1. pc[c] = "held" /\ pc'[c] = "idle" /\ UNCHANGED <<needLocking, locked, results, next>>
    BY <1>0, <1>7 DEF UnLock, Goto, localVars
  <2>. QED BY <1>i, <1>p, <2>1 DEF InCall, Asked
<1>. QED BY <1>1, <1>2, <1>3, <1>4, <1>5, <1>6, <1>7 DEF Step

LEMMA ListsInvStep == ListsInv /\ [Next]_vars => ListsInv'
<1> SUFFICES ASSUME ListsInv, [Next]_vars PROVE ListsInv'
  OBVIOUS
<1>1. Basics /\ Basics' /\ TypeOK /\ \A c \in Client : ListInv(c)
  BY BasicsStep DEF ListsInv, TypeOK, Basics
<1>2. CASE UNCHANGED vars
  BY <1>1, <1>2 DEF ListsInv, vars, ListInv, InCall, Asked, TypeOK
<1>3. ASSUME NEW c \in Client, Call(c) \/ Step(c) \/ Throw(c) PROVE ListsInv'
  <2>1. ASSUME NEW d \in Client PROVE ListInv(d)'
    <3>1. CASE d = c
      BY <1>1, <1>3, <3>1, ListOwn
    <3>2. CASE d # c
      <4>1. ListInv(d)
        BY <1>1
      <4>2. /\ pc'[d] = pc[d] /\ needLocking'[d] = needLocking[d] /\ locked'[d] = locked[d]
            /\ results'[d] = results[d] /\ next'[d] = next[d]
        BY <1>1, <1>3, <3>2, OthersWait
      <4>. QED BY <4>1, <4>2 DEF ListInv, InCall, Asked
    <3>. QED BY <3>1, <3>2
  <2>2. mortal' \in SUBSET Key
    <3>0. mortal \in SUBSET Key
      BY <1>1 DEF TypeOK
    <3>1. CASE Answer(c)
      <4> DEFINE u == needLocking[c]
      <4>1. u \in Seq(Key)
        BY <1>1 DEF TypeOK
      <4>2. /\ next[c] \in Nat \ {0} /\ next[c] <= Len(results[c])
            /\ Len(results[c]) = Len(KeyList[c]) /\ Len(KeyList[c]) <= Len(u)
        BY <1>1, <3>1 DEF Answer, ListInv, InCall, TypeOK
      <4>3. next[c] \in 1 .. Len(u)
        BY <4>1, <4>2, Lists
      <4> HIDE DEF u
      <4>4. u[next[c]] \in Key
        BY <4>1, <4>3
      <4>. QED BY <3>0, <3>1, <4>4 DEF Answer, u
    <3>2. CASE Call(c) \/ PipelinedSetnx(c) \/ PipelineEnds(c) \/ EndOfRound(c)
      BY <3>0, <3>2 DEF Call, PipelinedSetnx, PipelineEnds, EndOfRound
    <3>3. CASE ReleasePart(c) \/ UnLock(c) \/ Throw(c)
      BY <3>0, <3>3 DEF ReleasePart, UnLock, Throw, Delete
    <3>. QED BY <1>3, <3>1, <3>2, <3>3 DEF Step
  <2>3. /\ needLocking \in [Client -> Seq(Key)] /\ locked \in [Client -> Seq(Key)]
        /\ \A d \in Client : needLocking'[d] \in Seq(Key) /\ locked'[d] \in Seq(Key)
    BY <1>1, <2>1, KeysOfList DEF TypeOK, ListInv
  <2>4. /\ needLocking' = needLocking \/ \E s : needLocking' = [needLocking EXCEPT ![c] = s]
        /\ locked' = locked \/ \E s : locked' = [locked EXCEPT ![c] = s]
    <3>1. CASE Call(c) \/ PipelinedSetnx(c) \/ PipelineEnds(c)
      BY <3>1 DEF Call, PipelinedSetnx, PipelineEnds
    <3>2. CASE Answer(c)
      BY <3>2 DEF Answer
    <3>3. CASE EndOfRound(c)
      BY <3>3 DEF EndOfRound, Forget, localVars
    <3>4. CASE ReleasePart(c) \/ Throw(c)
      BY <3>4 DEF ReleasePart, Throw, Forget
    <3>5. CASE UnLock(c)
      BY <3>5 DEF UnLock, localVars
    <3>. QED BY <1>3, <3>1, <3>2, <3>3, <3>4, <3>5 DEF Step
  <2>5. needLocking' \in [Client -> Seq(Key)]
    <3>1. CASE needLocking' = needLocking
      BY <2>3, <3>1
    <3>2. CASE \E s : needLocking' = [needLocking EXCEPT ![c] = s]
      <4>1. PICK s : needLocking' = [needLocking EXCEPT ![c] = s]
        BY <3>2
      <4>2. needLocking'[c] = s
        BY <2>3, <4>1
      <4>. QED BY <2>3, <4>1, <4>2
    <3>. QED BY <2>4, <3>1, <3>2
  <2>6. locked' \in [Client -> Seq(Key)]
    <3>1. CASE locked' = locked
      BY <2>3, <3>1
    <3>2. CASE \E s : locked' = [locked EXCEPT ![c] = s]
      <4>1. PICK s : locked' = [locked EXCEPT ![c] = s]
        BY <3>2
      <4>2. locked'[c] = s
        BY <2>3, <4>1
      <4>. QED BY <2>3, <4>1, <4>2
    <3>. QED BY <2>4, <3>1, <3>2
  <2>. QED BY <1>1, <2>1, <2>2, <2>5, <2>6 DEF ListsInv, TypeOK, Basics
<1>. QED BY <1>2, <1>3 DEF Next

LEMMA ListsInvInit == Init => ListsInv
<1> SUFFICES ASSUME Init PROVE ListsInv
  OBVIOUS
<1>1. TypeOK
  BY DEF Init, TypeOK, PC
<1>2. ASSUME NEW c \in Client PROVE ListInv(c)
  <2>1. /\ pc[c] = "idle" /\ needLocking[c] = <<>> /\ locked[c] = <<>>
        /\ results[c] = <<>> /\ next[c] = 1
    BY DEF Init
  <2>2. <<>> \in Seq(ToSet(KeyList[c]))
    OBVIOUS
  <2>. QED BY <2>1, <2>2 DEF ListInv, InCall, Asked
<1>. QED BY <1>1, <1>2 DEF ListsInv

\* The variables stay in their types, whatever the timeouts: the key of an answer is
\* one of the list, if not the right one.
THEOREM TypeCorrect == Spec => []TypeOK
<1>1. ListsInv => TypeOK
  BY DEF ListsInv
<1>. QED BY <1>1, ListsInvInit, ListsInvStep, PTL DEF Spec

-----------------------------------------------------------------------------
\* A step deletes the client's own keys alone, and leaves its place in the code.
LEMMA OnlyOwn ==
  ASSUME Basics, NEW c \in Client, HeldInv(c), Call(c) \/ Step(c), NEW k \in Key
  PROVE  /\ owner[k] \notin {c, Nobody} => owner'[k] = owner[k]
         /\ owner[k] = c /\ owner'[k] # c => pc'[c] # pc[c]
<1>0. pc \in [Client -> PC] /\ owner \in [Key -> Client \cup {Nobody}]
  BY DEF Basics
<1>1. CASE Call(c) \/ PipelineEnds(c) \/ Answer(c) \/ EndOfRound(c)
  BY <1>1 DEF Call, PipelineEnds, Answer, EndOfRound
<1>2. CASE PipelinedSetnx(c)
  BY <1>0, <1>2 DEF PipelinedSetnx
<1>3. CASE ReleasePart(c)
  BY <1>0, <1>3 DEF ReleasePart, Delete, Goto, HeldInv
<1>4. CASE UnLock(c)
  BY <1>0, <1>4 DEF UnLock, Delete, Goto, HeldInv
<1>. QED BY <1>1, <1>2, <1>3, <1>4 DEF Step

LEMMA TwoKeys ==
  ASSUME NEW S, NEW l \in Seq(S), Len(l) <= 2,
         NEW h \in ToSet(l), NEW k \in ToSet(l), h # k, NEW e \in ToSet(l)
  PROVE  e \in {h, k}
<1>1. Len(l) \in Nat /\ \A x : x \in ToSet(l) <=> \E i \in 1 .. Len(l) : l[i] = x
  BY Elements
<1>2. PICK i \in 1 .. Len(l) : l[i] = h
  BY <1>1
<1>3. PICK j \in 1 .. Len(l) : l[j] = k
  BY <1>1
<1>4. PICK m \in 1 .. Len(l) : l[m] = e
  BY <1>1
<1>5. i # j /\ (m = i \/ m = j)
  BY <1>1, <1>2, <1>3, <1>4
<1>. QED BY <1>2, <1>3, <1>4, <1>5

\* The heart of it: an answer of 1 in a later round may be taken to be about the
\* other key, but then the other key is the client's own already.
LEMMA SetnxHeld ==
  ASSUME Basics, ShortLists, NEW c \in Client, ListInv(c), HeldInv(c), PipelinedSetnx(c)
  PROVE  HeldInv(c)'
<1> DEFINE l == KeyList[c]
           S == ToSet(l)
           i == next[c]
           k == l[i]
           e == IF owner[k] = Nobody THEN 1 ELSE 0
<1>0. /\ pc \in [Client -> PC] /\ results \in [Client -> Seq({0, 1})]
      /\ next \in [Client -> Nat \ {0}] /\ owner \in [Key -> Client \cup {Nobody}]
      /\ Nobody \notin Client
  BY RedisBatchLockAssumption DEF Basics
<1>1. pc[c] = "pipeline" /\ pc'[c] = "pipeline" /\ i <= Len(l)
  BY <1>0 DEF PipelinedSetnx
<1>2. /\ owner' = [owner EXCEPT ![k] = IF @ = Nobody THEN c ELSE @]
      /\ results'[c] = Append(results[c], e)
      /\ UNCHANGED <<needLocking, locked>>
  BY <1>0 DEF PipelinedSetnx
<1>3. /\ i \in 1 .. Len(l) /\ Len(results[c]) = i - 1
      /\ needLocking[c] \in Seq(S) /\ locked[c] \in Seq(S) /\ Len(l) <= Len(needLocking[c])
  BY <1>0, <1>1, Lists DEF ListInv, InCall
<1>4. k \in S /\ k \in Key /\ S \subseteq Key /\ l \in Seq(Key)
  BY <1>3, Lists, Elements, KeysOfList
<1>5. /\ Len(results'[c]) = i /\ results'[c][i] = e
      /\ \A j \in 1 .. Len(results[c]) : results'[c][j] = results[c][j]
  BY <1>0, <1>2, <1>3
<1>6. \A j \in 1 .. Len(l) : needLocking[c][j] \in S
  <2> DEFINE t == needLocking[c]
  <2>1. t \in Seq(S) /\ Len(l) <= Len(t) /\ Len(l) \in Nat
    BY <1>3, Lists
  <2> HIDE DEF S, t, l
  <2>2. \A j \in 1 .. Len(l) : t[j] \in S
    BY <2>1
  <2>. QED BY <2>2 DEF t
<1>7. \A x \in S : owner[x] = c => owner'[x] = c
  BY <1>0, <1>2, <1>4
<1>8. /\ AnswersHeld(c) /\ Aligned(c)
      /\ \A x \in ToSet(locked[c]) : owner[x] = c
  BY <1>1 DEF HeldInv, Asked
<1>9. e = 1 => owner'[needLocking[c][i]] = c
  <2> SUFFICES ASSUME e = 1 PROVE owner'[needLocking[c][i]] = c
    OBVIOUS
  <2>1. owner[k] = Nobody /\ owner'[k] = c
    BY <1>0, <1>2, <1>4
  <2>2. CASE \A j \in 1 .. Len(l) : needLocking[c][j] = l[j]
    BY <1>3, <2>1, <2>2
  <2>3. CASE c \in Waits /\ \E h \in S : owner[h] = c
    <3>1. PICK h \in S : owner[h] = c
      BY <2>3
    <3>2. h # k /\ Len(l) <= 2 /\ needLocking[c][i] \in S
      BY <1>0, <1>3, <1>6, <2>1, <2>3, <3>1 DEF ShortLists
    <3>3. needLocking[c][i] \in {h, k}
      BY <1>4, <3>2, TwoKeys
    <3>. QED BY <1>7, <2>1, <3>1, <3>3
  <2>. QED BY <1>8, <2>2, <2>3 DEF Aligned
<1>10. ASSUME NEW j \in 1 .. Len(results'[c]), results'[c][j] = 1
       PROVE  owner'[needLocking'[c][j]] = c
  <2>1. CASE j = i
    BY <1>2, <1>5, <1>9, <1>10, <2>1
  <2>2. CASE j # i
    <3>1. j \in 1 .. Len(results[c]) /\ j \in 1 .. Len(l)
      BY <1>3, <1>5, <2>2
    <3>2. owner[needLocking[c][j]] = c
      BY <1>5, <1>8, <1>10, <3>1 DEF AnswersHeld
    <3>. QED BY <1>2, <1>6, <1>7, <3>1, <3>2
  <2>. QED BY <2>1, <2>2
<1>11. AnswersHeld(c)'
  BY <1>10 DEF AnswersHeld
<1>12. Aligned(c)'
  BY <1>2, <1>7, <1>8 DEF Aligned
<1>13. \A x \in ToSet(locked'[c]) : owner'[x] = c
  <2> DEFINE t == locked[c]
  <2>1. t \in Seq(S)
    BY <1>3
  <2>2. \A x \in ToSet(t) : x \in S
    <3> HIDE DEF S, t
    <3>. QED BY <2>1, Elements
  <2>. QED BY <1>2, <1>7, <1>8, <2>2
<1>. QED BY <1>1, <1>11, <1>12, <1>13 DEF HeldInv

LEMMA HeldOwn ==
  ASSUME Basics, ShortLists, NEW c \in Client, ListInv(c), HeldInv(c), Call(c) \/ Step(c)
  PROVE  HeldInv(c)'
<1> DEFINE l == KeyList[c]
           S == ToSet(l)
<1>0. /\ pc \in [Client -> PC] /\ results \in [Client -> Seq({0, 1})]
      /\ next \in [Client -> Nat \ {0}] /\ owner \in [Key -> Client \cup {Nobody}]
      /\ DOMAIN needLocking = Client /\ DOMAIN locked = Client
  BY DEF Basics
<1>e. ToSet(<<>>) = {} /\ Len(<<>>) = 0 /\ 1 .. 0 = {}
  BY DEF ToSet
<1>i. /\ needLocking[c] \in Seq(S) /\ locked[c] \in Seq(S) /\ l \in Seq(S)
      /\ InCall(c) => S \subseteq ToSet(needLocking[c]) /\ Len(l) <= Len(needLocking[c])
      /\ ~InCall(c) => locked[c] = <<>> /\ results[c] = <<>>
      /\ pc[c] = "answers" => Len(results[c]) = Len(l)
  BY KeysOfList DEF ListInv
<1>h. /\ Asked(c) => AnswersHeld(c) /\ Aligned(c)
      /\ \A k \in ToSet(locked[c]) : owner[k] = c
      /\ pc[c] = "held" => \A k \in S : owner[k] = c
  BY DEF HeldInv
<1>1. CASE Call(c)
  <2>1. /\ pc[c] \in {"idle", "refused"} /\ pc'[c] = "pipeline" /\ needLocking'[c] = l
        /\ UNCHANGED <<locked, results, owner>>
    BY <1>0, <1>1 DEF Call, Goto
  <2>2. locked[c] = <<>> /\ results'[c] = <<>>
    BY <1>i, <2>1 DEF InCall
  <2>3. AnswersHeld(c)' /\ Aligned(c)'
    BY <1>e, <2>1, <2>2 DEF AnswersHeld, Aligned
  <2>. QED BY <1>h, <2>1, <2>3 DEF HeldInv
<1>2. CASE PipelinedSetnx(c)
  BY <1>2, SetnxHeld
<1>3. CASE PipelineEnds(c)
  <2>1. /\ pc[c] = "pipeline" /\ pc'[c] = "answers"
        /\ UNCHANGED <<needLocking, locked, results, owner>>
    BY <1>0, <1>3 DEF PipelineEnds, Goto
  <2>. QED BY <1>h, <2>1 DEF HeldInv, Asked, AnswersHeld, Aligned
<1>4. CASE Answer(c)
  <2> DEFINE i == next[c]
             k == needLocking[c][i]
             t == locked[c]
  <2>1. /\ pc[c] = "answers" /\ pc'[c] = "answers" /\ UNCHANGED <<owner, results, needLocking>>
        /\ i \in 1 .. Len(results[c])
        /\ locked'[c] = t \/ (results[c][i] = 1 /\ locked'[c] = Append(t, k))
    BY <1>0, <1>4 DEF Answer
  <2>2. AnswersHeld(c)' /\ Aligned(c)'
    BY <1>h, <2>1 DEF Asked, AnswersHeld, Aligned
  <2>3. results[c][i] = 1 => owner[k] = c
    BY <1>h, <2>1 DEF Asked, AnswersHeld
  <2>4. k \in S
    <3> DEFINE u == needLocking[c]
    <3>1. u \in Seq(S) /\ i \in 1 .. Len(l) /\ Len(l) <= Len(u) /\ Len(l) \in Nat
      BY <1>i, <2>1, Lists DEF InCall
    <3>2. i \in 1 .. Len(u)
      BY <3>1
    <3> HIDE DEF S, u
    <3>3. u[i] \in S
      BY <3>1, <3>2
    <3>. QED BY <3>3 DEF u
  <2>5. ToSet(Append(t, k)) = ToSet(t) \cup {k}
    <3>1. t \in Seq(S)
      BY <1>i
    <3> HIDE DEF S, t, k
    <3>. QED BY <2>4, <3>1, ElementsOfAppend
  <2> HIDE DEF t, k
  <2>6. \A x \in ToSet(locked'[c]) : owner'[x] = c
    <3>1. \A x \in ToSet(t) : owner[x] = c
      BY <1>h DEF t
    <3>. QED BY <2>1, <2>3, <2>5, <3>1
  <2>. QED BY <2>1, <2>2, <2>6 DEF HeldInv
<1>5. CASE EndOfRound(c)
  <2>1. pc[c] = "answers" /\ UNCHANGED owner
    BY <1>5 DEF EndOfRound
  <2>2. CASE Covers(locked[c], needLocking[c]) /\ Goto(c, "held") /\ Forget(c)
    <3>1. pc'[c] = "held" /\ locked'[c] = <<>>
      BY <1>0, <2>2 DEF Goto, Forget
    <3>2. \A k \in S : owner[k] = c
      BY <1>h, <1>i, <2>1, <2>2 DEF Covers, InCall
    <3>. QED BY <1>e, <2>1, <3>1, <3>2 DEF HeldInv, Asked
  <2>3. CASE Goto(c, "release") /\ UNCHANGED localVars
    <3>1. pc'[c] = "release" /\ locked'[c] = locked[c]
      BY <1>0, <2>3 DEF Goto, localVars
    <3>. QED BY <1>h, <2>1, <3>1 DEF HeldInv, Asked
  <2>4. CASE /\ c \in Waits /\ Goto(c, "pipeline") /\ UNCHANGED locked
             /\ needLocking' = [needLocking EXCEPT ![c] = Without(@, locked[c]) \o KeyList[c]]
             /\ results' = [results EXCEPT ![c] = <<>>]
    <3> DEFINE m == needLocking[c]
               t == locked[c]
    <3>1. /\ pc'[c] = "pipeline" /\ locked'[c] = t /\ results'[c] = <<>>
          /\ needLocking'[c] = Without(m, t) \o l
      BY <1>0, <2>4 DEF Goto
    <3>2. AnswersHeld(c)'
      BY <1>e, <3>1 DEF AnswersHeld
    <3>3. ASSUME t = <<>> PROVE Aligned(c)'
      <4>1. \A i \in 1 .. Len(l) : needLocking'[c][i] = m[i]
        <5>1. m \in Seq(S) /\ l \in Seq(S) /\ Len(l) <= Len(m)
          BY <1>i, <2>1 DEF InCall
        <5> HIDE DEF m, t, l, S
        <5>. QED BY <3>1, <3>3, <5>1, NextRound
      <4>. QED BY <1>h, <2>1, <4>1 DEF Asked, Aligned
    <3>4. ASSUME t # <<>> PROVE Aligned(c)'
      <4>1. t[1] \in S /\ owner[t[1]] = c
        <5>1. t \in Seq(S) /\ \A k \in ToSet(t) : owner[k] = c
          BY <1>h, <1>i
        <5> HIDE DEF t, S
        <5>2. 1 \in 1 .. Len(t) /\ t[1] \in S
          BY <3>4, <5>1
        <5>. QED BY <5>1, <5>2, Elements
      <4>. QED BY <2>1, <2>4, <4>1 DEF Aligned
    <3>5. \A k \in ToSet(locked'[c]) : owner'[k] = c
      BY <1>h, <2>1, <3>1
    <3>. QED BY <3>1, <3>2, <3>3, <3>4, <3>5 DEF HeldInv
  <2>. QED BY <1>5, <2>2, <2>3, <2>4 DEF EndOfRound
<1>6. CASE ReleasePart(c)
  <2>1. pc'[c] = "refused" /\ locked'[c] = <<>>
    BY <1>0, <1>6 DEF ReleasePart, Goto, Forget
  <2>. QED BY <1>e, <2>1 DEF HeldInv, Asked
<1>7. CASE UnLock(c)
  <2>1. pc[c] = "held" /\ pc'[c] = "idle" /\ locked'[c] = locked[c]
    BY <1>0, <1>7 DEF UnLock, Goto, localVars
  <2>2. locked[c] = <<>>
    BY <1>i, <2>1 DEF InCall
  <2>. QED BY <1>e, <2>1, <2>2 DEF HeldInv, Asked
<1>. QED BY <1>1, <1>2, <1>3, <1>4, <1>5, <1>6, <1>7 DEF Step

LEMMA HeldStep ==
  ASSUME ShortLists, ListsInv, HeldAll, [Next]_vars
  PROVE  HeldAll'
<1> SUFFICES ASSUME faults' = 0, NEW d \in Client PROVE HeldInv(d)'
  BY DEF HeldAll
<1>0. Basics /\ \A c \in Client : ListInv(c)
  BY DEF ListsInv, TypeOK, Basics
<1>1. CASE UNCHANGED vars
  BY <1>1 DEF vars, HeldAll, HeldInv, Asked, AnswersHeld, Aligned
<1>2. ASSUME NEW c \in Client, Call(c) \/ Step(c) \/ Throw(c) PROVE HeldInv(d)'
  <2>1. faults = 0 /\ (Call(c) \/ Step(c))
    BY <1>0, <1>2, FaultsStep
  <2>2. HeldInv(c) /\ HeldInv(d)
    BY <2>1 DEF HeldAll
  <2>3. CASE d = c
    BY <1>0, <2>1, <2>2, <2>3, HeldOwn
  <2>4. CASE d # c
    <3> DEFINE S == ToSet(KeyList[d])
    <3>1. /\ pc'[d] = pc[d] /\ locked'[d] = locked[d] /\ results'[d] = results[d]
          /\ needLocking'[d] = needLocking[d]
      BY <1>0, <1>2, <2>4, OthersWait
    <3>2. \A k \in Key : owner[k] = d => owner'[k] = d
      BY <1>0, <2>1, <2>2, <2>4, OnlyOwn, RedisBatchLockAssumption
    <3>3. /\ needLocking[d] \in Seq(S) /\ locked[d] \in Seq(S) /\ S \subseteq Key
          /\ Asked(d) => /\ Len(KeyList[d]) <= Len(needLocking[d])
                         /\ Len(results[d]) <= Len(KeyList[d])
      <4>1. ListInv(d) /\ next[d] \in Nat \ {0} /\ Len(results[d]) \in Nat /\ Len(KeyList[d]) \in Nat
        BY <1>0, Lists DEF Basics
      <4>2. Asked(d) => Len(results[d]) <= Len(KeyList[d])
        BY <4>1 DEF ListInv, Asked
      <4>. QED BY <4>1, <4>2, KeysOfList DEF ListInv, Asked, InCall
    <3>4. \A k \in S : owner[k] = d => owner'[k] = d
      BY <3>2, <3>3
    <3>5. Asked(d) => \A i \in 1 .. Len(results[d]) : needLocking[d][i] \in S
      <4> DEFINE u == needLocking[d]
                 r == results[d]
      <4>1. u \in Seq(S) /\ (Asked(d) => Len(r) <= Len(u)) /\ Len(r) \in Nat /\ Len(KeyList[d]) \in Nat
        BY <1>0, <3>3, Lists DEF Basics
      <4> HIDE DEF u, S, r
      <4>2. Asked(d) => \A i \in 1 .. Len(r) : u[i] \in S
        BY <4>1
      <4>. QED BY <4>2 DEF u, r
    <3>6. \A k \in ToSet(locked[d]) : k \in S
      <4> DEFINE t == locked[d]
      <4>1. t \in Seq(S)
        BY <3>3
      <4> HIDE DEF t, S
      <4>2. \A k \in ToSet(t) : k \in S
        BY <4>1, Elements
      <4>. QED BY <4>2 DEF t
    <3>7. Asked(d) => AnswersHeld(d)' /\ Aligned(d)'
      BY <2>2, <3>1, <3>4, <3>5 DEF HeldInv, AnswersHeld, Aligned
    <3>. QED BY <2>2, <3>1, <3>4, <3>6, <3>7 DEF HeldInv, Asked
  <2>. QED BY <2>3, <2>4
<1>. QED BY <1>1, <1>2 DEF Next

LEMMA HeldAlways == ShortLists => (Spec => [](ListsInv /\ HeldAll))
<1> SUFFICES ASSUME ShortLists PROVE Spec => [](ListsInv /\ HeldAll)
  OBVIOUS
<1>1. Init => HeldAll
  <2>1. ToSet(<<>>) = {}
    BY DEF ToSet
  <2>2. Init => \A c \in Client : pc[c] = "idle" /\ locked[c] = <<>>
    BY DEF Init
  <2>. QED BY <2>1, <2>2 DEF HeldAll, HeldInv, Asked
<1>2. ListsInv /\ HeldAll /\ [Next]_vars => (ListsInv /\ HeldAll)'
  BY ListsInvStep, HeldStep
<1>. QED BY <1>1, <1>2, ListsInvInit, PTL DEF Spec

\* As long as no command has thrown, a call that has returned true has made every key
\* of its list: without a timeout, and with one for lists of at most two keys.
THEOREM TrueOwnsAll == ShortLists => (Spec => []TrueMeansAll)
<1> SUFFICES ASSUME ShortLists PROVE Spec => []TrueMeansAll
  OBVIOUS
<1>1. HeldAll => TrueMeansAll
  <2> SUFFICES ASSUME HeldAll, faults = 0, NEW c \in Client, pc[c] = "held",
                      NEW k \in ToSet(KeyList[c])
               PROVE  k \in Owned(c)
    BY DEF TrueMeansAll
  <2>1. k \in Key
    BY KeysOfList
  <2>. QED BY <2>1 DEF HeldAll, HeldInv, Owned
<1>2. Spec => [](ListsInv /\ HeldAll)
  BY HeldAlways
<1>. QED BY <1>1, <1>2, PTL

\* As long as no command has thrown, nobody deletes a key that another client made:
\* without a timeout, and with one for lists of at most two keys.
THEOREM OwnKeysAlone == ShortLists => (Spec => OnlyOwnKeysGo)
<1> SUFFICES ASSUME ShortLists PROVE Spec => OnlyOwnKeysGo
  OBVIOUS
<1>1. ListsInv /\ HeldAll /\ [Next]_vars =>
        [\A k \in Key : owner[k] # Nobody /\ owner'[k] # owner[k] =>
           faults > 0 \/ pc[owner[k]] # pc'[owner[k]]]_vars
  <2> SUFFICES ASSUME ListsInv, HeldAll, Next, ~(faults > 0), NEW k \in Key,
                      owner[k] # Nobody, owner'[k] # owner[k]
               PROVE  pc[owner[k]] # pc'[owner[k]]
    OBVIOUS
  <2>1. Basics /\ faults = 0
    BY DEF ListsInv, TypeOK, Basics
  <2>2. PICK c \in Client : Call(c) \/ Step(c) \/ Throw(c)
    BY DEF Next
  <2>3. HeldInv(c)
    BY <2>1 DEF HeldAll
  <2>4. CASE Call(c) \/ Step(c)
    BY <2>1, <2>3, <2>4, OnlyOwn
  <2>5. CASE Throw(c)
    BY <2>1, <2>3, <2>5 DEF Throw, Delete, HeldInv, Basics, Goto
  <2>. QED BY <2>2, <2>4, <2>5
<1>2. Spec => [](ListsInv /\ HeldAll)
  BY HeldAlways
<1>. QED BY <1>1, <1>2, PTL DEF Spec, OnlyOwnKeysGo
=============================================================================
