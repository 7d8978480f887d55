--------------------------- MODULE RedisLockProofs ---------------------------
(***************************************************************************)
(* What RedisLock promises for any number of clients, any lifetime and any *)
(* bounds, under the two conditions that the code depends on: work ends    *)
(* within the lifetime of the key, and Redis does not throw in lock().     *)
(*                                                                         *)
(* The invariant WorkerOwnsKey is not inductive: a client becomes a worker *)
(* one call after its setnx, so the invariant has to say that the key of a *)
(* client that is about to set the lifetime is there and does not run out. *)
(***************************************************************************)
EXTENDS RedisLock, TLAPS

Trusted == ~Overrun /\ "lock" \notin Throwing

\* A client between setnx and expire owns a key that does not run out.
ExpirerOwnsKey == \A c \in Client : pc[c] = "expire" => owner = c /\ ttl = NoExpiry

\* What a client has read is still the count when it writes.
SeenIsFresh == \A c \in Client : pc[c] = "write" => seen[c] = count

IInv ==
  /\ TypeOK
  /\ ExpirerOwnsKey
  /\ WorkerOwnsKey
  /\ SeenIsFresh
  /\ NoLostUpdate

-----------------------------------------------------------------------------
\* The invariant holds at the start.
LEMMA InitIInv == Init => IInv
BY RedisLockAssumption
   DEF Init, IInv, TypeOK, PC, ExpirerOwnsKey, WorkerOwnsKey, Works, SeenIsFresh, NoLostUpdate

\* Every step preserves the type invariant, whatever is trusted.
LEMMA TypeStep == TypeOK /\ [Next]_vars => TypeOK'
<1> SUFFICES ASSUME TypeOK, [Next]_vars PROVE TypeOK'
  OBVIOUS
<1> USE RedisLockAssumption DEF TypeOK, PC, NoExpiry
<1>1. CASE Tick
  BY <1>1 DEF Tick
<1>2. ASSUME NEW c \in Client, Call(c) PROVE TypeOK'
  BY <1>2 DEF Call, Goto, redisVars
<1>3. ASSUME NEW c \in Client, TrySetnx(c) PROVE TypeOK'
  BY <1>3 DEF TrySetnx, Setnx, ReturnAfterFault, Fault, Goto, redisVars
<1>4. ASSUME NEW c \in Client, SetExpiry(c) PROVE TypeOK'
  BY <1>4 DEF SetExpiry, Expire, ReturnAfterFault, Fault, Goto
<1>5. ASSUME NEW c \in Client, ReadCount(c) PROVE TypeOK'
  BY <1>5 DEF ReadCount, Goto, redisVars
<1>6. ASSUME NEW c \in Client, WriteCount(c) PROVE TypeOK'
  BY <1>6 DEF WriteCount, Goto, redisVars
<1>7. ASSUME NEW c \in Client, UnLock(c) PROVE TypeOK'
  BY <1>7 DEF UnLock, Del, Fault, Goto, redisVars
<1>8. ASSUME NEW c \in Client, Crash(c) PROVE TypeOK'
  BY <1>8 DEF Crash, Goto, redisVars
<1>9. CASE UNCHANGED vars
  BY <1>9 DEF vars
<1>. QED BY <1>1, <1>2, <1>3, <1>4, <1>5, <1>6, <1>7, <1>8, <1>9 DEF Next, Step

\* The variables stay in their types.
THEOREM TypeCorrect == Spec => []TypeOK
<1>1. Init => TypeOK
  BY InitIInv DEF IInv
<1>. QED BY <1>1, TypeStep, PTL DEF Spec

-----------------------------------------------------------------------------
\* A step of a trusted system preserves the parts of the invariant that say whose
\* the key is.
LEMMA OwnerStep ==
  ASSUME Trusted, TypeOK, ExpirerOwnsKey, WorkerOwnsKey, [Next]_vars
  PROVE  ExpirerOwnsKey' /\ WorkerOwnsKey'
<1>0. /\ pc \in [Client -> PC]
      /\ owner \in Client \cup {Nobody}
      /\ owner = Nobody <=> ttl = 0
      /\ Nobody \notin Client
  BY RedisLockAssumption DEF TypeOK
<1>s. \A d \in Client : (pc[d] = "expire" => owner = d /\ ttl = NoExpiry) /\ (Works(d) => owner = d)
  BY DEF ExpirerOwnsKey, WorkerOwnsKey
<1> SUFFICES ASSUME NEW d \in Client
             PROVE  (pc[d] = "expire" => owner = d /\ ttl = NoExpiry)' /\ (Works(d) => owner = d)'
  BY DEF ExpirerOwnsKey, WorkerOwnsKey
<1>1. CASE Tick
  BY <1>0, <1>1, <1>s DEF Tick, Works, NoExpiry, Trusted
<1>2. ASSUME NEW c \in Client, Call(c)
      PROVE  (pc[d] = "expire" => owner = d /\ ttl = NoExpiry)' /\ (Works(d) => owner = d)'
  BY <1>0, <1>2, <1>s DEF Call, Goto, Works, redisVars
<1>3. ASSUME NEW c \in Client, TrySetnx(c)
      PROVE  (pc[d] = "expire" => owner = d /\ ttl = NoExpiry)' /\ (Works(d) => owner = d)'
  BY <1>0, <1>3, <1>s DEF TrySetnx, Setnx, ReturnAfterFault, Fault, Goto, Works, redisVars, Trusted, NoExpiry
<1>4. ASSUME NEW c \in Client, SetExpiry(c)
      PROVE  (pc[d] = "expire" => owner = d /\ ttl = NoExpiry)' /\ (Works(d) => owner = d)'
  BY <1>0, <1>4, <1>s DEF SetExpiry, Expire, ReturnAfterFault, Fault, Goto, Works, Trusted
<1>5. ASSUME NEW c \in Client, ReadCount(c) \/ WriteCount(c)
      PROVE  (pc[d] = "expire" => owner = d /\ ttl = NoExpiry)' /\ (Works(d) => owner = d)'
  BY <1>0, <1>5, <1>s DEF ReadCount, WriteCount, Goto, Works, redisVars
<1>6. ASSUME NEW c \in Client, UnLock(c)
      PROVE  (pc[d] = "expire" => owner = d /\ ttl = NoExpiry)' /\ (Works(d) => owner = d)'
  BY <1>0, <1>6, <1>s DEF UnLock, Del, Goto, Works, redisVars
<1>7. ASSUME NEW c \in Client, Crash(c)
      PROVE  (pc[d] = "expire" => owner = d /\ ttl = NoExpiry)' /\ (Works(d) => owner = d)'
  BY <1>0, <1>7, <1>s DEF Crash, Goto, Works, redisVars
<1>8. CASE UNCHANGED vars
  BY <1>8, <1>s DEF vars, Works
<1>. QED BY <1>1, <1>2, <1>3, <1>4, <1>5, <1>6, <1>7, <1>8 DEF Next, Step

\* A step of a trusted system keeps the count exact: only the owner of the key
\* reads and writes it.
LEMMA CountStep ==
  ASSUME TypeOK, WorkerOwnsKey, SeenIsFresh, NoLostUpdate, [Next]_vars
  PROVE  SeenIsFresh' /\ NoLostUpdate'
<1>0. /\ pc \in [Client -> PC]
      /\ seen \in [Client -> Nat]
      /\ count \in Nat
      /\ count = increments
  BY DEF TypeOK, NoLostUpdate
<1>s. \A d \in Client : (pc[d] = "write" => seen[d] = count) /\ (Works(d) => owner = d)
  BY DEF SeenIsFresh, WorkerOwnsKey
<1> SUFFICES (\A d \in Client : pc[d] = "write" => seen[d] = count)' /\ (count = increments)'
  BY DEF SeenIsFresh, NoLostUpdate
<1>1. CASE Tick
  BY <1>0, <1>1, <1>s DEF Tick
<1>2. ASSUME NEW c \in Client, Call(c) \/ TrySetnx(c) \/ SetExpiry(c) \/ UnLock(c) \/ Crash(c)
      PROVE  (\A d \in Client : pc[d] = "write" => seen[d] = count)' /\ (count = increments)'
  BY <1>0, <1>2, <1>s
     DEF Call, TrySetnx, SetExpiry, UnLock, Crash, ReturnAfterFault, Goto
<1>3. ASSUME NEW c \in Client, ReadCount(c)
      PROVE  (\A d \in Client : pc[d] = "write" => seen[d] = count)' /\ (count = increments)'
  BY <1>0, <1>3, <1>s DEF ReadCount, Goto
<1>4. ASSUME NEW c \in Client, WriteCount(c)
      PROVE  (\A d \in Client : pc[d] = "write" => seen[d] = count)' /\ (count = increments)'
  BY <1>0, <1>4, <1>s DEF WriteCount, Goto, Works
<1>5. CASE UNCHANGED vars
  BY <1>0, <1>5, <1>s DEF vars
<1>. QED BY <1>1, <1>2, <1>3, <1>4, <1>5 DEF Next, Step

LEMMA IInvStep == ASSUME Trusted, IInv, [Next]_vars PROVE IInv'
BY TypeStep, OwnerStep, CountStep DEF IInv

LEMMA IInvAlways == Trusted => (Spec => []IInv)
<1> SUFFICES ASSUME Trusted PROVE Spec => []IInv
  OBVIOUS
<1>1. Init => IInv
  BY InitIInv
<1>2. IInv /\ [Next]_vars => IInv'
  BY IInvStep
<1>. QED BY <1>1, <1>2, PTL DEF Spec

-----------------------------------------------------------------------------
\* In a trusted system a client works only while the key is its own, so that
\* at most one client works at a time.
THEOREM KeyOfTheWorker == Trusted => (Spec => [](WorkerOwnsKey /\ MutualExclusion))
<1>1. IInv => WorkerOwnsKey /\ MutualExclusion
  BY DEF IInv, WorkerOwnsKey, MutualExclusion
<1>. QED BY <1>1, IInvAlways, PTL

\* In a trusted system the counter of RedisLockMain loses no increment.
THEOREM CounterIsExact == Trusted => (Spec => []NoLostUpdate)
<1>1. IInv => NoLostUpdate
  BY DEF IInv
<1>. QED BY <1>1, IInvAlways, PTL

-----------------------------------------------------------------------------
\* A step of the handler is a step of the lock with a lease, or none of it.
LEMMA LeaseStep ==
  ASSUME Trusted, IInv, [Next]_vars
  PROVE  [Lease!Next]_<<owner, {c \in Client : Works(c)}>>
<1> DEFINE working == {c \in Client : Works(c)}
<1>0. /\ pc \in [Client -> PC]
      /\ owner \in Client \cup {Nobody}
      /\ owner = Nobody <=> ttl = 0
      /\ Nobody \notin Client
      /\ \A d \in Client : (pc[d] = "expire" => owner = d) /\ (Works(d) => owner = d)
  BY RedisLockAssumption DEF IInv, TypeOK, ExpirerOwnsKey, WorkerOwnsKey
<1>1. CASE Tick
  <2>1. working' = working
    BY <1>1 DEF Tick, Works
  <2>2. owner' = owner \/ (owner \notin working /\ owner' = Nobody)
    BY <1>1 DEF Tick, Trusted
  <2>. QED BY <2>1, <2>2 DEF Lease!Next, Lease!LeaseEnds
<1>2. ASSUME NEW c \in Client, Call(c)
      PROVE  UNCHANGED <<owner, working>>
  BY <1>0, <1>2 DEF Call, Goto, Works, redisVars
<1>3. ASSUME NEW c \in Client, TrySetnx(c)
      PROVE  Lease!Acquire(c) \/ UNCHANGED <<owner, working>>
  <2>1. working' = working
    BY <1>0, <1>3 DEF TrySetnx, ReturnAfterFault, Fault, Goto, Works, Trusted
  <2>2. owner' = owner \/ (owner = Nobody /\ owner' = c)
    BY <1>3 DEF TrySetnx, Setnx, redisVars
  <2>. QED BY <2>1, <2>2 DEF Lease!Acquire
<1>4. ASSUME NEW c \in Client, SetExpiry(c)
      PROVE  Lease!Work(c) \/ UNCHANGED <<owner, working>>
  <2>1. owner = c /\ owner' = owner
    BY <1>0, <1>4 DEF SetExpiry
  <2>2. working' = working \cup {c} \/ working' = working
    BY <1>0, <1>4 DEF SetExpiry, ReturnAfterFault, Fault, Goto, Works, Trusted
  <2>. QED BY <2>1, <2>2 DEF Lease!Work
<1>5. ASSUME NEW c \in Client, ReadCount(c) \/ WriteCount(c)
      PROVE  UNCHANGED <<owner, working>>
  BY <1>0, <1>5 DEF ReadCount, WriteCount, Goto, Works, redisVars
<1>6. ASSUME NEW c \in Client, UnLock(c)
      PROVE  Lease!Release(c)
  <2>1. owner = c /\ owner' \in {c, Nobody}
    BY <1>0, <1>6 DEF UnLock, Del, Works, redisVars
  <2>2. working' = working \ {c}
    BY <1>0, <1>6 DEF UnLock, Goto, Works
  <2>. QED BY <2>1, <2>2 DEF Lease!Release
<1>7. ASSUME NEW c \in Client, Crash(c)
      PROVE  Lease!Release(c) \/ UNCHANGED <<owner, working>>
  <2>1. owner' = owner
    BY <1>7 DEF Crash, redisVars
  <2>2. working' = working \ {c}
    BY <1>0, <1>7 DEF Crash, Goto, Works
  <2>3. Works(c) => owner = c
    BY <1>0
  <2>4. ~Works(c) => working \ {c} = working
    OBVIOUS
  <2>. QED BY <2>1, <2>2, <2>3, <2>4 DEF Lease!Release
<1>8. CASE UNCHANGED vars
  BY <1>8 DEF vars, Works
<1>. QED BY <1>1, <1>2, <1>3, <1>4, <1>5, <1>6, <1>7, <1>8 DEF Next, Step, Lease!Next

\* In a trusted system the handler implements a lock with a lease.
THEOREM ImplementsLease == Trusted => (Spec => LeaseSpec)
<1> SUFFICES ASSUME Trusted PROVE Spec => Lease!Spec
  BY DEF LeaseSpec
<1>1. Init => Lease!Init
  BY DEF Init, Lease!Init, Works
<1>2. IInv /\ [Next]_vars => [Lease!Next]_<<owner, {c \in Client : Works(c)}>>
  BY LeaseStep
<1>3. Spec => []IInv
  BY IInvAlways
<1>. QED BY <1>1, <1>2, <1>3, PTL DEF Spec, Lease!Spec

-----------------------------------------------------------------------------
(* What holds until the first call throws or the first client dies, with   *)
(* or without trust in the length of the work.  NoImmortalKey is           *)
(* inductive; FalseMeansFree is not: it needs that nobody returns while    *)
(* the key is still the one it made.                                       *)

\* A key in Redis was made by a client that has not returned yet.
OwnerIsBusy == Undisturbed /\ owner # Nobody => pc[owner] = "expire" \/ Works(owner)

KeyInv == NoImmortalKey /\ OwnerIsBusy

LEMMA KeyStep ==
  ASSUME TypeOK, KeyInv, [Next]_vars
  PROVE  KeyInv'
<1> SUFFICES ASSUME Undisturbed', NEW d \in Client, owner' = d
             PROVE  (ttl = NoExpiry => pc[d] = "expire")' /\ (pc[d] = "expire" \/ Works(d))'
  <2>1. TypeOK'
    BY TypeStep
  <2>2. owner' \in Client \/ (owner' = Nobody /\ ttl' # NoExpiry)
    BY <2>1 DEF TypeOK, NoExpiry
  <2>3. Nobody \notin Client
    BY RedisLockAssumption
  <2>. QED BY <2>2, <2>3 DEF KeyInv, NoImmortalKey, OwnerIsBusy, Works
<1>0. /\ pc \in [Client -> PC]
      /\ owner \in Client \cup {Nobody}
      /\ owner = Nobody <=> ttl = 0
      /\ Nobody \notin Client
      /\ Lifetime \in Nat \ {0}
      /\ faults \in Nat /\ crashes \in Nat
  BY RedisLockAssumption DEF TypeOK
<1>u. Undisturbed /\ faults' = faults /\ crashes' = crashes
  BY <1>0 DEF Next, Step, Undisturbed, vars, Tick, Call, TrySetnx, SetExpiry, ReadCount, WriteCount,
     UnLock, Crash, ReturnAfterFault, Fault
<1>s. owner = d => (ttl = NoExpiry => pc[d] = "expire") /\ (pc[d] = "expire" \/ Works(d))
  BY <1>0, <1>u DEF KeyInv, NoImmortalKey, OwnerIsBusy
<1>1. CASE Tick
  BY <1>0, <1>1, <1>s DEF Tick, Works, NoExpiry
<1>2. ASSUME NEW c \in Client, Call(c)
      PROVE  (ttl = NoExpiry => pc[d] = "expire")' /\ (pc[d] = "expire" \/ Works(d))'
  BY <1>0, <1>2, <1>s DEF Call, Goto, Works, redisVars
<1>3. ASSUME NEW c \in Client, TrySetnx(c)
      PROVE  (ttl = NoExpiry => pc[d] = "expire")' /\ (pc[d] = "expire" \/ Works(d))'
  BY <1>0, <1>3, <1>s, <1>u DEF TrySetnx, Setnx, ReturnAfterFault, Fault, Goto, Works, redisVars
<1>4. ASSUME NEW c \in Client, SetExpiry(c)
      PROVE  (ttl = NoExpiry => pc[d] = "expire")' /\ (pc[d] = "expire" \/ Works(d))'
  BY <1>0, <1>4, <1>s, <1>u DEF SetExpiry, Expire, ReturnAfterFault, Fault, Goto, Works, NoExpiry
<1>5. ASSUME NEW c \in Client, ReadCount(c) \/ WriteCount(c)
      PROVE  (ttl = NoExpiry => pc[d] = "expire")' /\ (pc[d] = "expire" \/ Works(d))'
  BY <1>0, <1>5, <1>s DEF ReadCount, WriteCount, Goto, Works, redisVars
<1>6. ASSUME NEW c \in Client, UnLock(c)
      PROVE  FALSE
  BY <1>0, <1>6, <1>u DEF UnLock, Del, Fault
<1>7. ASSUME NEW c \in Client, Crash(c)
      PROVE  FALSE
  BY <1>0, <1>7, <1>u DEF Crash
<1>8. CASE UNCHANGED vars
  BY <1>8, <1>s DEF vars, Works
<1>. QED BY <1>1, <1>2, <1>3, <1>4, <1>5, <1>6, <1>7, <1>8 DEF Next, Step

LEMMA KeyInvAlways == Spec => [](TypeOK /\ KeyInv)
<1>1. Init => KeyInv
  BY DEF Init, KeyInv, NoImmortalKey, OwnerIsBusy, NoExpiry
<1>2. TypeOK /\ KeyInv /\ [Next]_vars => KeyInv'
  BY KeyStep
<1>. QED BY <1>1, <1>2, TypeCorrect, PTL DEF Spec

\* Until the first exception or death no key stays for ever, whatever the clients do
\* and however long they work.
THEOREM KeysDoNotStay == Spec => []NoImmortalKey
<1>1. KeyInv => NoImmortalKey
  BY DEF KeyInv
<1>. QED BY <1>1, KeyInvAlways, PTL

\* Until the first exception or death a call that has returned FALSE has left no key.
THEOREM RefusedIsFree == Spec => []FalseMeansFree
<1>1. TypeOK /\ KeyInv => FalseMeansFree
  BY RedisLockAssumption DEF TypeOK, KeyInv, OwnerIsBusy, FalseMeansFree, Works
<1>. QED BY <1>1, KeyInvAlways, PTL
=============================================================================
