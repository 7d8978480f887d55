------------------------------ MODULE RedisLock ------------------------------
(***************************************************************************)
(* The lock on one Redis key: lock(key), tryLock(key) and unLock(key) of   *)
(* RedisLockHandler, used by clients that increment a shared counter under *)
(* the lock, as Locker of RedisLockMain does.                              *)
(*                                                                         *)
(* A client makes one call to Redis at a time, and one step is one call    *)
(* with the work that follows it.  The lifetime of the key is counted in   *)
(* ticks of the Redis clock.  The sleep between two attempts and the       *)
(* deadline of tryLock(key, timeout, unit) are times of the client: it may *)
(* try again or give up after any failed attempt.                          *)
(***************************************************************************)
EXTENDS Integers

CONSTANTS
  Client,      (* the threads that lock                                    *)
  Nobody,      (* no client                                                *)
  Lifetime,    (* DEFAULT_SINGLE_EXPIRE_TIME, in ticks                     *)
  Calls,       (* the ways a client takes the lock, from Call below        *)
  Throwing,    (* those in which Redis may throw                           *)
  MaxRounds,   (* bound: rounds of lock and unlock per client              *)
  MaxFaults,   (* bound: calls to Redis that throw                         *)
  MaxCrashes,  (* bound: clients that die                                  *)
  Overrun      (* may the lifetime end while the owner works?              *)

ASSUME RedisLockAssumption ==
  /\ Nobody \notin Client
  /\ Lifetime \in Nat \ {0}
  /\ Calls \subseteq {"lock", "tryLock", "tryLockFor"}
  /\ Throwing \subseteq Calls
  /\ {MaxRounds, MaxFaults, MaxCrashes} \subseteq Nat
  /\ Overrun \in BOOLEAN

VARIABLES
  (* the Redis server *)
  owner,     (* whose setnx made the key that is there, Nobody if none is  *)
  ttl,       (* what remains of its lifetime                               *)
  (* the clients *)
  call,      (* the method a client has called                             *)
  pc,        (* what it does next                                          *)
  seen,      (* the count it has read                                      *)
  count,     (* RedisLockMain.count                                        *)
  (* history and bounds *)
  increments, rounds, faults, crashes

redisVars == <<owner, ttl>>
vars == <<owner, ttl, call, pc, seen, count, increments, rounds, faults, crashes>>

NoExpiry == -1     \* the ttl Redis reports for a key that never expires

PC == {"idle", "setnx", "expire", "read", "write", "unlock", "dead"}

TypeOK ==
  /\ owner \in Client \cup {Nobody}
  /\ ttl \in 0 .. Lifetime \cup {NoExpiry}
  /\ owner = Nobody <=> ttl = 0
  /\ call \in [Client -> Calls \cup {"none"}]
  /\ pc \in [Client -> PC]
  /\ seen \in [Client -> Nat]
  /\ count \in Nat
  /\ increments \in Nat
  /\ rounds \in [Client -> Nat]
  /\ faults \in Nat
  /\ crashes \in Nat

\* The client has been told that the lock is its own, and has not yet released it.
Works(c) == pc[c] \in {"read", "write", "unlock"}

-----------------------------------------------------------------------------
(* The Redis server, as the handler uses it.                               *)

Setnx(c) == owner = Nobody /\ owner' = c /\ ttl' = NoExpiry

Expire == ttl' = IF owner = Nobody THEN 0 ELSE Lifetime

Del == owner' = Nobody /\ ttl' = 0

\* Time passes for a key with a lifetime, and takes the key away at the end.
\* Without Overrun, clients that live are faster than the lifetime of their key.
Tick ==
  /\ ttl > 0
  /\ ttl' = ttl - 1
  /\ owner' = IF ttl = 1 THEN Nobody ELSE owner
  /\ ttl > 1 \/ Overrun \/ ~Works(owner)
  /\ UNCHANGED <<call, pc, seen, count, increments, rounds, faults, crashes>>

\* A call to Redis throws.
Fault(c) ==
  /\ call[c] \in Throwing
  /\ faults < MaxFaults
  /\ faults' = faults + 1

-----------------------------------------------------------------------------
(* The handler.                                                            *)

Goto(c, l) == pc' = [pc EXCEPT ![c] = l]

\* How a call ends in which Redis threw: lock() returns like a call that got the
\* lock, tryLock() returns FALSE.
ReturnAfterFault(c) == Fault(c) /\ Goto(c, IF call[c] = "lock" THEN "read" ELSE "idle")

\* A client calls lock(key), tryLock(key) or tryLock(key, timeout, unit).
Call(c) ==
  /\ pc[c] = "idle"
  /\ rounds[c] < MaxRounds
  /\ rounds' = [rounds EXCEPT ![c] = @ + 1]
  /\ \E m \in Calls : call' = [call EXCEPT ![c] = m]
  /\ Goto(c, "setnx")
  /\ UNCHANGED <<redisVars, seen, count, increments, faults, crashes>>

\* Mutant: the answer of setnx is not looked at.
TrySetnxBlind(c) ==
  /\ pc[c] = "setnx"
  /\ Setnx(c) \/ UNCHANGED redisVars
  /\ Goto(c, "expire")
  /\ UNCHANGED <<call, seen, count, increments, rounds, faults, crashes>>

\* Mutant: the deadline is looked at before the answer of setnx.
TrySetnxLate(c) ==
  /\ pc[c] = "setnx"
  /\ Setnx(c) \/ UNCHANGED redisVars
  /\ Goto(c, IF call[c] # "lock" THEN "idle" ELSE IF owner' = c THEN "expire" ELSE "setnx")
  /\ UNCHANGED <<call, seen, count, increments, rounds, faults, crashes>>

\* An attempt gets the key, finds it taken, or throws, before or after Redis has
\* carried it out.  tryLock() gives up, with a timeout only after a while.
TrySetnx(c) ==
  /\ pc[c] = "setnx"
  /\ \/ Setnx(c) /\ Goto(c, "expire") /\ UNCHANGED faults
     \/ /\ owner # Nobody /\ call[c] # "lock"
        /\ Goto(c, "idle")
        /\ UNCHANGED <<redisVars, faults>>
     \/ /\ ReturnAfterFault(c)
        /\ Setnx(c) \/ UNCHANGED redisVars
  /\ UNCHANGED <<call, seen, count, increments, rounds, crashes>>

\* Mutant: the key gets no lifetime.
SetNoExpiry(c) ==
  /\ pc[c] = "expire"
  /\ Goto(c, "read")
  /\ UNCHANGED <<redisVars, call, seen, count, increments, rounds, faults, crashes>>

\* Mutant: the lifetime is set in milliseconds where Redis takes seconds.
SetExpiryMillis(c) ==
  /\ pc[c] = "expire"
  /\ ttl' = Lifetime * 1000
  /\ Goto(c, "read")
  /\ UNCHANGED <<owner, call, seen, count, increments, rounds, faults, crashes>>

\* The key gets its lifetime in a second call.
SetExpiry(c) ==
  /\ pc[c] = "expire"
  /\ \/ Expire /\ Goto(c, "read") /\ UNCHANGED faults
     \/ ReturnAfterFault(c) /\ (Expire \/ UNCHANGED ttl)
  /\ UNCHANGED <<owner, call, seen, count, increments, rounds, crashes>>

\* Mutant: the lock is released as soon as the count has been read.
ReadCountAndUnlock(c) ==
  /\ pc[c] = "read"
  /\ seen' = [seen EXCEPT ![c] = count]
  /\ Del
  /\ Goto(c, "write")
  /\ UNCHANGED <<call, count, increments, rounds, faults, crashes>>

\* "count = count + 1" under the lock: the field is read,
ReadCount(c) ==
  /\ pc[c] = "read"
  /\ seen' = [seen EXCEPT ![c] = count]
  /\ Goto(c, "write")
  /\ UNCHANGED <<redisVars, call, count, increments, rounds, faults, crashes>>

\* and the sum is written.
WriteCount(c) ==
  /\ pc[c] = "write"
  /\ count' = seen[c] + 1
  /\ increments' = increments + 1
  /\ seen' = [seen EXCEPT ![c] = 0]
  /\ Goto(c, "unlock")
  /\ UNCHANGED <<redisVars, call, rounds, faults, crashes>>

\* unLock(key) deletes the key, whoever made it, and swallows an exception.
UnLock(c) ==
  /\ pc[c] = "unlock"
  /\ \/ Del /\ UNCHANGED faults
     \/ Fault(c) /\ (Del \/ UNCHANGED redisVars)
  /\ Goto(c, "idle")
  /\ call' = [call EXCEPT ![c] = "none"]
  /\ UNCHANGED <<seen, count, increments, rounds, crashes>>

\* A client dies; Redis does not notice.
Crash(c) ==
  /\ pc[c] # "dead"
  /\ crashes < MaxCrashes
  /\ crashes' = crashes + 1
  /\ Goto(c, "dead")
  /\ UNCHANGED <<redisVars, call, seen, count, increments, rounds, faults>>

-----------------------------------------------------------------------------
Init ==
  /\ owner = Nobody
  /\ ttl = 0
  /\ call = [c \in Client |-> "none"]
  /\ pc = [c \in Client |-> "idle"]
  /\ seen = [c \in Client |-> 0]
  /\ count = 0
  /\ increments = 0
  /\ rounds = [c \in Client |-> 0]
  /\ faults = 0
  /\ crashes = 0

Step(c) == TrySetnx(c) \/ SetExpiry(c) \/ ReadCount(c) \/ WriteCount(c) \/ UnLock(c)

Next == Tick \/ \E c \in Client : Call(c) \/ Step(c) \/ Crash(c)

Spec == Init /\ [][Next]_vars

-----------------------------------------------------------------------------
(* What the lock promises.                                                 *)

\* A client works only while the key in Redis is the one it made: so two never
\* work at a time, and no client deletes the key of another.
WorkerOwnsKey == \A c \in Client : Works(c) => owner = c

\* The counter of RedisLockMain loses no increment.
NoLostUpdate == count = increments

\* As long as no call has thrown and no client has died,
Undisturbed == faults = 0 /\ crashes = 0

\* a key without a lifetime is about to get one from the client that made it: no
\* key stays for ever,
NoImmortalKey == Undisturbed /\ ttl = NoExpiry => pc[owner] = "expire"

\* and a client whose tryLock() has returned FALSE ("otherwise returns false") has
\* left no key of its own in Redis.
FalseMeansFree ==
  Undisturbed => \A c \in Client : pc[c] = "idle" /\ call[c] # "none" => owner # c

\* At most one client at a time has been told that the lock is its own.
MutualExclusion == \A c, d \in Client : Works(c) /\ Works(d) => c = d

\* The handler implements a lock with a lease, whose holder is the client that
\* made the key.
Lease == INSTANCE LeaseLock WITH holder <- owner, working <- {c \in Client : Works(c)}
LeaseSpec == Lease!Spec
=============================================================================
