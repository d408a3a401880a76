---------------------------- MODULE AccountPool ----------------------------
(***************************************************************************)
(* The pool of upstream Command Code accounts (accounts.go): an ordered    *)
(* list of accounts, a rotation cursor that only ever advances, and for    *)
(* every account an enabled flag and a 429 cooldown.                       *)
(*                                                                         *)
(* Account is the set of account OBJECTS.  A request that acquired an      *)
(* object keeps it although the pool drops it meanwhile, so the flag and   *)
(* the cooldown live on the object and not on the pool.                    *)
(*                                                                         *)
(* Time.  The code stores the instant rateLimitedUntil; cool[a] is what    *)
(* is left of it, in ticks, and Tick takes one off every running cooldown. *)
(* The two say the same, and no clock has to be bounded.                   *)
(*                                                                         *)
(* Fields that only the console displays (lastError, lastErrorAt,          *)
(* lastUsedAt, authFailures, Errors, Name) are left out.                   *)
(***************************************************************************)
EXTENDS Integers, SequencesExt

CONSTANTS
  Account,          \* account objects
  TicksPerSecond,   \* resolution of the clock
  RetryAfters,      \* Retry-After headers, in seconds; 0: absent or no integer
  DefaultCooldown,  \* defaultRateLimitCooldown, in seconds
  CursorModulus     \* where the cursor wraps (2^64 in the code)

ASSUME AccountAssumption == IsFiniteSet(Account)

ASSUME ClockAssumption ==
  /\ TicksPerSecond \in Nat \ {0}
  /\ RetryAfters \subseteq Nat
  /\ DefaultCooldown \in Nat \ {0}

(* A wrapping cursor skips ahead unless the pool's size divides the        *)
(* modulus.  2^64 Acquires are out of reach, so the wrap of the model must *)
(* not be observable: every pool size divides it.                          *)
ASSUME CursorAssumption ==
  /\ CursorModulus \in Nat \ {0}
  /\ \A n \in 1..Cardinality(Account) : CursorModulus % n = 0

VARIABLES
  pool,      \* AccountPool.accounts
  enabled,   \* Account.Enabled
  cool,      \* ticks left until Account.rateLimitedUntil, 0 when it is past
  cursor     \* AccountPool.cursor

poolVars == <<pool, enabled, cool, cursor>>

InPool == {pool[i] : i \in DOMAIN pool}

(* An account may be handed out: !a.Enabled || a.RateLimited(now) skips.   *)
Eligible(a) == enabled[a] /\ cool[a] = 0

EnabledCount == Cardinality({a \in InPool : enabled[a]})

PoolTypeOK ==
  /\ pool \in Seq(Account)
  /\ IsInjective(pool)
  /\ enabled \in [Account -> BOOLEAN]
  /\ cool \in [Account -> Nat]
  /\ cursor \in 0..(CursorModulus - 1)

(* NewAccountPool: any list of configured accounts, enabled or not.        *)
PoolInit ==
  /\ \E n \in 0..Cardinality(Account) :
       pool \in {s \in [1..n -> Account] : IsInjective(s)}
  /\ enabled \in [Account -> BOOLEAN]
  /\ cool = [a \in Account |-> 0]
  /\ cursor = 0

----------------------------------------------------------------------------
(* Acquire reads the clock, takes the read lock, advances the cursor and   *)
(* then looks at the accounts one by one, beginning where the cursor stood.*)
(* The lock keeps the list as it is meanwhile, but neither the enabled     *)
(* flags nor the cooldowns: the looks are steps of the request, and these  *)
(* are the parts they are made of.                                         *)

(* Mutant: every scan begins at the front.                                 *)
StartAtFront == 0

(* The position the scan begins at, counted from 0.                        *)
Start == cursor % Len(pool)

(* The account that a scan which began at start looks at in its i-th look, *)
(* counted from 0.                                                         *)
Slot(start, i) == pool[((start + i) % Len(pool)) + 1]

(* Mutant: the cursor has no width.                                        *)
AdvanceCursorForever == cursor' = cursor + 1

(* The scan of a pool that is not empty advances the cursor, whether or    *)
(* not it finds an account.                                                *)
AdvanceCursor == cursor' = (cursor + 1) % CursorModulus

----------------------------------------------------------------------------
(* Cooldown                                                                *)

(* RecordFailure of a 429: the upstream's Retry-After if it is a positive  *)
(* integer, else the default; a cooldown already running is overwritten.   *)
Cooldown(s) == TicksPerSecond * (IF s > 0 THEN s ELSE DefaultCooldown)

RecordRateLimit(a, s) ==
  /\ cool' = [cool EXCEPT ![a] = Cooldown(s)]
  /\ UNCHANGED <<pool, enabled, cursor>>

(* w is what EarliestRateLimitWait returns, in ticks: the shortest cooldown *)
(* left on an enabled account of the pool, 0 if none is running.           *)
Waits == {cool[a] : a \in {b \in InPool : enabled[b] /\ cool[b] > 0}}

EarliestRateLimitWait(w) ==
  IF Waits = {} THEN w = 0 ELSE w \in Waits /\ \A v \in Waits : w <= v

(* time.Duration.Round(time.Second): halves away from zero.                *)
RoundToSeconds(w) == (2 * w + TicksPerSecond) \div (2 * TicksPerSecond)

(* A tick of the clock.                                                    *)
Tick ==
  /\ \E a \in Account : cool[a] > 0
  /\ cool' = [a \in Account |-> IF cool[a] > 0 THEN cool[a] - 1 ELSE 0]
  /\ UNCHANGED <<pool, enabled, cursor>>

----------------------------------------------------------------------------
(* Administration: the console edits the pool under running requests.      *)

SetEnabled(a, b) ==
  /\ a \in InPool
  /\ enabled[a] # b
  /\ enabled' = [enabled EXCEPT ![a] = b]
  /\ UNCHANGED <<pool, cool, cursor>>

(* Add appends a fresh object, which is not cooling down.                  *)
AddAccount(a) ==
  /\ a \notin InPool
  /\ pool' = Append(pool, a)
  /\ enabled' = [enabled EXCEPT ![a] = TRUE]
  /\ cool' = [cool EXCEPT ![a] = 0]
  /\ UNCHANGED cursor

RemoveAccount(i) ==
  /\ i \in DOMAIN pool
  /\ pool' = RemoveAt(pool, i)
  /\ UNCHANGED <<enabled, cool, cursor>>

=============================================================================
