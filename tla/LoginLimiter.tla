---------------------------- MODULE LoginLimiter ----------------------------
(***************************************************************************)
(* The limiter in front of the admin password (ratelimit.go) and the two   *)
(* calls adminAuth makes to it (server.go): Allow before the password is   *)
(* looked at, then Fail or Reset.  Each call takes the mutex on its own,   *)
(* so several requests of one address may stand between the two.           *)
(* Addresses share nothing, so one is modelled.                            *)
(***************************************************************************)
EXTENDS Integers, Sequences

CONSTANTS
    Client,         \* requests of the address that may be under way together
    FailLimit,      \* adminFailLimit
    FailWindow,     \* adminFailWindow
    LockoutTime,    \* adminLockoutTime
    MaxNow          \* bound: the clock stops here

ASSUME LimiterConstants ==
    /\ FailLimit \in Nat \ {0}
    /\ FailWindow \in Nat /\ MaxNow \in Nat
    /\ LockoutTime \in Nat /\ LockoutTime > FailWindow

VARIABLES
    now,        \* time.Now()
    fails,      \* the address's failRecord, or NoRecord
    attempt,    \* [Client -> "idle" | "allowed"]
    failures    \* history: the times of the failures since the last Reset

limiterVars == <<now, fails, attempt, failures>>

NoRecord == [count |-> 0, windowStart |-> 0, lockedUntil |-> 0]

LimiterInit ==
    /\ now = 0
    /\ fails = NoRecord
    /\ attempt = [c \in Client |-> "idle"]
    /\ failures = <<>>

Locked == fails.lockedUntil # 0

WindowIsOver == now - fails.windowStart > FailWindow

(* Allow lets a request pass unless a lockout is running; a lockout that   *)
(* ended and a window that ran out are forgotten on the way.               *)
Allow(c) ==
    /\ attempt[c] = "idle"
    /\ ~ (Locked /\ now < fails.lockedUntil)
    /\ fails' = IF Locked \/ WindowIsOver THEN NoRecord ELSE fails
    /\ attempt' = [attempt EXCEPT ![c] = "allowed"]
    /\ UNCHANGED <<now, failures>>

(* The record a failure is counted in: a new window when there is none or  *)
(* the last one ran out.                                                   *)
OpenRecord ==
    IF fails = NoRecord \/ WindowIsOver
    THEN [count |-> 0, windowStart |-> now, lockedUntil |-> 0]
    ELSE fails

(* Mutant: the failure that fills the window does not arm the lockout.     *)
FailOverLimit(c) ==
    /\ attempt[c] = "allowed"
    /\ fails' = [count |-> OpenRecord.count + 1, windowStart |-> OpenRecord.windowStart,
                  lockedUntil |-> IF OpenRecord.count + 1 > FailLimit
                                  THEN now + LockoutTime ELSE OpenRecord.lockedUntil]
    /\ attempt' = [attempt EXCEPT ![c] = "idle"]
    /\ failures' = Append(failures, now)
    /\ UNCHANGED now

(* Fail counts, and arms the lockout when the limit is reached.            *)
Fail(c) ==
    /\ attempt[c] = "allowed"
    /\ fails' = [count |-> OpenRecord.count + 1, windowStart |-> OpenRecord.windowStart,
                  lockedUntil |-> IF OpenRecord.count + 1 >= FailLimit
                                  THEN now + LockoutTime ELSE OpenRecord.lockedUntil]
    /\ attempt' = [attempt EXCEPT ![c] = "idle"]
    /\ failures' = Append(failures, now)
    /\ UNCHANGED now

(* The right password clears the record.                                   *)
Reset(c) ==
    /\ attempt[c] = "allowed"
    /\ fails' = NoRecord
    /\ attempt' = [attempt EXCEPT ![c] = "idle"]
    /\ failures' = <<>>
    /\ UNCHANGED now

Tick ==
    /\ now < MaxNow
    /\ now' = now + 1
    /\ UNCHANGED <<fails, attempt, failures>>

LimiterNext ==
    \/ \E c \in Client : Allow(c) \/ Fail(c) \/ Reset(c)
    \/ Tick

LimiterSpec == LimiterInit /\ [][LimiterNext]_limiterVars

LimiterTypeOK ==
    /\ now \in 0..MaxNow
    /\ fails.count \in Nat
    /\ fails.windowStart \in 0..now
    /\ fails.lockedUntil \in 0..(MaxNow + LockoutTime)
    /\ attempt \in [Client -> {"idle", "allowed"}]
    /\ failures \in Seq(0..now)

-----------------------------------------------------------------------------
LetIn(c) == attempt[c] = "idle" /\ attempt'[c] = "allowed"

(* A failure after a quiet spell, to which no earlier one can be added.    *)
Opens(i) == i = 1 \/ failures[i] > failures[i - 1] + FailWindow

(* Since the i-th failure none came after the window that it opened.       *)
NoneLate(i) == failures[Len(failures)] <= failures[i] + FailWindow

(* The lockout.  Once a failure that opened a window and those that came   *)
(* after it within the window are as many as the limit, nobody is let in   *)
(* until LockoutTime after the last of them: however the requests that     *)
(* stood between Allow and Fail interleave, whatever a later Allow forgets *)
(* of the record, and though each further failure moves the end of the     *)
(* lockout.  Only a right password, and a failure of a request let in      *)
(* before that comes after the window, undo it.                            *)
LockoutHolds ==
    [][\A c \in Client, i \in DOMAIN failures :
          LetIn(c) /\ Opens(i) /\ NoneLate(i) /\ Len(failures) - i + 1 >= FailLimit
              => now >= failures[Len(failures)] + LockoutTime]_limiterVars

(* What README says ("5 failed attempts in 10 minutes locks the source out *)
(* for 15 minutes") and the comment on ipRateLimiter: any FailLimit        *)
(* failures in a row within FailWindow lock the address out.               *)
FailuresLockOut ==
    [][\A c \in Client, k \in FailLimit..Len(failures) :
          LetIn(c) /\ failures[k] <= failures[k - FailLimit + 1] + FailWindow
              => now >= failures[k] + LockoutTime]_limiterVars
=============================================================================
