------------------------------ MODULE Failover ------------------------------
(***************************************************************************)
(* CCClient.Send (cc.go): concurrent chat requests rotate over the account *)
(* pool and fail over on account-scoped errors, while the clock runs and   *)
(* an administrator edits the pool.                                        *)
(*                                                                         *)
(* Send counts the enabled accounts once, then loops that many times:      *)
(* Acquire an account, send the request upstream, record what came back    *)
(* on the account, and stop or go round again.  Every lock is released     *)
(* between those calls, so each of them is an action of its own; and       *)
(* inside Acquire every look at an account is one, because the console     *)
(* switches accounts without the pool's lock and an answer starts a        *)
(* cooldown under the account's.                                           *)
(***************************************************************************)
EXTENDS AccountPool

CONSTANTS
  Request,     \* chat requests; one that is answered stands for the next one
  NoAccount    \* the nil *Account

ASSUME NoAccountAssumption == NoAccount \notin Account

ASSUME RequestAssumption == IsFiniteSet(Request)

VARIABLES
  req     \* the locals of Send, and its result once pc is "done"

vars == <<pool, enabled, cool, cursor, req>>

----------------------------------------------------------------------------
(* What the upstream may answer, by what Send tells apart (shouldFailover).*)
(* "failed" is a 401, a 403, a 5xx or a transport error, "rejected" any    *)
(* other status and the end of the client's context.                       *)
FailoverKinds == {"limited", "failed"}
FinalKinds    == {"ok", "rejected"}
GatewayKinds  == {"invalid", "no_accounts", "refused"} \* made without a send
Kinds == FailoverKinds \cup FinalKinds \cup GatewayKinds \cup {"none"}

PC == {"idle", "acquire", "scan", "send", "refuse", "done"}

(* acct is lastAcct, or the account in use while pc is "send"; last is     *)
(* lastErr and then the result; hint is its Retry-After in seconds (0:     *)
(* none); budget is attempts - attempt.                                    *)
(*                                                                         *)
(* While pc is "scan" the request is inside Acquire and holds the pool's   *)
(* read lock: start and i are the locals of its loop, and ended stands for *)
(* now.  A cooldown is judged at the instant now, read before the scan, so *)
(* it still counts when it has ended since: ended is the accounts, of those *)
(* not looked at yet, of which that is true.                               *)
NewRequest == [pc |-> "idle", budget |-> 0, acct |-> NoAccount,
               last |-> "none", hint |-> 0, start |-> 0, i |-> 0, ended |-> {}]

Locals == [pc: PC, budget: Nat, acct: Account \cup {NoAccount},
           last: Kinds, hint: Nat, start: Nat, i: Nat, ended: SUBSET Account]

(* A scan is at some account of the pool, which is not empty then; outside *)
(* one its locals are as new.                                              *)
ScanLocals(r) ==
  IF req[r].pc = "scan" THEN req[r].start < Len(pool) /\ req[r].i < Len(pool)
                        ELSE req[r].i = 0 /\ req[r].ended = {}

TypeOK ==
  /\ PoolTypeOK
  /\ req \in [Request -> Locals]
  /\ \A r \in Request : ScanLocals(r)

Init ==
  /\ PoolInit
  /\ req = [r \in Request |-> NewRequest]

Reply(r, kind, acct, hint) ==
  req' = [req EXCEPT ![r] = [NewRequest EXCEPT !.pc = "done", !.acct = acct,
                                               !.last = kind, !.hint = hint]]

----------------------------------------------------------------------------
(* The request reaches Send.  A conversion error returns at once; with no  *)
(* enabled account Send answers 503 no_accounts; else the number of        *)
(* enabled accounts is the number of attempts, fixed from here on.         *)
Begin(r) ==
  /\ req[r].pc \in {"idle", "done"}
  /\ UNCHANGED poolVars
  /\ \/ Reply(r, "invalid", NoAccount, 0)
     \/ /\ EnabledCount = 0
        /\ Reply(r, "no_accounts", NoAccount, 0)
     \/ /\ EnabledCount > 0
        /\ req' = [req EXCEPT ![r] = [NewRequest EXCEPT !.pc = "acquire",
                                                        !.budget = EnabledCount]]

(* Acquire came back with nil: with an error from an earlier attempt, that *)
(* is the result; without one, Send goes on to refuse the request.         *)
FoundNone(r) ==
  IF req[r].last # "none"
    THEN Reply(r, req[r].last, req[r].acct, req[r].hint)
    ELSE req' = [req EXCEPT ![r] = [NewRequest EXCEPT !.pc = "refuse"]]

(* The head of the loop calls Acquire, which has nothing to scan ...       *)
ScanNothing(r) ==
  /\ req[r].pc = "acquire"
  /\ pool = <<>>
  /\ FoundNone(r)
  /\ UNCHANGED poolVars

(* ... or begins a scan.                                                   *)
StartScan(r) ==
  /\ req[r].pc = "acquire"
  /\ pool # <<>>
  /\ AdvanceCursor
  /\ req' = [req EXCEPT ![r].pc = "scan", ![r].start = Start]
  /\ UNCHANGED <<pool, enabled, cool>>

(* The account the scan of r looks at next, and those it has yet to see.   *)
Looked(r) == Slot(req[r].start, req[r].i)
Unseen(r) == {Slot(req[r].start, k) : k \in req[r].i..(Len(pool) - 1)}

(* Mutant: the scan skips disabled accounts only.                          *)
MayTakeCooling(r) == enabled[Looked(r)]

(* It may be handed out: !a.Enabled || a.RateLimited(now) does not skip it.*)
MayTake(r) == Eligible(Looked(r)) /\ Looked(r) \notin req[r].ended

(* The scan returns the account it looks at.                               *)
PickAccount(r) ==
  /\ req[r].pc = "scan"
  /\ MayTake(r)
  /\ req' = [req EXCEPT ![r].pc = "send", ![r].acct = Looked(r),
                        ![r].start = 0, ![r].i = 0, ![r].ended = {}]
  /\ UNCHANGED poolVars

(* Mutant: the scan stops one account short.                               *)
LastLookEarly(r) == req[r].i + 1 >= Len(pool) - 1

LastLook(r) == req[r].i + 1 = Len(pool)

(* The scan skips the account and goes on ...                              *)
SkipAccount(r) ==
  /\ req[r].pc = "scan"
  /\ ~MayTake(r) /\ ~LastLook(r)
  /\ req' = [req EXCEPT ![r].i = @ + 1, ![r].ended = @ \ {Looked(r)}]
  /\ UNCHANGED poolVars

(* Mutant: the error of the earlier attempts is forgotten.                 *)
PickNoneRefuses(r) ==
  /\ req[r].pc = "scan"
  /\ ~MayTake(r) /\ LastLook(r)
  /\ req' = [req EXCEPT ![r].pc = "refuse", ![r].start = 0, ![r].i = 0,
                        ![r].ended = {}]
  /\ UNCHANGED poolVars

(* ... or has been round the pool and found none.                          *)
PickNone(r) ==
  /\ req[r].pc = "scan"
  /\ ~MayTake(r) /\ LastLook(r)
  /\ FoundNone(r)
  /\ UNCHANGED poolVars

(* doSend returned a response, or an error no other account would mend:    *)
(* it is the result.  RecordSuccess leaves a running cooldown alone.       *)
AnswerFinal(r) ==
  /\ req[r].pc = "send"
  /\ \E kind \in FinalKinds : Reply(r, kind, req[r].acct, 0)
  /\ UNCHANGED poolVars

(* Mutants: the loop stops one attempt early; it never uses one up.        *)
NextAttemptShort(r, kind, hint) ==
  IF req[r].budget > 2
    THEN req' = [req EXCEPT ![r].pc = "acquire", ![r].budget = @ - 1,
                             ![r].last = kind, ![r].hint = hint]
    ELSE Reply(r, kind, req[r].acct, hint)

NextAttemptForever(r, kind, hint) ==
  req' = [req EXCEPT ![r].pc = "acquire", ![r].last = kind, ![r].hint = hint]

(* doSend failed in a way another account may not: the loop goes round     *)
(* while attempts are left, and ends with this error when they are used    *)
(* up.                                                                     *)
NextAttempt(r, kind, hint) ==
  IF req[r].budget > 1
    THEN req' = [req EXCEPT ![r].pc = "acquire", ![r].budget = @ - 1,
                             ![r].last = kind, ![r].hint = hint]
    ELSE Reply(r, kind, req[r].acct, hint)

AnswerFailed(r) ==
  /\ req[r].pc = "send"
  /\ NextAttempt(r, "failed", 0)
  /\ UNCHANGED poolVars

(* A 429 also starts the account's cooldown (RecordFailure).               *)
AnswerRateLimited(r) ==
  /\ req[r].pc = "send"
  /\ \E s \in RetryAfters :
       /\ RecordRateLimit(req[r].acct, s)
       /\ NextAttempt(r, "limited", s)

(* No account was ever acquired: 429 with the earliest recovery time, read *)
(* after the scan that found nothing.                                      *)
Refuse(r) ==
  /\ req[r].pc = "refuse"
  /\ \E w \in Waits \cup {0} :
       /\ EarliestRateLimitWait(w)
       /\ Reply(r, "refused", NoAccount, RoundToSeconds(w))
  /\ UNCHANGED poolVars

Acquire(r) == ScanNothing(r) \/ StartScan(r) \/ PickAccount(r)
                \/ SkipAccount(r) \/ PickNone(r)

Send(r) == Acquire(r) \/ AnswerFinal(r) \/ AnswerFailed(r)
             \/ AnswerRateLimited(r) \/ Refuse(r)

----------------------------------------------------------------------------
(* The clock ticks.  A cooldown that ends now has ended since every scan   *)
(* that is under way read the clock.                                       *)
Time ==
  /\ Tick
  /\ req' = [r \in Request |->
               IF req[r].pc = "scan"
                 THEN [req[r] EXCEPT !.ended = @ \cup {a \in Unseen(r) : cool[a] = 1}]
                 ELSE req[r]]

(* Add and Remove write the list and wait for the lock.  Add makes a new   *)
(* object: not one that a request still holds.                             *)
EditPool ==
  /\ \A r \in Request : req[r].pc # "scan"
  /\ \/ \E a \in Account :
          /\ \A r \in Request : req[r].pc = "send" => req[r].acct # a
          /\ AddAccount(a)
     \/ \E i \in 1..Cardinality(Account) : RemoveAccount(i)

(* SetEnabled writes an account's flag when it likes.                      *)
Admin ==
  /\ EditPool \/ \E a \in Account, b \in BOOLEAN : SetEnabled(a, b)
  /\ UNCHANGED req

Next == (\E r \in Request : Begin(r) \/ Send(r)) \/ Time \/ Admin

Spec == Init /\ [][Next]_vars

(* Send is a sequential program that the scheduler runs; an upstream call  *)
(* ends at the latest with the client's 600 s timeout (NewCCClientWithPool)*)
(* and time passes.  Nothing makes a new request arrive or an              *)
(* administrator act.                                                      *)
Fairness == (\A r \in Request : WF_vars(Send(r))) /\ WF_vars(Time)

FairSpec == Spec /\ Fairness

----------------------------------------------------------------------------
Busy(r) == req[r].pc \in {"acquire", "scan", "send", "refuse"}

(* Every request is answered, whatever the other requests do to the        *)
(* cooldowns and the administrator to the pool.                            *)
EveryRequestAnswered == \A r \in Request : Busy(r) ~> ~Busy(r)

(* A cooldown ends: requests already in flight may start it again, but no  *)
(* new one is sent to a cooling account, so it cannot be kept up forever.  *)
CooldownEnds == \A a \in Account : cool[a] > 0 ~> cool[a] = 0

=============================================================================
