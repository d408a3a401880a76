-------------------------- MODULE FailoverHistory --------------------------
(***************************************************************************)
(* Failover with history variables, and the properties that relate a       *)
(* request's result to everything that happened to it.  A history variable *)
(* is a function of the step taken: HistoryStep reads the variables of     *)
(* Failover before and after it and constrains none of them.               *)
(***************************************************************************)
EXTENDS Failover

VARIABLES
  tried,   \* the accounts the current request was sent to
  lone,    \* nothing has interfered with the current request since it began
  missed,  \* scans in a row that began at other accounts, while this one
           \* was eligible and nobody was given it, in an unchanged pool
  from,    \* where the cursor stood when the request's scan began
  steady   \* the accounts eligible ever since the request's scan began

historyVars == <<tried, lone, missed, from, steady>>
allVars == <<pool, enabled, cool, cursor, req, tried, lone, missed, from, steady>>

HistoryInit ==
  /\ Init
  /\ tried = [r \in Request |-> {}]
  /\ lone = [r \in Request |-> FALSE]
  /\ missed = [a \in Account |-> 0]
  /\ from = [r \in Request |-> 0]
  /\ steady = [r \in Request |-> {}]

----------------------------------------------------------------------------
(* Which step this is.                                                     *)
Began(r) == req[r].pc \in {"idle", "done"} /\ req'[r] # req[r]
Started(r) == req[r].pc = "acquire" /\ req'[r].pc = "scan"
Scanned(r) == req[r].pc = "scan" /\ req'[r].pc # "scan"
Picked(r) == Scanned(r) /\ req'[r].pc = "send"

(* A step of another request that r can feel moves the cursor or starts a  *)
(* cooldown; so does any edit of the pool.                                 *)
Disturbed(r) ==
  \/ \E s \in Request \ {r} : Started(s) \/ (req[s].pc = "send" /\ req'[s] # req[s])
  \/ pool' # pool
  \/ enabled' # enabled

(* The step begins a scan at another account than a; it hands out a.       *)
PassesOver(a) == \E r \in Request : Started(r) /\ Slot(req'[r].start, 0) # a
HandsOut(a) == \E r \in Request : Picked(r) /\ req'[r].acct = a

HistoryStep ==
  /\ tried' = [r \in Request |->
                 CASE Began(r)  -> {}
                   [] Picked(r) -> tried[r] \cup {req'[r].acct}
                   [] OTHER     -> tried[r]]
  /\ lone' = [r \in Request |->
                IF Began(r) THEN \A a \in InPool : Eligible(a)
                            ELSE lone[r] /\ ~Disturbed(r)]
  /\ missed' = [a \in Account |->
                  IF pool' # pool \/ ~Eligible(a)' \/ HandsOut(a) THEN 0
                  ELSE IF a \in InPool /\ PassesOver(a) THEN missed[a] + 1
                  ELSE missed[a]]
  /\ from' = [r \in Request |->
                CASE Started(r) -> cursor % Len(pool)
                  [] Scanned(r) -> 0
                  [] OTHER      -> from[r]]
  /\ steady' = [r \in Request |->
                  {a \in IF Started(r) THEN InPool ELSE steady[r] :
                     ~Scanned(r) /\ Eligible(a) /\ Eligible(a)'}]

HistorySpec == HistoryInit /\ [][Next /\ HistoryStep]_allVars

HistoryTypeOK ==
  /\ TypeOK
  /\ tried \in [Request -> SUBSET Account]
  /\ lone \in [Request -> BOOLEAN]
  /\ missed \in [Account -> Nat]
  /\ from \in [Request -> Nat]
  /\ steady \in [Request -> SUBSET Account]

----------------------------------------------------------------------------
(* Round robin: while the pool's membership stands and an account stays    *)
(* eligible, fewer scans in a row begin at other accounts than the pool    *)
(* has accounts, before somebody is given it; each scan that began at it   *)
(* and has not looked yet may let one more round pass.  This whatever the  *)
(* scans of concurrent requests, their cooldowns and the switching of      *)
(* other accounts do (AccountPool.Acquire; README "Multi-account           *)
(* rotation").                                                             *)
HeadedFor(i) ==
  {r \in Request : /\ req[r].pc = "scan" /\ req[r].start = i - 1 /\ req[r].i = 0
                   /\ pool[i] \notin req[r].ended}

RotationBound ==
  \A i \in DOMAIN pool :
    missed[pool[i]] <= (Len(pool) - 1) * (Cardinality(HeadedFor(i)) + 1)

(* No eligible account is overlooked.  Acquire looks at flags and          *)
(* cooldowns that others write while it scans.  Yet it comes back with nil *)
(* only when no account was eligible all the time it took, and with an     *)
(* account only when none that was eligible all that time comes before it, *)
(* counted from the cursor (accounts.go: "nil means every enabled account  *)
(* is currently rate limited").                                            *)
InTurn(r, k) == pool[((from[r] + k) % Len(pool)) + 1]

NobodyOverlooked ==
  [][\A r \in Request : Scanned(r) =>
       \A k \in 0..(Len(pool) - 1) : InTurn(r, k) \in steady[r] =>
         /\ req'[r].pc = "send"
         /\ \E j \in 0..k : req'[r].acct = InTurn(r, j)]_allVars

(* Who is to blame.  The account Send returns with a result (or with the   *)
(* error it carries into the next attempt) is one this request was really  *)
(* sent to, because usage and the admin view are charged to it; and the    *)
(* gateway invents an answer of its own (400, 503, 429) only for a request *)
(* that no account has seen (cc.go: "The returned Account is the           *)
(* credential that produced the response or error").                       *)
BlameIsReal ==
  \A r \in Request :
    /\ req[r].last \in FailoverKinds \cup FinalKinds => req[r].acct \in tried[r]
    /\ req[r].last \in GatewayKinds => tried[r] = {} /\ req[r].acct = NoAccount
    /\ req[r].pc = "refuse" => tried[r] = {}

(* When failover does visit everybody.  A request that starts while every  *)
(* account is eligible, and that no other request and no administrator     *)
(* disturbs, never meets an account twice: the cursor and the cooldowns it *)
(* causes itself lead it round the whole pool, and only then may it fail.  *)
(* It is never refused.                                                    *)
LoneFailoverVisitsAll ==
  \A r \in Request : lone[r] =>
    /\ req[r].pc \in {"acquire", "scan"} =>
         Cardinality(tried[r]) = Len(pool) - req[r].budget
    /\ req[r].pc = "done" /\ req[r].last \in FailoverKinds => tried[r] = InPool
    /\ req[r].pc # "refuse"

----------------------------------------------------------------------------
(* What the documentation says and the code does not do.                   *)

(* README, "Multi-account rotation": when an account fails, "the request   *)
(* is retried with the next account automatically".  So a retry goes to an *)
(* account that has not failed this request, as long as one has been       *)
(* eligible since the scan began.                                          *)
FailoverMovesOn ==
  [][\A r \in Request :
       Picked(r) /\ req'[r].acct \in tried[r] => steady[r] \subseteq tried[r]]_allVars

(* Ibid.: "If every enabled account is cooling down, the client receives   *)
(* 429 rate_limit_error with the earliest recovery time."  Checked for the *)
(* requests nothing interferes with, when they use up their last attempt.  *)
AllCooling == EnabledCount > 0 /\ \A a \in InPool : enabled[a] => cool[a] > 0

EarliestRecoveryReported ==
  [][\A r \in Request :
       req[r].pc = "send" /\ req'[r].last = "limited" /\ req'[r].pc = "done"
         /\ lone[r] /\ AllCooling'
         => \E w \in Waits' : /\ EarliestRateLimitWait(w)'
                              /\ req'[r].hint = RoundToSeconds(w)]_allVars
=============================================================================
