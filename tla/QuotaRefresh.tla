---------------------------- MODULE QuotaRefresh ----------------------------
(***************************************************************************)
(* The quota service (quota.go): refreshes of single accounts, a few at a  *)
(* time, by the periodic sweep and by the console, while the console       *)
(* changes keys and deletes accounts.  An account's id derives from its    *)
(* key, so one credential stands for both; a snapshot remembers, as a      *)
(* history field, whose data it holds, and whether it came too late.       *)
(*                                                                         *)
(* Bounds: one refresh per account and source at a time, one edit at a     *)
(* time.  Not modelled: the save after a refresh (UsageLedger), the shapes *)
(* of the upstream's JSON, a sweep cut short by the end of the process,    *)
(* and a torn read of a key that is being replaced.                        *)
(***************************************************************************)
EXTENDS Integers, FiniteSets

CONSTANTS
  Account,    \* account objects
  Cred,       \* keys, and the ids that derive from them
  NoCred,
  Workers,    \* quotaRefreshWorkers
  Answers,    \* how the upstream may answer the four queries of a refresh
  MaxEdits    \* bound: keys changed, accounts deleted

Part == {"credits", "plan", "usage"}
Source == {"sweep", "console"}
Job == Account \X Source

Replies == [whoami: {"ok", "failed", "rejected"}, credits: {"ok", "planned", "empty", "failed"},
            subscriptions: {"ok", "empty", "failed"}, usage: {"ok", "empty", "failed"}]

ASSUME QuotaAssumption ==
  /\ NoCred \notin Cred
  /\ IsFiniteSet(Account)
  /\ \E f \in [Account -> Cred] : \A a, b \in Account : f[a] = f[b] => a = b
  /\ Workers \in Nat \ {0}
  /\ Answers \subseteq Replies
  /\ MaxEdits \in Nat

VARIABLES
  pool,      \* the accounts being served
  cred,      \* APIKey and ID of every account object
  quotas,    \* u.quotas
  slots,     \* free places in s.sem
  job,       \* the refreshes under way
  console,   \* the edit under way
  edits,     \* history: edits so far
  overtaken  \* history: the refreshes that an edit of their account has overtaken

quotaVars == <<pool, cred, quotas, slots, job, console, edits, overtaken>>

NoQuota == [of |-> NoCred, parts |-> {}, error |-> FALSE, stored |-> FALSE, late |-> FALSE]
IdleJob == [pc |-> "idle", key |-> NoCred, snap |-> NoQuota]   \* key: the credential asked about, then the id
Idle == [step |-> "idle"]

(* Any keys that differ will do.                                           *)
QuotaInit ==
  /\ pool = Account
  /\ cred = CHOOSE f \in [Account -> Cred] : \A a, b \in Account : f[a] = f[b] => a = b
  /\ quotas = [c \in Cred |-> NoQuota]
  /\ slots = Workers
  /\ job = [j \in Job |-> IdleJob]
  /\ console = Idle
  /\ edits = 0 /\ overtaken = {}

----------------------------------------------------------------------------
(* Refreshes                                                               *)

(* Mutant: only accounts without a snapshot are refreshed.                 *)
SweepMissing ==
  /\ \A a \in Account : job[<<a, "sweep">>].pc = "idle"
  /\ pool # {}
  /\ job' = [j \in Job |-> IF j[2] = "sweep" /\ j[1] \in pool /\ ~quotas[cred[j[1]]].stored
                           THEN [job[j] EXCEPT !.pc = "waiting"] ELSE job[j]]
  /\ UNCHANGED <<pool, cred, quotas, slots, console, edits, overtaken>>

(* RefreshAll over the accounts listed now: at the start, and again when   *)
(* the ticker fires and the last sweep has ended.                          *)
Sweep ==
  /\ \A a \in Account : job[<<a, "sweep">>].pc = "idle"
  /\ pool # {}
  /\ job' = [j \in Job |-> IF j[2] = "sweep" /\ j[1] \in pool THEN [job[j] EXCEPT !.pc = "waiting"]
                           ELSE job[j]]
  /\ UNCHANGED <<pool, cred, quotas, slots, console, edits, overtaken>>

(* The refresh button of one account.                                      *)
Ask(a) ==
  /\ a \in pool /\ console = Idle
  /\ job[<<a, "console">>].pc = "idle"
  /\ job' = [job EXCEPT ![<<a, "console">>].pc = "waiting"]
  /\ UNCHANGED <<pool, cred, quotas, slots, console, edits, overtaken>>

(* Mutant: nobody waits for a slot.                                        *)
BeginAtOnce(j) ==
  /\ job[j].pc = "waiting"
  /\ slots' = slots - 1
  /\ job' = [job EXCEPT ![j] = [@ EXCEPT !.pc = "fetching", !.key = cred[j[1]]]]
  /\ UNCHANGED <<pool, cred, quotas, console, edits, overtaken>>

(* A slot is taken and the account's key is read.                          *)
Begin(j) ==
  /\ job[j].pc = "waiting"
  /\ slots > 0
  /\ slots' = slots - 1
  /\ job' = [job EXCEPT ![j] = [@ EXCEPT !.pc = "fetching", !.key = cred[j[1]]]]
  /\ UNCHANGED <<pool, cred, quotas, console, edits, overtaken>>

(* fetchQuotaSnapshot: the parts that four answers leave.  A plan named by *)
(* the credits stands in for the subscription's.                           *)
PartsOf(r) ==
  {p \in Part :
     \/ p = "credits" /\ r.credits \in {"ok", "planned"}
     \/ p = "plan" /\ (r.subscriptions = "ok" \/ r.credits = "planned")
     \/ p = "usage" /\ r.usage = "ok"}

Usable(r) == r.whoami # "rejected" /\ PartsOf(r) # {}

(* Mutant: the id that was read with the key is stored under.              *)
FetchForKey(j, r) ==
  /\ job[j].pc = "fetching"
  /\ job' = [job EXCEPT ![j] =
       IF Usable(r)
       THEN [pc |-> "store", key |-> @.key,
             snap |-> [of |-> @.key, parts |-> PartsOf(r), error |-> FALSE, stored |-> TRUE,
                       late |-> FALSE]]
       ELSE [pc |-> "failed", key |-> NoCred, snap |-> NoQuota]]
  /\ UNCHANGED <<pool, cred, quotas, slots, console, edits, overtaken>>

(* The four queries have been answered.                                    *)
Fetch(j, r) ==
  /\ job[j].pc = "fetching"
  /\ job' = [job EXCEPT ![j] =
       IF Usable(r)
       THEN [pc |-> "fetched", key |-> NoCred,
             snap |-> [of |-> @.key, parts |-> PartsOf(r), error |-> FALSE, stored |-> TRUE,
                       late |-> FALSE]]
       ELSE [pc |-> "failed", key |-> NoCred, snap |-> NoQuota]]
  /\ UNCHANGED <<pool, cred, quotas, slots, console, edits, overtaken>>

(* cloneForQuotaError of the snapshot under the id the account has now.    *)
Clone(j) ==
  /\ job[j].pc = "failed"
  /\ job' = [job EXCEPT ![j] = [@ EXCEPT !.pc = "fetched",
       !.snap = [quotas[cred[j[1]]] EXCEPT !.error = TRUE, !.stored = TRUE, !.late = FALSE]]]
  /\ UNCHANGED <<pool, cred, quotas, slots, console, edits, overtaken>>

(* The account's id is read once more, for SetQuota ...                    *)
Address(j) ==
  /\ job[j].pc = "fetched"
  /\ job' = [job EXCEPT ![j] = [@ EXCEPT !.pc = "store", !.key = cred[j[1]]]]
  /\ UNCHANGED <<pool, cred, quotas, slots, console, edits, overtaken>>

(* ... which stores the snapshot; the slot is given back.                  *)
Store(j) ==
  /\ job[j].pc = "store"
  /\ quotas' = [quotas EXCEPT ![job[j].key] =
                   IF j \in overtaken THEN [job[j].snap EXCEPT !.late = TRUE] ELSE job[j].snap]
  /\ slots' = slots + 1
  /\ job' = [job EXCEPT ![j] = IdleJob]
  /\ overtaken' = overtaken \ {j}
  /\ UNCHANGED <<pool, cred, console, edits>>

----------------------------------------------------------------------------
(* The console's edits                                                     *)

(* PATCH with a key that no other account has: SetKey.  The console's own  *)
(* refreshes of the account are over by then (a bound).                    *)
ChangeKey(a, c) ==
  /\ console = Idle /\ edits < MaxEdits
  /\ a \in pool /\ job[<<a, "console">>].pc = "idle"
  /\ \A b \in pool \ {a} : cred[b] # c
  /\ cred' = [cred EXCEPT ![a] = c]
  /\ console' = [step |-> "drop", account |-> a, from |-> cred[a], refresh |-> TRUE]
  /\ edits' = edits + 1
  /\ overtaken' = overtaken \cup {j \in Job : j[1] = a /\ job[j].pc = "store"}
  /\ UNCHANGED <<pool, quotas, slots, job>>

(* DELETE: Remove.                                                         *)
Delete(a) ==
  /\ console = Idle /\ edits < MaxEdits
  /\ a \in pool
  /\ pool' = pool \ {a}
  /\ console' = [step |-> "drop", account |-> a, from |-> cred[a], refresh |-> FALSE]
  /\ edits' = edits + 1
  /\ overtaken' = overtaken \cup {j \in Job : j[1] = a /\ job[j].pc # "idle"}
  /\ UNCHANGED <<cred, quotas, slots, job>>

(* Mutant: the snapshot under the new id is dropped.                       *)
DropNew ==
  /\ console.step = "drop"
  /\ quotas' = [quotas EXCEPT ![cred[console.account]] = NoQuota]
  /\ job' \in {job} \cup IF console.refresh THEN {[job EXCEPT ![<<console.account, "console">>].pc = "waiting"]}
                      ELSE {}
  /\ console' = Idle
  /\ UNCHANGED <<pool, cred, slots, edits, overtaken>>

(* DropQuota or DropAccount of the old id; after a change of key           *)
(* RefreshAsync, unless saving config.yaml fails.                          *)
Drop ==
  /\ console.step = "drop"
  /\ quotas' = [quotas EXCEPT ![console.from] = NoQuota]
  /\ job' \in {job} \cup IF console.refresh THEN {[job EXCEPT ![<<console.account, "console">>].pc = "waiting"]}
                      ELSE {}
  /\ console' = Idle
  /\ UNCHANGED <<pool, cred, slots, edits, overtaken>>

(* A refresh that has a slot goes on.                                      *)
Proceed(j) == (\E r \in Answers : Fetch(j, r)) \/ Clone(j) \/ Address(j) \/ Store(j)

QuotaNext ==
  \/ Sweep \/ Drop
  \/ \E a \in Account : Ask(a) \/ Delete(a)
  \/ \E a \in Account, c \in Cred : ChangeKey(a, c)
  \/ \E j \in Job : Begin(j) \/ Proceed(j)

QuotaSpec == QuotaInit /\ [][QuotaNext]_quotaVars

----------------------------------------------------------------------------
Snapshots == [of: Cred \cup {NoCred}, parts: SUBSET Part,
              error: BOOLEAN, stored: BOOLEAN, late: BOOLEAN]

QuotaTypeOK ==
  /\ pool \subseteq Account
  /\ cred \in [Account -> Cred]
  /\ \A a, b \in pool : cred[a] = cred[b] => a = b
  /\ quotas \in [Cred -> Snapshots]
  /\ job \in [Job -> [pc: {"idle", "waiting", "fetching", "failed", "fetched", "store"},
                     key: Cred \cup {NoCred}, snap: Snapshots]]
  /\ slots = Workers - Cardinality({j \in Job : job[j].pc \notin {"idle", "waiting"}})
  /\ slots >= 0
  /\ console.step \in {"idle", "drop"}
  /\ edits \in 0..MaxEdits /\ overtaken \subseteq Job

(* Snapshots are kept for the accounts of the pool and no others (usage.go:*)
(* DropAccount forgets them "so they stop persisting").  The exception is  *)
(* one snapshot at a time: what was stored by a refresh that was already   *)
(* running when its account was deleted, or about to store when its key    *)
(* changed, stays until it is overwritten or dropped.                      *)
QuotasOnlyForPool ==
  console = Idle =>
    \A c \in Cred : quotas[c].stored => quotas[c].late \/ \E a \in pool : cred[a] = c

(* A refresh that read the old key can store the old credential's data     *)
(* under the new id, where failures preserve it; the console does not show *)
(* it for good (admin.go: "the cached quota belongs to the old credential  *)
(* and is dropped").                                                       *)
Foreign(c) ==
  /\ \E a \in pool : cred[a] = c
  /\ quotas[c].of \notin {NoCred, c}

ForeignHeals == (\E c \in Cred : Foreign(c)) ~> ~\E c \in Cred : Foreign(c)

=============================================================================
