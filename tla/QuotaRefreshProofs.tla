------------------------- MODULE QuotaRefreshProofs -------------------------
(***************************************************************************)
(* Theorems about the quota service, for any finite set of accounts, any   *)
(* number of slots and any answers of the upstream: the slots add up, and  *)
(* snapshots are kept for the accounts of the pool.                        *)
(***************************************************************************)
EXTENDS QuotaRefresh, FiniteSetTheorems, TLAPS

Jobs == [pc: {"idle", "waiting", "fetching", "failed", "fetched", "store"},
         key: Cred \cup {NoCred}, snap: Snapshots]

(* The refreshes that have a slot.                                         *)
Active == {j \in Job : job[j].pc \notin {"idle", "waiting"}}

(* An edit whose snapshot is still to be dropped.  The refresh it will     *)
(* start has not been started by anybody else, so it costs no slot.        *)
Pending ==
  /\ console \in [step: {"drop"}, account: Account, from: Cred, refresh: BOOLEAN]
  /\ console.refresh => /\ console.account \in pool
                        /\ job[<<console.account, "console">>].pc = "idle"

(* QuotasOnlyForPool, made inductive: it also says what is about to be     *)
(* stored, and for whom refreshes run.                                     *)
OwnerInv ==
  /\ console = Idle \/ Pending
  /\ \A j \in Job : job[j].pc # "idle" => j[1] \in pool \/ j \in overtaken
  /\ \A j \in Job : job[j].pc = "store" =>
       \/ j \in overtaken
       \/ j[1] \in pool /\ cred[j[1]] = job[j].key
  /\ \A c \in Cred : quotas[c].stored =>
       \/ quotas[c].late
       \/ \E a \in pool : cred[a] = c
       \/ console.step = "drop" /\ console.from = c

Inv == QuotaTypeOK /\ OwnerInv

----------------------------------------------------------------------------
LEMMA ActiveIsFinite == IsFiniteSet(Active)
<1>1. IsFiniteSet(Source)
  <2>1. IsFiniteSet({"sweep"})
    BY FS_Singleton
  <2>2. IsFiniteSet({"sweep"} \cup {"console"})
    BY <2>1, FS_AddElement
  <2>3. Source = {"sweep"} \cup {"console"}
    BY DEF Source
  <2> QED BY <2>2, <2>3
<1>2. IsFiniteSet(Job)
  BY <1>1, FS_Product, QuotaAssumption DEF Job
<1> QED BY <1>2, FS_Subset DEF Active

LEMMA NoQuotaType == NoQuota \in Snapshots
  BY DEF NoQuota, Snapshots

(* What an account has been given is one of the keys.                      *)
LEMMA FirstCreds ==
  LET f == CHOOSE f \in [Account -> Cred] : \A a, b \in Account : f[a] = f[b] => a = b
  IN f \in [Account -> Cred] /\ \A a, b \in Account : f[a] = f[b] => a = b
  BY QuotaAssumption

LEMMA QuotaInitInv == QuotaInit => Inv
<1> SUFFICES ASSUME QuotaInit PROVE Inv
  OBVIOUS
<1>1. cred \in [Account -> Cred] /\ \A a, b \in Account : cred[a] = cred[b] => a = b
  BY FirstCreds DEF QuotaInit
<1>2. IdleJob \in Jobs /\ IdleJob.pc = "idle"
  BY NoQuotaType DEF IdleJob, Jobs
<1>3. job \in [Job -> Jobs] /\ \A j \in Job : job[j].pc = "idle"
  BY <1>2 DEF QuotaInit
<1>4. slots = Workers - Cardinality(Active) /\ slots >= 0
  <2>1. Active = {}
    BY <1>3 DEF Active
  <2> QED BY <2>1, FS_EmptySet, QuotaAssumption DEF QuotaInit
<1>5. quotas \in [Cred -> Snapshots] /\ \A c \in Cred : ~quotas[c].stored
  BY NoQuotaType DEF QuotaInit, NoQuota
<1>6. QuotaTypeOK
  BY <1>1, <1>3, <1>4, <1>5, QuotaAssumption DEF QuotaInit, QuotaTypeOK, Jobs, Active, Idle
<1>7. OwnerInv
  BY <1>3, <1>5 DEF QuotaInit, OwnerInv
<1> QED BY <1>6, <1>7 DEF Inv

----------------------------------------------------------------------------
(* The parts of QuotaTypeOK a refresh of one account can disturb.               *)
LEMMA JobStepType ==
  ASSUME QuotaTypeOK, NEW j \in Job, NEW new \in Jobs, job' = [job EXCEPT ![j] = new],
         quotas' \in [Cred -> Snapshots], overtaken' \subseteq overtaken,
         slots' = Workers - Cardinality(Active'), slots' >= 0,
         UNCHANGED <<pool, cred, console, edits>>
  PROVE  QuotaTypeOK'
<1>1. job' \in [Job -> Jobs]
  BY DEF QuotaTypeOK, Jobs
<1> QED BY <1>1 DEF QuotaTypeOK, Jobs, Active

(* A refresh takes a slot ...                                              *)
LEMMA ActiveGrows ==
  ASSUME QuotaTypeOK, NEW j \in Job, j \notin Active, NEW new \in Jobs,
         new.pc \notin {"idle", "waiting"}, job' = [job EXCEPT ![j] = new], slots' = slots - 1
  PROVE  slots' = Workers - Cardinality(Active')
<1>1. Active' = Active \cup {j}
  BY DEF QuotaTypeOK, Active
<1>2. Cardinality(Active') = Cardinality(Active) + 1 /\ Cardinality(Active) \in Nat
  BY <1>1, ActiveIsFinite, FS_AddElement, FS_CardinalityType
<1>3. slots = Workers - Cardinality(Active)
  BY DEF QuotaTypeOK, Active
<1> QED BY <1>2, <1>3, QuotaAssumption

(* ... keeps it ...                                                        *)
LEMMA ActiveStays ==
  ASSUME QuotaTypeOK, NEW j \in Job, j \in Active, NEW new \in Jobs,
         new.pc \notin {"idle", "waiting"}, job' = [job EXCEPT ![j] = new], slots' = slots
  PROVE  slots' = Workers - Cardinality(Active') /\ slots' >= 0
<1>1. Active' = Active
  BY DEF QuotaTypeOK, Active
<1> QED BY <1>1 DEF QuotaTypeOK, Active

(* ... and gives it back.                                                  *)
LEMMA ActiveShrinks ==
  ASSUME QuotaTypeOK, NEW j \in Job, j \in Active, job' = [job EXCEPT ![j] = IdleJob],
         slots' = slots + 1
  PROVE  slots' = Workers - Cardinality(Active') /\ slots' >= 0
<1>1. IdleJob.pc = "idle"
  BY DEF IdleJob
<1>2. Active' = Active \ {j}
  BY <1>1 DEF QuotaTypeOK, Active
<1>3. Cardinality(Active') = Cardinality(Active) - 1 /\ Cardinality(Active) \in Nat
  BY <1>2, ActiveIsFinite, FS_RemoveElement, FS_CardinalityType
<1>4. slots = Workers - Cardinality(Active) /\ slots >= 0
  BY DEF QuotaTypeOK, Active
<1> QED BY <1>3, <1>4, QuotaAssumption

(* A refresh that is not about to store and was under way already changes  *)
(* nothing that OwnerInv speaks of.                                        *)
LEMMA JobStepOwner ==
  ASSUME Inv, NEW j \in Job, job[j].pc # "idle", NEW new \in Jobs,
         job' = [job EXCEPT ![j] = new],
         new.pc = "store" => \/ j \in overtaken
                             \/ j[1] \in pool /\ cred[j[1]] = new.key,
         UNCHANGED <<pool, cred, quotas, console, overtaken>>
  PROVE  OwnerInv'
<1>1. job \in [Job -> Jobs]
  BY DEF Inv, QuotaTypeOK, Jobs
<1>2. \A i \in Job : job'[i] = IF i = j THEN new ELSE job[i]
  BY <1>1
<1>3. (console = Idle \/ Pending)'
  <2>1. CASE console = Idle
    BY <2>1
  <2>2. CASE Pending
    BY <1>2, <2>2 DEF Pending, Job, Source
  <2> QED BY <2>1, <2>2 DEF Inv, OwnerInv
<1> QED BY <1>2, <1>3 DEF Inv, OwnerInv

LEMMA BeginInv ==
  ASSUME Inv, NEW j \in Job, Begin(j)
  PROVE  Inv'
<1> DEFINE new == [job[j] EXCEPT !.pc = "fetching", !.key = cred[j[1]]]
<1>1. job[j] \in Jobs /\ j[1] \in Account /\ cred[j[1]] \in Cred
  BY DEF Inv, QuotaTypeOK, Jobs, Job
<1>2. quotas' \in [Cred -> Snapshots]
  BY DEF Inv, QuotaTypeOK, Begin
<1>3. new \in Jobs /\ new.pc = "fetching"
  BY <1>1 DEF Jobs
<1>4. job' = [job EXCEPT ![j] = new] /\ job[j].pc = "waiting" /\ slots' = slots - 1 /\ slots > 0
  BY DEF Begin
<1> HIDE DEF new
<1>5. slots' = Workers - Cardinality(Active')
  BY <1>3, <1>4, ActiveGrows DEF Inv, Active
<1>6. slots \in Int
  BY ActiveIsFinite, FS_CardinalityType, QuotaAssumption DEF Inv, QuotaTypeOK, Active
<1>7. QuotaTypeOK'
  <2>1. slots' >= 0
    BY <1>4, <1>6
  <2> QED BY <1>2, <1>3, <1>4, <1>5, <2>1, JobStepType DEF Inv, Begin
<1>8. OwnerInv'
  BY <1>3, <1>4, JobStepOwner DEF Begin
<1> QED BY <1>7, <1>8 DEF Inv

LEMMA FetchInv ==
  ASSUME Inv, NEW j \in Job, NEW r \in Answers, Fetch(j, r)
  PROVE  Inv'
<1> DEFINE new == IF Usable(r)
       THEN [pc |-> "fetched", key |-> NoCred,
             snap |-> [of |-> job[j].key, parts |-> PartsOf(r), error |-> FALSE, stored |-> TRUE,
                       late |-> FALSE]]
       ELSE [pc |-> "failed", key |-> NoCred, snap |-> NoQuota]
<1>1. job[j] \in Jobs
  BY DEF Inv, QuotaTypeOK, Jobs
<1>2. new \in Jobs /\ new.pc \in {"fetched", "failed"}
  <2>1. PartsOf(r) \in SUBSET Part
    BY DEF PartsOf
  <2>2. [of |-> job[j].key, parts |-> PartsOf(r), error |-> FALSE, stored |-> TRUE,
         late |-> FALSE] \in Snapshots
    BY <1>1, <2>1 DEF Snapshots, Jobs
  <2> QED BY <2>2, NoQuotaType DEF Jobs
<1>3. job' = [job EXCEPT ![j] = new] /\ job[j].pc = "fetching" /\ slots' = slots
  BY DEF Fetch
<1> HIDE DEF new
<1>4. slots' = Workers - Cardinality(Active') /\ slots' >= 0
  BY <1>2, <1>3, ActiveStays DEF Inv, Active
<1>5. QuotaTypeOK'
  BY <1>2, <1>3, <1>4, JobStepType DEF Inv, QuotaTypeOK, Fetch
<1>6. OwnerInv'
  BY <1>2, <1>3, JobStepOwner DEF Fetch
<1> QED BY <1>5, <1>6 DEF Inv

LEMMA CloneInv ==
  ASSUME Inv, NEW j \in Job, Clone(j)
  PROVE  Inv'
<1> DEFINE old == quotas[cred[j[1]]]
           copy == [old EXCEPT !.error = TRUE, !.stored = TRUE, !.late = FALSE]
           new == [job[j] EXCEPT !.pc = "fetched", !.snap = copy]
<1>1. job[j] \in Jobs /\ j[1] \in Account /\ old \in Snapshots
  BY DEF Inv, QuotaTypeOK, Jobs, Job
<1>2. copy \in Snapshots
  BY <1>1 DEF Snapshots
<1>3. new \in Jobs /\ new.pc = "fetched"
  <2> HIDE DEF copy
  <2> QED BY <1>1, <1>2 DEF Jobs
<1>4. job' = [job EXCEPT ![j] = new] /\ job[j].pc = "failed" /\ slots' = slots
  BY DEF Clone
<1> HIDE DEF new
<1>5. slots' = Workers - Cardinality(Active') /\ slots' >= 0
  BY <1>3, <1>4, ActiveStays DEF Inv, Active
<1>6. QuotaTypeOK'
  BY <1>3, <1>4, <1>5, JobStepType DEF Inv, QuotaTypeOK, Clone
<1>7. OwnerInv'
  BY <1>3, <1>4, JobStepOwner DEF Clone
<1> QED BY <1>6, <1>7 DEF Inv

(* The id that is read here is the account's: the pool has it, or the      *)
(* account went while this refresh was running.                            *)
LEMMA AddressInv ==
  ASSUME Inv, NEW j \in Job, Address(j)
  PROVE  Inv'
<1> DEFINE new == [job[j] EXCEPT !.pc = "store", !.key = cred[j[1]]]
<1>1. job[j] \in Jobs /\ j[1] \in Account /\ cred[j[1]] \in Cred
  BY DEF Inv, QuotaTypeOK, Jobs, Job
<1>2. new \in Jobs /\ new.pc = "store" /\ new.key = cred[j[1]]
  BY <1>1 DEF Jobs
<1>3. job' = [job EXCEPT ![j] = new] /\ job[j].pc = "fetched" /\ slots' = slots
  BY DEF Address
<1> HIDE DEF new
<1>4. slots' = Workers - Cardinality(Active') /\ slots' >= 0
  BY <1>2, <1>3, ActiveStays DEF Inv, Active
<1>5. QuotaTypeOK'
  BY <1>2, <1>3, <1>4, JobStepType DEF Inv, QuotaTypeOK, Address
<1>6. j \in overtaken \/ (j[1] \in pool /\ cred[j[1]] = new.key)
  BY <1>2, <1>3 DEF Inv, OwnerInv
<1>7. OwnerInv'
  BY <1>2, <1>3, <1>6, JobStepOwner DEF Address
<1> QED BY <1>5, <1>7 DEF Inv

(* The account is in the pool under the id that is stored, or the refresh  *)
(* has been overtaken and the snapshot says so.                            *)
LEMMA StoreInv ==
  ASSUME Inv, NEW j \in Job, Store(j)
  PROVE  Inv'
<1> DEFINE new == IF j \in overtaken THEN [job[j].snap EXCEPT !.late = TRUE] ELSE job[j].snap
<1>1. job[j] \in Jobs /\ quotas \in [Cred -> Snapshots]
  BY DEF Inv, QuotaTypeOK, Jobs
<1>2. IdleJob \in Jobs /\ IdleJob.pc = "idle"
  BY NoQuotaType DEF IdleJob, Jobs
<1>3. slots' = Workers - Cardinality(Active') /\ slots' >= 0
  BY ActiveShrinks DEF Inv, Active, Store
<1>4. new \in Snapshots /\ (j \in overtaken => new.late)
  BY <1>1 DEF Jobs, Snapshots
<1>5. quotas' = [quotas EXCEPT ![job[j].key] = new]
  BY DEF Store
<1> HIDE DEF new
<1>6. quotas' \in [Cred -> Snapshots]
  BY <1>1, <1>4, <1>5
<1>7. QuotaTypeOK'
  BY <1>2, <1>3, <1>6, JobStepType DEF Inv, Store
<1>8. job \in [Job -> Jobs] /\ \A i \in Job : job'[i] = IF i = j THEN IdleJob ELSE job[i]
  BY DEF Inv, QuotaTypeOK, Jobs, Store
<1>9. \A c \in Cred : quotas'[c] = IF c = job[j].key THEN new ELSE quotas[c]
  BY <1>1, <1>5
<1>10. j \in overtaken \/ (j[1] \in pool /\ cred[j[1]] = job[j].key)
  BY DEF Inv, OwnerInv, Store
<1>11. overtaken' = overtaken \ {j} /\ UNCHANGED <<pool, cred, console>>
  BY DEF Store
<1>12. (console = Idle \/ Pending)'
  <2>1. CASE console = Idle
    BY <1>11, <2>1
  <2>2. CASE Pending
    BY <1>2, <1>8, <1>11, <2>2 DEF Pending, Job, Source
  <2> QED BY <2>1, <2>2 DEF Inv, OwnerInv
<1>13. ASSUME NEW i \in Job, job'[i].pc # "idle"
       PROVE  i # j /\ job'[i] = job[i] /\ (i \in overtaken => i \in overtaken')
  BY <1>2, <1>8, <1>11, <1>13
<1>14. ASSUME NEW i \in Job, job'[i].pc # "idle" PROVE i[1] \in pool' \/ i \in overtaken'
  BY <1>11, <1>13, <1>14 DEF Inv, OwnerInv
<1>15. ASSUME NEW i \in Job, job'[i].pc = "store"
       PROVE  i \in overtaken' \/ (i[1] \in pool' /\ cred'[i[1]] = job'[i].key)
  BY <1>11, <1>13, <1>15 DEF Inv, OwnerInv
<1>16. ASSUME NEW c \in Cred, quotas'[c].stored
       PROVE  \/ quotas'[c].late
              \/ \E a \in pool' : cred'[a] = c
              \/ console'.step = "drop" /\ console'.from = c
  <2>1. CASE c = job[j].key
    BY <1>4, <1>9, <1>10, <1>11, <2>1
  <2>2. CASE c # job[j].key
    BY <1>9, <1>11, <1>16, <2>2 DEF Inv, OwnerInv
  <2> QED BY <2>1, <2>2
<1>17. OwnerInv'
  BY <1>12, <1>14, <1>15, <1>16 DEF OwnerInv
<1> QED BY <1>7, <1>17 DEF Inv

----------------------------------------------------------------------------
(* Steps that change other sets than job.                                  *)

(* Refreshes that wait for a slot have none: the sum stays.                *)
LEMMA WaitingType ==
  ASSUME QuotaTypeOK, job' \in [Job -> Jobs],
         \A j \in Job : job'[j].pc = job[j].pc \/ {job[j].pc, job'[j].pc} \subseteq {"idle", "waiting"},
         UNCHANGED slots
  PROVE  slots' = Workers - Cardinality(Active') /\ slots' >= 0
<1>1. Active' = Active
  BY DEF Active
<1> QED BY <1>1 DEF QuotaTypeOK, Active

LEMMA SweepInv ==
  ASSUME Inv, Sweep
  PROVE  Inv'
<1>1. job \in [Job -> Jobs]
  BY DEF Inv, QuotaTypeOK, Jobs
<1>2. \A j \in Job : \/ job'[j] = job[j]
                     \/ /\ j[1] \in pool /\ j[2] = "sweep" /\ job[j].pc = "idle"
                        /\ job'[j] = [job[j] EXCEPT !.pc = "waiting"]
  BY DEF Sweep, Job, Source
<1>3. ASSUME NEW j \in Job PROVE [job[j] EXCEPT !.pc = "waiting"] \in Jobs
  BY <1>1 DEF Jobs
<1>4. job' \in [Job -> Jobs]
  BY <1>1, <1>2, <1>3 DEF Sweep
<1>5. \A j \in Job : \/ job'[j] = job[j]
                     \/ j[1] \in pool /\ j[2] = "sweep" /\ job[j].pc = "idle" /\ job'[j].pc = "waiting"
  BY <1>1, <1>2 DEF Jobs
<1>6. slots' = Workers - Cardinality(Active') /\ slots' >= 0
  BY <1>4, <1>5, WaitingType DEF Inv, Sweep
<1>7. QuotaTypeOK'
  <2>1. UNCHANGED <<pool, cred, quotas, console, edits, overtaken>>
    BY DEF Sweep
  <2>. QED  BY <1>4, <1>6, <2>1 DEF Inv, QuotaTypeOK, Active, Jobs
<1>8. (console = Idle \/ Pending)'
  <2>1. CASE console = Idle
    BY <2>1 DEF Sweep
  <2>2. CASE Pending
    BY <1>5, <2>2 DEF Pending, Job, Source, Sweep
  <2> QED BY <2>1, <2>2 DEF Inv, OwnerInv
<1>9. OwnerInv'
  BY <1>5, <1>8 DEF Inv, OwnerInv, Sweep
<1> QED BY <1>7, <1>9 DEF Inv

LEMMA AskInv ==
  ASSUME Inv, NEW a \in Account, Ask(a)
  PROVE  Inv'
<1> DEFINE j == <<a, "console">>
<1>1. job \in [Job -> Jobs] /\ j \in Job /\ j[1] = a
  BY DEF Inv, QuotaTypeOK, Jobs, Job, Source
<1>2. [job[j] EXCEPT !.pc = "waiting"] \in Jobs /\ [job[j] EXCEPT !.pc = "waiting"].pc = "waiting"
  BY <1>1 DEF Jobs
<1>3. job' \in [Job -> Jobs] /\ \A i \in Job : IF i = j THEN job'[i].pc = "waiting" ELSE job'[i] = job[i]
  BY <1>1, <1>2 DEF Ask
<1>4. slots' = Workers - Cardinality(Active') /\ slots' >= 0
  BY <1>1, <1>3, WaitingType DEF Inv, Ask
<1>5. QuotaTypeOK'
  BY <1>3, <1>4 DEF Inv, QuotaTypeOK, Ask, Active, Jobs
<1>6. OwnerInv'
  BY <1>1, <1>3 DEF Inv, OwnerInv, Ask
<1> QED BY <1>5, <1>6 DEF Inv

LEMMA ChangeKeyInv ==
  ASSUME Inv, NEW a \in Account, NEW c \in Cred, ChangeKey(a, c)
  PROVE  Inv'
<1>1. /\ job \in [Job -> Jobs] /\ a \in pool /\ pool \subseteq Account
      /\ cred \in [Account -> Cred] /\ cred' = [cred EXCEPT ![a] = c]
      /\ UNCHANGED <<pool, quotas, slots, job>>
      /\ \A b \in pool \ {a} : cred[b] # c
  BY DEF Inv, QuotaTypeOK, Jobs, ChangeKey
<1>2. \A b \in Account : cred'[b] = IF b = a THEN c ELSE cred[b]
  BY <1>1
<1>3. overtaken \subseteq overtaken' /\ overtaken' \subseteq Job
  BY <1>1 DEF ChangeKey, Inv, QuotaTypeOK
<1>4. QuotaTypeOK'
  <2>1. edits' \in 0..MaxEdits
    BY QuotaAssumption DEF Inv, QuotaTypeOK, ChangeKey
  <2>2. console'.step \in {"idle", "drop"}
    BY DEF ChangeKey
  <2>3. \A x, y \in pool' : cred'[x] = cred'[y] => x = y
    BY <1>1, <1>2 DEF Inv, QuotaTypeOK
  <2> QED BY <1>1, <1>3, <2>1, <2>2, <2>3 DEF Inv, QuotaTypeOK
<1>5. console' = [step |-> "drop", account |-> a, from |-> cred[a], refresh |-> TRUE]
  BY DEF ChangeKey
<1>6. Pending'
  BY <1>1, <1>5 DEF Pending, ChangeKey
<1>7. ASSUME NEW j \in Job, j[1] = a, job[j].pc = "store"
      PROVE  j \in overtaken'
  BY <1>7 DEF ChangeKey
<1>8. \A j \in Job : job'[j].pc # "idle" => j[1] \in pool' \/ j \in overtaken'
  BY <1>1, <1>3 DEF Inv, OwnerInv
<1>9. \A j \in Job : job'[j].pc = "store" =>
         j \in overtaken' \/ (j[1] \in pool' /\ cred'[j[1]] = job'[j].key)
  BY <1>1, <1>2, <1>3, <1>7 DEF Inv, OwnerInv, Job
<1>10. ASSUME NEW d \in Cred, quotas'[d].stored
       PROVE  \/ quotas'[d].late
              \/ \E b \in pool' : cred'[b] = d
              \/ console'.step = "drop" /\ console'.from = d
  <2>1. quotas[d].late \/ \E b \in pool : cred[b] = d
    BY <1>1, <1>10 DEF Inv, OwnerInv, ChangeKey, Idle
  <2> QED BY <1>1, <1>2, <1>3, <1>5, <2>1
<1>11. OwnerInv'
  BY <1>6, <1>8, <1>9, <1>10 DEF OwnerInv
<1> QED BY <1>4, <1>11 DEF Inv

LEMMA DeleteInv ==
  ASSUME Inv, NEW a \in Account, Delete(a)
  PROVE  Inv'
<1>1. /\ job \in [Job -> Jobs] /\ a \in pool /\ pool \subseteq Account
      /\ cred \in [Account -> Cred] /\ pool' = pool \ {a}
      /\ UNCHANGED <<cred, quotas, slots, job>>
  BY DEF Inv, QuotaTypeOK, Jobs, Delete
<1>2. overtaken \subseteq overtaken' /\ overtaken' \subseteq Job
  BY <1>1 DEF Delete, Inv, QuotaTypeOK
<1>3. QuotaTypeOK'
  <2>1. edits' \in 0..MaxEdits
    BY QuotaAssumption DEF Inv, QuotaTypeOK, Delete
  <2>2. console'.step \in {"idle", "drop"}
    BY DEF Delete
  <2> QED BY <1>1, <1>2, <2>1, <2>2 DEF Inv, QuotaTypeOK
<1>4. console' = [step |-> "drop", account |-> a, from |-> cred[a], refresh |-> FALSE]
  BY DEF Delete
<1>5. Pending'
  BY <1>1, <1>4 DEF Pending
<1>6. ASSUME NEW j \in Job, j[1] = a, job[j].pc # "idle"
      PROVE  j \in overtaken'
  BY <1>6 DEF Delete
<1>7. \A j \in Job : job'[j].pc # "idle" => j[1] \in pool' \/ j \in overtaken'
  BY <1>1, <1>2, <1>6 DEF Inv, OwnerInv
<1>8. \A j \in Job : job'[j].pc = "store" =>
         j \in overtaken' \/ (j[1] \in pool' /\ cred'[j[1]] = job'[j].key)
  BY <1>1, <1>2, <1>6 DEF Inv, OwnerInv
<1>9. ASSUME NEW d \in Cred, quotas'[d].stored
      PROVE  \/ quotas'[d].late
             \/ \E b \in pool' : cred'[b] = d
             \/ console'.step = "drop" /\ console'.from = d
  <2>1. quotas[d].late \/ \E b \in pool : cred[b] = d
    BY <1>1, <1>9 DEF Inv, OwnerInv, Delete, Idle
  <2> QED BY <1>1, <1>2, <1>4, <2>1
<1>10. OwnerInv'
  BY <1>5, <1>7, <1>8, <1>9 DEF OwnerInv
<1> QED BY <1>3, <1>10 DEF Inv

LEMMA DropInv ==
  ASSUME Inv, Drop
  PROVE  Inv'
<1> DEFINE a == console.account
           j == <<a, "console">>
<1>1. Pending
  BY DEF Inv, OwnerInv, Drop, Idle
<1>2. /\ job \in [Job -> Jobs] /\ j \in Job /\ j[1] = a /\ j[2] = "console"
      /\ console.from \in Cred /\ quotas \in [Cred -> Snapshots]
  BY <1>1 DEF Pending, Inv, QuotaTypeOK, Jobs, Job, Source
<1>3. [job[j] EXCEPT !.pc = "waiting"] \in Jobs /\ [job[j] EXCEPT !.pc = "waiting"].pc = "waiting"
  BY <1>2 DEF Jobs
<1>4. \/ job' = job
      \/ console.refresh /\ job' = [job EXCEPT ![j] = [job[j] EXCEPT !.pc = "waiting"]]
  BY DEF Drop
<1>5. /\ job' \in [Job -> Jobs]
      /\ \A i \in Job : \/ job'[i] = job[i]
                        \/ i[1] \in pool /\ job[i].pc = "idle" /\ job'[i].pc = "waiting"
  <2>1. CASE job' = job
    BY <1>2, <2>1
  <2>2. CASE console.refresh /\ job' = [job EXCEPT ![j] = [job[j] EXCEPT !.pc = "waiting"]]
    <3>1. a \in pool /\ job[j].pc = "idle"
      BY <1>1, <2>2 DEF Pending
    <3> QED BY <1>2, <1>3, <2>2, <3>1
  <2> QED BY <1>4, <2>1, <2>2
<1>6. slots' = Workers - Cardinality(Active') /\ slots' >= 0
  BY <1>5, WaitingType DEF Inv, Drop
<1>7. QuotaTypeOK'
  <2>1. console'.step \in {"idle", "drop"}
    BY DEF Drop, Idle
  <2>2. quotas' \in [Cred -> Snapshots]
    BY <1>2, NoQuotaType DEF Drop
  <2> QED BY <1>5, <1>6, <2>1, <2>2 DEF Inv, QuotaTypeOK, Drop, Active, Jobs
<1>8. \A d \in Cred : quotas'[d].stored => quotas'[d] = quotas[d] /\ d # console.from
  BY <1>2 DEF Drop, NoQuota
<1>9. OwnerInv'
  BY <1>5, <1>8 DEF Inv, OwnerInv, Drop
<1> QED BY <1>7, <1>9 DEF Inv

LEMMA StutterInv ==
  ASSUME Inv, UNCHANGED quotaVars
  PROVE  Inv'
  BY DEF Inv, QuotaTypeOK, OwnerInv, Pending, quotaVars

----------------------------------------------------------------------------
(* The invariant is inductive.                                             *)
THEOREM InvHolds == QuotaSpec => []Inv
<1>1. Inv /\ [QuotaNext]_quotaVars => Inv'
  <2> SUFFICES ASSUME Inv, [QuotaNext]_quotaVars PROVE Inv'
    OBVIOUS
  <2>1. CASE Sweep
    BY <2>1, SweepInv
  <2>2. CASE Drop
    BY <2>2, DropInv
  <2>3. CASE \E a \in Account : Ask(a) \/ Delete(a)
    BY <2>3, AskInv, DeleteInv
  <2>4. CASE \E a \in Account, c \in Cred : ChangeKey(a, c)
    BY <2>4, ChangeKeyInv
  <2>5. ASSUME NEW j \in Job, Begin(j) \/ Proceed(j) PROVE Inv'
    BY <2>5, BeginInv, FetchInv, CloneInv, AddressInv, StoreInv DEF Proceed
  <2>6. CASE UNCHANGED quotaVars
    BY <2>6, StutterInv
  <2> QED BY <2>1, <2>2, <2>3, <2>4, <2>5, <2>6 DEF QuotaNext
<1> QED BY <1>1, QuotaInitInv, PTL DEF QuotaSpec

(* Everything has its type; in particular the free slots and the refreshes *)
(* that have one add up to quotaRefreshWorkers at every moment, however    *)
(* refreshes end and whatever the console does meanwhile.                  *)
THEOREM TypeCorrect == QuotaSpec => []QuotaTypeOK
<1>1. Inv => QuotaTypeOK
  BY DEF Inv
<1> QED BY <1>1, InvHolds, PTL

(* Snapshots are kept for the accounts of the pool and no others, but for  *)
(* what a refresh has stored that an edit of its account had overtaken.    *)
THEOREM QuotasOnlyForPoolHolds == QuotaSpec => []QuotasOnlyForPool
<1>1. Inv => QuotasOnlyForPool
  BY DEF Inv, OwnerInv, QuotasOnlyForPool, Idle
<1> QED BY <1>1, InvHolds, PTL

=============================================================================
