--------------------------- MODULE FailoverProofs ---------------------------
(***************************************************************************)
(* Theorems about the failover loop, for any number of accounts and of     *)
(* concurrent requests, any clock resolution and any Retry-After values:   *)
(* type correctness, that no eligible account is overlooked by a scan and  *)
(* how often one is passed over, who is to blame for a result, and that a  *)
(* request nothing interferes with visits every account.                   *)
(***************************************************************************)
EXTENDS FailoverHistory, SharedFacts, FiniteSetTheorems, SequenceTheorems, TLAPS

(* A scan that is under way, made inductive: it began where the cursor     *)
(* stood, and the accounts that have been eligible ever since are all      *)
(* still ahead of it, and not taken for rate limited.                      *)
Scan(r) ==
  /\ req[r].start = from[r]
  /\ \A a \in steady[r] : Eligible(a) /\ a \notin req[r].ended
  /\ \A j \in 0..(req[r].i - 1) : Slot(req[r].start, j) \notin steady[r]

ScanInv == \A r \in Request : req[r].pc = "scan" => Scan(r)

(* How many scans from now begin at the i-th account.                      *)
Ahead(i) == (i - 1 - cursor) % Len(pool)

(* The rotation, made inductive: the scans that passed an account over     *)
(* plus those until the next one begins at it stay within the bound.       *)
RotationInv ==
  \A i \in 1..Len(pool) :
    /\ missed[pool[i]] + Ahead(i) <= (Len(pool) - 1) * (Cardinality(HeadedFor(i)) + 1)
    /\ ~Eligible(pool[i]) => missed[pool[i]] = 0

(* BlameIsReal for one request, made inductive: what is known inside the   *)
(* loop as well.                                                           *)
Blame(r) ==
  /\ req[r].last \in FailoverKinds \cup FinalKinds => req[r].acct \in tried[r]
  /\ req[r].last \in GatewayKinds => tried[r] = {} /\ req[r].acct = NoAccount
  /\ req[r].pc = "refuse" => tried[r] = {}
  /\ req[r].pc = "send" => req[r].acct \in tried[r]
  /\ req[r].pc \in {"acquire", "scan"} /\ req[r].last = "none" => tried[r] = {}
  /\ req[r].pc \in {"acquire", "scan", "send"} =>
       req[r].last \in FailoverKinds \cup {"none"}
  /\ req[r].pc = "refuse" => req[r].last = "none"
  /\ req[r].pc = "idle" => req[r].last = "none"

BlameInv == \A r \in Request : Blame(r)

(* The lone request, made inductive.  What it has left to try is the part  *)
(* of the pool the next scan will begin at, one account per attempt left,  *)
(* and all of it is still eligible; a scan under way is at its first       *)
(* account, which is one more of those.                                    *)
Untried(r) == IF req[r].pc = "acquire" THEN req[r].budget ELSE req[r].budget - 1

LeftToTry(r, a) == Eligible(a) /\ a \notin tried[r]

RoundThePool(r) ==
  /\ req[r].budget \in 1..Len(pool)
  /\ Cardinality(tried[r]) =
       Len(pool) - (IF req[r].pc = "send" THEN req[r].budget - 1 ELSE req[r].budget)
  /\ tried[r] \subseteq InPool
  /\ \A i \in 1..Len(pool) :
       IF Ahead(i) < Untried(r) \/ (req[r].pc = "scan" /\ i = req[r].start + 1)
         THEN LeftToTry(r, pool[i])
         ELSE pool[i] \in tried[r]
  /\ req[r].pc = "scan" => req[r].i = 0
  /\ \A i \in 1..Len(pool) : req[r].pc = "scan" /\ i = req[r].start + 1 =>
       pool[i] \notin req[r].ended /\ Ahead(i) >= Untried(r)

Lone(r) ==
  /\ req[r].pc # "refuse"
  /\ req[r].pc \in {"acquire", "scan", "send"} => RoundThePool(r)
  /\ req[r].pc = "done" /\ req[r].last \in FailoverKinds => tried[r] = InPool

LoneInv == \A r \in Request : lone[r] => Lone(r)

----------------------------------------------------------------------------
(* The operators of the pool.                                              *)

LEMMA EnabledCountType ==
  ASSUME PoolTypeOK
  PROVE  EnabledCount \in Nat
<1>1. {a \in InPool : enabled[a]} \in SUBSET Account
  BY ElementOfSeq DEF PoolTypeOK, InPool
<1>2. IsFiniteSet({a \in InPool : enabled[a]})
  BY <1>1, AccountAssumption, FS_Subset
<1> QED BY <1>2, FS_CardinalityType DEF EnabledCount

(* A wait read from the pool is a natural number, and so is its rounding.  *)
LEMMA WaitType ==
  ASSUME PoolTypeOK, NEW w \in Waits \cup {0}
  PROVE  RoundToSeconds(w) \in Nat
<1>1. \A a \in InPool : a \in Account
  BY ElementOfSeq DEF PoolTypeOK, InPool
<1>2. w \in Nat
  BY <1>1 DEF Waits, PoolTypeOK
<1> DEFINE x == 2 * w + TicksPerSecond
           n == 2 * TicksPerSecond
<1>3. x \in Nat /\ n \in Nat \ {0}
  BY <1>2, ClockAssumption
<1> HIDE DEF x, n
<1>4. x \div n \in Nat
  <2>1. x \div n \in Int /\ x % n \in 0..(n - 1) /\ x = n * (x \div n) + (x % n)
    BY <1>3, DivMod
  <2>2. ASSUME x \div n < 0 PROVE FALSE
    <3>1. n * (x \div n) <= 0 - n
      BY <2>1, <2>2, <1>3
    <3> QED BY <3>1, <2>1, <1>3
  <2> QED BY <2>1, <2>2
<1> QED BY <1>4 DEF RoundToSeconds, x, n

(* A cooldown is a positive number of ticks.                               *)
LEMMA CooldownType ==
  ASSUME NEW s \in RetryAfters
  PROVE  Cooldown(s) \in Nat
  BY ClockAssumption DEF Cooldown

(* A scan looks at accounts of the pool only.                              *)
LEMMA SlotInPool ==
  ASSUME PoolTypeOK, pool # <<>>, NEW start \in Nat, NEW i \in Nat
  PROVE  Slot(start, i) \in InPool /\ Slot(start, i) \in Account
<1>1. Len(pool) \in Nat \ {0} /\ start + i \in Int
  BY EmptySeq, LenProperties DEF PoolTypeOK
<1>2. (start + i) % Len(pool) \in 0..(Len(pool) - 1)
  BY <1>1, DivMod, Zenon
<1>3. ((start + i) % Len(pool)) + 1 \in 1..Len(pool)
  BY <1>1, <1>2
<1> QED BY <1>3, ElementOfSeq DEF Slot, InPool, PoolTypeOK

(* A scan that has begun looks at an account of the pool.                  *)
LEMMA LookedInPool ==
  ASSUME TypeOK, NEW r \in Request, req[r].pc = "scan"
  PROVE  /\ pool # <<>>
         /\ Looked(r) \in InPool /\ Looked(r) \in Account
         /\ Unseen(r) \subseteq Account
<1>1. /\ PoolTypeOK /\ req[r].start \in Nat /\ req[r].i \in Nat
      /\ req[r].start < Len(pool)
  BY DEF TypeOK, Locals, ScanLocals
<1>2. pool # <<>>
  BY <1>1, EmptySeq
<1>3. Unseen(r) \subseteq Account
  BY <1>1, <1>2, SlotInPool DEF Unseen
<1> QED BY <1>1, <1>2, <1>3, SlotInPool DEF Looked

(* Dropping the i-th account leaves a list of distinct accounts.           *)
LEMMA RemoveAtPool ==
  ASSUME pool \in Seq(Account), IsInjective(pool), NEW i \in 1..Len(pool)
  PROVE  /\ RemoveAt(pool, i) \in Seq(Account)
         /\ Len(RemoveAt(pool, i)) = Len(pool) - 1
         /\ IsInjective(RemoveAt(pool, i))
<1> DEFINE front == SubSeq(pool, 1, i - 1)
           back == SubSeq(pool, i + 1, Len(pool))
<1>1. /\ front \in Seq(Account)
      /\ Len(front) = i - 1
      /\ \A j \in 1..(i - 1) : front[j] = pool[j]
  OBVIOUS
<1>2. /\ back \in Seq(Account)
      /\ Len(back) = Len(pool) - i
      /\ \A j \in 1..(Len(pool) - i) : back[j] = pool[i + j]
  OBVIOUS
<1> HIDE DEF front, back
<1>3. /\ front \o back \in Seq(Account)
      /\ Len(front \o back) = Len(pool) - 1
      /\ \A j \in 1..(Len(pool) - 1) :
           (front \o back)[j] = IF j < i THEN pool[j] ELSE pool[j + 1]
  <2>1. Len(pool) \in Nat /\ i \in Nat /\ Len(front) + Len(back) = Len(pool) - 1
    BY <1>1, <1>2, LenProperties
  <2>2. /\ front \o back \in Seq(Account)
        /\ Len(front \o back) = Len(front) + Len(back)
        /\ \A j \in 1..(Len(front) + Len(back)) :
             (front \o back)[j] = IF j <= Len(front) THEN front[j]
                                                     ELSE back[j - Len(front)]
    BY <1>1, <1>2, ConcatProperties, Zenon
  <2>3. ASSUME NEW j \in i..(Len(pool) - 1)
        PROVE  back[j - Len(front)] = pool[j + 1]
    <3>1. j - Len(front) \in 1..(Len(pool) - i) /\ i + (j - Len(front)) = j + 1
      BY <2>1, <1>1
    <3> QED BY <3>1, <1>2
  <2> QED BY <2>1, <2>2, <2>3, <1>1
<1>4. RemoveAt(pool, i) = front \o back
  BY DEF RemoveAt, front, back
<1>5. IsInjective(front \o back)
  <2> SUFFICES ASSUME NEW j \in 1..(Len(pool) - 1), NEW k \in 1..(Len(pool) - 1),
                      (front \o back)[j] = (front \o back)[k]
               PROVE  j = k
    <3>1. DOMAIN (front \o back) = 1..(Len(pool) - 1)
      BY <1>3, LenProperties
    <3> QED BY <3>1 DEF IsInjective
  <2> DEFINE Before(l) == IF l < i THEN l ELSE l + 1
  <2>1. Len(pool) \in Nat
    BY LenProperties
  <2>2. ASSUME NEW l \in 1..(Len(pool) - 1)
        PROVE  Before(l) \in 1..Len(pool) /\ (front \o back)[l] = pool[Before(l)]
    <3>1. (front \o back)[l] = IF l < i THEN pool[l] ELSE pool[l + 1]
      BY <1>3
    <3> QED BY <2>1, <3>1
  <2>3. pool[Before(j)] = pool[Before(k)]
    BY <2>2
  <2>4. Before(j) = Before(k)
    <3> HIDE DEF Before
    <3>1. DOMAIN pool = 1..Len(pool)
      BY LenProperties
    <3> QED BY <2>2, <2>3, <3>1 DEF IsInjective
  <2> QED BY <2>1, <2>4
<1> QED BY <1>3, <1>4, <1>5

----------------------------------------------------------------------------
(* Type correctness.                                                       *)

LEMMA InitTypeOK == Init => TypeOK
<1> SUFFICES ASSUME Init PROVE TypeOK
  OBVIOUS
<1>1. PICK n \in 0..Cardinality(Account) :
        pool \in {s \in [1..n -> Account] : IsInjective(s)}
  BY DEF Init, PoolInit
<1>2. n \in Nat
  BY <1>1, AccountAssumption, FS_CardinalityType
<1>3. pool \in Seq(Account) /\ IsInjective(pool)
  BY <1>1, <1>2
<1>4. cursor \in 0..(CursorModulus - 1)
  BY CursorAssumption DEF Init, PoolInit
<1> QED
  BY <1>3, <1>4 DEF Init, PoolInit, TypeOK, PoolTypeOK, NewRequest, Locals, Kinds, PC,
                    ScanLocals

(* The effect of a step of r on the locals, given what becomes of r's.     *)
LEMMA OwnType ==
  ASSUME TypeOK, NEW r \in Request, NEW new \in Locals,
         req' = [req EXCEPT ![r] = new],
         PoolTypeOK', pool' = pool,
         IF new.pc = "scan" THEN new.start < Len(pool) /\ new.i < Len(pool)
                            ELSE new.i = 0 /\ new.ended = {}
  PROVE  /\ TypeOK'
         /\ req'[r] = new
         /\ \A s \in Request \ {r} : req'[s] = req[s]
<1>1. req \in [Request -> Locals]
  BY DEF TypeOK
<1>2. req' \in [Request -> Locals] /\ req'[r] = new
  BY <1>1
<1>3. \A s \in Request \ {r} : req'[s] = req[s]
  BY <1>1
<1>4. ASSUME NEW s \in Request PROVE ScanLocals(s)'
  <2>1. CASE s = r
    BY <1>2, <2>1 DEF ScanLocals
  <2>2. CASE s # r
    BY <1>3, <2>2 DEF ScanLocals, TypeOK
  <2> QED BY <2>1, <2>2
<1> QED BY <1>2, <1>3, <1>4 DEF TypeOK

(* What a result leaves: r is done, and everybody else as before.          *)
LEMMA ReplyEffect ==
  ASSUME TypeOK, NEW r \in Request,
         NEW kind \in Kinds, NEW acct \in Account \cup {NoAccount}, NEW hint \in Nat,
         Reply(r, kind, acct, hint), PoolTypeOK', pool' = pool
  PROVE  /\ TypeOK'
         /\ req'[r].pc = "done" /\ req'[r].last = kind /\ req'[r].acct = acct
         /\ \A s \in Request \ {r} : req'[s] = req[s]
<1> DEFINE new == [NewRequest EXCEPT !.pc = "done", !.acct = acct,
                                     !.last = kind, !.hint = hint]
<1>1. /\ new \in Locals /\ new.pc = "done" /\ new.last = kind /\ new.acct = acct
      /\ new.i = 0 /\ new.ended = {}
  BY DEF NewRequest, Locals, PC
<1>2. req' = [req EXCEPT ![r] = new]
  BY DEF Reply
<1> HIDE DEF new
<1> QED BY <1>1, <1>2, OwnType

(* The results and errors the loop deals in.                               *)
LEMMA KindsAre ==
  {"invalid", "no_accounts", "refused", "limited", "failed", "ok", "rejected", "none"}
    \subseteq Kinds
  BY DEF Kinds, FailoverKinds, FinalKinds, GatewayKinds

(* Begin: the request is answered at once or enters the loop.              *)
LEMMA BeginEffect ==
  ASSUME TypeOK, NEW r \in Request, Begin(r)
  PROVE  /\ TypeOK'
         /\ req[r].pc \in {"idle", "done"}
         /\ \/ /\ req'[r].pc = "done" /\ req'[r].acct = NoAccount
               /\ req'[r].last \in {"invalid", "no_accounts"}
            \/ /\ req'[r].pc = "acquire" /\ req'[r].last = "none"
               /\ req'[r].budget = EnabledCount /\ EnabledCount > 0
         /\ \A s \in Request \ {r} : req'[s] = req[s]
<1>1. PoolTypeOK /\ PoolTypeOK' /\ pool' = pool
  BY DEF Begin, poolVars, TypeOK, PoolTypeOK
<1>2. CASE Reply(r, "invalid", NoAccount, 0)
  BY <1>1, <1>2, KindsAre, ReplyEffect DEF Begin
<1>3. CASE Reply(r, "no_accounts", NoAccount, 0)
  BY <1>1, <1>3, KindsAre, ReplyEffect DEF Begin
<1>4. CASE /\ EnabledCount > 0
           /\ req' = [req EXCEPT ![r] = [NewRequest EXCEPT !.pc = "acquire",
                                                           !.budget = EnabledCount]]
  <2> DEFINE new == [NewRequest EXCEPT !.pc = "acquire", !.budget = EnabledCount]
  <2>1. EnabledCount \in Nat
    BY <1>1, EnabledCountType
  <2>2. /\ new \in Locals /\ new.pc = "acquire" /\ new.last = "none"
        /\ new.budget = EnabledCount /\ new.i = 0 /\ new.ended = {}
    BY <2>1, KindsAre DEF NewRequest, Locals, PC
  <2>3. req' = [req EXCEPT ![r] = new]
    BY <1>4
  <2> HIDE DEF new
  <2> QED BY <1>1, <1>4, <2>2, <2>3, OwnType DEF Begin
<1> QED BY <1>2, <1>3, <1>4 DEF Begin

(* Acquire's nil ends the loop with the last error, or without one leads   *)
(* to the refusal.                                                         *)
LEMMA FoundNoneEffect ==
  ASSUME TypeOK, NEW r \in Request, FoundNone(r), PoolTypeOK', pool' = pool
  PROVE  /\ TypeOK'
         /\ \/ /\ req[r].last # "none" /\ req'[r].pc = "done"
               /\ req'[r].last = req[r].last /\ req'[r].acct = req[r].acct
            \/ req[r].last = "none" /\ req'[r].pc = "refuse" /\ req'[r].last = "none"
         /\ \A s \in Request \ {r} : req'[s] = req[s]
<1>1. CASE req[r].last # "none"
  <2>1. /\ req[r].last \in Kinds /\ req[r].acct \in Account \cup {NoAccount}
        /\ req[r].hint \in Nat
    BY DEF TypeOK, Locals
  <2> QED BY <1>1, <2>1, ReplyEffect DEF FoundNone
<1>2. CASE req[r].last = "none"
  <2> DEFINE new == [NewRequest EXCEPT !.pc = "refuse"]
  <2>1. /\ new \in Locals /\ new.pc = "refuse" /\ new.last = "none"
        /\ new.i = 0 /\ new.ended = {}
    BY KindsAre DEF NewRequest, Locals, PC
  <2>2. req' = [req EXCEPT ![r] = new]
    BY <1>2 DEF FoundNone
  <2> HIDE DEF new
  <2> QED BY <1>2, <2>1, <2>2, OwnType
<1> QED BY <1>1, <1>2

(* The steps of Acquire that end with nil.                                 *)
LEMMA NilEffect ==
  ASSUME TypeOK, NEW r \in Request, ScanNothing(r) \/ PickNone(r)
  PROVE  /\ TypeOK'
         /\ UNCHANGED poolVars
         /\ req[r].pc \in {"acquire", "scan"}
         /\ \/ /\ req[r].last # "none" /\ req'[r].pc = "done"
               /\ req'[r].last = req[r].last /\ req'[r].acct = req[r].acct
            \/ req[r].last = "none" /\ req'[r].pc = "refuse" /\ req'[r].last = "none"
         /\ \A s \in Request \ {r} : req'[s] = req[s]
<1>1. UNCHANGED poolVars /\ FoundNone(r) /\ req[r].pc \in {"acquire", "scan"}
  BY DEF ScanNothing, PickNone
<1>2. PoolTypeOK' /\ pool' = pool
  BY <1>1 DEF poolVars, TypeOK, PoolTypeOK
<1> QED BY <1>1, <1>2, FoundNoneEffect

(* A scan begins.                                                          *)
LEMMA StartEffect ==
  ASSUME TypeOK, NEW r \in Request, StartScan(r)
  PROVE  /\ TypeOK'
         /\ req[r].pc = "acquire" /\ req'[r].pc = "scan"
         /\ req'[r].start = cursor % Len(pool)
         /\ req'[r].i = 0 /\ req'[r].ended = {}
         /\ req'[r].budget = req[r].budget /\ req'[r].last = req[r].last
         /\ req'[r].acct = req[r].acct
         /\ \A s \in Request \ {r} : req'[s] = req[s]
<1> DEFINE new == [req[r] EXCEPT !.pc = "scan", !.start = Start]
<1>1. /\ req[r] \in Locals /\ req[r].pc = "acquire" /\ PoolTypeOK
      /\ req[r].i = 0 /\ req[r].ended = {}
  BY DEF StartScan, TypeOK, ScanLocals
<1>2. Len(pool) \in Nat \ {0} /\ cursor \in Int /\ cursor \in Nat
  BY <1>1, EmptySeq, LenProperties, CursorAssumption DEF PoolTypeOK, StartScan
<1>3. Start \in 0..(Len(pool) - 1) /\ Start = cursor % Len(pool)
  BY <1>2, DivMod, Zenon DEF Start
<1>4. Start \in Nat /\ Start < Len(pool)
  BY <1>2, <1>3
<1>5. /\ new \in Locals /\ new.pc = "scan" /\ new.start = Start
      /\ new.i = req[r].i /\ new.ended = req[r].ended
      /\ new.budget = req[r].budget /\ new.last = req[r].last
      /\ new.acct = req[r].acct
  BY <1>1, <1>4 DEF Locals, PC
<1>6. req' = [req EXCEPT ![r] = new]
  BY DEF StartScan
<1>7. PoolTypeOK' /\ pool' = pool
  <2>1. (cursor + 1) % CursorModulus \in 0..(CursorModulus - 1)
    BY <1>1, CursorAssumption DEF PoolTypeOK
  <2>2. /\ pool' = pool /\ enabled' = enabled /\ cool' = cool
        /\ cursor' = (cursor + 1) % CursorModulus
    BY DEF StartScan, AdvanceCursor
  <2> QED BY <1>1, <2>1, <2>2 DEF PoolTypeOK
<1>8. new.start < Len(pool) /\ new.i < Len(pool)
  BY <1>1, <1>2, <1>4, <1>5
<1> HIDE DEF new
<1>9. TypeOK' /\ req'[r] = new /\ \A s \in Request \ {r} : req'[s] = req[s]
  BY <1>5, <1>6, <1>7, <1>8, OwnType
<1> QED BY <1>1, <1>3, <1>5, <1>9

(* A scan ends with an account.                                            *)
LEMMA PickEffect ==
  ASSUME TypeOK, NEW r \in Request, PickAccount(r)
  PROVE  /\ TypeOK'
         /\ UNCHANGED poolVars
         /\ req[r].pc = "scan" /\ req'[r].pc = "send" /\ req'[r].acct = Looked(r)
         /\ req'[r].budget = req[r].budget /\ req'[r].last = req[r].last
         /\ \A s \in Request \ {r} : req'[s] = req[s]
<1> DEFINE new == [req[r] EXCEPT !.pc = "send", !.acct = Looked(r),
                                 !.start = 0, !.i = 0, !.ended = {}]
<1>1. req[r] \in Locals /\ req[r].pc = "scan" /\ PoolTypeOK
  BY DEF PickAccount, TypeOK
<1>2. Looked(r) \in Account
  BY <1>1, LookedInPool
<1>3. /\ new \in Locals /\ new.pc = "send" /\ new.acct = Looked(r)
      /\ new.i = 0 /\ new.ended = {}
      /\ new.budget = req[r].budget /\ new.last = req[r].last
  BY <1>1, <1>2 DEF Locals, PC
<1>4. req' = [req EXCEPT ![r] = new]
  BY DEF PickAccount
<1>5. PoolTypeOK' /\ pool' = pool /\ UNCHANGED poolVars
  BY <1>1 DEF PickAccount, poolVars, PoolTypeOK
<1> HIDE DEF new
<1>6. TypeOK' /\ req'[r] = new /\ \A s \in Request \ {r} : req'[s] = req[s]
  BY <1>3, <1>4, <1>5, OwnType
<1> QED BY <1>1, <1>3, <1>5, <1>6

(* A scan goes on.                                                         *)
LEMMA SkipEffect ==
  ASSUME TypeOK, NEW r \in Request, SkipAccount(r)
  PROVE  /\ TypeOK'
         /\ UNCHANGED poolVars
         /\ req[r].pc = "scan" /\ req'[r].pc = "scan"
         /\ req'[r].start = req[r].start /\ req'[r].i = req[r].i + 1
         /\ req'[r].ended = req[r].ended \ {Looked(r)}
         /\ req'[r].budget = req[r].budget /\ req'[r].last = req[r].last
         /\ req'[r].acct = req[r].acct
         /\ \A s \in Request \ {r} : req'[s] = req[s]
<1> DEFINE k == req[r].i + 1
           rest == req[r].ended \ {Looked(r)}
           new == [req[r] EXCEPT !.i = k, !.ended = rest]
<1>1. /\ req[r] \in Locals /\ req[r].pc = "scan" /\ PoolTypeOK
      /\ req[r].start < Len(pool) /\ req[r].i < Len(pool) /\ req[r].i + 1 # Len(pool)
  BY DEF SkipAccount, LastLook, TypeOK, ScanLocals
<1>2. req[r].i \in Nat /\ Len(pool) \in Nat
  BY <1>1, LenProperties DEF Locals, PoolTypeOK
<1>3. /\ new \in Locals /\ new.pc = "scan" /\ new.start = req[r].start
      /\ new.i = k /\ new.ended = rest
      /\ new.budget = req[r].budget /\ new.last = req[r].last
      /\ new.acct = req[r].acct
  <2>1. k \in Nat /\ rest \in SUBSET Account
    BY <1>1, <1>2 DEF Locals
  <2> HIDE DEF k, rest
  <2> QED BY <1>1, <2>1 DEF Locals
<1>4. req' = [req EXCEPT ![r] = new]
  BY DEF SkipAccount
<1>5. PoolTypeOK' /\ pool' = pool /\ UNCHANGED poolVars
  BY <1>1 DEF SkipAccount, poolVars, PoolTypeOK
<1>6. new.start < Len(pool) /\ new.i < Len(pool)
  BY <1>1, <1>2, <1>3
<1> HIDE DEF new
<1>7. TypeOK' /\ req'[r] = new /\ \A s \in Request \ {r} : req'[s] = req[s]
  BY <1>3, <1>4, <1>5, <1>6, OwnType
<1> QED BY <1>1, <1>3, <1>5, <1>7

(* An answer of the upstream: the loop ends or goes round, and the account *)
(* in use may have begun to cool down.                                     *)
LEMMA AnswerEffect ==
  ASSUME TypeOK, NEW r \in Request,
         AnswerFinal(r) \/ AnswerFailed(r) \/ AnswerRateLimited(r)
  PROVE  /\ TypeOK'
         /\ UNCHANGED <<pool, enabled, cursor>>
         /\ \A a \in Account : a # req[r].acct => cool'[a] = cool[a]
         /\ req[r].pc = "send" /\ req'[r].acct = req[r].acct
         /\ \/ req'[r].pc = "done" /\ req'[r].last \in FinalKinds
            \/ /\ req'[r].pc = "acquire" /\ req'[r].last \in FailoverKinds
               /\ req[r].budget > 1 /\ req'[r].budget = req[r].budget - 1
            \/ /\ req'[r].pc = "done" /\ req'[r].last \in FailoverKinds
               /\ req[r].budget <= 1
         /\ \A s \in Request \ {r} : req'[s] = req[s]
<1>1. /\ req[r] \in Locals /\ req[r].pc = "send" /\ PoolTypeOK
      /\ req[r].acct \in Account \cup {NoAccount} /\ req[r].budget \in Nat
      /\ req[r].i = 0 /\ req[r].ended = {}
  BY DEF AnswerFinal, AnswerFailed, AnswerRateLimited, TypeOK, ScanLocals, Locals
<1>2. ASSUME NEW kind \in FailoverKinds, NEW hint \in Nat, NextAttempt(r, kind, hint),
             PoolTypeOK', pool' = pool
      PROVE  /\ TypeOK'
             /\ req'[r].acct = req[r].acct /\ req'[r].last = kind
             /\ \/ /\ req'[r].pc = "acquire"
                   /\ req[r].budget > 1 /\ req'[r].budget = req[r].budget - 1
                \/ req'[r].pc = "done" /\ req[r].budget <= 1
             /\ \A s \in Request \ {r} : req'[s] = req[s]
  <2>1. kind \in Kinds
    BY DEF Kinds
  <2>2. CASE req[r].budget > 1
    <3> DEFINE left == req[r].budget - 1
               new == [req[r] EXCEPT !.pc = "acquire", !.budget = left,
                                     !.last = kind, !.hint = hint]
    <3>1. /\ new \in Locals /\ new.pc = "acquire" /\ new.budget = left
          /\ new.last = kind /\ new.acct = req[r].acct
          /\ new.i = req[r].i /\ new.ended = req[r].ended
      <4>1. left \in Nat
        BY <1>1, <2>2
      <4> HIDE DEF left
      <4> QED BY <1>1, <2>1, <4>1 DEF Locals, PC
    <3>2. req' = [req EXCEPT ![r] = new]
      BY <1>2, <2>2 DEF NextAttempt
    <3> HIDE DEF new
    <3> QED BY <1>1, <1>2, <2>2, <3>1, <3>2, OwnType
  <2>3. CASE ~(req[r].budget > 1)
    BY <1>1, <1>2, <2>1, <2>3, ReplyEffect DEF NextAttempt
  <2> QED BY <2>2, <2>3
<1>3. CASE AnswerFinal(r)
  <2>1. PICK kind \in FinalKinds : Reply(r, kind, req[r].acct, 0)
    BY <1>3 DEF AnswerFinal
  <2>2. kind \in Kinds
    BY DEF Kinds
  <2>3. PoolTypeOK' /\ UNCHANGED <<pool, enabled, cool, cursor>>
    BY <1>1, <1>3 DEF AnswerFinal, poolVars, PoolTypeOK
  <2> QED BY <1>1, <2>1, <2>2, <2>3, ReplyEffect
<1>4. CASE AnswerFailed(r)
  <2>1. PoolTypeOK' /\ UNCHANGED <<pool, enabled, cool, cursor>>
    BY <1>1, <1>4 DEF AnswerFailed, poolVars, PoolTypeOK
  <2>2. "failed" \in FailoverKinds
    BY DEF FailoverKinds
  <2> QED BY <1>1, <1>2, <1>4, <2>1, <2>2 DEF AnswerFailed
<1>5. CASE AnswerRateLimited(r)
  <2>1. PICK s \in RetryAfters : /\ RecordRateLimit(req[r].acct, s)
                                 /\ NextAttempt(r, "limited", s)
    BY <1>5 DEF AnswerRateLimited
  <2>2. Cooldown(s) \in Nat /\ s \in Nat
    BY CooldownType, ClockAssumption
  <2>3. PoolTypeOK' /\ UNCHANGED <<pool, enabled, cursor>>
    BY <1>1, <2>1, <2>2 DEF RecordRateLimit, PoolTypeOK
  <2>4. \A a \in Account : a # req[r].acct => cool'[a] = cool[a]
    BY <1>1, <2>1 DEF RecordRateLimit, PoolTypeOK
  <2>5. "limited" \in FailoverKinds
    BY DEF FailoverKinds
  <2> QED BY <1>1, <1>2, <2>1, <2>2, <2>3, <2>4, <2>5
<1> QED BY <1>3, <1>4, <1>5

(* The refusal.                                                            *)
LEMMA RefuseEffect ==
  ASSUME TypeOK, NEW r \in Request, Refuse(r)
  PROVE  /\ TypeOK'
         /\ UNCHANGED poolVars
         /\ req[r].pc = "refuse" /\ req'[r].pc = "done"
         /\ req'[r].last = "refused" /\ req'[r].acct = NoAccount
         /\ \A s \in Request \ {r} : req'[s] = req[s]
<1>1. PoolTypeOK /\ PoolTypeOK' /\ pool' = pool
  BY DEF Refuse, poolVars, TypeOK, PoolTypeOK
<1>2. PICK w \in Waits \cup {0} :
        Reply(r, "refused", NoAccount, RoundToSeconds(w))
  BY DEF Refuse
<1>3. RoundToSeconds(w) \in Nat
  BY <1>1, WaitType
<1> QED BY <1>1, <1>2, <1>3, KindsAre, ReplyEffect DEF Refuse

(* Every step of a Send keeps the types.                                   *)
LEMMA SendTypeOK ==
  ASSUME TypeOK, NEW r \in Request, Begin(r) \/ Send(r)
  PROVE  TypeOK'
  BY BeginEffect, NilEffect, StartEffect, PickEffect, SkipEffect, AnswerEffect,
     RefuseEffect DEF Send, Acquire

(* A tick leaves all of a request's locals but ended.                      *)
LEMMA TimeEffect ==
  ASSUME TypeOK, Time
  PROVE  /\ TypeOK'
         /\ UNCHANGED <<pool, enabled, cursor>>
         /\ \A a \in Account : cool[a] = 0 => cool'[a] = 0
         /\ \A r \in Request :
              IF req[r].pc = "scan"
                THEN req'[r] = [req[r] EXCEPT
                                  !.ended = @ \cup {a \in Unseen(r) : cool[a] = 1}]
                ELSE req'[r] = req[r]
<1>1. UNCHANGED <<pool, enabled, cursor>> /\ PoolTypeOK'
      /\ \A a \in Account : cool[a] = 0 => cool'[a] = 0
  BY DEF Time, Tick, TypeOK, PoolTypeOK
<1>2. ASSUME NEW r \in Request
      PROVE  /\ IF req[r].pc = "scan"
                  THEN req'[r] = [req[r] EXCEPT
                                    !.ended = @ \cup {a \in Unseen(r) : cool[a] = 1}]
                  ELSE req'[r] = req[r]
             /\ req'[r] \in Locals
             /\ ScanLocals(r)'
  <2>1. req[r] \in Locals /\ ScanLocals(r)
    BY DEF TypeOK
  <2>2. CASE req[r].pc = "scan"
    <3> DEFINE more == {a \in Unseen(r) : cool[a] = 1}
    <3>1. more \subseteq Account
      BY <2>2, LookedInPool
    <3>2. req'[r] = [req[r] EXCEPT !.ended = @ \cup more]
      BY <2>2 DEF Time
    <3> HIDE DEF more
    <3>3. /\ req'[r] \in Locals /\ req'[r].pc = "scan"
          /\ req'[r].start = req[r].start /\ req'[r].i = req[r].i
      BY <2>1, <2>2, <3>1, <3>2 DEF Locals
    <3>4. ScanLocals(r)'
      BY <1>1, <2>1, <2>2, <3>3 DEF ScanLocals
    <3> QED BY <2>2, <3>2, <3>3, <3>4 DEF more
  <2>3. CASE req[r].pc # "scan"
    BY <2>1, <2>3 DEF Time, ScanLocals
  <2> QED BY <2>2, <2>3
<1>3. req' \in [Request -> Locals]
  <2>1. req' = [r \in Request |-> req'[r]]
    BY DEF Time
  <2> QED BY <1>2, <2>1
<1> QED BY <1>1, <1>2, <1>3 DEF TypeOK

(* The console leaves the requests alone, and the list while one scans.    *)
LEMMA AdminEffect ==
  ASSUME TypeOK, Admin
  PROVE  /\ TypeOK'
         /\ req' = req /\ cursor' = cursor
         /\ (\E r \in Request : req[r].pc = "scan") => pool' = pool /\ cool' = cool
         /\ pool' # pool \/ cool' = cool
<1> SUFFICES /\ PoolTypeOK' /\ cursor' = cursor
             /\ (\E r \in Request : req[r].pc = "scan") => pool' = pool /\ cool' = cool
             /\ pool' # pool \/ cool' = cool
  BY DEF Admin, TypeOK, ScanLocals
<1>1. ASSUME NEW a \in Account, NEW b \in BOOLEAN, SetEnabled(a, b)
      PROVE  PoolTypeOK' /\ cursor' = cursor /\ pool' = pool /\ cool' = cool
  BY <1>1 DEF SetEnabled, TypeOK, PoolTypeOK
<1>2. ASSUME NEW a \in Account, AddAccount(a)
      PROVE  PoolTypeOK' /\ cursor' = cursor /\ pool' # pool
  <2>1. pool' = Append(pool, a) /\ pool \in Seq(Account) /\ a \notin InPool
    BY <1>2 DEF AddAccount, TypeOK, PoolTypeOK
  <2>2. /\ pool' \in Seq(Account)
        /\ Len(pool') = Len(pool) + 1
        /\ pool'[Len(pool) + 1] = a
        /\ \A i \in 1..Len(pool) : pool'[i] = pool[i]
    BY <2>1, AppendProperties
  <2>3. IsInjective(pool')
    <3>1. \A i \in 1..Len(pool) : pool[i] # a
      BY <2>1 DEF InPool
    <3>2. \A i, j \in 1..Len(pool) : pool[i] = pool[j] => i = j
      BY <2>1 DEF TypeOK, PoolTypeOK, IsInjective
    <3>3. \A i, j \in 1..(Len(pool) + 1) : pool'[i] = pool'[j] => i = j
      BY <2>1, <2>2, <3>1, <3>2
    <3> QED BY <2>2, <3>3 DEF IsInjective
  <2>4. pool' # pool
    BY <2>1, <2>2, LenProperties
  <2> QED BY <1>2, <2>2, <2>3, <2>4 DEF AddAccount, TypeOK, PoolTypeOK
<1>3. ASSUME NEW i \in 1..Cardinality(Account), RemoveAccount(i)
      PROVE  PoolTypeOK' /\ cursor' = cursor /\ cool' = cool
  <2>1. pool' = RemoveAt(pool, i) /\ i \in 1..Len(pool)
    BY <1>3 DEF RemoveAccount, TypeOK, PoolTypeOK
  <2>2. pool' \in Seq(Account) /\ IsInjective(pool')
    BY <2>1, RemoveAtPool DEF TypeOK, PoolTypeOK
  <2> QED BY <1>3, <2>2 DEF RemoveAccount, TypeOK, PoolTypeOK
<1> QED BY <1>1, <1>2, <1>3 DEF Admin, EditPool

(* Every step keeps the types.                                             *)
LEMMA StepTypeOK == TypeOK /\ [Next]_vars => TypeOK'
<1> SUFFICES ASSUME TypeOK, [Next]_vars PROVE TypeOK'
  OBVIOUS
<1>1. CASE UNCHANGED vars
  BY <1>1 DEF vars, TypeOK, PoolTypeOK, ScanLocals
<1>2. CASE Next
  BY <1>2, SendTypeOK, TimeEffect, AdminEffect DEF Next
<1> QED BY <1>1, <1>2

(* Every variable of the failover loop keeps its type: in particular the   *)
(* pool never holds an account twice and the cursor never leaves its       *)
(* counter (AccountPool, CCClient.Send).                                   *)
THEOREM TypeCorrect == Spec => []TypeOK
<1> QED BY InitTypeOK, StepTypeOK, PTL DEF Spec

----------------------------------------------------------------------------
(* The history variables never hold the loop up, and keep their types.     *)

LEMMA HistoryImpliesSpec == HistorySpec => Spec
<1>1. HistoryInit => Init
  BY DEF HistoryInit
<1>2. [Next /\ HistoryStep]_allVars => [Next]_vars
  BY DEF allVars, vars
<1> QED BY <1>1, <1>2, PTL DEF HistorySpec, Spec

(* The history starts well typed.                                          *)
LEMMA InitHistoryTypeOK == HistoryInit => HistoryTypeOK
  BY InitTypeOK DEF HistoryInit, HistoryTypeOK

(* Whose step it was: r's own, or one that leaves r's locals, or a tick    *)
(* while r scans.                                                          *)
LEMMA WhoStepped ==
  ASSUME TypeOK, Next, NEW r \in Request
  PROVE  \/ Begin(r) \/ Send(r)
         \/ req'[r] = req[r]
         \/ /\ Time /\ req[r].pc = "scan"
            /\ req'[r] = [req[r] EXCEPT
                            !.ended = @ \cup {a \in Unseen(r) : cool[a] = 1}]
<1>1. ASSUME NEW s \in Request \ {r}, Begin(s) \/ Send(s)
      PROVE  req'[r] = req[r]
  BY <1>1, BeginEffect, NilEffect, StartEffect, PickEffect, SkipEffect, AnswerEffect,
     RefuseEffect DEF Send, Acquire
<1>2. CASE Time
  BY <1>2, TimeEffect
<1>3. CASE Admin
  BY <1>3 DEF Admin
<1> QED BY <1>1, <1>2, <1>3 DEF Next

(* The steps of the history are the steps of the code they are named for.  *)
LEMMA WhichStep ==
  ASSUME TypeOK, Next, NEW r \in Request
  PROVE  /\ Started(r) => StartScan(r)
         /\ Scanned(r) => PickAccount(r) \/ PickNone(r)
         /\ Picked(r) => PickAccount(r)
         /\ Began(r) => Begin(r)
<1>1. CASE req'[r] = req[r]
  BY <1>1 DEF Started, Scanned, Picked, Began
<1>2. CASE /\ Time /\ req[r].pc = "scan"
           /\ req'[r] = [req[r] EXCEPT
                           !.ended = @ \cup {a \in Unseen(r) : cool[a] = 1}]
  <2>1. req[r] \in Locals
    BY DEF TypeOK
  <2>2. req'[r].pc = "scan"
    BY <1>2, <2>1 DEF Locals
  <2> QED BY <1>2, <2>2 DEF Started, Scanned, Picked, Began
<1>3. CASE Begin(r)
  BY <1>3, BeginEffect DEF Started, Scanned, Picked
<1>4. CASE ScanNothing(r) \/ PickNone(r)
  BY <1>4, NilEffect DEF Started, Scanned, Picked, Began, ScanNothing
<1>5. CASE StartScan(r)
  BY <1>5, StartEffect DEF Scanned, Picked, Began
<1>6. CASE PickAccount(r)
  BY <1>6, PickEffect DEF Started, Began
<1>7. CASE SkipAccount(r)
  BY <1>7, SkipEffect DEF Started, Scanned, Picked, Began
<1>8. CASE AnswerFinal(r) \/ AnswerFailed(r) \/ AnswerRateLimited(r)
  BY <1>8, AnswerEffect DEF Started, Scanned, Picked, Began
<1>9. CASE Refuse(r)
  BY <1>9, RefuseEffect DEF Started, Scanned, Picked, Began
<1> QED BY <1>1, <1>2, <1>3, <1>4, <1>5, <1>6, <1>7, <1>8, <1>9, WhoStepped
        DEF Send, Acquire

(* And the other way round.                                                *)
LEMMA StepIs ==
  ASSUME TypeOK, NEW r \in Request
  PROVE  /\ StartScan(r) => Started(r)
         /\ PickAccount(r) => Picked(r)
         /\ PickNone(r) => Scanned(r) /\ ~Picked(r)
  BY StartEffect, PickEffect, NilEffect DEF Started, Picked, Scanned, PickNone

(* Every step of the history keeps its types.                              *)
LEMMA StepHistoryTypeOK ==
  HistoryTypeOK /\ [Next /\ HistoryStep]_allVars => HistoryTypeOK'
<1> SUFFICES ASSUME HistoryTypeOK, [Next /\ HistoryStep]_allVars
             PROVE  HistoryTypeOK'
  OBVIOUS
<1>1. TypeOK'
  BY StepTypeOK DEF HistoryTypeOK, allVars, vars
<1>2. CASE UNCHANGED allVars
  BY <1>1, <1>2 DEF allVars, HistoryTypeOK
<1>3. CASE Next /\ HistoryStep
  <2>1. ASSUME NEW r \in Request PROVE tried'[r] \in SUBSET Account
    <3>1. Picked(r) => req'[r].acct \in Account
      BY <1>3, WhichStep, PickEffect, LookedInPool DEF HistoryTypeOK
    <3> QED BY <1>3, <3>1 DEF HistoryStep, HistoryTypeOK
  <2>2. tried' \in [Request -> SUBSET Account]
    <3>1. tried' = [r \in Request |-> tried'[r]]
      BY <1>3 DEF HistoryStep
    <3> QED BY <2>1, <3>1
  <2>3. ASSUME NEW r \in Request PROVE lone'[r] \in BOOLEAN
    BY <1>3, <2>3 DEF HistoryStep, HistoryTypeOK, Disturbed
  <2>4. lone' \in [Request -> BOOLEAN]
    <3>1. lone' = [r \in Request |-> lone'[r]]
      BY <1>3 DEF HistoryStep
    <3> QED BY <2>3, <3>1
  <2>5. ASSUME NEW a \in Account PROVE missed'[a] \in Nat
    BY <1>3, <2>5 DEF HistoryStep, HistoryTypeOK
  <2>6. missed' \in [Account -> Nat]
    <3>1. missed' = [a \in Account |-> missed'[a]]
      BY <1>3 DEF HistoryStep
    <3> QED BY <2>5, <3>1
  <2>7. ASSUME NEW r \in Request PROVE from'[r] \in Nat
    <3>1. Started(r) => cursor % Len(pool) \in Nat
      <4>1. ASSUME Started(r) PROVE req'[r].start \in Nat
        BY <1>1 DEF TypeOK, Locals
      <4> QED BY <1>3, <4>1, WhichStep, StartEffect DEF HistoryTypeOK
    <3> QED BY <1>3, <3>1 DEF HistoryStep, HistoryTypeOK
  <2>8. from' \in [Request -> Nat]
    <3>1. from' = [r \in Request |-> from'[r]]
      BY <1>3 DEF HistoryStep
    <3> QED BY <2>7, <3>1
  <2>9. ASSUME NEW r \in Request PROVE steady'[r] \in SUBSET Account
    <3>1. InPool \subseteq Account
      BY ElementOfSeq DEF HistoryTypeOK, TypeOK, PoolTypeOK, InPool
    <3> QED BY <1>3, <3>1 DEF HistoryStep, HistoryTypeOK
  <2>10. steady' \in [Request -> SUBSET Account]
    <3>1. steady' = [r \in Request |-> steady'[r]]
      BY <1>3 DEF HistoryStep
    <3> QED BY <2>9, <3>1
  <2> QED BY <1>1, <2>2, <2>4, <2>6, <2>8, <2>10 DEF HistoryTypeOK
<1> QED BY <1>2, <1>3

(* The failover loop and its history keep their types.                     *)
THEOREM HistoryTypeCorrect == HistorySpec => []HistoryTypeOK
<1> QED BY InitHistoryTypeOK, StepHistoryTypeOK, PTL DEF HistorySpec

----------------------------------------------------------------------------
(* No eligible account is overlooked.                                      *)

(* What a step makes of the count of scans that missed an account.         *)
LEMMA MissedEffect ==
  ASSUME HistoryStep, NEW a \in Account
  PROVE  /\ pool' # pool \/ ~Eligible(a)' \/ HandsOut(a) => missed'[a] = 0
         /\ missed'[a] # 0 => PassesOver(a) \/ missed'[a] = missed[a]
<1>1. missed' = [b \in Account |->
                   IF pool' # pool \/ ~Eligible(b)' \/ HandsOut(b) THEN 0
                   ELSE IF b \in InPool /\ PassesOver(b) THEN missed[b] + 1
                   ELSE missed[b]]
  BY DEF HistoryStep
<1> QED BY <1>1 DEF Eligible

(* What is steady after a step is eligible before and after it.            *)
LEMMA SteadyEffect ==
  ASSUME HistoryStep, NEW r \in Request, NEW a \in steady'[r]
  PROVE  Eligible(a) /\ Eligible(a)'
<1>1. steady' = [s \in Request |->
                   {b \in IF Started(s) THEN InPool ELSE steady[s] :
                      ~Scanned(s) /\ Eligible(b) /\ Eligible(b)'}]
  BY DEF HistoryStep
<1> QED BY <1>1 DEF Eligible

(* The pool does not change under a scan.                                  *)
LEMMA ScanKeepsPool ==
  ASSUME TypeOK, Next, NEW r \in Request, req[r].pc = "scan"
  PROVE  pool' = pool
<1>1. ASSUME NEW s \in Request, Begin(s) \/ Send(s) PROVE pool' = pool
  BY <1>1, NilEffect, StartEffect, PickEffect, SkipEffect, AnswerEffect, RefuseEffect
     DEF Send, Acquire, Begin, StartScan, poolVars
<1> QED BY <1>1, TimeEffect, AdminEffect DEF Next

(* What the scan skips has not been eligible all the time.                 *)
LEMMA SkipsUnsteady ==
  ASSUME NEW r \in Request, Scan(r), ~MayTake(r)
  PROVE  Slot(req[r].start, req[r].i) \notin steady[r]
  BY DEF Scan, MayTake, Looked

(* No request scans at the start.                                          *)
LEMMA InitScanInv == HistoryInit => ScanInv
  BY DEF HistoryInit, Init, NewRequest, ScanInv

(* Every step keeps what is known of a scan.                               *)
LEMMA StepScanInv ==
  HistoryTypeOK /\ ScanInv /\ [Next /\ HistoryStep]_allVars => ScanInv'
<1> SUFFICES ASSUME HistoryTypeOK, ScanInv, [Next /\ HistoryStep]_allVars,
                    NEW r \in Request, req'[r].pc = "scan"
             PROVE  Scan(r)'
  BY DEF ScanInv
<1>1. TypeOK /\ req[r] \in Locals
  BY DEF HistoryTypeOK, TypeOK
<1>2. CASE UNCHANGED allVars
  BY <1>2 DEF allVars, ScanInv, Scan, Eligible, Slot
<1>3. CASE Next /\ HistoryStep /\ req[r].pc # "scan"
  <2>1. StartScan(r)
    BY <1>1, <1>3, WhoStepped, BeginEffect, NilEffect, AnswerEffect, RefuseEffect
       DEF Send, Acquire, PickAccount, SkipAccount
  <2>2. Started(r)
    BY <1>1, <2>1, StepIs
  <2>3. /\ req'[r].start = cursor % Len(pool)
        /\ req'[r].i = 0 /\ req'[r].ended = {}
    BY <1>1, <2>1, StartEffect
  <2>4. from'[r] = cursor % Len(pool) /\ \A a \in steady'[r] : Eligible(a)'
    <3>1. \A a \in steady'[r] : Eligible(a)'
      BY <1>3, SteadyEffect
    <3>2. from'[r] = cursor % Len(pool)
      BY <1>3, <2>2 DEF HistoryStep, Started, Scanned
    <3> QED BY <3>1, <3>2
  <2>5. 0..(req'[r].i - 1) = {}
    BY <2>3
  <2> QED BY <2>3, <2>4, <2>5 DEF Scan
<1>4. CASE Next /\ HistoryStep /\ req[r].pc = "scan"
  <2>1. /\ Scan(r) /\ pool' = pool
        /\ \A start, j : Slot(start, j)' = Slot(start, j)
    BY <1>1, <1>4, ScanKeepsPool DEF ScanInv, Slot
  <2>2. ~Started(r) /\ ~Scanned(r)
    BY <1>4 DEF Started, Scanned
  <2>3. /\ from'[r] = from[r]
        /\ steady'[r] \subseteq steady[r]
        /\ \A a \in steady'[r] : Eligible(a) /\ Eligible(a)'
    BY <1>4, <2>2 DEF HistoryStep
  <2>4. CASE SkipAccount(r)
    <3>1. /\ req'[r].start = req[r].start /\ req'[r].i = req[r].i + 1
          /\ req'[r].ended \subseteq req[r].ended
      BY <1>1, <2>4, SkipEffect
    <3>2. Slot(req[r].start, req[r].i) \notin steady[r]
      BY <2>1, <2>4, SkipsUnsteady DEF SkipAccount
    <3>3. ASSUME NEW j \in 0..(req'[r].i - 1)
          PROVE  Slot(req[r].start, j) \notin steady[r]
      <4>1. req[r].i \in Nat
        BY <1>1 DEF Locals
      <4>2. j \in 0..(req[r].i - 1) \/ j = req[r].i
        BY <3>1, <4>1
      <4> QED BY <2>1, <3>2, <4>2 DEF Scan
    <3> QED BY <2>1, <2>3, <3>1, <3>3 DEF Scan
  <2>5. CASE req'[r] = req[r]
    BY <2>1, <2>3, <2>5 DEF Scan
  <2>6. CASE req'[r] = [req[r] EXCEPT !.ended = @ \cup {a \in Unseen(r) : cool[a] = 1}]
    <3>1. /\ req'[r].start = req[r].start /\ req'[r].i = req[r].i
          /\ \A a \in req'[r].ended : a \in req[r].ended \/ cool[a] = 1
      BY <1>1, <2>6 DEF Locals
    <3>2. ASSUME NEW a \in steady'[r] PROVE Eligible(a)' /\ a \notin req'[r].ended
      BY <2>1, <2>3, <3>1 DEF Scan, Eligible
    <3> QED BY <2>1, <2>3, <3>1, <3>2 DEF Scan
  <2>7. ~PickAccount(r) /\ ~PickNone(r)
    BY <1>1, <2>2, StepIs DEF Picked
  <2>8. ~Begin(r) /\ ~ScanNothing(r) /\ ~StartScan(r) /\ ~AnswerFinal(r)
        /\ ~AnswerFailed(r) /\ ~AnswerRateLimited(r) /\ ~Refuse(r)
    BY <1>4 DEF Begin, ScanNothing, StartScan, AnswerFinal, AnswerFailed,
                AnswerRateLimited, Refuse
  <2> QED BY <1>1, <1>4, <2>4, <2>5, <2>6, <2>7, <2>8, WhoStepped DEF Send, Acquire
<1> QED BY <1>2, <1>3, <1>4

(* A scan is known for what it is in every state.                          *)
LEMMA ScanCorrect == HistorySpec => []ScanInv
<1> QED BY InitScanInv, StepScanInv, HistoryTypeCorrect, PTL DEF HistorySpec

(* A scan that ends has skipped nobody who was eligible all the time.      *)
LEMMA ScanOverlooksNobody ==
  ASSUME HistoryTypeOK, ScanInv, Next, NEW r \in Request, Scanned(r),
         NEW k \in 0..(Len(pool) - 1), InTurn(r, k) \in steady[r]
  PROVE  /\ req'[r].pc = "send"
         /\ \E j \in 0..k : req'[r].acct = InTurn(r, j)
<1>1. /\ TypeOK /\ req[r] \in Locals /\ req[r].i \in Nat /\ Scan(r)
      /\ Len(pool) \in Nat
  BY LenProperties DEF HistoryTypeOK, TypeOK, PoolTypeOK, Locals, ScanInv, Scanned
<1>2. \A j : InTurn(r, j) = Slot(req[r].start, j)
  BY <1>1 DEF InTurn, Slot, Scan
<1>3. ~(k < req[r].i)
  <2>1. ASSUME k < req[r].i PROVE k \in 0..(req[r].i - 1)
    BY <1>1, <2>1
  <2> QED BY <1>1, <1>2, <2>1 DEF Scan
<1>4. CASE PickAccount(r)
  <2>1. req'[r].pc = "send" /\ req'[r].acct = InTurn(r, req[r].i)
    BY <1>1, <1>2, <1>4, PickEffect DEF Looked
  <2>2. req[r].i \in 0..k
    BY <1>1, <1>3
  <2> QED BY <2>1, <2>2
<1>5. CASE PickNone(r)
  <2>1. Slot(req[r].start, req[r].i) \notin steady[r]
    BY <1>1, <1>5, SkipsUnsteady DEF PickNone
  <2>2. k = req[r].i
    BY <1>1, <1>3, <1>5 DEF PickNone, LastLook
  <2> QED BY <1>2, <2>1, <2>2
<1> QED BY <1>1, <1>4, <1>5, WhichStep

(* Acquire comes back with nil only when no account was eligible all the   *)
(* time it took, and with an account only when none that was comes before  *)
(* it in turn, whatever the console and the answers of other requests do   *)
(* while it scans (AccountPool.Acquire).                                   *)
THEOREM NobodyOverlookedHolds == HistorySpec => NobodyOverlooked
<1>1. HistoryTypeOK /\ ScanInv /\ [Next /\ HistoryStep]_allVars =>
        [\A r \in Request : Scanned(r) =>
           \A k \in 0..(Len(pool) - 1) : InTurn(r, k) \in steady[r] =>
             /\ req'[r].pc = "send"
             /\ \E j \in 0..k : req'[r].acct = InTurn(r, j)]_allVars
  BY ScanOverlooksNobody
<1> QED BY <1>1, HistoryTypeCorrect, ScanCorrect, PTL DEF HistorySpec, NobodyOverlooked

----------------------------------------------------------------------------
(* The rotation.                                                           *)

(* The pool holds distinct accounts, so its size is one the wrap-around of *)
(* the cursor was assumed not to disturb.                                  *)
LEMMA PoolSize ==
  ASSUME PoolTypeOK, pool # <<>>
  PROVE  /\ Len(pool) \in Nat \ {0}
         /\ CursorModulus % Len(pool) = 0
<1>1. Len(pool) \in Nat \ {0}
  BY EmptySeq, LenProperties DEF PoolTypeOK
<1>2. pool \in Injection(1..Len(pool), Account)
  BY LenProperties DEF PoolTypeOK, Injection
<1>3. Cardinality(1..Len(pool)) <= Cardinality(Account)
  BY <1>2, AccountAssumption, FS_Injection
<1>4. Cardinality(1..Len(pool)) = Len(pool)
  BY <1>1, FS_Interval
<1>5. Cardinality(Account) \in Nat
  BY AccountAssumption, FS_CardinalityType
<1> QED BY <1>1, <1>3, <1>4, <1>5, CursorAssumption

(* The distance of the cursor is less than the size of the pool.           *)
LEMMA AheadType ==
  ASSUME PoolTypeOK, NEW i \in 1..Len(pool)
  PROVE  Ahead(i) \in 0..(Len(pool) - 1)
<1>1. i - 1 - cursor \in Int /\ Len(pool) \in Nat \ {0}
  BY LenProperties DEF PoolTypeOK
<1> QED BY <1>1, DivMod, Zenon DEF Ahead

(* The first look of a scan is at the account it began at.                 *)
LEMMA FirstLook ==
  ASSUME PoolTypeOK, NEW i \in 1..Len(pool)
  PROVE  Slot(i - 1, 0) = pool[i]
<1>1. i - 1 \in 0..(Len(pool) - 1) /\ Len(pool) \in Nat
  BY LenProperties DEF PoolTypeOK
<1>2. (i - 1 + 0) % Len(pool) = i - 1
  BY <1>1
<1> QED BY <1>1, <1>2 DEF Slot

(* The scan begins at the account that has come up.                        *)
LEMMA StartsAhead ==
  ASSUME PoolTypeOK, NEW i \in 1..Len(pool), Ahead(i) = 0
  PROVE  cursor % Len(pool) = i - 1
<1>1. Len(pool) \in Nat \ {0} /\ cursor \in Int /\ i - 1 \in 0..(Len(pool) - 1)
  BY LenProperties DEF PoolTypeOK
<1>2. PICK j \in 0..(Len(pool) - 1) : j = i - 1
  BY <1>1
<1>3. j \in Int /\ (j - cursor) % Len(pool) = 0
  BY <1>2 DEF Ahead
<1> QED BY <1>1, <1>2, <1>3, ModZero

(* A scan brings the start of the next one account closer.                 *)
LEMMA AheadStep ==
  ASSUME PoolTypeOK, AdvanceCursor, pool' = pool, NEW i \in 1..Len(pool)
  PROVE  Ahead(i)' = IF Ahead(i) = 0 THEN Len(pool) - 1 ELSE Ahead(i) - 1
<1> DEFINE n == Len(pool)
           x == i - 1 - cursor
<1>1. /\ pool # <<>>
      /\ n \in Nat \ {0}
      /\ CursorModulus % n = 0
      /\ x \in Int
      /\ cursor \in 0..(CursorModulus - 1)
      /\ CursorModulus \in Nat \ {0}
  BY PoolSize, LenProperties, EmptySeq, CursorAssumption DEF PoolTypeOK
<1>2. cursor' = (cursor + 1) % CursorModulus
  BY <1>1 DEF AdvanceCursor
<1>3. Ahead(i)' = (i - 1 - cursor') % n
  BY DEF Ahead
<1>4. Ahead(i) = x % n
  BY DEF Ahead
<1>5. (x - 1) % n = IF x % n = 0 THEN n - 1 ELSE (x % n) - 1
  BY <1>1, ModPred
<1>6. i - 1 - cursor = x /\ Len(pool) = n
  OBVIOUS
<1> HIDE DEF x, n
<1>7. CASE cursor + 1 < CursorModulus
  <2>1. (cursor + 1) % CursorModulus = cursor + 1
    BY <1>1, <1>7
  <2>2. i - 1 - cursor' = x - 1
    BY <1>1, <1>2, <1>6, <2>1
  <2> QED BY <1>3, <1>4, <1>5, <1>6, <2>2
<1>8. CASE cursor + 1 = CursorModulus
  <2>1. (cursor + 1) % CursorModulus = 0
    BY <1>1, <1>8
  <2>2. i - 1 - cursor' = (x - 1) + CursorModulus
    BY <1>1, <1>2, <1>6, <1>8, <2>1
  <2>3. PICK y \in Int : y = x - 1
    BY <1>1
  <2>4. (y + CursorModulus) % n = y % n
    <3>1. CursorModulus \in Int
      BY <1>1
    <3> QED BY <1>1, <3>1, ModShift, Zenon
  <2> QED BY <1>3, <1>4, <1>5, <1>6, <2>2, <2>3, <2>4
<1> QED BY <1>1, <1>7, <1>8

(* Only a scan that begins moves the cursor, and it always does.           *)
LEMMA CursorMoves ==
  ASSUME TypeOK, Next
  PROVE  IF \E r \in Request : Started(r)
           THEN AdvanceCursor /\ pool' = pool /\ enabled' = enabled /\ cool' = cool
           ELSE cursor' = cursor
<1>1. ASSUME NEW r \in Request, Started(r)
      PROVE  AdvanceCursor /\ pool' = pool /\ enabled' = enabled /\ cool' = cool
  BY <1>1, WhichStep DEF StartScan
<1>2. ASSUME NEW r \in Request, Begin(r) \/ Send(r), ~Started(r)
      PROVE  cursor' = cursor
  BY <1>2, StepIs, NilEffect, PickEffect, SkipEffect, AnswerEffect, RefuseEffect
     DEF Begin, Send, Acquire, poolVars
<1>3. Time \/ Admin => cursor' = cursor
  BY TimeEffect, AdminEffect
<1> QED BY <1>1, <1>2, <1>3 DEF Next

(* The scans on their way to an account are finitely many.                 *)
LEMMA HeadedForType ==
  ASSUME NEW i
  PROVE  IsFiniteSet(HeadedFor(i)) /\ Cardinality(HeadedFor(i)) \in Nat
<1>1. IsFiniteSet(HeadedFor(i))
  BY RequestAssumption, FS_Subset DEF HeadedFor
<1> QED BY <1>1, FS_CardinalityType

LEMMA HeadedForType2 ==
  ASSUME NEW i
  PROVE  IsFiniteSet(HeadedFor(i)') /\ Cardinality(HeadedFor(i)') \in Nat
<1>1. IsFiniteSet(HeadedFor(i)')
  BY RequestAssumption, FS_Subset DEF HeadedFor
<1> QED BY <1>1, FS_CardinalityType

(* The bound: one round of the pool, and one more for each of those scans. *)
LEMMA Rounds ==
  ASSUME NEW m \in Nat, NEW c \in Nat, NEW d \in Nat, c <= d
  PROVE  /\ m * (c + 1) \in Nat /\ m * (d + 1) \in Nat
         /\ m <= m * (c + 1)
         /\ m * (c + 1) <= m * (d + 1)
         /\ m * (c + 1) + m = m * ((c + 1) + 1)
  BY SMT

(* Nobody has been passed over at the start.                               *)
LEMMA InitRotationInv == HistoryInit => RotationInv
<1> SUFFICES ASSUME HistoryInit, NEW i \in 1..Len(pool)
             PROVE  /\ missed[pool[i]] + Ahead(i)
                         <= (Len(pool) - 1) * (Cardinality(HeadedFor(i)) + 1)
                    /\ missed[pool[i]] = 0
  BY DEF RotationInv
<1>1. PoolTypeOK
  BY InitTypeOK DEF HistoryInit, TypeOK
<1>2. missed[pool[i]] = 0
  BY <1>1, ElementOfSeq DEF HistoryInit, PoolTypeOK
<1>3. Ahead(i) \in 0..(Len(pool) - 1) /\ Len(pool) - 1 \in Nat
  BY <1>1, AheadType, LenProperties DEF PoolTypeOK
<1> DEFINE m == Len(pool) - 1
           c == Cardinality(HeadedFor(i))
<1>4. m \in Nat /\ c \in Nat /\ c <= c
  BY <1>3, HeadedForType
<1> HIDE DEF m, c
<1>5. m <= m * (c + 1) /\ m * (c + 1) \in Nat
  BY <1>4, Rounds
<1>6. Ahead(i) <= m * (c + 1)
  BY <1>3, <1>4, <1>5 DEF m
<1> QED BY <1>2, <1>3, <1>6 DEF m, c

(* A scan on its way to an eligible account is still on its way after a    *)
(* step that does not hand the account out.                                *)
LEMMA HeadedForStays ==
  ASSUME TypeOK, Next, pool' = pool, NEW i \in 1..Len(pool), Eligible(pool[i]),
         ~HandsOut(pool[i])
  PROVE  HeadedFor(i) \subseteq HeadedFor(i)'
<1> SUFFICES ASSUME NEW r \in HeadedFor(i) PROVE r \in HeadedFor(i)'
  OBVIOUS
<1>1. /\ r \in Request /\ req[r].pc = "scan" /\ req[r].start = i - 1 /\ req[r].i = 0
      /\ pool[i] \notin req[r].ended /\ req[r] \in Locals /\ PoolTypeOK
  BY DEF HeadedFor, TypeOK
<1>2. Looked(r) = pool[i] /\ MayTake(r)
  BY <1>1, FirstLook DEF Looked, MayTake
<1>3. ~PickAccount(r)
  BY <1>1, <1>2, PickEffect, StepIs DEF HandsOut
<1>4. ~SkipAccount(r) /\ ~PickNone(r)
  BY <1>2 DEF SkipAccount, PickNone
<1>5. ~Begin(r) /\ ~ScanNothing(r) /\ ~StartScan(r) /\ ~AnswerFinal(r)
      /\ ~AnswerFailed(r) /\ ~AnswerRateLimited(r) /\ ~Refuse(r)
  BY <1>1 DEF Begin, ScanNothing, StartScan, AnswerFinal, AnswerFailed,
              AnswerRateLimited, Refuse
<1>6. /\ req'[r].pc = "scan" /\ req'[r].start = i - 1 /\ req'[r].i = 0
      /\ pool[i] \notin req'[r].ended
  <2>1. CASE req'[r] = req[r]
    BY <1>1, <2>1
  <2>2. CASE req'[r] = [req[r] EXCEPT !.ended = @ \cup {a \in Unseen(r) : cool[a] = 1}]
    <3>1. cool[pool[i]] # 1
      BY DEF Eligible
    <3> QED BY <1>1, <2>2, <3>1 DEF Locals
  <2> QED BY <1>1, <1>3, <1>4, <1>5, <2>1, <2>2, WhoStepped DEF Send, Acquire
<1> QED BY <1>1, <1>6 DEF HeadedFor

(* One step of one account's share of the invariant: the account stays     *)
(* eligible and is not handed out.                                         *)
LEMMA RotationStep ==
  ASSUME HistoryTypeOK, RotationInv, Next, HistoryStep, pool' = pool,
         NEW i \in 1..Len(pool), Eligible(pool[i]), Eligible(pool[i])',
         ~HandsOut(pool[i])
  PROVE  missed'[pool[i]] + Ahead(i)'
           <= (Len(pool) - 1) * (Cardinality(HeadedFor(i)') + 1)
<1> DEFINE m == Len(pool) - 1
           c == Cardinality(HeadedFor(i))
           d == Cardinality(HeadedFor(i)')
           a == pool[i]
<1>1. TypeOK /\ PoolTypeOK /\ m \in Nat /\ a \in Account /\ a \in InPool
  BY LenProperties, ElementOfSeq DEF HistoryTypeOK, TypeOK, PoolTypeOK, InPool
<1>2. HeadedFor(i) \subseteq HeadedFor(i)'
  BY <1>1, HeadedForStays
<1>3. c \in Nat /\ d \in Nat /\ c <= d
  BY <1>2, HeadedForType, HeadedForType2, FS_Subset
<1>4. missed[a] + Ahead(i) <= m * (c + 1) /\ missed[a] \in Nat /\ Ahead(i) \in 0..m
  BY <1>1, AheadType DEF RotationInv, HistoryTypeOK
<1>5. missed'[a] = IF PassesOver(a) THEN missed[a] + 1 ELSE missed[a]
  BY <1>1 DEF HistoryStep
<1>6. /\ m * (c + 1) \in Nat /\ m * (d + 1) \in Nat /\ m * (c + 1) <= m * (d + 1)
      /\ m * (c + 1) + m = m * ((c + 1) + 1)
  <2> HIDE DEF m, c, d
  <2> QED BY <1>1, <1>3, Rounds
<1>7. CASE ~\E r \in Request : Started(r)
  <2>1. Ahead(i)' = Ahead(i)
    BY <1>1, <1>7, CursorMoves DEF Ahead
  <2>2. missed'[a] = missed[a]
    BY <1>5, <1>7 DEF PassesOver
  <2> HIDE DEF m, c, d, a
  <2>3. missed'[a] + Ahead(i)' <= m * (d + 1)
    BY <1>4, <1>6, <2>1, <2>2
  <2> QED BY <2>3 DEF m, d, a
<1>8. ASSUME NEW r \in Request, Started(r)
      PROVE  missed'[a] + Ahead(i)' <= m * (d + 1)
  <2>1. Ahead(i)' = IF Ahead(i) = 0 THEN Len(pool) - 1 ELSE Ahead(i) - 1
    BY <1>1, <1>8, CursorMoves, AheadStep
  <2>2. CASE Ahead(i) # 0
    <3>1. Ahead(i)' = Ahead(i) - 1
      BY <2>1, <2>2
    <3> HIDE DEF m, c, d, a
    <3> QED BY <1>4, <1>5, <1>6, <2>2, <3>1
  <2>3. CASE Ahead(i) = 0
    <3>1. StartScan(r)
      BY <1>1, <1>8, WhichStep
    <3>2. /\ req[r].pc = "acquire" /\ req'[r].pc = "scan" /\ req'[r].start = i - 1
          /\ req'[r].i = 0 /\ req'[r].ended = {}
          /\ \A s \in Request \ {r} : req'[s] = req[s]
      BY <1>1, <2>3, <3>1, StartEffect, StartsAhead
    <3>3. ~PassesOver(a)
      <4>1. Slot(req'[r].start, 0) = a
        BY <1>1, <3>2, FirstLook
      <4>2. \A s \in Request : Started(s) => s = r
        BY <3>2 DEF Started
      <4> QED BY <4>1, <4>2 DEF PassesOver
    <3>4. r \in HeadedFor(i)' /\ r \notin HeadedFor(i)
      BY <3>2 DEF HeadedFor
    <3>5. c + 1 <= d
      <4>1. /\ IsFiniteSet(HeadedFor(i))
            /\ Cardinality(HeadedFor(i) \cup {r}) = c + 1
        BY <3>4, HeadedForType, FS_AddElement
      <4>2. HeadedFor(i) \cup {r} \subseteq HeadedFor(i)'
        BY <1>2, <3>4
      <4> QED BY <4>1, <4>2, HeadedForType2, FS_Subset
    <3>6. Ahead(i)' = m
      BY <2>1, <2>3
    <3> HIDE DEF m, c, d, a
    <3>7. m * ((c + 1) + 1) <= m * (d + 1)
      BY <1>1, <1>3, <3>5, Rounds
    <3>8. missed'[a] = missed[a]
      BY <1>5, <3>3
    <3> QED BY <1>1, <1>4, <1>6, <2>3, <3>6, <3>7, <3>8
  <2> QED BY <2>2, <2>3
<1> QED BY <1>7, <1>8

(* Every step keeps the rotation invariant.                                *)
LEMMA StepRotationInv ==
  HistoryTypeOK /\ RotationInv /\ [Next /\ HistoryStep]_allVars => RotationInv'
<1> SUFFICES ASSUME HistoryTypeOK, RotationInv, [Next /\ HistoryStep]_allVars
             PROVE  RotationInv'
  OBVIOUS
<1>1. PoolTypeOK /\ PoolTypeOK' /\ TypeOK
  BY StepTypeOK DEF HistoryTypeOK, TypeOK, allVars, vars
<1>2. CASE UNCHANGED allVars
  BY <1>2 DEF allVars, RotationInv, Ahead, HeadedFor, Eligible
<1>3. CASE Next /\ HistoryStep
  <2> SUFFICES ASSUME NEW i \in 1..Len(pool')
               PROVE  /\ missed'[pool'[i]] + Ahead(i)'
                           <= (Len(pool') - 1) * (Cardinality(HeadedFor(i)') + 1)
                      /\ ~Eligible(pool[i])' => missed'[pool'[i]] = 0
    BY DEF RotationInv
  <2>1. pool'[i] \in Account /\ Len(pool') \in Nat
    BY <1>1, ElementOfSeq, LenProperties DEF PoolTypeOK
  <2>2. Ahead(i)' \in 0..(Len(pool') - 1)
    <3>1. i - 1 - cursor' \in Int /\ Len(pool') \in Nat \ {0}
      BY <1>1, <2>1 DEF PoolTypeOK
    <3> QED BY <3>1, DivMod, Zenon DEF Ahead
  <2>3. ~Eligible(pool[i])' => missed'[pool'[i]] = 0
    BY <1>3, <2>1, MissedEffect DEF Eligible
  <2>4. CASE missed'[pool'[i]] = 0
    <3> DEFINE m == Len(pool') - 1
               d == Cardinality(HeadedFor(i)')
    <3>1. m \in Nat /\ d \in Nat /\ d <= d
      BY <2>1, <2>2, HeadedForType2
    <3>2. Ahead(i)' \in 0..m
      BY <2>2
    <3> HIDE DEF m, d
    <3>3. m <= m * (d + 1) /\ m * (d + 1) \in Nat
      BY <3>1, Rounds
    <3>4. missed'[pool'[i]] + Ahead(i)' <= m * (d + 1)
      BY <2>4, <3>1, <3>2, <3>3
    <3> QED BY <2>3, <3>4 DEF m, d
  <2>5. CASE missed'[pool'[i]] # 0
    <3>1. pool' = pool /\ Eligible(pool[i])' /\ ~HandsOut(pool[i])
      BY <1>3, <2>1, <2>5, MissedEffect DEF Eligible
    <3>2. Eligible(pool[i])
      <4>1. ASSUME ~Eligible(pool[i]) PROVE FALSE
        <5>1. missed[pool[i]] = 0
          BY <3>1, <4>1 DEF RotationInv
        <5>2. \E r \in Request : Started(r)
          BY <1>3, <2>1, <2>5, <3>1, <5>1, MissedEffect DEF PassesOver
        <5>3. enabled' = enabled /\ cool' = cool
          BY <1>1, <1>3, <5>2, CursorMoves
        <5> QED BY <3>1, <4>1, <5>3 DEF Eligible
      <4> QED BY <4>1
    <3> QED BY <1>3, <2>3, <3>1, <3>2, RotationStep
  <2> QED BY <2>4, <2>5
<1> QED BY <1>2, <1>3

(* The rotation invariant implies the bound.                               *)
LEMMA RotationInvBounds == HistoryTypeOK /\ RotationInv => RotationBound
<1> SUFFICES ASSUME HistoryTypeOK, RotationInv, NEW i \in DOMAIN pool
             PROVE  missed[pool[i]]
                      <= (Len(pool) - 1) * (Cardinality(HeadedFor(i)) + 1)
  BY DEF RotationBound
<1>1. PoolTypeOK /\ i \in 1..Len(pool)
  BY LenProperties DEF HistoryTypeOK, TypeOK, PoolTypeOK
<1>2. Ahead(i) \in 0..(Len(pool) - 1) /\ missed[pool[i]] \in Nat /\ Len(pool) - 1 \in Nat
  BY <1>1, AheadType, ElementOfSeq, LenProperties DEF PoolTypeOK, HistoryTypeOK
<1> DEFINE b == (Len(pool) - 1) * (Cardinality(HeadedFor(i)) + 1)
<1>3. missed[pool[i]] + Ahead(i) <= b
  BY <1>1 DEF RotationInv
<1>4. b \in Nat
  <2> DEFINE m == Len(pool) - 1
             c == Cardinality(HeadedFor(i))
  <2>1. m \in Nat /\ c \in Nat /\ c <= c
    BY <1>2, HeadedForType
  <2> HIDE DEF m, c
  <2>2. m * (c + 1) \in Nat
    BY <2>1, Rounds
  <2> QED BY <2>2 DEF m, c
<1> HIDE DEF b
<1>5. missed[pool[i]] <= b
  BY <1>2, <1>3, <1>4
<1> QED BY <1>5 DEF b

(* An account that stays eligible is handed out before more than one round *)
(* of scans has passed it over, and one more for every scan that is on its *)
(* way to it, for every pool, every number of concurrent requests and      *)
(* every interleaving of theirs with the clock and the console             *)
(* (AccountPool.Acquire).                                                  *)
THEOREM RotationIsFair == HistorySpec => []RotationBound
<1> QED BY InitRotationInv, StepRotationInv, RotationInvBounds,
           HistoryTypeCorrect, PTL DEF HistorySpec

----------------------------------------------------------------------------
(* Who is to blame.                                                        *)

(* A tick while s scans.                                                   *)
TickedOver(s) ==
  /\ Time /\ req[s].pc = "scan"
  /\ req'[s] = [req[s] EXCEPT !.ended = @ \cup {a \in Unseen(s) : cool[a] = 1}]

(* It leaves everything but ended.                                         *)
LEMMA TickedLocals ==
  ASSUME TypeOK, NEW s \in Request, TickedOver(s)
  PROVE  /\ req'[s].pc = req[s].pc /\ req'[s].last = req[s].last
         /\ req'[s].acct = req[s].acct /\ req'[s].budget = req[s].budget
         /\ req'[s].start = req[s].start /\ req'[s].i = req[s].i
         /\ req'[s].ended = req[s].ended \cup {a \in Unseen(s) : cool[a] = 1}
<1>1. req[s] \in Locals
  BY DEF TypeOK
<1> QED BY <1>1 DEF TickedOver, Locals

(* A request that takes no step keeps its history, and so its blame.       *)
LEMMA BlameStands ==
  ASSUME TypeOK, HistoryStep, NEW s \in Request, Blame(s),
         req'[s] = req[s] \/ TickedOver(s)
  PROVE  Blame(s)'
<1>1. /\ req'[s].pc = req[s].pc /\ req'[s].last = req[s].last
      /\ req'[s].acct = req[s].acct
  BY TickedLocals
<1>2. tried'[s] = tried[s]
  BY <1>1 DEF HistoryStep, Began, Picked, Scanned, TickedOver
<1> QED BY <1>1, <1>2 DEF Blame

(* A step that neither begins a request nor picks for it leaves tried.     *)
LEMMA TriedStands ==
  ASSUME HistoryStep, NEW r \in Request, req[r].pc \notin {"idle", "done"},
         req[r].pc # "scan" \/ req'[r].pc # "send"
  PROVE  tried'[r] = tried[r]
  BY DEF HistoryStep, Began, Picked, Scanned

(* A step of r itself keeps what is known about r's result.                *)
LEMMA BlameOfOwn ==
  ASSUME TypeOK, HistoryStep, NEW r \in Request, Blame(r), Begin(r) \/ Send(r)
  PROVE  Blame(r)'
<1> USE DEF Blame
<1>1. CASE req'[r] = req[r]
  BY <1>1, BlameStands
<1>2. CASE Begin(r) /\ req'[r] # req[r]
  <2>1. tried'[r] = {}
    BY <1>2, BeginEffect DEF HistoryStep, Began, Picked, Scanned
  <2>2. \/ /\ req'[r].last \in {"invalid", "no_accounts"}
           /\ req'[r].pc = "done" /\ req'[r].acct = NoAccount
        \/ req'[r].pc = "acquire" /\ req'[r].last = "none"
    BY <1>2, BeginEffect
  <2> QED BY <2>1, <2>2 DEF FailoverKinds, FinalKinds, GatewayKinds
<1>3. CASE StartScan(r) \/ SkipAccount(r)
  <2>1. /\ req[r].pc \in {"acquire", "scan"} /\ req'[r].pc = "scan"
        /\ req'[r].last = req[r].last /\ req'[r].acct = req[r].acct
    BY <1>3, StartEffect, SkipEffect
  <2>2. tried'[r] = tried[r]
    BY <2>1, TriedStands
  <2> QED BY <2>1, <2>2 DEF FailoverKinds, FinalKinds, GatewayKinds
<1>4. CASE PickAccount(r)
  <2>1. /\ req[r].pc = "scan" /\ req'[r].pc = "send" /\ req'[r].last = req[r].last
    BY <1>4, PickEffect
  <2>2. tried'[r] = tried[r] \cup {req'[r].acct}
    BY <2>1 DEF HistoryStep, Began, Picked, Scanned
  <2> QED BY <2>1, <2>2 DEF FailoverKinds, FinalKinds, GatewayKinds
<1>5. CASE ScanNothing(r) \/ PickNone(r)
  <2>1. /\ req[r].pc \in {"acquire", "scan"}
        /\ \/ /\ req[r].last # "none" /\ req'[r].pc = "done"
              /\ req'[r].last = req[r].last /\ req'[r].acct = req[r].acct
           \/ req[r].last = "none" /\ req'[r].pc = "refuse" /\ req'[r].last = "none"
    BY <1>5, NilEffect
  <2>2. tried'[r] = tried[r]
    BY <2>1, TriedStands
  <2> QED BY <2>1, <2>2 DEF FailoverKinds, FinalKinds, GatewayKinds
<1>6. CASE AnswerFinal(r) \/ AnswerFailed(r) \/ AnswerRateLimited(r)
  <2>1. /\ req[r].pc = "send" /\ req'[r].acct = req[r].acct
        /\ \/ req'[r].pc = "done" /\ req'[r].last \in FailoverKinds \cup FinalKinds
           \/ req'[r].pc = "acquire" /\ req'[r].last \in FailoverKinds
    BY <1>6, AnswerEffect
  <2>2. tried'[r] = tried[r]
    BY <2>1, TriedStands
  <2> QED BY <2>1, <2>2 DEF FailoverKinds, FinalKinds, GatewayKinds
<1>7. CASE Refuse(r)
  <2>1. /\ req[r].pc = "refuse" /\ req'[r].acct = NoAccount
        /\ req'[r].pc = "done" /\ req'[r].last = "refused"
    BY <1>7, RefuseEffect
  <2>2. tried'[r] = tried[r]
    BY <2>1, TriedStands
  <2> QED BY <2>1, <2>2 DEF FailoverKinds, FinalKinds, GatewayKinds
<1> QED BY <1>1, <1>2, <1>3, <1>4, <1>5, <1>6, <1>7 DEF Send, Acquire

(* No request has a result at the start.                                   *)
LEMMA InitBlameInv == HistoryInit => BlameInv
  BY DEF Init, HistoryInit, BlameInv, Blame, NewRequest, FailoverKinds, FinalKinds,
         GatewayKinds

(* Every step keeps the blame invariant.                                   *)
LEMMA StepBlameInv ==
  HistoryTypeOK /\ BlameInv /\ [Next /\ HistoryStep]_allVars => BlameInv'
<1> SUFFICES ASSUME HistoryTypeOK, BlameInv, [Next /\ HistoryStep]_allVars
             PROVE  BlameInv'
  OBVIOUS
<1>1. CASE UNCHANGED allVars
  BY <1>1 DEF allVars, BlameInv, Blame
<1>2. CASE Next /\ HistoryStep
  <2> SUFFICES ASSUME NEW s \in Request PROVE Blame(s)'
    BY DEF BlameInv
  <2>1. Blame(s) /\ TypeOK
    BY DEF BlameInv, HistoryTypeOK
  <2>2. Begin(s) \/ Send(s) \/ req'[s] = req[s] \/ TickedOver(s)
    BY <1>2, <2>1, WhoStepped DEF TickedOver
  <2> QED BY <1>2, <2>1, <2>2, BlameOfOwn, BlameStands
<1> QED BY <1>1, <1>2

(* Usage and errors are charged to an account the request was really sent  *)
(* to, and the gateway answers by itself only for a request no account has *)
(* seen: the result of CCClient.Send, for any number of accounts and of    *)
(* concurrent requests.                                                    *)
THEOREM BlameIsRealHolds == HistorySpec => []BlameIsReal
<1>1. BlameInv => BlameIsReal
  BY DEF BlameInv, Blame, BlameIsReal
<1> QED BY <1>1, InitBlameInv, StepBlameInv, HistoryTypeCorrect, PTL DEF HistorySpec

----------------------------------------------------------------------------
(* The request nothing interferes with.                                    *)

(* A scan begins at exactly one account of the pool.                       *)
LEMMA ScanStarts ==
  ASSUME PoolTypeOK, pool # <<>>
  PROVE  LET i == (cursor % Len(pool)) + 1
         IN  /\ i \in 1..Len(pool) /\ Ahead(i) = 0
             /\ \A k \in 1..Len(pool) : Ahead(k) = 0 => k = i
<1> DEFINE n == Len(pool)
           q == cursor \div n
           m == cursor % n
<1>1. n \in Nat \ {0} /\ cursor \in Int
  BY PoolSize DEF PoolTypeOK
<1>2. q \in Int /\ m \in 0..(n - 1) /\ cursor = n * q + m
  BY <1>1, DivMod, Zenon
<1>3. Ahead(m + 1) = 0
  <2>1. PICK k \in Int : k = 0 - q
    BY <1>2
  <2>2. n * k \in Int /\ (n * k) % n = 0
    BY <1>1, ModMultiple, Zenon
  <2>3. (m + 1) - 1 - cursor = n * k
    BY <1>1, <1>2, <2>1
  <2> QED BY <2>2, <2>3 DEF Ahead
<1>4. ASSUME NEW k \in 1..n, Ahead(k) = 0 PROVE k = m + 1
  <2>1. PICK j \in 0..(n - 1) : j = k - 1
    BY <1>1
  <2>2. j \in Int /\ (j - cursor) % n = 0
    BY <1>4, <2>1 DEF Ahead
  <2>3. m = j
    BY <1>1, <2>1, <2>2, ModZero
  <2> QED BY <2>1, <2>3
<1>5. m + 1 \in 1..Len(pool)
  BY <1>1, <1>2
<1> QED BY <1>3, <1>4, <1>5

(* The pool has as many members as places.                                 *)
LEMMA PoolMembers ==
  ASSUME PoolTypeOK
  PROVE  /\ IsFiniteSet(InPool)
         /\ Cardinality(InPool) = Len(pool)
<1>1. Len(pool) \in Nat /\ DOMAIN pool = 1..Len(pool)
  BY LenProperties DEF PoolTypeOK
<1>2. pool \in Bijection(1..Len(pool), InPool)
  BY <1>1 DEF PoolTypeOK, InPool, Bijection, Injection, Surjection, IsInjective
<1>3. IsFiniteSet(1..Len(pool))
  BY <1>1, FS_Interval
<1>4. Cardinality(1..Len(pool)) = Len(pool)
  <2>1. Cardinality(1..Len(pool)) = IF 1 > Len(pool) THEN 0 ELSE Len(pool) - 1 + 1
    BY <1>1, FS_Interval
  <2> QED BY <1>1, <2>1
<1>5. ExistsBijection(1..Len(pool), InPool)
  BY <1>2 DEF ExistsBijection
<1> QED BY <1>3, <1>4, <1>5, FS_Bijection

(* Nothing that r does not feel touches what it has left to try: only an   *)
(* answer starts a cooldown, and only the console edits the pool.          *)
LEMMA UndisturbedPool ==
  ASSUME TypeOK, Next, NEW r \in Request, ~Disturbed(r),
         req'[r] = req[r] \/ TickedOver(r)
  PROVE  /\ pool' = pool
         /\ cursor' = cursor
         /\ \A a \in Account : Eligible(a) => Eligible(a)'
<1>1. pool' = pool /\ enabled' = enabled
  BY DEF Disturbed
<1>2. ~Started(r)
  BY DEF Started, TickedOver
<1>3. cursor' = cursor
  BY <1>2, CursorMoves DEF Disturbed
<1>4. \A a \in Account : cool[a] = 0 => cool'[a] = 0
  <2>1. ASSUME NEW s \in Request,
               AnswerFinal(s) \/ AnswerFailed(s) \/ AnswerRateLimited(s)
        PROVE  FALSE
    <3>1. req[s].pc = "send" /\ req'[s].pc \in {"done", "acquire"}
      BY <2>1, AnswerEffect
    <3> QED BY <3>1 DEF Disturbed, TickedOver
  <2>2. ASSUME NEW s \in Request, Begin(s) \/ Acquire(s) \/ Refuse(s)
        PROVE  cool' = cool
    BY <2>2 DEF Begin, Acquire, ScanNothing, StartScan, PickAccount, SkipAccount, PickNone,
                Refuse, poolVars
  <2>3. Admin => cool' = cool
    BY <1>1, AdminEffect
  <2> QED BY <2>1, <2>2, <2>3, TimeEffect DEF Next, Send
<1> QED BY <1>1, <1>3, <1>4 DEF Eligible

(* A step that r neither takes nor feels keeps what is known about it.     *)
LEMMA LoneStands ==
  ASSUME TypeOK, Next, HistoryStep, NEW r \in Request,
         ~Disturbed(r), req'[r] = req[r] \/ TickedOver(r), Lone(r)
  PROVE  Lone(r)'
<1>1. /\ pool' = pool
      /\ cursor' = cursor
      /\ \A a \in Account : Eligible(a) => Eligible(a)'
  BY UndisturbedPool
<1>2. /\ req'[r].pc = req[r].pc /\ req'[r].last = req[r].last
      /\ req'[r].budget = req[r].budget
      /\ req'[r].start = req[r].start /\ req'[r].i = req[r].i
      /\ \A a \in req'[r].ended : a \in req[r].ended \/ cool[a] = 1
  BY TickedLocals
<1>3. tried'[r] = tried[r]
  BY <1>2 DEF HistoryStep, Began, Picked, Scanned, TickedOver
<1>4. \A i \in 1..Len(pool) : pool[i] \in Account /\ Ahead(i)' = Ahead(i)
  BY <1>1, ElementOfSeq DEF TypeOK, PoolTypeOK, Ahead
<1>5. Untried(r)' = Untried(r) /\ InPool' = InPool
  BY <1>1, <1>2 DEF Untried, InPool
<1>6. \A i \in 1..Len(pool) : LeftToTry(r, pool[i]) => LeftToTry(r, pool[i])'
  BY <1>1, <1>3, <1>4 DEF LeftToTry
<1>7. RoundThePool(r) => RoundThePool(r)'
  <2> SUFFICES ASSUME RoundThePool(r) PROVE RoundThePool(r)'
    OBVIOUS
  <2>1. \A i \in 1..Len(pool)' :
          IF Ahead(i)' < Untried(r)' \/ (req'[r].pc = "scan" /\ i = req'[r].start + 1)
            THEN LeftToTry(r, pool[i])'
            ELSE pool'[i] \in tried'[r]
    BY <1>1, <1>2, <1>3, <1>4, <1>5, <1>6 DEF RoundThePool
  <2>2. req'[r].pc = "scan" => req'[r].i = 0
    BY <1>2 DEF RoundThePool
  <2>3. ASSUME NEW i \in 1..Len(pool), req'[r].pc = "scan", i = req'[r].start + 1
        PROVE  pool[i] \notin req'[r].ended /\ Ahead(i)' >= Untried(r)'
    <3>1. /\ pool[i] \notin req[r].ended /\ Ahead(i) >= Untried(r)
          /\ LeftToTry(r, pool[i])
      BY <1>2, <2>3 DEF RoundThePool
    <3>2. cool[pool[i]] # 1
      BY <3>1 DEF LeftToTry, Eligible
    <3> QED BY <1>2, <1>4, <1>5, <3>1, <3>2
  <2>4. /\ req'[r].budget \in 1..Len(pool)
        /\ tried'[r] \subseteq InPool
        /\ Cardinality(tried'[r]) =
             Len(pool) - (IF req'[r].pc = "send" THEN req'[r].budget - 1
                                                 ELSE req'[r].budget)
    BY <1>2, <1>3 DEF RoundThePool
  <2> QED BY <1>1, <1>5, <2>1, <2>2, <2>3, <2>4 DEF RoundThePool
<1> QED BY <1>2, <1>3, <1>5, <1>7 DEF Lone

(* A request that begins while every account is eligible has them all      *)
(* before it.                                                              *)
LEMMA LoneBegins ==
  ASSUME TypeOK, HistoryStep, NEW r \in Request, Began(r), Begin(r),
         \A a \in InPool : Eligible(a)
  PROVE  Lone(r)'
<1>1. PoolTypeOK
  BY DEF TypeOK
<1>2. pool' = pool /\ cursor' = cursor /\ enabled' = enabled /\ cool' = cool
  BY DEF Begin, poolVars
<1>3. tried'[r] = {}
  BY DEF HistoryStep, Began, Picked, Scanned
<1>4. CASE req'[r].pc = "done" /\ req'[r].last \in {"invalid", "no_accounts"}
  BY <1>4 DEF Lone, FailoverKinds
<1>5. CASE /\ req'[r].pc = "acquire"
           /\ req'[r].budget = EnabledCount
           /\ EnabledCount > 0
  <2>1. EnabledCount = Len(pool)
    <3>1. {a \in InPool : enabled[a]} = InPool
      BY DEF Eligible
    <3> QED BY <1>1, <3>1, PoolMembers DEF EnabledCount
  <2>2. Len(pool) \in Nat /\ Len(pool) > 0
    BY <1>1, <1>5, <2>1, LenProperties DEF PoolTypeOK
  <2>3. Untried(r)' = Len(pool)
    BY <1>5, <2>1 DEF Untried
  <2>4. Cardinality({}) = 0
    BY FS_EmptySet
  <2>5. ASSUME NEW i \in 1..Len(pool)
        PROVE  Ahead(i)' < Untried(r)' /\ LeftToTry(r, pool[i])'
    <3>1. Ahead(i)' = Ahead(i)
      BY <1>2 DEF Ahead
    <3>2. Ahead(i) < Len(pool)
      BY <1>1, <2>2, AheadType
    <3>3. pool[i] \in InPool
      BY <1>1 DEF InPool, PoolTypeOK
    <3> QED BY <1>2, <1>3, <2>3, <3>1, <3>2, <3>3 DEF Eligible, LeftToTry
  <2>6. RoundThePool(r)'
    BY <1>2, <1>3, <1>5, <2>1, <2>2, <2>3, <2>4, <2>5 DEF RoundThePool
  <2> QED BY <1>5, <2>6 DEF Lone
<1> QED BY <1>4, <1>5, BeginEffect

(* The scan of a lone request begins at an account it has left to try.     *)
LEMMA LoneStarts ==
  ASSUME TypeOK, HistoryStep, NEW r \in Request, Lone(r), StartScan(r)
  PROVE  Lone(r)'
<1>1. PoolTypeOK /\ RoundThePool(r) /\ pool # <<>>
  BY DEF TypeOK, Lone, StartScan
<1>2. /\ req[r].pc = "acquire" /\ req'[r].pc = "scan"
      /\ req'[r].start = cursor % Len(pool) /\ req'[r].i = 0 /\ req'[r].ended = {}
      /\ req'[r].budget = req[r].budget
  BY StartEffect
<1>3. PICK i \in 1..Len(pool) :
        /\ i = (cursor % Len(pool)) + 1 /\ Ahead(i) = 0
        /\ \A k \in 1..Len(pool) : Ahead(k) = 0 => k = i
  BY <1>1, ScanStarts
<1>4. pool' = pool /\ enabled' = enabled /\ cool' = cool /\ AdvanceCursor
  BY DEF StartScan
<1>5. tried'[r] = tried[r]
  BY <1>2, TriedStands
<1>6. /\ req[r].budget \in 1..Len(pool) /\ Len(pool) \in Nat
      /\ Untried(r) = req[r].budget /\ Untried(r)' = req[r].budget - 1
  BY <1>1, <1>2, LenProperties DEF RoundThePool, Untried, PoolTypeOK
<1>7. req'[r].start + 1 = i
  BY <1>2, <1>3
<1>8. ASSUME NEW k \in 1..Len(pool)
      PROVE  /\ Ahead(k)' = IF k = i THEN Len(pool) - 1 ELSE Ahead(k) - 1
             /\ Ahead(k) \in 0..(Len(pool) - 1)
             /\ LeftToTry(r, pool[k])' = LeftToTry(r, pool[k])
             /\ IF Ahead(k) < req[r].budget
                  THEN LeftToTry(r, pool[k]) ELSE pool[k] \in tried[r]
  <2>1. Ahead(k)' = IF Ahead(k) = 0 THEN Len(pool) - 1 ELSE Ahead(k) - 1
    BY <1>1, <1>4, AheadStep
  <2>2. Ahead(k) \in 0..(Len(pool) - 1)
    BY <1>1, AheadType
  <2>3. LeftToTry(r, pool[k])' = LeftToTry(r, pool[k])
    BY <1>4, <1>5 DEF LeftToTry, Eligible
  <2> QED BY <1>1, <1>2, <1>3, <1>6, <2>1, <2>2, <2>3 DEF RoundThePool
<1>9. ASSUME NEW k \in 1..Len(pool)
      PROVE  IF Ahead(k)' < req[r].budget - 1 \/ k = i
               THEN LeftToTry(r, pool[k])' ELSE pool[k] \in tried'[r]
  <2>1. CASE k = i
    BY <1>3, <1>6, <1>8, <2>1
  <2>2. CASE k # i
    BY <1>5, <1>6, <1>8, <2>2
  <2> QED BY <2>1, <2>2
<1>10. Ahead(i)' >= Untried(r)'
  BY <1>3, <1>6, <1>8
<1>11. RoundThePool(r)'
  <2>1. InPool' = InPool
    BY <1>4 DEF InPool
  <2>2. Cardinality(tried'[r]) = Len(pool) - req[r].budget /\ tried[r] \subseteq InPool
    BY <1>1, <1>2, <1>5 DEF RoundThePool
  <2>3. \A k \in 1..Len(pool) : k = req'[r].start + 1 <=> k = i
    BY <1>7
  <2> QED BY <1>2, <1>4, <1>5, <1>6, <1>9, <1>10, <2>1, <2>2, <2>3 DEF RoundThePool
<1> QED BY <1>2, <1>11 DEF Lone

(* One more account has been tried when the scan has handed it out.        *)
LEMMA LonePicks ==
  ASSUME TypeOK, HistoryStep, NEW r \in Request, Lone(r), PickAccount(r)
  PROVE  Lone(r)'
<1> DEFINE i == req[r].start + 1
           a == pool[i]
<1>1. /\ req[r] \in Locals /\ PoolTypeOK /\ req[r].pc = "scan"
      /\ req'[r].pc = "send" /\ req'[r].acct = Looked(r) /\ req'[r].budget = req[r].budget
      /\ pool' = pool /\ enabled' = enabled /\ cool' = cool /\ cursor' = cursor
  BY PickEffect DEF TypeOK, poolVars
<1>2. RoundThePool(r)
  BY <1>1 DEF Lone
<1>3. i \in 1..Len(pool) /\ Len(pool) \in Nat
  <2>1. req[r].start \in Nat /\ req[r].start < Len(pool) /\ Len(pool) \in Nat
    BY <1>1, LenProperties DEF TypeOK, Locals, ScanLocals, PoolTypeOK
  <2> QED BY <2>1
<1>4. /\ req[r].i = 0 /\ Ahead(i) >= Untried(r) /\ LeftToTry(r, a)
  BY <1>1, <1>2, <1>3 DEF RoundThePool
<1>5. req'[r].acct = a
  <2>1. Slot(i - 1, 0) = a
    BY <1>1, <1>3, FirstLook
  <2>2. req[r].start = i - 1
    BY <1>1 DEF Locals
  <2> QED BY <1>1, <1>4, <2>1, <2>2 DEF Looked
<1>6. tried'[r] = tried[r] \cup {a}
  BY <1>1, <1>5 DEF HistoryStep, Began, Picked, Scanned
<1>7. a \in InPool
  BY <1>1, <1>3 DEF InPool, PoolTypeOK
<1>8. /\ req[r].budget \in 1..Len(pool)
      /\ Untried(r) = req[r].budget - 1 /\ Untried(r)' = req[r].budget - 1
  BY <1>1, <1>2 DEF RoundThePool, Untried
<1>9. Cardinality(tried'[r]) = Len(pool) - (req[r].budget - 1)
  <2>1. IsFiniteSet(tried[r])
    BY <1>1, <1>2, PoolMembers, FS_Subset DEF RoundThePool
  <2>2. Cardinality(tried[r] \cup {a}) = Cardinality(tried[r]) + 1
    BY <1>4, <2>1, FS_AddElement DEF LeftToTry
  <2>3. Cardinality(tried[r]) = Len(pool) - req[r].budget
    BY <1>1, <1>2 DEF RoundThePool
  <2> QED BY <1>3, <1>6, <1>8, <2>2, <2>3
<1>10. ASSUME NEW k \in 1..Len(pool)
       PROVE  IF Ahead(k)' < req[r].budget - 1
                THEN LeftToTry(r, pool[k])' ELSE pool[k] \in tried'[r]
  <2>1. Ahead(k)' = Ahead(k) /\ Ahead(k) \in 0..(Len(pool) - 1)
    BY <1>1, AheadType DEF Ahead
  <2>2. CASE k = i
    BY <1>4, <1>6, <1>8, <2>1, <2>2
  <2>3. CASE k # i
    <3>1. pool[k] # a
      BY <1>1, <1>3, <2>3 DEF PoolTypeOK, IsInjective
    <3>2. IF Ahead(k) < req[r].budget - 1
            THEN LeftToTry(r, pool[k]) ELSE pool[k] \in tried[r]
      BY <1>2, <1>8, <2>3 DEF RoundThePool
    <3> QED BY <1>1, <1>6, <2>1, <3>1, <3>2 DEF LeftToTry, Eligible
  <2> QED BY <2>2, <2>3
<1>11. RoundThePool(r)'
  <2>1. InPool' = InPool /\ tried'[r] \subseteq InPool
    BY <1>1, <1>2, <1>6, <1>7 DEF InPool, RoundThePool
  <2> HIDE DEF i, a
  <2> QED BY <1>1, <1>8, <1>9, <1>10, <2>1 DEF RoundThePool
<1> QED BY <1>1, <1>11 DEF Lone

(* The first account a lone request looks at is handed out.                *)
LEMMA LoneTakes ==
  ASSUME TypeOK, NEW r \in Request, Lone(r), req[r].pc = "scan"
  PROVE  MayTake(r)
<1>1. RoundThePool(r) /\ PoolTypeOK
  BY DEF Lone, TypeOK
<1>2. /\ req[r].start \in Nat /\ req[r].start < Len(pool) /\ Len(pool) \in Nat
  BY LenProperties DEF TypeOK, Locals, ScanLocals, PoolTypeOK
<1> DEFINE i == req[r].start + 1
<1>3. i \in 1..Len(pool) /\ i - 1 = req[r].start
  BY <1>2
<1>4. req[r].i = 0 /\ pool[i] \notin req[r].ended /\ Eligible(pool[i])
  BY <1>1, <1>3 DEF RoundThePool, LeftToTry
<1>5. Looked(r) = pool[i]
  BY <1>1, <1>3, <1>4, FirstLook DEF Looked
<1> QED BY <1>4, <1>5 DEF MayTake

(* A failed attempt cools at most the account it used, which is among the  *)
(* tried ones; when it was the last attempt, none is left untried.         *)
LEMMA LoneAnswered ==
  ASSUME TypeOK, HistoryStep, NEW r \in Request, Lone(r), Blame(r),
         AnswerFinal(r) \/ AnswerFailed(r) \/ AnswerRateLimited(r)
  PROVE  Lone(r)'
<1>1. /\ PoolTypeOK
      /\ UNCHANGED <<pool, enabled, cursor>>
      /\ \A a \in Account : a # req[r].acct => cool'[a] = cool[a]
      /\ req[r].pc = "send"
  BY AnswerEffect DEF TypeOK
<1>2. req[r].acct \in tried[r] /\ RoundThePool(r)
  BY <1>1 DEF Lone, Blame
<1>3. tried'[r] = tried[r]
  BY <1>1, TriedStands
<1>4. \A i \in 1..Len(pool) : pool[i] \in Account /\ Ahead(i)' = Ahead(i)
  BY <1>1, ElementOfSeq DEF PoolTypeOK, Ahead
<1>5. InPool' = InPool
  BY <1>1 DEF InPool
<1>6. /\ req[r].budget \in 1..Len(pool) /\ Len(pool) \in Nat
      /\ Untried(r) = req[r].budget - 1
  BY <1>1, <1>2, LenProperties DEF RoundThePool, Untried, PoolTypeOK
<1>7. CASE req'[r].pc = "done" /\ req'[r].last \in FinalKinds
  BY <1>7 DEF Lone, FinalKinds, FailoverKinds
<1>8. CASE req'[r].pc = "acquire" /\ req'[r].budget = req[r].budget - 1
            /\ req[r].budget > 1
  <2>1. Untried(r)' = Untried(r)
    BY <1>6, <1>8 DEF Untried
  <2>2. \A i \in 1..Len(pool) : LeftToTry(r, pool[i]) => LeftToTry(r, pool[i])'
    BY <1>1, <1>2, <1>3, <1>4 DEF LeftToTry, Eligible
  <2>3. \A i \in 1..Len(pool) :
          IF Ahead(i)' < Untried(r)' THEN LeftToTry(r, pool[i])' ELSE pool[i] \in tried'[r]
    BY <1>1, <1>2, <1>3, <1>4, <2>1, <2>2 DEF RoundThePool
  <2>4. req'[r].budget \in 1..Len(pool)
    BY <1>6, <1>8
  <2>5. RoundThePool(r)'
    BY <1>1, <1>2, <1>3, <1>5, <1>8, <2>3, <2>4 DEF RoundThePool
  <2> QED BY <1>8, <2>5 DEF Lone
<1>9. CASE req'[r].pc = "done" /\ req[r].budget = 1
  <2>1. ASSUME NEW a \in InPool PROVE a \in tried[r]
    <3>1. PICK i \in 1..Len(pool) : a = pool[i]
      <4>1. DOMAIN pool = 1..Len(pool)
        BY <1>1, LenProperties DEF PoolTypeOK
      <4> QED BY <4>1, Zenon DEF InPool
    <3>2. ~(Ahead(i) < Untried(r))
      BY <1>1, <1>6, <1>9, AheadType
    <3> QED BY <1>1, <1>2, <3>1, <3>2 DEF RoundThePool
  <2>2. tried[r] = InPool
    BY <1>2, <2>1 DEF RoundThePool
  <2> QED BY <1>3, <1>5, <1>9, <2>2 DEF Lone
<1>10. \/ req'[r].pc = "done" /\ req'[r].last \in FinalKinds
       \/ req'[r].pc = "acquire" /\ req'[r].budget = req[r].budget - 1 /\ req[r].budget > 1
       \/ req'[r].pc = "done" /\ req[r].budget <= 1
  BY AnswerEffect
<1> QED BY <1>6, <1>7, <1>8, <1>9, <1>10

(* A step of r itself keeps what is known while r is alone.                *)
LEMMA LoneOfOwn ==
  ASSUME TypeOK, HistoryStep, NEW r \in Request, lone[r] => Lone(r), Blame(r),
         Begin(r) \/ Send(r), req'[r] # req[r], lone'[r]
  PROVE  Lone(r)'
<1>1. CASE Begin(r)
  <2>1. Began(r)
    BY <1>1 DEF Began, Begin
  <2> QED BY <1>1, <2>1, LoneBegins DEF HistoryStep
<1>2. CASE Send(r)
  <2>1. lone[r] /\ Lone(r)
    BY <1>2 DEF HistoryStep, Began, Send, Acquire, ScanNothing, StartScan, PickAccount,
                SkipAccount, PickNone, AnswerFinal, AnswerFailed, AnswerRateLimited, Refuse
  <2>2. ~ScanNothing(r)
    <3>1. ASSUME req[r].pc = "acquire", pool = <<>> PROVE FALSE
      BY <2>1, <3>1 DEF Lone, RoundThePool
    <3> QED BY <3>1 DEF ScanNothing
  <2>3. ~SkipAccount(r) /\ ~PickNone(r)
    BY <2>1, LoneTakes DEF SkipAccount, PickNone
  <2>4. ~Refuse(r)
    BY <2>1 DEF Refuse, Lone
  <2> QED BY <1>2, <2>1, <2>2, <2>3, <2>4, LoneStarts, LonePicks, LoneAnswered
          DEF Send, Acquire
<1> QED BY <1>1, <1>2

(* No request is alone at the start.                                       *)
LEMMA InitLoneInv == HistoryInit => LoneInv
  BY DEF HistoryInit, LoneInv

(* Every step keeps the invariant of the lone request.                     *)
LEMMA StepLoneInv ==
  HistoryTypeOK /\ BlameInv /\ LoneInv /\ [Next /\ HistoryStep]_allVars => LoneInv'
<1> SUFFICES ASSUME HistoryTypeOK, BlameInv, LoneInv, [Next /\ HistoryStep]_allVars
             PROVE  LoneInv'
  OBVIOUS
<1>1. CASE UNCHANGED allVars
  BY <1>1 DEF allVars, LoneInv, Lone, RoundThePool, Untried, Ahead, Eligible, InPool,
              LeftToTry
<1>2. CASE Next /\ HistoryStep
  <2> SUFFICES ASSUME NEW r \in Request, lone'[r] PROVE Lone(r)'
    BY DEF LoneInv
  <2>1. TypeOK /\ Blame(r) /\ (lone[r] => Lone(r))
    BY DEF HistoryTypeOK, BlameInv, LoneInv
  <2>2. CASE req'[r] = req[r] \/ TickedOver(r)
    <3>1. lone[r] /\ ~Disturbed(r)
      BY <1>2, <2>2 DEF HistoryStep, Began, TickedOver
    <3> QED BY <1>2, <2>1, <2>2, <3>1, LoneStands
  <2>3. CASE (Begin(r) \/ Send(r)) /\ req'[r] # req[r]
    BY <1>2, <2>1, <2>3, LoneOfOwn
  <2> QED BY <1>2, <2>1, <2>2, <2>3, WhoStepped DEF TickedOver
<1> QED BY <1>1, <1>2

(* A request that starts while every account is eligible, and that no      *)
(* other request and no administrator disturbs, meets every account of the *)
(* pool once before it fails, and is never refused (CCClient.Send), for    *)
(* every pool, every position of the cursor and whatever the clock does.   *)
THEOREM LoneFailoverVisitsAllHolds == HistorySpec => []LoneFailoverVisitsAll
<1>1. LoneInv => LoneFailoverVisitsAll
  BY DEF LoneInv, Lone, RoundThePool, Untried, LoneFailoverVisitsAll
<1> QED BY <1>1, InitLoneInv, StepLoneInv, InitBlameInv, StepBlameInv, HistoryTypeCorrect,
           PTL DEF HistorySpec

=============================================================================
