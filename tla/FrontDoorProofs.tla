-------------------------- MODULE FrontDoorProofs --------------------------
(***************************************************************************)
(* Proofs about the machines between the socket and the core.  Each of     *)
(* them is one side of MCFrontDoor's Spec: in a step it takes one of its   *)
(* own actions or leaves its variables alone.                              *)
(***************************************************************************)
EXTENDS MCFrontDoor, SharedFacts, FiniteSetTheorems, SequenceTheorems, TLAPS

-----------------------------------------------------------------------------
(* The login limiter.  A failure that opened a window, after which none    *)
(* came late, is what the present record began with, or the record was     *)
(* given up when neither its window nor its lockout was running any more.  *)
FailuresInOrder ==
    \A j, k \in 1..Len(failures) : j <= k => failures[j] <= failures[k]

RecordOK ==
    \/ fails = NoRecord
    \/ failures # <<>> /\ fails.count >= 1 /\ fails.windowStart <= failures[Len(failures)]

(* The lockout that count failures, the last of them at time t, arm.       *)
Armed(count, t) == IF count >= FailLimit THEN t + LockoutTime ELSE 0

Recorded(i) ==
    /\ fails # NoRecord
    /\ fails.windowStart = failures[i]
    /\ fails.count = Len(failures) - i + 1
    /\ fails.lockedUntil = Armed(fails.count, failures[Len(failures)])

GivenUp(i) ==
    /\ fails = NoRecord
    /\ now > failures[i] + FailWindow
    /\ now >= Armed(Len(failures) - i + 1, failures[Len(failures)])

LimiterInv ==
    /\ LimiterTypeOK
    /\ FailuresInOrder
    /\ RecordOK
    /\ \A i \in 1..Len(failures) :
          Opens(i) /\ NoneLate(i) => Recorded(i) \/ GivenUp(i)

LimiterStep == [LimiterNext]_limiterVars

(* What the type invariant says of the values a step computes with.        *)
LEMMA LimiterNumbers ==
    ASSUME LimiterTypeOK
    PROVE  /\ now \in Nat /\ fails.count \in Nat /\ fails.windowStart \in Nat
           /\ fails.windowStart <= now /\ fails.lockedUntil \in Nat
           /\ Len(failures) \in Nat /\ DOMAIN failures = 1..Len(failures)
           /\ \A i \in 1..Len(failures) : failures[i] \in Nat /\ failures[i] <= now
<1>1. now \in Nat /\ failures \in Seq(0..now)
  BY LimiterConstants DEF LimiterTypeOK
<1>2. /\ Len(failures) \in Nat /\ DOMAIN failures = 1..Len(failures)
      /\ \A i \in 1..Len(failures) : failures[i] \in 0..now
  BY <1>1, LenProperties, ElementOfSeq
<1>3. /\ fails.count \in Nat /\ fails.windowStart \in 0..now
      /\ fails.lockedUntil \in 0..(MaxNow + LockoutTime)
  BY DEF LimiterTypeOK
<1> QED
  BY <1>1, <1>2, <1>3

(* Nothing has failed at the start.                                        *)
LEMMA LimiterStart == LimiterInit => LimiterInv
<1> SUFFICES ASSUME LimiterInit PROVE LimiterInv
  OBVIOUS
<1>1. /\ now = 0 /\ failures = <<>> /\ fails = NoRecord
      /\ attempt = [c \in Client |-> "idle"]
  BY DEF LimiterInit
<1>2. 1..Len(failures) = {}
  BY <1>1
<1>3. LimiterTypeOK
  BY <1>1, LimiterConstants DEF LimiterTypeOK, NoRecord
<1> QED
  BY <1>1, <1>2, <1>3 DEF LimiterInv, FailuresInOrder, RecordOK

(* A record that counts a full window is locked, and only then is one.     *)
LEMMA LockedWhenFull ==
    ASSUME LimiterTypeOK, NEW i \in 1..Len(failures), Recorded(i), NoneLate(i),
           FailuresInOrder
    PROVE  /\ Locked <=> fails.count >= FailLimit
           /\ Locked => /\ fails.lockedUntil = failures[Len(failures)] + LockoutTime
                        /\ fails.lockedUntil > failures[i] + FailWindow
<1> USE LimiterConstants
<1>1. /\ failures[i] \in Nat /\ failures[Len(failures)] \in Nat /\ fails.count \in Nat
      /\ failures[i] <= failures[Len(failures)]
  <2>1. Len(failures) \in 1..Len(failures) /\ i <= Len(failures)
    BY LimiterNumbers
  <2> QED BY <2>1, LimiterNumbers DEF FailuresInOrder
<1>2. fails.lockedUntil =
        IF fails.count >= FailLimit THEN failures[Len(failures)] + LockoutTime ELSE 0
  BY DEF Recorded, Armed
<1> QED
  BY <1>1, <1>2 DEF Locked

(* Allow forgets a record only when its window and its lockout are over.   *)
LEMMA AllowKeepsInv ==
    ASSUME LimiterInv, NEW c \in Client, Allow(c)
    PROVE  LimiterInv'
<1> USE LimiterConstants
<1>1. /\ now' = now /\ failures' = failures
      /\ ~ (Locked /\ now < fails.lockedUntil)
      /\ fails' = IF Locked \/ WindowIsOver THEN NoRecord ELSE fails
      /\ attempt' = [attempt EXCEPT ![c] = "allowed"]
      /\ LimiterTypeOK
  BY DEF Allow, LimiterInv
<1>2. LimiterTypeOK'
  <2>1. \/ fails' = fails
        \/ fails'.count = 0 /\ fails'.windowStart = 0 /\ fails'.lockedUntil = 0
    BY <1>1 DEF NoRecord
  <2> QED BY <1>1, <2>1 DEF LimiterTypeOK
<1>3. FailuresInOrder' /\ RecordOK'
  BY <1>1 DEF LimiterInv, FailuresInOrder, RecordOK, NoRecord
<1>4. ASSUME NEW i \in 1..Len(failures), Opens(i), NoneLate(i)
      PROVE  Recorded(i)' \/ GivenUp(i)'
  <2>1. Recorded(i) \/ GivenUp(i)
    BY <1>4 DEF LimiterInv
  <2>2. CASE GivenUp(i)
    BY <1>1, <2>2 DEF GivenUp
  <2>3. CASE Recorded(i) /\ ~Locked /\ ~WindowIsOver
    BY <1>1, <2>3 DEF Recorded
  <2>4. CASE Recorded(i) /\ Locked
    <3>1. /\ fails.lockedUntil = failures[Len(failures)] + LockoutTime
          /\ fails.lockedUntil > failures[i] + FailWindow
      BY <1>1, <1>4, <2>4, LockedWhenFull DEF LimiterInv
    <3>2. now >= fails.lockedUntil /\ now \in Nat /\ fails.lockedUntil \in Nat
          /\ failures[i] \in Nat
      BY <1>1, <1>4, <2>4, LimiterNumbers
    <3>3. now > failures[i] + FailWindow
      BY <3>1, <3>2
    <3>4. Armed(Len(failures) - i + 1, failures[Len(failures)]) = fails.lockedUntil
      BY <2>4 DEF Recorded
    <3> QED BY <1>1, <2>4, <3>2, <3>3, <3>4 DEF GivenUp
  <2>5. CASE Recorded(i) /\ ~Locked /\ WindowIsOver
    <3>1. now > failures[i] + FailWindow
      BY <1>1, <1>4, <2>5, LimiterNumbers DEF Recorded, WindowIsOver
    <3>2. Armed(Len(failures) - i + 1, failures[Len(failures)]) = 0
      BY <2>5 DEF Recorded, Locked
    <3> QED BY <1>1, <2>5, <3>1, <3>2, LimiterNumbers DEF GivenUp
  <2> QED BY <2>1, <2>2, <2>3, <2>4, <2>5
<1> QED
  BY <1>1, <1>2, <1>3, <1>4 DEF LimiterInv, Opens, NoneLate

(* Fail counts in the record of the window, or opens one.                  *)
LEMMA FailKeepsInv ==
    ASSUME LimiterInv, NEW c \in Client, Fail(c)
    PROVE  LimiterInv'
<1> USE LimiterConstants
<1> DEFINE n == Len(failures)
           count == OpenRecord.count + 1
<1>1. /\ now' = now /\ failures' = Append(failures, now)
      /\ fails' = [count |-> count, windowStart |-> OpenRecord.windowStart,
                   lockedUntil |-> IF count >= FailLimit
                                   THEN now + LockoutTime ELSE OpenRecord.lockedUntil]
      /\ attempt' = [attempt EXCEPT ![c] = "idle"]
      /\ LimiterTypeOK
  BY DEF Fail, LimiterInv
<1>2. /\ n \in Nat /\ now \in Nat /\ now <= MaxNow /\ failures \in Seq(0..now)
      /\ \A i \in 1..n : failures[i] \in Nat /\ failures[i] <= now
  BY <1>1, LimiterNumbers DEF LimiterTypeOK
<1>3. /\ Len(failures') = n + 1 /\ failures'[n + 1] = now
      /\ \A i \in 1..n : failures'[i] = failures[i]
      /\ failures' \in Seq(0..now)
  BY <1>1, <1>2, AppendProperties
<1>4. \/ /\ fails = NoRecord \/ WindowIsOver
         /\ count = 1 /\ OpenRecord.windowStart = now /\ OpenRecord.lockedUntil = 0
      \/ /\ fails # NoRecord /\ ~WindowIsOver
         /\ count = fails.count + 1 /\ OpenRecord.windowStart = fails.windowStart
         /\ OpenRecord.lockedUntil = fails.lockedUntil
  BY DEF OpenRecord
<1>5. /\ count \in Nat /\ OpenRecord.windowStart \in 0..now
      /\ OpenRecord.lockedUntil \in 0..(MaxNow + LockoutTime)
  BY <1>1, <1>2, <1>4, LimiterNumbers DEF LimiterTypeOK
<1> HIDE DEF n, count
<1>6. /\ fails'.count = count /\ fails'.windowStart = OpenRecord.windowStart
      /\ fails'.lockedUntil = IF count >= FailLimit
                              THEN now + LockoutTime ELSE OpenRecord.lockedUntil
  BY <1>1
<1>7. LimiterTypeOK'
  <2>1. fails'.lockedUntil \in 0..(MaxNow + LockoutTime)
    BY <1>2, <1>5, <1>6
  <2> QED BY <1>1, <1>3, <1>5, <1>6, <2>1 DEF LimiterTypeOK
<1>8. FailuresInOrder'
  <2> SUFFICES ASSUME NEW j \in 1..(n + 1), NEW k \in 1..(n + 1), j <= k
               PROVE  failures'[j] <= failures'[k]
    BY <1>3 DEF FailuresInOrder
  <2>1. CASE k = n + 1
    <3>1. j = n + 1 \/ j \in 1..n
      BY <1>2
    <3> QED BY <1>2, <1>3, <2>1, <3>1
  <2>2. CASE k # n + 1
    <3>1. j \in 1..n /\ k \in 1..n
      BY <1>2, <2>2
    <3> QED BY <1>3, <3>1 DEF LimiterInv, FailuresInOrder, n
  <2> QED BY <2>1, <2>2
<1>9. count >= 1 /\ fails' # NoRecord
  <2>1. count >= 1
    BY <1>1, <1>4, LimiterNumbers
  <2> QED BY <1>6, <2>1 DEF NoRecord
<1>10. RecordOK'
  <2>1. failures' # <<>>
    BY <1>2, <1>3
  <2> QED BY <1>1, <1>2, <1>3, <1>5, <1>6, <1>9, <2>1 DEF RecordOK
<1>11. ASSUME NEW i \in 1..(n + 1), Opens(i)', NoneLate(i)'
       PROVE  Recorded(i)'
  <2>1. CASE i = n + 1
    <3>1. fails = NoRecord \/ WindowIsOver
      <4>1. CASE n = 0
        <5>1. failures = <<>>
          BY <1>2, <4>1, EmptySeq DEF n
        <5> QED BY <5>1 DEF LimiterInv, RecordOK
      <4>2. CASE n # 0
        <5>1. n \in 1..n /\ i # 1 /\ i - 1 = n
          BY <1>2, <2>1, <4>2
        <5>2. now > failures[n] + FailWindow
          BY <1>3, <1>11, <2>1, <5>1 DEF Opens
        <5>3. fails = NoRecord \/ fails.windowStart <= failures[n]
          BY DEF LimiterInv, RecordOK, n
        <5> QED BY <1>1, <1>2, <5>1, <5>2, <5>3, LimiterNumbers DEF WindowIsOver
      <4> QED BY <4>1, <4>2
    <3>2. count = 1 /\ OpenRecord.windowStart = now /\ OpenRecord.lockedUntil = 0
      BY <1>4, <3>1
    <3>3. failures'[i] = now /\ Len(failures') - i + 1 = 1
      BY <1>2, <1>3, <2>1
    <3> QED BY <1>2, <1>3, <1>6, <1>9, <3>2, <3>3 DEF Recorded, Armed
  <2>2. CASE i \in 1..n
    <3>1. now <= failures[i] + FailWindow
      BY <1>3, <1>11, <2>2 DEF NoneLate
    <3>2. Opens(i) /\ NoneLate(i)
      <4>1. n \in 1..n /\ failures[n] <= now /\ (i # 1 => i - 1 \in 1..n)
        BY <1>2, <2>2
      <4>2. Opens(i)
        BY <1>3, <1>11, <2>2, <4>1 DEF Opens
      <4>3. failures[n] <= failures[i] + FailWindow
        BY <1>2, <2>2, <3>1, <4>1
      <4> QED BY <4>2, <4>3 DEF NoneLate, n
    <3>3. Recorded(i)
      <4>1. Recorded(i) \/ GivenUp(i)
        BY <2>2, <3>2 DEF LimiterInv, n
      <4>2. failures[i] \in Nat
        BY <1>2, <2>2
      <4> QED BY <1>2, <3>1, <4>1, <4>2 DEF GivenUp
    <3>4. fails # NoRecord /\ ~WindowIsOver
      <4>1. fails.windowStart = failures[i] /\ failures[i] \in Nat
        BY <1>2, <2>2, <3>3 DEF Recorded
      <4> QED BY <1>2, <3>1, <3>3, <4>1 DEF Recorded, WindowIsOver
    <3>5. /\ count = n - i + 2
          /\ OpenRecord.windowStart = failures[i]
          /\ count < FailLimit => OpenRecord.lockedUntil = 0
      <4>1. fails.count = n - i + 1
        BY <3>3 DEF Recorded, n
      <4>2. fails.count < FailLimit => fails.lockedUntil = 0
        BY <1>2, <2>2, <3>3, <4>1 DEF Recorded, Armed
      <4> QED BY <1>2, <1>4, <2>2, <3>3, <3>4, <4>1, <4>2 DEF Recorded
    <3> QED BY <1>2, <1>3, <1>6, <1>9, <2>2, <3>5 DEF Recorded, Armed
  <2> QED BY <1>2, <2>1, <2>2
<1> QED
  BY <1>3, <1>7, <1>8, <1>10, <1>11 DEF LimiterInv

(* The right password forgets the failures.                                *)
LEMMA ResetKeepsInv ==
    ASSUME LimiterInv, NEW c \in Client, Reset(c)
    PROVE  LimiterInv'
<1>1. /\ now' = now /\ failures' = <<>> /\ fails' = NoRecord
      /\ attempt' = [attempt EXCEPT ![c] = "idle"]
  BY DEF Reset
<1>2. 1..Len(failures') = {}
  BY <1>1
<1>3. LimiterTypeOK'
  BY <1>1, LimiterConstants, LimiterNumbers DEF LimiterInv, LimiterTypeOK, NoRecord
<1> QED
  BY <1>1, <1>2, <1>3 DEF LimiterInv, FailuresInOrder, RecordOK

(* Time only makes what was over more so.                                  *)
LEMMA TickKeepsInv ==
    ASSUME LimiterInv, Tick
    PROVE  LimiterInv'
<1> USE LimiterConstants
<1>1. /\ now < MaxNow /\ now' = now + 1 /\ fails' = fails
      /\ attempt' = attempt /\ failures' = failures
      /\ LimiterTypeOK
  BY DEF Tick, LimiterInv
<1>2. now \in Nat /\ Len(failures) \in Nat
      /\ \A i \in 1..Len(failures) : failures[i] \in Nat
  BY <1>1, LimiterNumbers
<1>3. LimiterTypeOK'
  <2>1. now' \in 0..MaxNow /\ 0..now \subseteq 0..now'
    BY <1>1, <1>2
  <2>2. failures \in Seq(0..now')
    BY <1>1, <2>1 DEF LimiterTypeOK
  <2> QED BY <1>1, <2>1, <2>2 DEF LimiterTypeOK
<1>4. ASSUME NEW i \in 1..Len(failures), Recorded(i) \/ GivenUp(i)
      PROVE  Recorded(i)' \/ GivenUp(i)'
  <2>1. Armed(Len(failures) - i + 1, failures[Len(failures)]) \in Nat
    BY <1>2 DEF Armed
  <2> QED BY <1>1, <1>2, <1>4, <2>1 DEF Recorded, GivenUp, Armed
<1> QED
  BY <1>1, <1>3, <1>4 DEF LimiterInv, FailuresInOrder, RecordOK, Opens, NoneLate

(* Every step of the limiter, and every step of the others, keeps it.      *)
LEMMA LimiterStepKeepsInv == LimiterInv /\ LimiterStep => LimiterInv'
<1> SUFFICES ASSUME LimiterInv, LimiterStep PROVE LimiterInv'
  OBVIOUS
<1>1. CASE UNCHANGED limiterVars
  BY <1>1 DEF limiterVars, LimiterInv, LimiterTypeOK, RecordOK, FailuresInOrder,
     Recorded, GivenUp, Opens, NoneLate
<1>2. CASE LimiterNext
  BY <1>2, AllowKeepsInv, FailKeepsInv, ResetKeepsInv, TickKeepsInv DEF LimiterNext
<1> QED
  BY <1>1, <1>2 DEF LimiterStep

(* Nobody is let in while a full window's lockout lasts.                   *)
LEMMA LimiterInvLocksOut ==
    ASSUME LimiterInv, LimiterNext, NEW c \in Client, NEW i \in DOMAIN failures,
           LetIn(c), Opens(i), NoneLate(i), Len(failures) - i + 1 >= FailLimit
    PROVE  now >= failures[Len(failures)] + LockoutTime
<1>1. LimiterTypeOK /\ FailuresInOrder
  BY DEF LimiterInv
<1>2. i \in 1..Len(failures)
  BY <1>1, LimiterNumbers
<1>3. Armed(Len(failures) - i + 1, failures[Len(failures)])
        = failures[Len(failures)] + LockoutTime
  BY DEF Armed
<1>4. CASE GivenUp(i)
  BY <1>3, <1>4 DEF GivenUp
<1>5. CASE Recorded(i)
  <2>1. Locked /\ fails.lockedUntil = failures[Len(failures)] + LockoutTime
    BY <1>1, <1>2, <1>5, LockedWhenFull DEF Recorded
  <2>2. Allow(c)
    <3>1. attempt[c] = "idle" /\ attempt'[c] = "allowed"
      BY DEF LetIn
    <3>2. ASSUME NEW d \in Client, Allow(d) PROVE d = c
      BY <1>1, <3>1, <3>2 DEF Allow, LimiterTypeOK
    <3>3. ASSUME NEW d \in Client, Fail(d) \/ Reset(d) PROVE FALSE
      BY <1>1, <3>1, <3>3 DEF Fail, Reset, LimiterTypeOK
    <3>4. ~Tick
      BY <3>1 DEF Tick
    <3> QED BY <3>2, <3>3, <3>4 DEF LimiterNext
  <2>3. now \in Nat /\ fails.lockedUntil \in Nat
    BY <1>1, LimiterNumbers
  <2> QED BY <2>1, <2>2, <2>3 DEF Allow
<1> QED
  BY <1>2, <1>4, <1>5 DEF LimiterInv

(* Once a window's failures have reached the limit the limiter lets nobody *)
(* in before the lockout of the last of them is over: for every limit,     *)
(* window and lockout longer than the window, for any number of requests   *)
(* and every interleaving of their calls.                                  *)
THEOREM LockoutHoldsAlways == Spec => LockoutHolds
<1>1. Init => LimiterInv
  BY LimiterStart DEF Init
<1>2. [Next]_vars => LimiterStep
  BY DEF Next, vars, LimiterStep, LimiterSide, OAuthSide, FramingSide, ConversionSide,
     ExposureSide, limiterIdle
<1> DEFINE Outlasted == \A c \in Client, i \in DOMAIN failures :
                           LetIn(c) /\ Opens(i) /\ NoneLate(i)
                             /\ Len(failures) - i + 1 >= FailLimit
                               => now >= failures[Len(failures)] + LockoutTime
<1>3. LimiterInv /\ LimiterStep => [Outlasted]_limiterVars
  BY LimiterInvLocksOut DEF LimiterStep
<1> HIDE DEF Outlasted
<1>4. Spec => [][Outlasted]_limiterVars
  BY <1>1, <1>2, <1>3, LimiterStepKeepsInv, PTL DEF Spec
<1> QED
  BY <1>4 DEF Outlasted, LockoutHolds

-----------------------------------------------------------------------------
(* The list of models.  A model that is shown stays shown: an entry the    *)
(* console writes for another model hides it only if an entry that was     *)
(* there before did.                                                       *)
LEMMA ShownStaysShown ==
    ASSUME NEW m \in Model, NEW n \in Model, NEW entries,
           isModelExcluded(n, entries), isModelExcluded(m, {n})
    PROVE  isModelExcluded(m, entries)
<1>1. PICK e \in entries : <<n, e>> \in StartsWith \/ <<Base(n), e>> \in StartsWith
  BY DEF isModelExcluded
<1>2. <<m, n>> \in StartsWith \/ <<Base(m), n>> \in StartsWith
  BY DEF isModelExcluded
<1>3. \A x, y, z : <<x, y>> \in StartsWith /\ <<y, z>> \in StartsWith
                      => <<x, z>> \in StartsWith
  <2> SUFFICES ASSUME NEW x, NEW y, NEW z,
                      <<x, y>> \in StartsWith, <<y, z>> \in StartsWith
               PROVE  <<x, z>> \in StartsWith
    OBVIOUS
  <2>1. <<x, y>>[2] = y /\ <<y, z>>[1] = y /\ <<x, y>>[1] = x /\ <<y, z>>[2] = z
    OBVIOUS
  <2>2. \A p, q \in StartsWith : p[2] = q[1] => <<p[1], q[2]>> \in StartsWith
    BY ExposureNames
  <2> DEFINE p == <<x, y>>
             q == <<y, z>>
  <2>3. p \in StartsWith /\ q \in StartsWith /\ p[2] = q[1] /\ p[1] = x /\ q[2] = z
    BY <2>1
  <2> HIDE DEF p, q
  <2> QED
    BY <2>2, <2>3
<1>4. <<m, e>> \in StartsWith \/ <<Base(m), e>> \in StartsWith
  <2>1. CASE <<Base(m), n>> \in StartsWith
    <3>1. Base(n) = n
      BY <2>1, ExposureNames
    <3>2. <<n, e>> \in StartsWith
      BY <3>1, <1>1
    <3> QED
      BY <2>1, <3>2, <1>3
  <2>2. CASE <<m, n>> \in StartsWith
    <3>1. Base(n) = n \/ <<Base(m), Base(n)>> \in StartsWith
      BY <2>2, ExposureNames
    <3>2. CASE <<n, e>> \in StartsWith
      BY <2>2, <3>2, <1>3
    <3>3. CASE <<Base(n), e>> \in StartsWith /\ Base(n) = n
      <4>1. <<n, e>> \in StartsWith
        BY <3>3
      <4> QED
        BY <2>2, <4>1, <1>3
    <3>4. CASE <<Base(n), e>> \in StartsWith /\ <<Base(m), Base(n)>> \in StartsWith
      BY <3>4, <1>3
    <3> QED
      BY <3>1, <3>2, <3>3, <3>4, <1>1
  <2> QED
    BY <1>2, <2>1, <2>2
<1> QED
  BY <1>4 DEF isModelExcluded

LEMMA RewrittenShowsTheSame ==
    ASSUME modelCatalog \subseteq Model
    PROVE  SaveKeepsExposure
<1> DEFINE before == Exposed(excludes)
           entries == Rewritten(excludes, before)
<1>1. ASSUME NEW m \in modelCatalog, isModelExcluded(m, excludes)
      PROVE  isModelExcluded(m, entries)
  <2>1. m \in entries
    BY <1>1 DEF Rewritten, Exposed
  <2>2. <<m, m>> \in StartsWith
    BY ExposureConstants
  <2> QED
    BY <2>1, <2>2 DEF isModelExcluded
<1>2. ASSUME NEW m \in modelCatalog, isModelExcluded(m, entries)
      PROVE  isModelExcluded(m, excludes)
  <2>1. PICK e \in entries : <<m, e>> \in StartsWith \/ <<Base(m), e>> \in StartsWith
    BY <1>2 DEF isModelExcluded
  <2>2. isModelExcluded(m, {e})
    BY <2>1 DEF isModelExcluded
  <2>3. e \in modelCatalog \ before
    BY <2>2 DEF Rewritten
  <2>4. isModelExcluded(e, excludes)
    BY <2>3 DEF Exposed
  <2> QED
    BY <2>2, <2>3, <2>4, ShownStaysShown
<1> HIDE DEF entries
<1>3. Exposed(entries) = Exposed(excludes)
  BY <1>1, <1>2 DEF Exposed
<1> QED
  BY <1>3 DEF SaveKeepsExposure, entries

(* For every catalog and every list of entries: saving the checkboxes as   *)
(* the console shows them neither hides a model nor brings one back.       *)
THEOREM SaveKeepsExposureHolds == Spec => []SaveKeepsExposure
<1> DEFINE CatalogOK == modelCatalog \subseteq Model
<1>1. Init => CatalogOK
  BY DEF Init, ExposureInit
<1>2. CatalogOK /\ [Next]_vars => CatalogOK'
  BY DEF Next, vars, LimiterSide, OAuthSide, FramingSide, ConversionSide,
     ExposureSide, exposureIdle, exposureVars, ExposureNext, PutExposure, FetchProviderModels
<1>3. CatalogOK => SaveKeepsExposure
  BY RewrittenShowsTheSame
<1> QED
  BY <1>1, <1>2, <1>3, PTL DEF Spec

-----------------------------------------------------------------------------
(* Request conversion.  The names learned before message i: what Answers   *)
(* and LatestName say of one id.                                           *)
AnswersTo(id, i) ==
    UNION {{<<j, k>> : k \in {k \in Calls(j) : request[j].calls[k].id = id}} : j \in 1..(i - 1)}

LatestOf(c, id, i) == c \in AnswersTo(id, i) /\ \A d \in AnswersTo(id, i) : Earlier(d, c)

NameOf(c) == request[c[1]].calls[c[2]].name

RequestOK ==
    /\ request \in Seq(Message)
    /\ position \in 1..(Len(request) + 1)
    /\ verdict \in {"converting", "ok", "invalid"}
    /\ verdict = "ok" => position = Len(request) + 1

(* As long as the request is valid every call has told its name, and the   *)
(* last call of an id is the one whose name is known.                      *)
NamesKnown ==
    /\ toolNames = [id \in DOMAIN toolNames |-> toolNames[id]]
    /\ \A j \in 1..(position - 1), k \in Nat :
          k \in Calls(j) => request[j].calls[k].id \in DOMAIN toolNames
    /\ \A id \in DOMAIN toolNames :
          \E c \in AnswersTo(id, position) :
              LatestOf(c, id, position) /\ toolNames[id] = NameOf(c)

Converted(i) ==
    /\ out[Kept(i)].role = roleToCC(request[i].role)
    /\ request[i].role = "tool" =>
          out[Kept(i)].parts[1].name =
              IF request[i].name # None THEN request[i].name ELSE LatestName(i)

OutputSoFar ==
    /\ \E S : out \in Seq(S)
    /\ Len(out) = Kept(position - 1)
    /\ \A i \in 1..(position - 1) : ~ IsSystem(request[i]) => Converted(i)

ConversionInv ==
    /\ RequestOK
    /\ verdict # "invalid" => NamesKnown /\ OutputSoFar

LEMMA KeptCounts ==
    /\ Kept(0) = 0
    /\ \A i \in Nat :
          /\ Kept(i) \in Nat
          /\ Kept(i + 1) = IF IsSystem(request[i + 1]) THEN Kept(i) ELSE Kept(i) + 1
    /\ \A i, j \in Nat : i <= j => Kept(i) <= Kept(j)
<1> DEFINE K(i) == {j \in 1..i : ~ IsSystem(request[j])}
<1>1. \A i \in Nat : IsFiniteSet(K(i))
  <2> SUFFICES ASSUME NEW i \in Nat PROVE IsFiniteSet(K(i))
    OBVIOUS
  <2>1. IsFiniteSet(1..i)
    BY FS_Interval
  <2> QED
    BY <2>1, FS_Subset
<1>2. \A i \in Nat : Kept(i) = Cardinality(K(i))
  BY DEF Kept
<1>3. Kept(0) = 0
  <2>1. K(0) = {}
    OBVIOUS
  <2> QED
    BY <2>1, <1>2, FS_EmptySet
<1>4. ASSUME NEW i \in Nat
      PROVE  /\ Kept(i) \in Nat
             /\ Kept(i + 1) = IF IsSystem(request[i + 1]) THEN Kept(i) ELSE Kept(i) + 1
  <2>1. Kept(i) \in Nat
    BY <1>1, <1>2, FS_CardinalityType
  <2>2. CASE IsSystem(request[i + 1])
    <3>1. K(i + 1) = K(i)
      BY <2>2
    <3>2. Kept(i + 1) = Cardinality(K(i + 1)) /\ Kept(i) = Cardinality(K(i))
      BY <1>2
    <3> HIDE DEF K
    <3> QED
      BY <3>1, <3>2, <2>1, <2>2
  <2>3. CASE ~ IsSystem(request[i + 1])
    <3>1. K(i + 1) = K(i) \cup {i + 1} /\ i + 1 \notin K(i)
      BY <2>3
    <3>2. Cardinality(K(i) \cup {i + 1}) = Cardinality(K(i)) + 1
      BY <3>1, <1>1, FS_AddElement
    <3> QED
      BY <3>1, <3>2, <2>1, <2>3, <1>2
  <2> QED
    BY <2>1, <2>2, <2>3
<1>5. ASSUME NEW i \in Nat, NEW j \in Nat, i <= j
      PROVE  Kept(i) <= Kept(j)
  <2>1. K(i) \subseteq K(j)
    BY <1>5
  <2>2. Cardinality(K(i)) <= Cardinality(K(j))
    BY <2>1, <1>1, FS_Subset
  <2> QED
    BY <2>2, <1>2
<1> QED
  BY <1>3, <1>4, <1>5

(* The call that answers is the only one that is the latest.               *)
LEMMA LatestIsUnique ==
    ASSUME NEW i \in Nat, request \in Seq(Message), i - 1 <= Len(request),
           NEW c, NEW id, LatestOf(c, id, i), id = request[i].callId
    PROVE  LatestName(i) = NameOf(c)
<1>1. Answers(i) = AnswersTo(id, i)
  BY DEF Answers, AnswersTo
<1>2. \A d \in Answers(i) : d = <<d[1], d[2]>> /\ d[1] \in Nat /\ d[2] \in Nat
  <2> SUFFICES ASSUME NEW j \in 1..(i - 1), NEW k \in Calls(j)
               PROVE  j \in Nat /\ k \in Nat
    BY DEF Answers
  <2>1. request[j] \in Message
    OBVIOUS
  <2>2. request[j].calls \in Seq({request[j].calls[x] : x \in DOMAIN request[j].calls})
    BY <2>1, ConversionConstants
  <2> QED
    BY <2>2 DEF Calls
<1>3. c \in Answers(i) /\ \A d \in Answers(i) : Earlier(d, c)
  BY <1>1 DEF LatestOf
<1> DEFINE latest == CHOOSE x \in Answers(i) : \A d \in Answers(i) : Earlier(d, x)
<1>4. latest \in Answers(i) /\ \A d \in Answers(i) : Earlier(d, latest)
  BY <1>3
<1> HIDE DEF latest
<1>5. latest = c
  <2>1. Earlier(latest, c) /\ Earlier(c, latest)
    BY <1>3, <1>4
  <2>2. latest[1] = c[1] /\ latest[2] = c[2]
    BY <2>1, <1>2, <1>3, <1>4 DEF Earlier
  <2>3. latest = <<latest[1], latest[2]>> /\ c = <<c[1], c[2]>>
    BY <1>2, <1>3, <1>4
  <2> QED
    BY <2>2, <2>3
<1> QED
  BY <1>5 DEF LatestName, NameOf, latest

(* What a message adds: the names of an assistant's calls, the last of an  *)
(* id winning, and nothing for any other message.                          *)
Extends(new, names, m) ==
    /\ DOMAIN new = DOMAIN names \cup IdsOf(m)
    /\ new = [id \in DOMAIN new |-> new[id]]
    /\ \A id \in DOMAIN names \ IdsOf(m) : new[id] = names[id]
    /\ \A id \in IdsOf(m) :
          \E k \in Tellable(m) :
             /\ m.calls[k].id = id /\ new[id] = m.calls[k].name
             /\ \A j \in Tellable(m) : m.calls[j].id = id => j <= k

LEMMA LearnedNames ==
    ASSUME NEW m \in Message, NEW names
    PROVE  Extends(Learned(names, m), names, m)
<1> DEFINE last(id) == CHOOSE k \in Tellable(m) :
                         /\ m.calls[k].id = id
                         /\ \A j \in Tellable(m) : m.calls[j].id = id => j <= k
<1>1. Learned(names, m) =
        [id \in DOMAIN names \cup IdsOf(m) |->
            IF id \in IdsOf(m) THEN m.calls[last(id)].name ELSE names[id]]
  BY DEF Learned
<1>2. ASSUME NEW id \in IdsOf(m)
      PROVE  /\ last(id) \in Tellable(m) /\ m.calls[last(id)].id = id
             /\ \A j \in Tellable(m) : m.calls[j].id = id => j <= last(id)
  <2> DEFINE S == {k \in Tellable(m) : m.calls[k].id = id}
  <2>1. m.calls \in Seq({m.calls[k] : k \in DOMAIN m.calls})
    BY ConversionConstants
  <2>2. Len(m.calls) \in Nat /\ S \in SUBSET (1..Len(m.calls))
    BY <2>1 DEF Tellable
  <2>3. S # {}
    BY DEF IdsOf
  <2>4. \E k \in S : \A j \in S : j <= k
    <3> HIDE DEF S
    <3> QED
      BY <2>2, <2>3, GreatestOf
  <2>5. \E k \in Tellable(m) :
           /\ m.calls[k].id = id
           /\ \A j \in Tellable(m) : m.calls[j].id = id => j <= k
    BY <2>4
  <2> QED
    BY <2>5
<1> HIDE DEF last
<1>3. \A id \in IdsOf(m) : Learned(names, m)[id] = m.calls[last(id)].name
  BY <1>1
<1>4. \A id \in DOMAIN names \ IdsOf(m) : Learned(names, m)[id] = names[id]
  BY <1>1
<1>5. DOMAIN Learned(names, m) = DOMAIN names \cup IdsOf(m)
  BY <1>1
<1>6. Learned(names, m) = [id \in DOMAIN Learned(names, m) |-> Learned(names, m)[id]]
  BY <1>1
<1> QED
  BY <1>2, <1>3, <1>4, <1>5, <1>6 DEF Extends

LEMMA ConversionStart == Init => ConversionInv
<1> SUFFICES ASSUME Init PROVE ConversionInv
  OBVIOUS
<1>1. /\ position = 1 /\ toolNames = <<>> /\ out = <<>> /\ verdict = "converting"
      /\ request \in Seq(Message)
  <2>1. CASE side = "conversion"
    <3>1. request \in UNION {[1..n -> Message] : n \in 1..MaxMessages}
      BY <2>1 DEF Init, ConversionInit
    <3>2. request \in Seq(Message)
      BY <3>1
    <3> QED
      BY <2>1, <3>2 DEF Init, ConversionInit
  <2>2. CASE side # "conversion"
    BY <2>2 DEF Init
  <2> QED
    BY <2>1, <2>2
<1>2. RequestOK
  BY <1>1 DEF RequestOK
<1>3. NamesKnown
  BY <1>1 DEF NamesKnown
<1>4. OutputSoFar
  <2>1. out \in Seq({}) /\ Len(out) = 0
    BY <1>1
  <2> QED
    BY <1>1, <2>1, KeptCounts DEF OutputSoFar
<1> QED
  BY <1>2, <1>3, <1>4 DEF ConversionInv

(* The answers before the next message are those before this one and this  *)
(* message's own calls.                                                    *)
LEMMA AnswersGrow ==
    ASSUME NEW i \in Nat \ {0}, NEW id
    PROVE  AnswersTo(id, i + 1) =
              AnswersTo(id, i)
                 \cup {<<i, k>> : k \in {k \in Calls(i) : request[i].calls[k].id = id}}
<1>1. 1..(i + 1 - 1) = (1..(i - 1)) \cup {i}
  OBVIOUS
<1> QED
  BY <1>1 DEF AnswersTo

(* A message that is not an assistant's has no calls that count.           *)
LEMMA NoCallsNoNames ==
    ASSUME NEW i \in Nat \ {0}, RequestOK, NamesKnown, position = i,
           request' = request, position' = i + 1, toolNames' = toolNames,
           Calls(i) = {}
    PROVE  NamesKnown'
<1>1. \A id : AnswersTo(id, i + 1) = AnswersTo(id, i)
  BY AnswersGrow
<1>2. \A id : AnswersTo(id, i + 1)' = AnswersTo(id, i + 1)
  BY DEF AnswersTo, Calls
<1>3. \A id \in DOMAIN toolNames :
        \E c \in AnswersTo(id, i) :
            /\ \A d \in AnswersTo(id, i) : Earlier(d, c)
            /\ toolNames[id] = NameOf(c)
  BY DEF NamesKnown, LatestOf
<1>4. \A id \in DOMAIN toolNames :
        \E c \in AnswersTo(id, i + 1)' :
            /\ \A d \in AnswersTo(id, i + 1)' : Earlier(d, c)
            /\ toolNames[id] = NameOf(c)
  BY <1>1, <1>2, <1>3
<1>5. \A id \in DOMAIN toolNames' :
        (\E c \in AnswersTo(id, position) :
            LatestOf(c, id, position) /\ toolNames[id] = NameOf(c))'
  BY <1>4 DEF LatestOf, NameOf
<1>6. ASSUME NEW j \in 1..(position' - 1), NEW k \in Nat, k \in Calls(j)'
      PROVE  request'[j].calls[k].id \in DOMAIN toolNames'
  <2>1. k \in Calls(j)
    BY <1>6 DEF Calls
  <2>2. j # i
    BY <2>1
  <2> QED
    BY <2>1, <2>2 DEF NamesKnown
<1>7. toolNames' = [id \in DOMAIN toolNames' |-> toolNames'[id]]
  BY DEF NamesKnown
<1> QED
  BY <1>5, <1>6, <1>7 DEF NamesKnown

LEMMA LearnedKeepsNames ==
    ASSUME NEW i \in Nat \ {0}, RequestOK, NamesKnown, position = i, i <= Len(request),
           request' = request, position' = i + 1,
           toolNames' = Learned(toolNames, request[i]),
           request[i].role = "assistant" => Tellable(request[i]) = DOMAIN request[i].calls
    PROVE  NamesKnown'
<1> DEFINE m == request[i]
           names == Learned(toolNames, m)
<1>1. m \in Message
  BY DEF RequestOK
<1> HIDE DEF names
<1>2. /\ DOMAIN names = DOMAIN toolNames \cup IdsOf(m)
      /\ names = [id \in DOMAIN names |-> names[id]]
      /\ \A id \in DOMAIN toolNames \ IdsOf(m) : names[id] = toolNames[id]
      /\ \A id \in IdsOf(m) :
            \E k \in Tellable(m) :
               /\ m.calls[k].id = id /\ names[id] = m.calls[k].name
               /\ \A j \in Tellable(m) : m.calls[j].id = id => j <= k
  <2>1. Extends(names, toolNames, m)
    BY <1>1, LearnedNames DEF names
  <2> QED
    BY <2>1 DEF Extends
<1>3. CASE m.role # "assistant"
  <2>1. Calls(i) = {} /\ IdsOf(m) = {}
    BY <1>3 DEF Calls, IdsOf
  <2>2. names = toolNames
    BY <2>1, <1>2 DEF NamesKnown
  <2>3. toolNames' = toolNames
    BY <2>2 DEF names
  <2> QED
    BY <2>1, <2>3, NoCallsNoNames
<1>4. CASE m.role = "assistant"
  <2>1. Calls(i) = DOMAIN m.calls /\ Tellable(m) = DOMAIN m.calls
    BY <1>4 DEF Calls
  <2>2. \A id : AnswersTo(id, i + 1)' = AnswersTo(id, i + 1)
    BY DEF AnswersTo, Calls
  <2>3. \A id, c : LatestOf(c, id, i + 1)' = LatestOf(c, id, i + 1) /\ NameOf(c)' = NameOf(c)
    BY <2>2 DEF LatestOf, NameOf
  <2>4. \A id : \A j \in 1..(i - 1) : \A d \in AnswersTo(id, i) : d[1] < i
    BY DEF AnswersTo
  <2>5. ASSUME NEW id \in IdsOf(m)
        PROVE  \E c \in AnswersTo(id, i + 1) :
                  LatestOf(c, id, i + 1) /\ names[id] = NameOf(c)
    <3>1. PICK k \in Tellable(m) :
              /\ m.calls[k].id = id /\ names[id] = m.calls[k].name
              /\ \A j \in Tellable(m) : m.calls[j].id = id => j <= k
      BY <1>2
    <3> DEFINE c == <<i, k>>
    <3>2. c[1] = i /\ c[2] = k
      OBVIOUS
    <3>3. c \in AnswersTo(id, i + 1)
      <4>1. k \in {x \in Calls(i) : request[i].calls[x].id = id}
        BY <3>1, <2>1
      <4>2. c \in {<<i, x>> : x \in {x \in Calls(i) : request[i].calls[x].id = id}}
        BY <4>1
      <4> HIDE DEF c
      <4> QED
        BY <4>2, AnswersGrow
    <3>4. ASSUME NEW d \in AnswersTo(id, i + 1)
          PROVE  Earlier(d, c)
      <4>1. CASE d \in AnswersTo(id, i)
        <5>1. d[1] < i
          BY <4>1 DEF AnswersTo
        <5> QED
          BY <5>1, <3>2 DEF Earlier
      <4>2. CASE d \notin AnswersTo(id, i)
        <5>1. PICK j \in Calls(i) : d = <<i, j>> /\ m.calls[j].id = id
          BY <4>2, AnswersGrow
        <5>2. j <= k
          BY <5>1, <3>1, <2>1
        <5>3. d[1] = i /\ d[2] = j
          BY <5>1
        <5> QED
          BY <5>2, <5>3, <3>2 DEF Earlier
      <4> QED
        BY <4>1, <4>2
    <3>5. names[id] = NameOf(c)
      BY <3>1, <3>2 DEF NameOf
    <3> HIDE DEF c
    <3> QED
      BY <3>3, <3>4, <3>5 DEF LatestOf
  <2>6. ASSUME NEW id \in DOMAIN toolNames \ IdsOf(m)
        PROVE  \E c \in AnswersTo(id, i + 1) :
                  LatestOf(c, id, i + 1) /\ names[id] = NameOf(c)
    <3>1. PICK c \in AnswersTo(id, i) : LatestOf(c, id, i) /\ toolNames[id] = NameOf(c)
      BY DEF NamesKnown
    <3>2. AnswersTo(id, i + 1) = AnswersTo(id, i)
      <4>1. \A k \in Calls(i) : request[i].calls[k].id # id
        BY <2>1, <1>4 DEF IdsOf
      <4>2. {<<i, k>> : k \in {k \in Calls(i) : request[i].calls[k].id = id}} = {}
        BY <4>1
      <4> QED
        BY <4>2, AnswersGrow
    <3>3. names[id] = NameOf(c)
      BY <3>1, <1>2
    <3> QED
      BY <3>1, <3>2, <3>3 DEF LatestOf
  <2>7. ASSUME NEW j \in 1..(position' - 1), NEW k \in Nat, k \in Calls(j)'
        PROVE  request'[j].calls[k].id \in DOMAIN toolNames'
    <3>1. k \in Calls(j)
      BY <2>7 DEF Calls
    <3>2. CASE j = i
      <4>1. k \in Tellable(m)
        BY <3>1, <3>2, <2>1
      <4>2. m.calls[k].id \in IdsOf(m)
        BY <4>1, <1>4 DEF IdsOf
      <4> QED
        BY <4>2, <3>2, <1>2 DEF names
    <3>3. CASE j # i
      <4>1. request[j].calls[k].id \in DOMAIN toolNames
        BY <3>1, <3>3 DEF NamesKnown
      <4> QED
        BY <4>1, <1>2 DEF names
    <3> QED
      BY <3>2, <3>3
  <2>8. toolNames' = names
    BY DEF names
  <2>9. \A id \in DOMAIN names :
          (\E c \in AnswersTo(id, position) :
              LatestOf(c, id, position) /\ toolNames[id] = NameOf(c))'
    BY <2>2, <2>3, <2>5, <2>6, <2>8, <1>2
  <2> QED
    BY <2>7, <2>8, <2>9, <1>2 DEF NamesKnown
<1> QED
  BY <1>3, <1>4

(* A tool result without a name of its own gets the name of its call.      *)
LEMMA NamedRight ==
    ASSUME NEW i \in Nat \ {0}, RequestOK, NamesKnown, position = i, i <= Len(request),
           request[i].role = "tool",
           ~ InvalidResult(request[i], Named(request[i], Learned(toolNames, request[i])))
    PROVE  Named(request[i], Learned(toolNames, request[i])) =
              IF request[i].name # None THEN request[i].name ELSE LatestName(i)
<1> DEFINE m == request[i]
           names == Learned(toolNames, m)
<1>1. m \in Message /\ IdsOf(m) = {}
  BY DEF RequestOK, IdsOf
<1>2. DOMAIN names = DOMAIN toolNames /\ \A id \in DOMAIN toolNames : names[id] = toolNames[id]
  <2>1. Extends(names, toolNames, m)
    BY <1>1, LearnedNames
  <2> HIDE DEF names
  <2> QED
    BY <2>1, <1>1 DEF Extends
<1> HIDE DEF names
<1>3. CASE m.name # None
  BY <1>3 DEF Named
<1>4. CASE m.name = None
  <2>1. m.callId \in DOMAIN names
    BY <1>4 DEF InvalidResult, Named, names
  <2>2. Named(m, names) = toolNames[m.callId]
    BY <2>1, <1>2, <1>4 DEF Named
  <2>3. PICK c \in AnswersTo(m.callId, i) :
            LatestOf(c, m.callId, i) /\ toolNames[m.callId] = NameOf(c)
    BY <2>1, <1>2 DEF NamesKnown
  <2>4. LatestName(i) = NameOf(c)
    BY <2>3, LatestIsUnique DEF RequestOK
  <2> QED
    BY <2>2, <2>3, <2>4, <1>4 DEF names
<1> QED
  BY <1>3, <1>4

LEMMA ConvertKeepsInv ==
    ASSUME ConversionInv, ConvertMessage, NEW i \in Nat, position = i
    PROVE  ConversionInv'
<1> DEFINE m == request[i]
           names == Learned(toolNames, m)
           name == Named(m, names)
           valid == IF m.role = "tool" THEN ~ InvalidResult(m, name) ELSE ~ InvalidContent(m)
           parts == IF m.role = "tool" THEN ResultPart(m, name) ELSE ContentParts(m)
           new == [role |-> roleToCC(m.role), parts |-> parts]
<1>1. /\ verdict = "converting" /\ i <= Len(request)
      /\ position' = i + 1 /\ request' = request
      /\ IF IsSystem(m) THEN UNCHANGED <<toolNames, out, verdict>>
         ELSE /\ toolNames' = names
              /\ IF valid THEN out' = Append(out, new) /\ UNCHANGED verdict
                 ELSE verdict' = "invalid" /\ UNCHANGED out
  BY DEF ConvertMessage
<1>2. /\ i \in Nat \ {0} /\ RequestOK /\ request \in Seq(Message) /\ m \in Message
      /\ NamesKnown /\ OutputSoFar /\ Len(request) \in Nat
  BY <1>1 DEF ConversionInv, RequestOK
<1> HIDE DEF names, valid, parts, new
<1>3. RequestOK'
  BY <1>1, <1>2 DEF RequestOK
<1>4. \A j : Kept(j)' = Kept(j)
  BY <1>1 DEF Kept
<1>5. \A j : LatestName(j)' = LatestName(j)
  BY <1>1 DEF LatestName, Answers, Calls
<1>6. Kept(i - 1) \in Nat /\ Kept(i) = IF IsSystem(m) THEN Kept(i - 1) ELSE Kept(i - 1) + 1
  <2>1. i - 1 \in Nat /\ (i - 1) + 1 = i
    BY <1>2
  <2> QED
    BY <2>1, KeptCounts
<1>7. \A j \in 1..(i - 1) : Kept(j) \in Nat /\ Kept(j) <= Kept(i - 1)
  <2>1. i - 1 \in Nat /\ \A j \in 1..(i - 1) : j \in Nat /\ j <= i - 1
    BY <1>2
  <2> QED
    BY <2>1, KeptCounts
<1>8. \A j \in 1..(i - 1) : ~ IsSystem(request[j]) => Kept(j) >= 1
  <2> SUFFICES ASSUME NEW j \in 1..(i - 1), ~ IsSystem(request[j])
               PROVE  Kept(j) >= 1
    OBVIOUS
  <2>1. j - 1 \in Nat /\ (j - 1) + 1 = j
    OBVIOUS
  <2>2. Kept(j - 1) \in Nat /\ Kept(j) = Kept(j - 1) + 1
    BY <2>1, KeptCounts
  <2> QED
    BY <2>2
<1>9. CASE IsSystem(m)
  <2>1. Calls(i) = {}
    BY <1>9 DEF Calls, IsSystem
  <2>2. NamesKnown'
    BY <2>1, <1>1, <1>2, <1>9, NoCallsNoNames
  <2>3. OutputSoFar'
    <3>1. out' = out /\ Len(out) = Kept(i)
      BY <1>1, <1>6, <1>9 DEF ConversionInv, OutputSoFar
    <3>2. ASSUME NEW j \in 1..i, ~ IsSystem(request[j])
          PROVE  Converted(j)'
      <4>1. j # i /\ j \in 1..(i - 1)
        BY <3>2, <1>2, <1>9
      <4>2. Converted(j)
        BY <3>2, <4>1, <1>2 DEF OutputSoFar
      <4> QED
        BY <4>2, <3>1, <1>1, <1>4, <1>5 DEF Converted
    <3>3. position' - 1 = i
      BY <1>1, <1>2
    <3>4. \E S : out \in Seq(S)
      BY <1>2 DEF OutputSoFar
    <3>5. \A j \in 1..i : ~ IsSystem(request[j]) => Converted(j)'
      BY <3>2
    <3> QED
      BY <3>1, <3>3, <3>4, <3>5, <1>1, <1>4 DEF OutputSoFar
  <2> QED
    BY <1>3, <2>2, <2>3 DEF ConversionInv
<1>10. CASE ~ IsSystem(m) /\ ~ valid
  BY <1>1, <1>3, <1>10 DEF ConversionInv
<1>11. CASE ~ IsSystem(m) /\ valid
  <2>1. toolNames' = names /\ out' = Append(out, new)
    BY <1>1, <1>11
  <2>2. NamesKnown'
    <3>1. m.role = "assistant" => Tellable(m) = DOMAIN m.calls
      BY <1>11 DEF valid, InvalidContent, Tellable
    <3> QED
      BY <3>1, <2>1, <1>1, <1>2, LearnedKeepsNames DEF names
  <2>3. PICK S : out \in Seq(S)
    BY <1>2 DEF OutputSoFar
  <2>4. /\ out' \in Seq(S \cup {new}) /\ Len(out') = Len(out) + 1
        /\ out'[Len(out) + 1] = new
        /\ \A k \in 1..Len(out) : out'[k] = out[k]
        /\ Len(out) \in Nat
    <3>1. out \in Seq(S \cup {new})
      BY <2>3
    <3> QED
      BY <3>1, <2>1
  <2>5. Len(out) = Kept(i - 1) /\ Kept(i) = Len(out) + 1
    BY <1>2, <1>6, <1>11 DEF OutputSoFar
  <2>6. ASSUME NEW j \in 1..(i - 1), ~ IsSystem(request[j])
        PROVE  Converted(j)'
    <3>1. Converted(j)
      BY <2>6, <1>2 DEF OutputSoFar
    <3>2. out'[Kept(j)] = out[Kept(j)]
      BY <2>4, <2>5, <2>6, <1>7, <1>8
    <3> QED
      BY <3>1, <3>2, <1>1, <1>4, <1>5 DEF Converted
  <2>7. Converted(i)'
    <3>1. out'[Kept(i)] = new
      BY <2>4, <2>5
    <3>2. new.role = roleToCC(m.role)
      BY DEF new
    <3>3. m.role = "tool" =>
            new.parts[1].name = IF m.name # None THEN m.name ELSE LatestName(i)
      <4> SUFFICES ASSUME m.role = "tool"
                   PROVE  new.parts[1].name = IF m.name # None THEN m.name ELSE LatestName(i)
        OBVIOUS
      <4>1. new.parts[1].name = name
        BY DEF new, parts, ResultPart
      <4>2. ~ InvalidResult(m, name)
        BY <1>11 DEF valid
      <4>3. name = IF m.name # None THEN m.name ELSE LatestName(i)
        BY <4>2, <1>1, <1>2, NamedRight DEF names
      <4> QED
        BY <4>1, <4>3
    <3>4. out'[Kept(i)'] = new /\ request'[i] = m
      <4>1. Kept(i)' = Kept(i)
        BY <1>4
      <4> QED
        BY <3>1, <4>1, <1>1
    <3> QED
      BY <3>1, <3>2, <3>3, <1>1, <1>4, <1>5 DEF Converted
  <2>8. OutputSoFar'
    <3>1. position' - 1 = i
      BY <1>1, <1>2
    <3>2. \A j \in 1..i : j = i \/ j \in 1..(i - 1)
      BY <1>2
    <3>3. \A j \in 1..i : ~ IsSystem(request[j]) => Converted(j)'
      BY <3>2, <2>6, <2>7
    <3>4. Len(out') = Kept(i)
      BY <2>4, <2>5
    <3>5. \E T : out' \in Seq(T)
      BY <2>4
    <3> QED
      BY <3>1, <3>3, <3>4, <3>5, <1>1, <1>4 DEF OutputSoFar
  <2> QED
    BY <1>3, <2>2, <2>8 DEF ConversionInv
<1> QED
  BY <1>9, <1>10, <1>11

LEMMA ConversionStutters ==
    ASSUME ConversionInv, request' = request, position' = position, out' = out,
           toolNames' = toolNames,
           \/ verdict' = verdict
           \/ position > Len(request) /\ verdict = "converting" /\ verdict' = "ok"
    PROVE  ConversionInv'
<1>1. RequestOK'
  BY DEF ConversionInv, RequestOK
<1>2. NamesKnown => NamesKnown'
  BY DEF NamesKnown, AnswersTo, Calls, LatestOf, NameOf
<1>3. OutputSoFar => OutputSoFar'
  <2>1. \A j : Kept(j)' = Kept(j)
    BY DEF Kept
  <2>2. \A j : LatestName(j)' = LatestName(j)
    BY DEF LatestName, Answers, Calls
  <2>3. \A j : Converted(j) => Converted(j)'
    BY <2>1, <2>2 DEF Converted
  <2> QED
    BY <2>1, <2>3 DEF OutputSoFar
<1> QED
  BY <1>1, <1>2, <1>3 DEF ConversionInv

LEMMA ConversionStepKeepsInv ==
    ASSUME ConversionInv, [ConversionNext]_conversionVars
    PROVE  ConversionInv'
<1>1. CASE UNCHANGED conversionVars
  BY <1>1, ConversionStutters DEF conversionVars
<1>2. CASE ConvertMessage
  <2>1. position \in Nat
    BY DEF ConversionInv, RequestOK
  <2> QED
    BY <1>2, <2>1, ConvertKeepsInv
<1>3. CASE Finish
  BY <1>3, ConversionStutters DEF Finish
<1> QED
  BY <1>1, <1>2, <1>3 DEF ConversionNext

(* For every conversation a client may send: what the upstream receives of *)
(* it is complete and in order, and every tool result bears the name of    *)
(* the latest call of its id.                                              *)
THEOREM ResultsNameTheirCallHolds == Spec => []ResultsNameTheirCall
<1>1. Init => ConversionInv
  BY ConversionStart
<1>2. ConversionInv /\ [Next]_vars => ConversionInv'
  BY ConversionStepKeepsInv DEF Next, vars, LimiterSide, OAuthSide, FramingSide,
     ConversionSide, ExposureSide, conversionIdle
<1>3. ConversionInv => ResultsNameTheirCall
  <2> SUFFICES ASSUME ConversionInv, verdict = "ok" PROVE ResultsNameTheirCall
    BY DEF ResultsNameTheirCall
  <2>1. /\ request \in Seq(Message) /\ position - 1 = Len(request) /\ Len(request) \in Nat
        /\ OutputSoFar
    BY DEF ConversionInv, RequestOK
  <2> QED
    BY <2>1 DEF OutputSoFar, Converted, ResultsNameTheirCall
<1> QED
  BY <1>1, <1>2, <1>3, PTL DEF Spec

-----------------------------------------------------------------------------
(* The types of what the machines keep.                                    *)
FlowRecord ==
    [transport : Transport \cup {"none"}, done : BOOLEAN, result : ApiKey \cup {NoKey},
     err : BOOLEAN, resultCh : ApiKey \cup {NoKey}, errCh : BOOLEAN,
     waiter : {"none", "waiting", "closing", "adding", "ended"},
     got : ApiKey \cup {NoKey}, outcome : {"none", "added", "refused"}]

CallerRecord ==
    [at : {"idle", "check", "store", "cancel", "close", "push"},
     flow : Flow \cup {NoFlow}, state : Flow \cup {NoFlow}, key : ApiKey \cup {NoKey}]

(* A handler that is under way has its flow, one that delivers its key,    *)
(* and a goroutine that adds an account has got one.                       *)
OAuthInv ==
    /\ current \in Flow \cup {NoFlow}
    /\ flow \in [Flow -> FlowRecord]
    /\ lost \in [Flow -> ApiKey \cup {NoKey}]
    /\ caller \in [Caller -> CallerRecord]
    /\ oauthPool \subseteq ApiKey
    /\ answered \in [Flow -> SUBSET ApiKey]
    /\ \A c \in Caller : caller[c].at # "idle" => caller[c].flow \in Flow
    /\ \A c \in Caller : caller[c].at \in {"check", "store", "push"} => caller[c].key \in ApiKey
    /\ \A f \in Flow : flow[f].waiter = "adding" => flow[f].got \in ApiKey

LEMMA OAuthInvIsTyped == OAuthInv => OAuthTypeOK
<1> SUFFICES ASSUME OAuthInv PROVE OAuthTypeOK
  OBVIOUS
<1>1. ASSUME NEW f \in Flow
      PROVE  /\ flow[f].transport \in Transport \cup {"none"}
             /\ {flow[f].done, flow[f].errCh, flow[f].err} \subseteq BOOLEAN
             /\ {flow[f].result, flow[f].resultCh, flow[f].got} \subseteq ApiKey \cup {NoKey}
             /\ flow[f].waiter \in {"none", "waiting", "closing", "adding", "ended"}
             /\ flow[f].outcome \in {"none", "added", "refused"}
  <2>1. flow[f] \in FlowRecord
    BY DEF OAuthInv
  <2> QED
    BY <2>1 DEF FlowRecord
<1>2. ASSUME NEW c \in Caller
      PROVE  /\ caller[c].at \in {"idle", "check", "store", "cancel", "close", "push"}
             /\ caller[c].flow \in Flow \cup {NoFlow}
  <2>1. caller[c] \in CallerRecord
    BY DEF OAuthInv
  <2> QED
    BY <2>1 DEF CallerRecord
<1> QED
  BY <1>1, <1>2 DEF OAuthInv, OAuthTypeOK

LEMMA OAuthStart == OAuthInit => OAuthInv
<1> SUFFICES ASSUME OAuthInit PROVE OAuthInv
  OBVIOUS
<1>1. Unstarted \in FlowRecord /\ Unstarted.waiter = "none"
  BY DEF Unstarted, FlowRecord
<1>2. Idle \in CallerRecord /\ Idle.at = "idle"
  BY DEF Idle, CallerRecord
<1> QED
  BY <1>1, <1>2 DEF OAuthInit, OAuthInv

(* One flow's record changes, or one caller's.                             *)
LEMMA FlowChanges ==
    ASSUME OAuthInv, NEW f \in Flow, NEW r \in FlowRecord,
           r.waiter = "adding" => r.got \in ApiKey,
           flow' = [flow EXCEPT ![f] = r]
    PROVE  /\ flow' \in [Flow -> FlowRecord]
           /\ \A g \in Flow : flow'[g].waiter = "adding" => flow'[g].got \in ApiKey
<1>1. flow \in [Flow -> FlowRecord]
  BY DEF OAuthInv
<1>2. \A g \in Flow : flow'[g] = IF g = f THEN r ELSE flow[g]
  BY <1>1
<1> QED
  BY <1>1, <1>2 DEF OAuthInv

LEMMA CallerChanges ==
    ASSUME OAuthInv, NEW c \in Caller, NEW r \in CallerRecord,
           r.at # "idle" => r.flow \in Flow,
           r.at \in {"check", "store", "push"} => r.key \in ApiKey,
           caller' = [caller EXCEPT ![c] = r]
    PROVE  /\ caller' \in [Caller -> CallerRecord]
           /\ \A d \in Caller : caller'[d].at # "idle" => caller'[d].flow \in Flow
           /\ \A d \in Caller :
                 caller'[d].at \in {"check", "store", "push"} => caller'[d].key \in ApiKey
<1>1. caller \in [Caller -> CallerRecord]
  BY DEF OAuthInv
<1>2. \A d \in Caller : caller'[d] = IF d = c THEN r ELSE caller[d]
  BY <1>1
<1> QED
  BY <1>1, <1>2 DEF OAuthInv

LEMMA OAuthStepKeepsInv == OAuthInv /\ [OAuthNext]_oauthVars => OAuthInv'
<1> SUFFICES ASSUME OAuthInv, [OAuthNext]_oauthVars PROVE OAuthInv'
  OBVIOUS
<1> USE DEF OAuthInv
<1>0. CASE UNCHANGED oauthVars
  BY <1>0 DEF oauthVars
<1>1. ASSUME NEW f \in Flow PROVE flow[f] \in FlowRecord
  OBVIOUS
<1>2. ASSUME NEW c \in Caller PROVE caller[c] \in CallerRecord
  OBVIOUS
<1>3. CurrentIsPending => current \in Flow
  BY DEF CurrentIsPending
<1>4. Idle \in CallerRecord /\ Idle.at = "idle"
  BY DEF Idle, CallerRecord
<1> HIDE DEF OAuthInv
<1>5. ASSUME NEW f \in Flow, NEW t \in Transport, StartFlow(f, t)
      PROVE  OAuthInv'
  <2> DEFINE r == [flow[f] EXCEPT !.transport = t, !.waiter = "waiting"]
  <2>1. r \in FlowRecord /\ r.waiter = "waiting"
    BY <1>1 DEF FlowRecord
  <2>2. flow' = [flow EXCEPT ![f] = r]
    BY <1>5 DEF StartFlow
  <2> HIDE DEF r
  <2>3. /\ flow' \in [Flow -> FlowRecord]
        /\ \A g \in Flow : flow'[g].waiter = "adding" => flow'[g].got \in ApiKey
    BY <2>1, <2>2, FlowChanges
  <2> QED
    BY <1>5, <2>3 DEF StartFlow, OAuthInv
<1>6. ASSUME NEW c \in Caller, NEW s \in Flow, NEW k \in ApiKey, Callback(c, s, k)
      PROVE  OAuthInv'
  <2> DEFINE r == [at |-> "check", flow |-> current, state |-> s, key |-> k]
  <2>1. r \in CallerRecord /\ r.flow \in Flow /\ r.key \in ApiKey
    BY <1>3, <1>6 DEF CallerRecord, Callback
  <2>2. caller' = [caller EXCEPT ![c] = r]
    BY <1>6 DEF Callback
  <2> HIDE DEF r
  <2> QED
    BY <1>6, <2>1, <2>2, CallerChanges DEF Callback, OAuthInv
<1>7. ASSUME NEW f \in Flow, NEW s \in Flow, NEW k \in ApiKey, LocalCallback(f, s, k)
      PROVE  OAuthInv'
  <2>1. lost' \in [Flow -> ApiKey \cup {NoKey}] /\ answered' \in [Flow -> SUBSET ApiKey]
    BY <1>7 DEF LocalCallback, OAuthInv
  <2> QED
    BY <1>7, <2>1 DEF LocalCallback, OAuthInv
<1>8. ASSUME NEW c \in Caller, BeginCancel(c)
      PROVE  OAuthInv'
  <2> DEFINE r == [Idle EXCEPT !.at = "cancel", !.flow = current]
  <2>1. r \in CallerRecord /\ r.flow \in Flow /\ r.at = "cancel"
    BY <1>3, <1>8 DEF CallerRecord, BeginCancel, Idle
  <2>2. caller' = [caller EXCEPT ![c] = r]
    BY <1>8 DEF BeginCancel
  <2> HIDE DEF r
  <2> QED
    BY <1>8, <2>1, <2>2, CallerChanges DEF BeginCancel, OAuthInv
<1>9. ASSUME NEW c \in Caller, Check(c)
      PROVE  OAuthInv'
  <2> DEFINE old == caller[c]
             r == IF flow[old.flow].done \/ old.state # old.flow
                  THEN Idle ELSE [old EXCEPT !.at = "store"]
  <2>1. old \in CallerRecord /\ old.flow \in Flow /\ old.key \in ApiKey
    BY <1>2, <1>9 DEF Check, OAuthInv
  <2>2. caller' = [caller EXCEPT ![c] = r]
    BY <1>9 DEF Check
  <2> HIDE DEF old
  <2>3. /\ r \in CallerRecord
        /\ r.at # "idle" => r.flow \in Flow
        /\ r.at \in {"check", "store", "push"} => r.key \in ApiKey
    BY <1>4, <2>1 DEF CallerRecord
  <2> HIDE DEF r
  <2> QED
    BY <1>9, <2>2, <2>3, CallerChanges DEF Check, OAuthInv
<1>10. ASSUME NEW c \in Caller, StoreResult(c)
       PROVE  OAuthInv'
  <2> DEFINE g == caller[c].flow
             r == [flow[g] EXCEPT !.result = caller[c].key]
             d == [caller[c] EXCEPT !.at = "close"]
  <2>1. caller[c] \in CallerRecord /\ g \in Flow /\ caller[c].key \in ApiKey
    BY <1>2, <1>10 DEF StoreResult, OAuthInv
  <2>2. /\ r \in FlowRecord
        /\ r.waiter = "adding" => r.got \in ApiKey
    <3>1. flow[g] \in FlowRecord /\ (flow[g].waiter = "adding" => flow[g].got \in ApiKey)
      BY <2>1 DEF OAuthInv
    <3> QED
      BY <2>1, <3>1 DEF FlowRecord
  <2>3. d \in CallerRecord /\ d.flow \in Flow /\ d.at = "close"
    BY <2>1 DEF CallerRecord
  <2>4. flow' = [flow EXCEPT ![g] = r] /\ caller' = [caller EXCEPT ![c] = d]
    BY <1>10 DEF StoreResult
  <2> HIDE DEF r, d, g
  <2>5. /\ flow' \in [Flow -> FlowRecord]
        /\ \A f \in Flow : flow'[f].waiter = "adding" => flow'[f].got \in ApiKey
    BY <2>1, <2>2, <2>4, FlowChanges
  <2> QED
    BY <1>10, <2>3, <2>4, <2>5, CallerChanges DEF StoreResult, OAuthInv, g
<1>11. ASSUME NEW c \in Caller, PushCancel(c)
       PROVE  OAuthInv'
  <2> DEFINE g == caller[c].flow
             r == [flow[g] EXCEPT !.errCh = TRUE]
             d == [caller[c] EXCEPT !.at = "close"]
  <2>1. caller[c] \in CallerRecord /\ g \in Flow
    BY <1>2, <1>11 DEF PushCancel, OAuthInv
  <2>2. /\ r \in FlowRecord
        /\ r.waiter = "adding" => r.got \in ApiKey
    <3>1. flow[g] \in FlowRecord /\ (flow[g].waiter = "adding" => flow[g].got \in ApiKey)
      BY <2>1 DEF OAuthInv
    <3> QED
      BY <3>1 DEF FlowRecord
  <2>3. d \in CallerRecord /\ d.flow \in Flow /\ d.at = "close"
    BY <2>1 DEF CallerRecord
  <2>4. flow' = [flow EXCEPT ![g] = r] /\ caller' = [caller EXCEPT ![c] = d]
    BY <1>11 DEF PushCancel
  <2> HIDE DEF r, d, g
  <2>5. /\ flow' \in [Flow -> FlowRecord]
        /\ \A f \in Flow : flow'[f].waiter = "adding" => flow'[f].got \in ApiKey
    BY <2>1, <2>2, <2>4, FlowChanges
  <2> QED
    BY <1>11, <2>3, <2>4, <2>5, CallerChanges DEF PushCancel, OAuthInv, g
<1>12. ASSUME NEW c \in Caller, FinishNil(c)
       PROVE  OAuthInv'
  <2> DEFINE g == caller[c].flow
             r == [flow[g] EXCEPT !.done = TRUE]
             d == IF caller[c].key = NoKey THEN Idle ELSE [caller[c] EXCEPT !.at = "push"]
  <2>1. caller[c] \in CallerRecord /\ g \in Flow
    BY <1>2, <1>12 DEF FinishNil, OAuthInv
  <2>2. /\ r \in FlowRecord
        /\ r.waiter = "adding" => r.got \in ApiKey
    <3>1. flow[g] \in FlowRecord /\ (flow[g].waiter = "adding" => flow[g].got \in ApiKey)
      BY <2>1 DEF OAuthInv
    <3> QED
      BY <3>1 DEF FlowRecord
  <2>3. /\ d \in CallerRecord
        /\ d.at # "idle" => d.flow \in Flow
        /\ d.at \in {"check", "store", "push"} => d.key \in ApiKey
    BY <1>4, <2>1 DEF CallerRecord
  <2>4. flow' = [flow EXCEPT ![g] = r] /\ caller' = [caller EXCEPT ![c] = d]
    BY <1>12 DEF FinishNil
  <2> HIDE DEF r, d, g
  <2>5. /\ flow' \in [Flow -> FlowRecord]
        /\ \A f \in Flow : flow'[f].waiter = "adding" => flow'[f].got \in ApiKey
    BY <2>1, <2>2, <2>4, FlowChanges
  <2> QED
    BY <1>12, <2>3, <2>4, <2>5, CallerChanges DEF FinishNil, OAuthInv
<1>13. ASSUME NEW c \in Caller, PushResult(c)
       PROVE  OAuthInv'
  <2> DEFINE g == caller[c].flow
             r == [flow[g] EXCEPT !.resultCh = IF @ = NoKey THEN caller[c].key ELSE @]
  <2>1. caller[c] \in CallerRecord /\ g \in Flow /\ caller[c].key \in ApiKey
    BY <1>2, <1>13 DEF PushResult, OAuthInv
  <2>2. /\ r \in FlowRecord
        /\ r.waiter = "adding" => r.got \in ApiKey
    <3>1. flow[g] \in FlowRecord /\ (flow[g].waiter = "adding" => flow[g].got \in ApiKey)
      BY <2>1 DEF OAuthInv
    <3> QED
      BY <2>1, <3>1 DEF FlowRecord
  <2>3. flow' = [flow EXCEPT ![g] = r] /\ caller' = [caller EXCEPT ![c] = Idle]
    BY <1>13 DEF PushResult
  <2>4. answered' \in [Flow -> SUBSET ApiKey]
    BY <1>13, <2>1 DEF PushResult, OAuthInv
  <2> HIDE DEF r, g
  <2>5. /\ flow' \in [Flow -> FlowRecord]
        /\ \A f \in Flow : flow'[f].waiter = "adding" => flow'[f].got \in ApiKey
    BY <2>1, <2>2, <2>3, FlowChanges
  <2> QED
    BY <1>4, <1>13, <2>3, <2>4, <2>5, CallerChanges DEF PushResult, OAuthInv
<1>14. ASSUME NEW f \in Flow, NEW r \in FlowRecord,
              r.waiter = "adding" => r.got \in ApiKey,
              flow' = [flow EXCEPT ![f] = r], oauthPool' \subseteq ApiKey,
              UNCHANGED <<current, lost, caller, answered>>
       PROVE  OAuthInv'
  BY <1>14, FlowChanges DEF OAuthInv
<1>15. ASSUME NEW f \in Flow, TakeResult(f)
       PROVE  OAuthInv'
  <2> DEFINE r == [flow[f] EXCEPT !.result = flow[f].resultCh, !.resultCh = NoKey,
                    !.got = flow[f].resultCh, !.done = TRUE, !.waiter = "adding"]
  <2>1. flow' = [flow EXCEPT ![f] = r]
    BY <1>15 DEF TakeResult
  <2>2. r \in FlowRecord /\ r.got \in ApiKey
    BY <1>1, <1>15 DEF FlowRecord, TakeResult
  <2> HIDE DEF r
  <2> QED
    BY <1>14, <1>15, <2>1, <2>2 DEF TakeResult, OAuthInv
<1>16. ASSUME NEW f \in Flow, TakeError(f) \/ TimeOut(f)
       PROVE  OAuthInv'
  <2> DEFINE r == [Failed(flow[f]) EXCEPT !.errCh = FALSE]
             t == Failed(flow[f])
  <2>1. flow' = [flow EXCEPT ![f] = r] \/ flow' = [flow EXCEPT ![f] = t]
    BY <1>16 DEF TakeError, TimeOut
  <2>2. r \in FlowRecord /\ r.waiter = "closing" /\ t \in FlowRecord /\ t.waiter = "closing"
    BY <1>1 DEF FlowRecord, Failed
  <2>3. oauthPool' \subseteq ApiKey /\ UNCHANGED <<current, lost, caller, answered>>
    BY <1>16 DEF TakeError, TimeOut, OAuthInv
  <2> HIDE DEF r, t
  <2> QED
    BY <1>14, <2>1, <2>2, <2>3
<1>17. ASSUME NEW f \in Flow, FinishErr(f)
       PROVE  OAuthInv'
  <2> DEFINE r == [flow[f] EXCEPT !.done = TRUE, !.waiter = "ended"]
  <2>1. flow' = [flow EXCEPT ![f] = r]
    BY <1>17 DEF FinishErr
  <2>2. r \in FlowRecord /\ r.waiter = "ended"
    BY <1>1 DEF FlowRecord
  <2> HIDE DEF r
  <2> QED
    BY <1>14, <1>17, <2>1, <2>2 DEF FinishErr, OAuthInv
<1>18. ASSUME NEW f \in Flow, AddOAuthAccount(f)
       PROVE  OAuthInv'
  <2> DEFINE r == [flow[f] EXCEPT !.waiter = "ended",
                    !.outcome = IF flow[f].got \in oauthPool THEN "refused" ELSE "added"]
  <2>1. flow' = [flow EXCEPT ![f] = r]
    BY <1>18 DEF AddOAuthAccount
  <2>2. r \in FlowRecord /\ r.waiter = "ended"
    BY <1>1 DEF FlowRecord
  <2>3. oauthPool' \subseteq ApiKey
    BY <1>18 DEF AddOAuthAccount, OAuthInv
  <2> HIDE DEF r
  <2> QED
    BY <1>14, <1>18, <2>1, <2>2, <2>3 DEF AddOAuthAccount
<1> QED
  BY <1>0, <1>5, <1>6, <1>7, <1>8, <1>9, <1>10, <1>11, <1>12, <1>13, <1>15, <1>16, <1>17,
     <1>18 DEF OAuthNext, Handle, Wait

(* Whatever the payload, dispatch leaves events and a way to end.          *)
FramingEnds == {"open", "done", "eof", "error", "readError", "refused"}

LEMMA DispatchTyped ==
    ASSUME NEW r \in [handed : Seq({"event", "joined"}), end : FramingEnds], NEW values
    PROVE  Dispatch(r, values) \in [handed : Seq({"event", "joined"}), end : FramingEnds]
<1>1. Decoded(values) \in {"nothing", "done", "event", "joined", "error"}
  BY DEF Decoded
<1>2. CASE r.end # "open" \/ Decoded(values) = "nothing"
  BY <1>2 DEF Dispatch
<1>3. CASE ~ (r.end # "open" \/ Decoded(values) = "nothing") /\ IsEvent(values)
  <2>1. Decoded(values) \in {"event", "joined"}
    BY <1>3 DEF IsEvent
  <2>2. Append(r.handed, Decoded(values)) \in Seq({"event", "joined"})
    BY <2>1
  <2>3. Dispatch(r, values) =
          [handed |-> Append(r.handed, Decoded(values)),
           end    |-> IF Len(r.handed) + 1 = refuseAt THEN "refused" ELSE "open"]
    BY <1>3 DEF Dispatch
  <2> QED
    BY <2>2, <2>3 DEF FramingEnds
<1>4. CASE ~ (r.end # "open" \/ Decoded(values) = "nothing") /\ ~ IsEvent(values)
  <2>1. Decoded(values) \in FramingEnds
    BY <1>1, <1>4 DEF IsEvent, FramingEnds
  <2>2. Dispatch(r, values) = [r EXCEPT !.end = Decoded(values)]
    BY <1>4 DEF Dispatch
  <2> HIDE DEF FramingEnds
  <2> QED
    BY <2>1, <2>2
<1> QED
  BY <1>2, <1>3, <1>4

LEMMA FramingStepKeepsType == FramingTypeOK /\ [FramingNext]_framingVars => FramingTypeOK'
<1> SUFFICES ASSUME FramingTypeOK, [FramingNext]_framingVars PROVE FramingTypeOK'
  OBVIOUS
<1> DEFINE Readings == [handed : Seq({"event", "joined"}), end : FramingEnds]
<1>1. CASE UNCHANGED framingVars
  BY <1>1 DEF framingVars, FramingTypeOK
<1>2. Reading \in Readings
  BY DEF Reading, FramingTypeOK, FramingEnds
<1>3. ASSUME NEW l \in Line, Read(l)
      PROVE  lines' \in Seq(Line) /\ Len(lines') <= MaxLines
  BY <1>3, FramingConstants DEF Read, FramingTypeOK
<1>4. ASSUME NEW r \in Readings, Became(r)
      PROVE  handed' \in Seq({"event", "joined"}) /\ end' \in FramingEnds
  BY <1>4 DEF Became
<1>5. <<>> \in Seq(Value) /\ Len(<<>>) <= MaxEvent
  BY FramingConstants
<1>6. CASE EmptyLine
  <2>1. [kind |-> "empty", value |-> "blank"] \in Line
    BY DEF Line
  <2>2. Dispatch(Reading, data) \in Readings
    BY <1>2, DispatchTyped
  <2>3. lines' \in Seq(Line) /\ Len(lines') <= MaxLines
    BY <1>6, <2>1, <1>3 DEF EmptyLine
  <2>4. handed' \in Seq({"event", "joined"}) /\ end' \in FramingEnds
    BY <1>6, <2>2, <1>4 DEF EmptyLine
  <2>5. body' = body
    BY <1>6 DEF EmptyLine, Read
  <2> QED
    BY <1>5, <1>6, <2>3, <2>4, <2>5 DEF EmptyLine, FramingTypeOK, FramingEnds
<1>7. CASE SkippedLine
  <2>1. [kind |-> "skipped", value |-> "blank"] \in Line
    BY DEF Line
  <2>2. lines' \in Seq(Line) /\ Len(lines') <= MaxLines
    BY <1>7, <2>1, <1>3 DEF SkippedLine
  <2>3. body' = body
    BY <1>7 DEF SkippedLine, Read
  <2> QED
    BY <1>7, <2>2, <2>3 DEF SkippedLine, FramingTypeOK
<1>8. CASE DataLine
  <2>1. PICK v \in Value :
          /\ Read([kind |-> "data", value |-> v])
          /\ IF Len(data) + 1 > MaxEvent
             THEN end' = "error" /\ UNCHANGED data
             ELSE data' = Append(data, v) /\ UNCHANGED end
          /\ UNCHANGED handed
    BY <1>8 DEF DataLine
  <2>2. [kind |-> "data", value |-> v] \in Line
    BY DEF Line
  <2>3. lines' \in Seq(Line) /\ Len(lines') <= MaxLines
    BY <2>1, <2>2, <1>3
  <2>4. data' \in Seq(Value) /\ Len(data') <= MaxEvent
    BY <2>1, FramingConstants DEF FramingTypeOK
  <2>5. end' \in FramingEnds
    BY <2>1 DEF FramingTypeOK, FramingEnds
  <2>6. body' = body
    BY <2>1 DEF Read
  <2> QED
    BY <2>1, <2>3, <2>4, <2>5, <2>6 DEF FramingTypeOK, FramingEnds
<1>9. CASE BareLine
  <2>1. PICK v \in Value :
          /\ Read([kind |-> "bare", value |-> v])
          /\ Became(Dispatch(Dispatch(Reading, data), <<v>>))
          /\ data' = <<>>
    BY <1>9 DEF BareLine
  <2>2. [kind |-> "bare", value |-> v] \in Line
    BY DEF Line
  <2>3. Dispatch(Dispatch(Reading, data), <<v>>) \in Readings
    BY <1>2, DispatchTyped
  <2>4. lines' \in Seq(Line) /\ Len(lines') <= MaxLines
    BY <2>1, <2>2, <1>3
  <2>5. handed' \in Seq({"event", "joined"}) /\ end' \in FramingEnds
    BY <2>1, <2>3, <1>4
  <2>6. body' = body
    BY <2>1 DEF Read
  <2> QED
    BY <1>5, <2>1, <2>4, <2>5, <2>6 DEF FramingTypeOK, FramingEnds
<1>10. CASE LineCut
  BY <1>10 DEF LineCut, FramingTypeOK
<1>11. CASE BodyOver
  <2> DEFINE r == Dispatch(Reading, data)
  <2>1. r \in Readings
    BY <1>2, DispatchTyped
  <2>2. /\ handed' = r.handed /\ data' = <<>> /\ lines' = lines
        /\ body' \in {"ended", "failed", "overlong"}
        /\ end' = IF r.end # "open" THEN r.end
                  ELSE IF body' = "ended" THEN "eof" ELSE "readError"
    BY <1>11 DEF BodyOver
  <2> HIDE DEF r
  <2>3. handed' \in Seq({"event", "joined"}) /\ end' \in FramingEnds
    BY <2>1, <2>2 DEF FramingEnds
  <2> QED
    BY <1>5, <2>2, <2>3 DEF FramingTypeOK, FramingEnds
<1> QED
  BY <1>1, <1>6, <1>7, <1>8, <1>9, <1>10, <1>11 DEF FramingNext

(* The types of the conversion: the output is a sequence of messages.      *)
ConversionTypes ==
    /\ ConversionInv
    /\ limit \in Int \X Int
    /\ ConversionTypeOK
    /\ \E S : out \in Seq(S)

LEMMA ConversionTypesStart == Init => ConversionTypes
<1> SUFFICES ASSUME Init PROVE ConversionTypes
  OBVIOUS
<1>1. /\ position = 1 /\ toolNames = <<>> /\ out = <<>> /\ verdict = "converting"
      /\ budget = 0 /\ limit \in Int \X Int
  BY ConversionConstants DEF Init, ConversionInit
<1>2. ConversionInv
  BY ConversionStart
<1>3. DOMAIN toolNames = {} /\ DOMAIN out = {} /\ out \in Seq({})
  BY <1>1
<1>4. ConversionTypeOK
  BY <1>1, <1>2, <1>3, ConversionConstants DEF ConversionInv, RequestOK, ConversionTypeOK
<1> QED
  BY <1>1, <1>2, <1>3, <1>4 DEF ConversionTypes

LEMMA ConversionStepKeepsTypes ==
    ASSUME ConversionTypes, [ConversionNext]_conversionVars
    PROVE  ConversionTypes'
<1>1. ConversionInv'
  BY ConversionStepKeepsInv DEF ConversionTypes
<1>2. CASE UNCHANGED conversionVars
  BY <1>1, <1>2 DEF conversionVars, ConversionTypes, ConversionTypeOK
<1>3. CASE Finish
  <2> DEFINE asked == OutputTokenBudget(limit)
  <2>1. asked \in Int
    BY DEF ConversionTypes, OutputTokenBudget
  <2>2. budget' = IF asked <= 0 THEN DefaultBudget
                  ELSE IF asked > MaximumBudget THEN MaximumBudget ELSE asked
    BY <1>3 DEF Finish
  <2> HIDE DEF asked
  <2>3. budget' \in 0..MaximumBudget /\ budget' > 0
    BY <2>1, <2>2, ConversionConstants
  <2> QED
    BY <1>1, <1>3, <2>3 DEF Finish, ConversionTypes, ConversionTypeOK
<1>4. CASE ConvertMessage
  <2> DEFINE m == request[position]
             names == Learned(toolNames, m)
             Ids == UNION {{request[i].calls[j].id : j \in DOMAIN request[i].calls}
                             : i \in DOMAIN request}
  <2>1. /\ position \in 1..Len(request) /\ Len(request) \in Nat /\ request' = request
        /\ position' = position + 1 /\ UNCHANGED <<limit, budget>>
        /\ verdict = "converting" /\ verdict' \in {"converting", "invalid"}
        /\ toolNames' \in {toolNames, names}
        /\ m \in Message
    BY <1>4 DEF ConvertMessage, ConversionTypes, ConversionInv, RequestOK, ConversionTypeOK
  <2>2. DOMAIN names = DOMAIN toolNames \cup IdsOf(m)
    <3>1. Extends(names, toolNames, m)
      BY <2>1, LearnedNames
    <3> HIDE DEF names
    <3> QED
      BY <3>1 DEF Extends
  <2> HIDE DEF names
  <2>3. IdsOf(m) \subseteq Ids
    <3>1. IdsOf(m) \subseteq {m.calls[j].id : j \in DOMAIN m.calls}
      BY DEF IdsOf, Tellable
    <3>2. position \in DOMAIN request
      BY <2>1 DEF ConversionTypes, ConversionInv, RequestOK
    <3> QED
      BY <3>1, <3>2
  <2>4. DOMAIN toolNames \subseteq Ids
    BY DEF ConversionTypes, ConversionTypeOK
  <2> HIDE DEF Ids
  <2>5. DOMAIN toolNames' \subseteq Ids
    BY <2>1, <2>2, <2>3, <2>4
  <2>6. /\ \E S : out' \in Seq(S)
        /\ \A i \in DOMAIN out' : out'[i].role \in {"assistant", "tool", "user"}
    <3>1. PICK S : out \in Seq(S)
      BY DEF ConversionTypes
    <3>2. \A i \in DOMAIN out : out[i].role \in {"assistant", "tool", "user"}
      BY DEF ConversionTypes, ConversionTypeOK
    <3>3. \/ out' = out
          \/ \E parts : out' = Append(out, [role |-> roleToCC(m.role), parts |-> parts])
      BY <1>4 DEF ConvertMessage
    <3>4. ASSUME NEW parts, out' = Append(out, [role |-> roleToCC(m.role), parts |-> parts])
          PROVE  /\ \E T : out' \in Seq(T)
                 /\ \A i \in DOMAIN out' : out'[i].role \in {"assistant", "tool", "user"}
      <4> DEFINE new == [role |-> roleToCC(m.role), parts |-> parts]
      <4>1. new.role \in {"assistant", "tool", "user"}
        BY DEF roleToCC
      <4> HIDE DEF new
      <4>2. out' = Append(out, new) /\ out \in Seq(S \cup {new})
        BY <3>1, <3>4 DEF new
      <4>3. /\ out' \in Seq(S \cup {new}) /\ Len(out) \in Nat
            /\ DOMAIN out' = 1..(Len(out) + 1) /\ DOMAIN out = 1..Len(out)
            /\ \A i \in 1..Len(out) : out'[i] = out[i]
            /\ out'[Len(out) + 1] = new
        BY <4>2
      <4>4. \A i \in DOMAIN out' : i = Len(out) + 1 \/ i \in 1..Len(out)
        BY <4>3
      <4> QED
        BY <4>1, <4>3, <4>4, <3>2
    <3> QED
      BY <3>1, <3>2, <3>3, <3>4
  <2>7. position' \in 1..(Len(request) + 1)
    BY <2>1
  <2>8. budget' \in 0..MaximumBudget /\ (verdict' = "ok" <=> budget' > 0)
    BY <2>1, ConversionConstants DEF ConversionTypes, ConversionTypeOK
  <2> QED
    BY <1>1, <2>1, <2>5, <2>6, <2>7, <2>8 DEF ConversionTypes, ConversionTypeOK, Ids
<1> QED
  BY <1>2, <1>3, <1>4 DEF ConversionNext

LEMMA ExposureStepKeepsType == ExposureTypeOK /\ [ExposureNext]_exposureVars => ExposureTypeOK'
  BY ExposureConstants DEF ExposureTypeOK, exposureVars, ExposureNext, PutExposure,
     FetchProviderModels, Rewritten

(* The variables of all five machines keep their types.                    *)
THEOREM FrontDoorTypeCorrect == Spec => []FrontDoorTypeOK
<1> DEFINE Inv == LimiterInv /\ OAuthInv /\ FramingTypeOK /\ ConversionTypes /\ ExposureTypeOK
<1>1. Init => Inv
  <2> SUFFICES ASSUME Init PROVE Inv
    OBVIOUS
  <2>1. LimiterInv /\ OAuthInv /\ ConversionTypes
    BY LimiterStart, OAuthStart, ConversionTypesStart DEF Init
  <2>2. FramingTypeOK
    BY FramingConstants DEF Init, FramingInit, FramingTypeOK
  <2>3. ExposureTypeOK
    BY ExposureConstants DEF Init, ExposureInit, ExposureTypeOK
  <2> QED
    BY <2>1, <2>2, <2>3
<1>2. Inv /\ [Next]_vars => Inv'
  <2> SUFFICES ASSUME Inv, [Next]_vars PROVE Inv'
    OBVIOUS
  <2>1. /\ LimiterStep /\ [OAuthNext]_oauthVars /\ [FramingNext]_framingVars
        /\ [ConversionNext]_conversionVars /\ [ExposureNext]_exposureVars
    BY DEF Next, vars, LimiterStep, LimiterSide, OAuthSide, FramingSide, ConversionSide,
       ExposureSide, limiterIdle, oauthIdle, framingIdle, conversionIdle, exposureIdle
  <2> QED
    BY <2>1, LimiterStepKeepsInv, OAuthStepKeepsInv, FramingStepKeepsType,
       ConversionStepKeepsTypes, ExposureStepKeepsType
<1>3. Inv => FrontDoorTypeOK
  BY OAuthInvIsTyped DEF LimiterInv, ConversionTypes, FrontDoorTypeOK
<1> HIDE DEF Inv
<1> QED
  BY <1>1, <1>2, <1>3, PTL DEF Spec

-----------------------------------------------------------------------------
(* SSE framing.  The reader looks at one line at a time; the reference     *)
(* looks at the whole text.  What a text gathers and closes is followed    *)
(* from line to line.                                                      *)
Cuts(text) == {j \in 0..Len(text) : \A k \in (j + 1)..Len(text) : ~ IsBreak(text[k])}

Cut(text) == CHOOSE j \in Cuts(text) : \A k \in Cuts(text) : j <= k

(* Every text has a last break, or none from its start on.                 *)
LEMMA CutIsLeast ==
    ASSUME NEW text \in Seq(Line)
    PROVE  /\ Cut(text) \in Cuts(text)
           /\ Cut(text) \in 0..Len(text)
           /\ \A k \in Cuts(text) : Cut(text) <= k
<1>1. Cuts(text) \in SUBSET Nat /\ Len(text) \in Nat
  BY DEF Cuts
<1>2. Len(text) \in Cuts(text)
  BY <1>1 DEF Cuts
<1>3. \E j \in Cuts(text) : \A k \in Cuts(text) : j <= k
  BY <1>1, <1>2, LeastOf
<1>4. Cut(text) \in Cuts(text) /\ \A k \in Cuts(text) : Cut(text) <= k
  BY <1>3 DEF Cut
<1> QED
  BY <1>4 DEF Cuts

(* A break leaves nothing after it; any other line stays.                  *)
LEMMA AfterBreakGrows ==
    ASSUME NEW text \in Seq(Line), NEW l \in Line
    PROVE  /\ AfterBreak(text) \in Seq(Line)
           /\ AfterBreak(Append(text, l)) =
                IF IsBreak(l) THEN <<>> ELSE Append(AfterBreak(text), l)
<1> DEFINE n == Len(text)
           u == Append(text, l)
<1>1. /\ n \in Nat /\ u \in Seq(Line) /\ Len(u) = n + 1 /\ u[n + 1] = l
      /\ \A k \in 1..n : u[k] = text[k]
  OBVIOUS
<1>2. /\ AfterBreak(text) = SubSeq(text, Cut(text) + 1, n)
      /\ AfterBreak(u) = SubSeq(u, Cut(u) + 1, n + 1)
  BY <1>1 DEF AfterBreak, Cut, Cuts
<1>3. /\ Cut(text) \in Cuts(text) /\ Cut(text) \in 0..n
      /\ \A k \in Cuts(text) : Cut(text) <= k
  BY CutIsLeast
<1>4. Cut(u) \in Cuts(u) /\ Cut(u) \in 0..(n + 1) /\ \A k \in Cuts(u) : Cut(u) <= k
  BY <1>1, CutIsLeast
<1> HIDE DEF n, u
<1>5. AfterBreak(text) \in Seq(Line)
  BY <1>1, <1>2, <1>3, SubSeqProperties DEF n
<1>6. CASE IsBreak(l)
  <2>1. Cut(u) = n + 1
    BY <1>1, <1>4, <1>6 DEF Cuts
  <2>2. SubSeq(u, n + 2, n + 1) = <<>>
    BY <1>1
  <2> QED
    BY <1>1, <1>2, <1>5, <1>6, <2>1, <2>2 DEF u
<1>7. CASE ~ IsBreak(l)
  <2>1. \A j \in 0..n : j \in Cuts(u) <=> j \in Cuts(text)
    BY <1>1, <1>7 DEF Cuts, n
  <2>2. Cut(u) = Cut(text)
    BY <1>1, <1>3, <1>4, <2>1
  <2>3. PICK c \in 0..n : c = Cut(text)
    BY <1>3
  <2>4. SubSeq(u, c + 1, n + 1) = Append(SubSeq(text, c + 1, n), l)
    <3> DEFINE a == SubSeq(u, c + 1, n + 1)
               b == Append(SubSeq(text, c + 1, n), l)
    <3>1. SubSeq(text, c + 1, n) \in Seq(Line) /\ Len(SubSeq(text, c + 1, n)) = n - c
      BY <1>1, SubSeqProperties DEF n
    <3>2. a \in Seq(Line) /\ Len(a) = n + 1 - c
      BY <1>1, SubSeqProperties
    <3>3. b \in Seq(Line) /\ Len(b) = n - c + 1
      BY <1>1, <3>1
    <3>4. ASSUME NEW k \in 1..(n + 1 - c) PROVE a[k] = b[k]
      <4>1. a[k] = u[c + k]
        BY <1>1
      <4>2. CASE k = n + 1 - c
        BY <1>1, <3>1, <4>1, <4>2
      <4>3. CASE k \in 1..(n - c)
        <5>1. b[k] = text[c + k]
          BY <1>1, <3>1, <4>3 DEF n
        <5>2. c + k \in 1..n
          BY <1>1, <4>3
        <5> QED
          BY <1>1, <4>1, <5>1, <5>2
      <4> QED
        BY <1>1, <4>2, <4>3
    <3> HIDE DEF a, b
    <3>5. a = b
      BY <1>1, <3>2, <3>3, <3>4, SeqEqual
    <3> QED
      BY <3>5 DEF a, b
  <2> QED
    BY <1>2, <1>5, <1>7, <2>2, <2>3, <2>4 DEF u
<1> QED
  BY <1>6, <1>7

(* So do the data lines: the reader's dataLines.                           *)
LEMMA GatheredGrows ==
    ASSUME NEW text \in Seq(Line), NEW l \in Line
    PROVE  /\ Gathered(text) \in Seq(Value)
           /\ Gathered(Append(text, l)) =
                IF IsBreak(l) THEN <<>>
                ELSE IF l.kind = "data" THEN Append(Gathered(text), l.value)
                ELSE Gathered(text)
<1> DEFINE Data == [kind : {"data"}, value : Value]
           Values(held) == [k \in 1..Len(held) |-> held[k].value]
           rest == AfterBreak(text)
           longer == AfterBreak(Append(text, l))
<1>1. rest \in Seq(Line) /\ longer = IF IsBreak(l) THEN <<>> ELSE Append(rest, l)
  BY AfterBreakGrows
<1>2. /\ Gathered(text) = Values(Among(rest, Data))
      /\ Gathered(Append(text, l)) = Values(Among(longer, Data))
  BY DEF Gathered
<1> HIDE DEF rest, longer
<1>3. Among(rest, Data) \in Seq(Data)
  BY <1>1, AmongType
<1>4. Gathered(text) \in Seq(Value)
  <2>1. PICK h \in Seq(Data) : h = Among(rest, Data)
    BY <1>3
  <2>2. Len(h) \in Nat /\ \A k \in 1..Len(h) : h[k].value \in Value
    <3>1. ASSUME NEW k \in 1..Len(h) PROVE h[k].value \in Value
      <4>1. h[k] \in Data
        BY ElementOfSeq
      <4> QED
        BY <4>1
    <3> QED
      BY <3>1
  <2>3. Values(h) \in Seq(Value)
    BY <2>2
  <2> QED
    BY <1>2, <2>1, <2>3
<1>5. CASE IsBreak(l)
  <2>1. <<>> \in Seq(Line) /\ \A k \in 1..Len(<<>>) : <<>>[k] \notin Data
    OBVIOUS
  <2>2. Among(<<>>, Data) = <<>>
    <3> HIDE DEF Data
    <3> QED
      BY <2>1, AmongNone
  <2>3. Values(<<>>) = <<>>
    OBVIOUS
  <2> QED
    BY <1>1, <1>2, <1>4, <1>5, <2>2, <2>3
<1>6. CASE ~ IsBreak(l) /\ l.kind = "data"
  <2>1. l \in Data
    BY <1>6 DEF Line
  <2>2. Among(Append(rest, l), Data) = Append(Among(rest, Data), l)
    <3> HIDE DEF Data
    <3> QED
      BY <1>1, <2>1, AmongAppend
  <2>3. PICK h \in Seq(Data) : h = Among(rest, Data)
    BY <1>3
  <2>4. Values(Append(h, l)) = Append(Values(h), l.value)
    <3>1. /\ Len(h) \in Nat /\ Len(Append(h, l)) = Len(h) + 1
          /\ Append(h, l)[Len(h) + 1] = l
          /\ \A k \in 1..Len(h) : Append(h, l)[k] = h[k]
      BY <2>1
    <3>2. Values(h) = [k \in 1..Len(h) |-> h[k].value] /\ Len(Values(h)) = Len(h)
      BY <3>1
    <3>3. Values(Append(h, l)) = [k \in 1..(Len(h) + 1) |-> Append(h, l)[k].value]
      BY <3>1
    <3> QED
      BY <3>1, <3>2, <3>3
  <2> QED
    BY <1>1, <1>2, <1>4, <1>6, <2>2, <2>3, <2>4
<1>7. CASE ~ IsBreak(l) /\ l.kind # "data"
  <2>1. Among(Append(rest, l), Data) = Among(rest, Data)
    <3>1. l \notin Data
      BY <1>7
    <3> HIDE DEF Data
    <3> QED
      BY <1>1, <3>1, AmongAppend
  <2> QED
    BY <1>1, <1>2, <1>4, <1>7, <2>1
<1> QED
  BY <1>5, <1>6, <1>7

(* Half of twice a number, from either side.                               *)
LEMMA Halves ==
    ASSUME NEW i \in Nat, i > 0
    PROVE  /\ (2 * i - 1) % 2 = 1 /\ (2 * i) % 2 = 0
           /\ ((2 * i - 1) + 1) \div 2 = i /\ (2 * i) \div 2 = i
  OBVIOUS

LEMMA HalfWithin ==
    ASSUME NEW n \in Nat, NEW k \in 1..(2 * n)
    PROVE  /\ (k + 1) \div 2 \in 1..n
           /\ k % 2 = 1 \/ k % 2 = 0
  OBVIOUS

(* A text closes payloads.                                                 *)
LEMMA ClosedType ==
    ASSUME NEW text \in Seq(Line)
    PROVE  Closed(text) \in Seq(Seq(Value))
<1>1. ASSUME NEW k \in 1..(2 * Len(text)) PROVE Closed(text)[k] \in Seq(Value)
  <2>1. PICK i \in 1..Len(text) : i = (k + 1) \div 2
    BY <1>1, HalfWithin
  <2>2. text[i] \in Line /\ text[i].value \in Value
    BY ElementOfSeq DEF Line, Value
  <2>3. SubSeq(text, 1, i - 1) \in Seq(Line)
    <3>1. \A j \in 1..(i - 1) : text[j] \in Line
      BY ElementOfSeq
    <3> QED
      BY <3>1, SubSeqProperties
  <2>4. Gathered(SubSeq(text, 1, i - 1)) \in Seq(Value)
    <3>1. PICK l \in Line : l = text[i]
      BY <2>2
    <3> QED
      BY <2>3, <3>1, GatheredGrows
  <2>5. <<>> \in Seq(Value) /\ <<text[i].value>> \in Seq(Value)
    BY <2>2
  <2> QED
    BY <1>1, <2>1, <2>4, <2>5 DEF Closed
<1>2. Closed(text) = [k \in 1..(2 * Len(text)) |-> Closed(text)[k]] /\ 2 * Len(text) \in Nat
  BY DEF Closed
<1> QED
  BY <1>1, <1>2

(* A line adds two places to what a text closes.                           *)
LEMMA ClosedGrows ==
    ASSUME NEW text \in Seq(Line), NEW l \in Line
    PROVE  Closed(Append(text, l)) =
             Append(Append(Closed(text), IF IsBreak(l) THEN Gathered(text) ELSE <<>>),
                    IF l.kind = "bare" THEN <<l.value>> ELSE <<>>)
<1> DEFINE n == Len(text)
           u == Append(text, l)
           b1 == IF IsBreak(l) THEN Gathered(text) ELSE <<>>
           b2 == IF l.kind = "bare" THEN <<l.value>> ELSE <<>>
           Place(t, k) == LET i == (k + 1) \div 2
                          IN IF k % 2 = 1
                             THEN IF IsBreak(t[i]) THEN Gathered(SubSeq(t, 1, i - 1)) ELSE <<>>
                             ELSE IF t[i].kind = "bare" THEN <<t[i].value>> ELSE <<>>
<1>1. /\ n \in Nat /\ Len(u) = n + 1 /\ u[n + 1] = l
      /\ \A i \in 1..n : u[i] = text[i]
  OBVIOUS
<1>2. /\ Closed(text) = [k \in 1..(2 * n) |-> Place(text, k)]
      /\ Closed(u) = [k \in 1..(2 * Len(u)) |-> Place(u, k)]
  BY DEF Closed
<1>3. \A i \in 1..(n + 1) : SubSeq(u, 1, i - 1) = SubSeq(text, 1, i - 1)
  BY <1>1
<1>4. SubSeq(text, 1, n) = text
  OBVIOUS
<1>5. ASSUME NEW k \in 1..(2 * n) PROVE Place(u, k) = Place(text, k)
  <2>1. PICK i \in 1..n : i = (k + 1) \div 2
    BY <1>1, HalfWithin
  <2>2. i \in 1..(n + 1) /\ u[i] = text[i]
    BY <1>1, <2>1
  <2>3. SubSeq(u, 1, i - 1) = SubSeq(text, 1, i - 1)
    BY <1>3, <2>2
  <2> HIDE DEF n, u
  <2> QED
    BY <2>1, <2>2, <2>3
<1>6. Place(u, 2 * n + 1) = b1
  <2>1. (2 * n + 1) % 2 = 1 /\ ((2 * n + 1) + 1) \div 2 = n + 1
    BY <1>1
  <2>2. SubSeq(u, 1, (n + 1) - 1) = text
    <3>1. (n + 1) - 1 = n /\ n + 1 \in 1..(n + 1)
      BY <1>1
    <3> HIDE DEF n, u
    <3> QED
      BY <1>3, <1>4, <3>1 DEF n
  <2> HIDE DEF n, u
  <2> QED
    BY <1>1, <2>1, <2>2
<1>7. Place(u, 2 * n + 2) = b2
  <2>1. (2 * n + 2) % 2 = 0 /\ ((2 * n + 2) + 1) \div 2 = n + 1
    BY <1>1
  <2> HIDE DEF n, u
  <2> QED
    BY <1>1, <2>1
<1> HIDE DEF Place, b1, b2, u, n
<1>8. PICK c : c = Closed(text) /\ c = [k \in 1..(2 * n) |-> Place(text, k)]
  BY <1>2
<1> DEFINE P == Seq(Value)
<1>9. /\ 2 * n \in Nat /\ c \in Seq(P) /\ Len(c) = 2 * n
      /\ \A k \in 1..(2 * n) : c[k] = Place(text, k)
  <2>1. c \in Seq(P)
    BY <1>8, ClosedType
  <2>2. DOMAIN c = 1..(2 * n) /\ \A k \in 1..(2 * n) : c[k] = Place(text, k)
    BY <1>8
  <2> HIDE DEF P
  <2> QED
    BY <1>1, <2>1, <2>2
<1>10. b1 \in P /\ b2 \in P
  <2>1. Gathered(text) \in P /\ <<>> \in P /\ <<l.value>> \in P
    BY GatheredGrows DEF Line, Value
  <2> QED
    BY <2>1 DEF b1, b2
<1> HIDE DEF P
<1>11. Append(Append(c, b1), b2) =
         [k \in 1..(2 * n + 2) |-> IF k <= 2 * n THEN c[k]
                                   ELSE IF k = 2 * n + 1 THEN b1 ELSE b2]
  <2>1. b1 \in P /\ b2 \in P
    BY <1>10
  <2>2. PICK d \in Seq(P) : d = Append(c, b1)
    <3>1. c \in Seq(P)
      BY <1>9
    <3>2. Append(c, b1) \in Seq(P)
      BY <2>1, <3>1, AppendProperties
    <3> QED
      BY <3>2
  <2>3. Len(d) = 2 * n + 1 /\ \A k \in 1..(2 * n + 1) :
          d[k] = IF k <= 2 * n THEN c[k] ELSE b1
    <3>1. /\ Len(d) = Len(c) + 1 /\ d[Len(c) + 1] = b1
          /\ \A k \in 1..Len(c) : d[k] = c[k]
      BY <1>9, <2>1, <2>2, AppendProperties
    <3> QED
      BY <1>9, <3>1
  <2>4. PICK e \in Seq(P) : e = Append(d, b2)
    <3>1. Append(d, b2) \in Seq(P)
      BY <2>1, AppendProperties
    <3> QED
      BY <3>1
  <2>5. Len(e) = 2 * n + 2 /\ \A k \in 1..(2 * n + 2) :
          e[k] = IF k <= 2 * n + 1 THEN d[k] ELSE b2
    <3>1. /\ Len(e) = Len(d) + 1 /\ e[Len(d) + 1] = b2
          /\ \A k \in 1..Len(d) : e[k] = d[k]
      BY <2>1, <2>4, AppendProperties
    <3> QED
      BY <1>9, <2>3, <3>1
  <2>6. e = [k \in 1..(2 * n + 2) |-> e[k]]
    BY <2>5
  <2>7. \A k \in 1..(2 * n + 2) :
          e[k] = IF k <= 2 * n THEN c[k] ELSE IF k = 2 * n + 1 THEN b1 ELSE b2
    BY <1>9, <2>3, <2>5
  <2> QED
    BY <2>2, <2>4, <2>6, <2>7
<1>12. Closed(u) = [k \in 1..(2 * n + 2) |-> Place(u, k)]
  <2>1. 2 * Len(u) = 2 * n + 2
    BY <1>1
  <2> QED
    BY <1>2, <2>1
<1>13. ASSUME NEW k \in 1..(2 * n + 2)
       PROVE  Place(u, k) = IF k <= 2 * n THEN c[k] ELSE IF k = 2 * n + 1 THEN b1 ELSE b2
  <2>1. k \in 1..(2 * n) \/ k = 2 * n + 1 \/ k = 2 * n + 2
    BY <1>1
  <2> QED
    BY <1>5, <1>6, <1>7, <1>9, <2>1
<1>14. Closed(u) = Append(Append(c, b1), b2)
  BY <1>11, <1>12, <1>13
<1> QED
  BY <1>8, <1>14 DEF u, b1, b2

(* What counts of the payloads a text has closed.                          *)
Heard(text) == Among(Closed(text), Told)

Also(heard, p) == IF p \in Told THEN Append(heard, p) ELSE heard

(* No payload counts that is empty.                                        *)
LEMMA EmptyIsNotTold == <<>> \notin Told
<1>1. <<>> \in Seq(Value) /\ \A k \in 1..Len(<<>>) : <<>>[k] \notin (Value \ {"blank"})
  OBVIOUS
<1>2. Among(<<>>, Value \ {"blank"}) = <<>>
  BY <1>1, AmongNone, Zenon
<1> QED
  BY <1>2 DEF Told, Decoded

LEMMA HeardType ==
    ASSUME NEW text \in Seq(Line)
    PROVE  Heard(text) \in Seq(Told) /\ Heard(text) \in Seq(Seq(Value))
<1>1. Heard(text) \in Seq(Told)
  BY ClosedType, AmongType DEF Heard
<1>2. Told \subseteq Seq(Value)
  BY DEF Told
<1> HIDE DEF Told, Value, Heard
<1> QED
  BY <1>1, <1>2

(* What a line adds to it.                                                 *)
LEMMA HeardGrows ==
    ASSUME NEW text \in Seq(Line), NEW l \in Line
    PROVE  Heard(Append(text, l)) =
             IF l.kind = "bare" THEN Also(Also(Heard(text), Gathered(text)), <<l.value>>)
             ELSE IF IsBreak(l) THEN Also(Heard(text), Gathered(text))
             ELSE Heard(text)
<1> DEFINE P == Seq(Value)
           b1 == IF IsBreak(l) THEN Gathered(text) ELSE <<>>
           b2 == IF l.kind = "bare" THEN <<l.value>> ELSE <<>>
           c == Closed(text)
<1>1. Gathered(text) \in P /\ <<>> \in P /\ <<l.value>> \in P
  BY GatheredGrows DEF Line, Value
<1>2. b1 \in P /\ b2 \in P /\ c \in Seq(P)
  BY <1>1, ClosedType
<1>3. Closed(Append(text, l)) = Append(Append(c, b1), b2)
  BY ClosedGrows
<1> HIDE DEF P, b1, b2, c
<1>4. Append(c, b1) \in Seq(P)
  BY <1>2
<1>5. Among(Append(c, b1), Told) = Also(Among(c, Told), b1)
  BY <1>2, AmongAppend DEF Also
<1>6. Among(Append(Append(c, b1), b2), Told) = Also(Also(Among(c, Told), b1), b2)
  <2>1. PICK d \in Seq(P) : d = Append(c, b1)
    BY <1>4
  <2>2. Among(Append(d, b2), Told) = Also(Among(d, Told), b2)
    BY <1>2, AmongAppend DEF Also
  <2> QED
    BY <1>5, <2>1, <2>2
<1>7. \A h : Also(h, <<>>) = h
  BY EmptyIsNotTold DEF Also
<1>8. Heard(Append(text, l)) = Also(Also(Heard(text), b1), b2)
  BY <1>3, <1>6 DEF Heard, c
<1>9. l.kind = "bare" => IsBreak(l)
  BY DEF IsBreak
<1> QED
  BY <1>7, <1>8, <1>9 DEF b1, b2

(* What counts of the text so far, and when the body is over.             *)
Left(text, b) ==
    IF b \in {"ended", "failed", "overlong"} THEN Also(Heard(text), Gathered(text))
                                             ELSE Heard(text)

LEMMA TellingIs ==
    ASSUME NEW text \in Seq(Line), NEW b
    PROVE  LET rest == IF b \in {"ended", "failed", "overlong"} THEN Gathered(text) ELSE <<>>
           IN Among(Append(Closed(text), rest), Told) = Left(text, b)
<1> DEFINE P == Seq(Value)
           rest == IF b \in {"ended", "failed", "overlong"} THEN Gathered(text) ELSE <<>>
<1>1. rest \in P
  <2>1. PICK l \in Line : l = [kind |-> "empty", value |-> "blank"]
    BY DEF Line
  <2>2. Gathered(text) \in P /\ <<>> \in P
    BY <2>1, GatheredGrows
  <2> QED
    BY <2>2
<1>2. Closed(text) \in Seq(P)
  BY ClosedType
<1> HIDE DEF rest, P
<1>3. Among(Append(Closed(text), rest), Told) = Also(Heard(text), rest)
  BY <1>1, <1>2, AmongAppend DEF Also, Heard
<1>4. \A h : Also(h, <<>>) = h
  BY EmptyIsNotTold DEF Also
<1> QED
  BY <1>3, <1>4 DEF rest, Left

(* The caller has been given h, at most up to the bound-th event, and the  *)
(* call has come to e: what the reference says of the payloads T.          *)
Delivered(h, e, T, bound) ==
    /\ Len(h) <= Len(T)
    /\ \A i \in 1..Len(h) : h[i] = Decoded(T[i]) /\ IsEvent(T[i])
    /\ e \in {"open", "refused", "done", "error"}
    /\ IF e = "refused" THEN Len(h) = bound ELSE Len(h) < bound
    /\ e = "open" => Len(h) = Len(T)
    /\ e \in {"done", "error"} => Len(h) < Len(T) /\ Decoded(T[Len(h) + 1]) = e

Readings == [handed : Seq({"event", "joined"}), end : FramingEnds]

(* dispatch gives the caller what it should have of one more payload.      *)
LEMMA DispatchDelivers ==
    ASSUME refuseAt \in Nat, NEW r \in Readings, NEW T \in Seq(Seq(Value)),
           NEW p \in Seq(Value), Delivered(r.handed, r.end, T, refuseAt)
    PROVE  /\ Dispatch(r, p) \in Readings
           /\ Also(T, p) \in Seq(Seq(Value))
           /\ Delivered(Dispatch(r, p).handed, Dispatch(r, p).end, Also(T, p), refuseAt)
<1> DEFINE P == Seq(Value)
           h == r.handed
           D == Dispatch(r, p)
<1>1. Dispatch(r, p) \in Readings
  BY DispatchTyped DEF Readings
<1>2. /\ h \in Seq({"event", "joined"}) /\ r.end \in FramingEnds
      /\ Delivered(h, r.end, T, refuseAt)
      /\ T \in Seq(P) /\ p \in P
  BY DEF Readings
<1>3. Decoded(p) \in {"nothing", "done", "event", "joined", "error"}
  BY DEF Decoded
<1>4. p \in Told <=> Decoded(p) # "nothing"
  BY DEF Told
<1> HIDE DEF P, h
<1>5. CASE p \notin Told
  <2>1. D = r /\ Also(T, p) = T
    BY <1>4, <1>5 DEF Dispatch, Also
  <2> QED
    BY <1>1, <1>2, <2>1 DEF P, h
<1>6. CASE p \in Told
  <2>1. PICK U \in Seq(P) : U = Append(T, p)
    <3>1. Append(T, p) \in Seq(P)
      BY <1>2, AppendProperties
    <3> QED
      BY <3>1
  <2>2. /\ Len(U) = Len(T) + 1 /\ U[Len(T) + 1] = p /\ Len(T) \in Nat /\ Len(h) \in Nat
        /\ \A i \in 1..Len(T) : U[i] = T[i]
    BY <1>2, <2>1, AppendProperties, LenProperties
  <2>3. Also(T, p) = U
    BY <1>6, <2>1 DEF Also
  <2>4. CASE r.end # "open"
    <3>1. D = r
      BY <2>4 DEF Dispatch
    <3>2. /\ Len(h) <= Len(T)
          /\ \A i \in 1..Len(h) : h[i] = Decoded(T[i]) /\ IsEvent(T[i])
          /\ r.end \in {"refused", "done", "error"}
          /\ IF r.end = "refused" THEN Len(h) = refuseAt ELSE Len(h) < refuseAt
          /\ r.end \in {"done", "error"} =>
                Len(h) < Len(T) /\ Decoded(T[Len(h) + 1]) = r.end
      BY <1>2, <2>4 DEF Delivered
    <3>3. ASSUME NEW i \in 1..Len(h) PROVE h[i] = Decoded(U[i]) /\ IsEvent(U[i])
      <4>1. i \in 1..Len(T) /\ h[i] = Decoded(T[i]) /\ IsEvent(T[i])
        BY <2>2, <3>2
      <4>2. U[i] = T[i]
        BY <2>2, <4>1
      <4> QED
        BY <4>1, <4>2
    <3>4. ASSUME r.end \in {"done", "error"}
          PROVE  Len(h) < Len(U) /\ Decoded(U[Len(h) + 1]) = r.end
      <4>1. Len(h) < Len(T) /\ Decoded(T[Len(h) + 1]) = r.end
        BY <3>2, <3>4
      <4>2. Len(h) + 1 \in 1..Len(T) /\ U[Len(h) + 1] = T[Len(h) + 1]
        BY <2>2, <4>1
      <4> QED
        BY <2>2, <4>1, <4>2
    <3>5. Delivered(h, r.end, U, refuseAt)
      BY <2>2, <2>4, <3>2, <3>3, <3>4 DEF Delivered
    <3> QED
      BY <1>1, <2>1, <2>3, <3>1, <3>5 DEF P, h
  <2>5. CASE r.end = "open" /\ IsEvent(p)
    <3>1. PICK g : g = Append(h, Decoded(p))
      OBVIOUS
    <3>2. /\ Len(g) = Len(h) + 1 /\ g[Len(h) + 1] = Decoded(p)
          /\ \A i \in 1..Len(h) : g[i] = h[i]
      BY <1>2, <2>5, <3>1, AppendProperties DEF IsEvent
    <3>3. D.handed = g /\ D.end = IF Len(h) + 1 = refuseAt THEN "refused" ELSE "open"
      BY <1>4, <1>6, <2>5, <3>1 DEF Dispatch, h
    <3>4. /\ Len(h) = Len(T) /\ Len(h) < refuseAt
          /\ \A i \in 1..Len(h) : h[i] = Decoded(T[i]) /\ IsEvent(T[i])
      BY <1>2, <2>5 DEF Delivered
    <3>5. \A i \in 1..Len(g) : g[i] = Decoded(U[i]) /\ IsEvent(U[i])
      BY <2>2, <2>5, <3>2, <3>4
    <3>6. Delivered(g, D.end, U, refuseAt)
      BY <2>2, <3>2, <3>3, <3>4, <3>5 DEF Delivered
    <3> QED
      BY <1>1, <2>1, <2>3, <3>3, <3>6 DEF P
  <2>6. CASE r.end = "open" /\ ~ IsEvent(p)
    <3>1. D.handed = h /\ D.end = Decoded(p) /\ D.end \in {"done", "error"}
      <4>1. D = [r EXCEPT !.end = Decoded(p)]
        BY <1>4, <1>6, <2>6 DEF Dispatch
      <4>2. Decoded(p) \in {"done", "error"}
        BY <1>3, <1>4, <1>6, <2>6 DEF IsEvent
      <4> QED
        BY <4>1, <4>2 DEF h, Readings
    <3>2. /\ Len(h) = Len(T) /\ Len(h) < refuseAt
          /\ \A i \in 1..Len(h) : h[i] = Decoded(T[i]) /\ IsEvent(T[i])
      BY <1>2, <2>6 DEF Delivered
    <3>3. \A i \in 1..Len(h) : h[i] = Decoded(U[i]) /\ IsEvent(U[i])
      BY <2>2, <3>2
    <3>4. Delivered(h, D.end, U, refuseAt)
      BY <2>2, <3>1, <3>2, <3>3 DEF Delivered
    <3> QED
      BY <1>1, <2>1, <2>3, <3>1, <3>4 DEF P
  <2> QED
    BY <2>4, <2>5, <2>6
<1> QED
  BY <1>5, <1>6

(* Why a call that no payload has stopped returns.                         *)
BodyStops ==
    \/ end = "eof" /\ body = "ended"
    \/ end = "readError" /\ body \in {"failed", "overlong", "cut"}
    \/ end = "error" /\ Len(Gathered(lines)) > MaxEvent

(* FramingIsBlockwise, made inductive: what waits in dataLines is what the *)
(* text gathers since its last break, and the caller has been given what   *)
(* the text closes.  A call that returns because of the body has given it  *)
(* everything; any other has stopped at a payload.                         *)
FramingInv ==
    /\ FramingTypeOK
    /\ refuseAt \in Nat \ {0}
    /\ end = "open" => body = "open" /\ data = Gathered(lines)
    /\ end # "error" => Len(Gathered(lines)) <= MaxEvent
    /\ \/ Delivered(handed, end, Telling, refuseAt)
       \/ BodyStops /\ Delivered(handed, "open", Telling, refuseAt)

(* Nothing has been read at the start.                                     *)
LEMMA FramingStart == FramingInit => FramingInv
<1> SUFFICES ASSUME FramingInit PROVE FramingInv
  OBVIOUS
<1>1. /\ lines = <<>> /\ data = <<>> /\ handed = <<>> /\ end = "open" /\ body = "open"
      /\ refuseAt \in Nat \ {0}
  BY FramingConstants DEF FramingInit
<1>2. FramingTypeOK
  BY <1>1, FramingConstants DEF FramingTypeOK
<1>3. PICK none \in Seq(Line) : none = lines
  BY <1>2 DEF FramingTypeOK
<1>4. Gathered(none) = <<>>
  <2>1. none = <<>> /\ Cut(none) = 0
    <3>1. none = <<>> /\ Len(none) = 0
      BY <1>1, <1>3
    <3>2. Cut(none) \in 0..Len(none)
      BY CutIsLeast
    <3> QED
      BY <3>1, <3>2
  <2>2. AfterBreak(none) = SubSeq(none, Cut(none) + 1, Len(none))
    BY DEF AfterBreak, Cut, Cuts
  <2>3. AfterBreak(none) = <<>>
    BY <2>1, <2>2
  <2>4. <<>> \in Seq(Line) /\ \A k \in 1..Len(<<>>) : <<>>[k] \notin [kind : {"data"}, value : Value]
    OBVIOUS
  <2>5. Among(<<>>, [kind : {"data"}, value : Value]) = <<>>
    BY <2>4, AmongNone, Zenon
  <2>6. [k \in 1..Len(<<>>) |-> <<>>[k].value] = <<>>
    OBVIOUS
  <2> QED
    BY <2>3, <2>5, <2>6 DEF Gathered
<1>5. Heard(none) = <<>>
  <2>1. Closed(none) = <<>>
    <3>1. DOMAIN Closed(none) = 1..(2 * Len(none)) /\ 2 * Len(none) = 0
      BY <1>1, <1>3 DEF Closed
    <3>2. Closed(none) \in Seq(Seq(Value))
      BY ClosedType
    <3>3. Len(Closed(none)) = 0
      BY <3>1, <3>2, LenProperties
    <3> QED
      BY <3>2, <3>3, EmptySeq
  <2>2. <<>> \in Seq(Seq(Value)) /\ \A k \in 1..Len(<<>>) : <<>>[k] \notin Told
    OBVIOUS
  <2> QED
    BY <2>1, <2>2, AmongNone, Zenon DEF Heard
<1>6. Telling = <<>>
  BY <1>1, <1>3, <1>5, TellingIs DEF Telling, Left
<1>7. Delivered(handed, end, Telling, refuseAt)
  BY <1>1, <1>6 DEF Delivered
<1>8. Len(Gathered(lines)) <= MaxEvent
  BY <1>3, <1>4, FramingConstants
<1> QED
  BY <1>1, <1>2, <1>3, <1>4, <1>7, <1>8 DEF FramingInv

(* What is known while the reader reads.                                   *)
LEMMA WhileReading ==
    ASSUME FramingInv, end = "open"
    PROVE  /\ lines \in Seq(Line) /\ data \in Seq(Value) /\ Len(data) \in Nat
           /\ data = Gathered(lines) /\ Len(Gathered(lines)) <= MaxEvent /\ body = "open"
           /\ Heard(lines) \in Seq(Seq(Value))
           /\ Telling = Heard(lines)
           /\ Reading \in Readings /\ Reading.handed = handed /\ Reading.end = "open"
           /\ Delivered(handed, "open", Heard(lines), refuseAt)
           /\ refuseAt \in Nat
<1>1. lines \in Seq(Line) /\ data \in Seq(Value)
  BY DEF FramingInv, FramingTypeOK
<1>2. Telling = Heard(lines)
  BY <1>1, TellingIs DEF FramingInv, Telling, Left
<1>3. Reading \in Readings /\ Reading.handed = handed /\ Reading.end = "open"
  BY DEF FramingInv, FramingTypeOK, Reading, Readings, FramingEnds
<1>4. ~ BodyStops
  BY DEF BodyStops
<1>5. Delivered(handed, "open", Heard(lines), refuseAt)
  BY <1>2, <1>4 DEF FramingInv
<1> QED
  BY <1>1, <1>2, <1>3, <1>5, HeardType DEF FramingInv

(* The rest of the body's text is gathered and closed in every step.       *)
LEMMA FramingStepKeepsInv == FramingInv /\ [FramingNext]_framingVars => FramingInv'
<1> SUFFICES ASSUME FramingInv, [FramingNext]_framingVars PROVE FramingInv'
  OBVIOUS
<1>1. FramingTypeOK'
  BY FramingStepKeepsType DEF FramingInv
<1>2. CASE UNCHANGED framingVars
  BY <1>1, <1>2 DEF framingVars, FramingInv, Telling, BodyStops
<1>3. CASE FramingNext
  <2>1. end = "open" /\ refuseAt' = refuseAt
    BY <1>3 DEF FramingNext, EmptyLine, SkippedLine, DataLine, BareLine, BodyOver,
                LineCut, Read
  <2> DEFINE H == Heard(lines)
             G == Gathered(lines)
  <2>2. /\ lines \in Seq(Line) /\ data \in Seq(Value) /\ data = G
        /\ Len(G) <= MaxEvent /\ body = "open"
        /\ H \in Seq(Seq(Value))
        /\ Reading \in Readings /\ Reading.handed = handed /\ Reading.end = "open"
        /\ Delivered(handed, "open", H, refuseAt)
        /\ refuseAt \in Nat /\ Len(data) \in Nat
    BY <2>1, WhileReading
  <2>3. lines' \in Seq(Line)
    BY <1>1 DEF FramingTypeOK
  <2>4. Telling' = Left(lines', body')
    BY <2>3, TellingIs DEF Telling
  <2>5. refuseAt' \in Nat \ {0}
    BY <2>1 DEF FramingInv
  <2> DEFINE R == Dispatch(Reading, data)
  <2>6. /\ R \in Readings /\ Also(H, G) \in Seq(Seq(Value))
        /\ Delivered(R.handed, R.end, Also(H, G), refuseAt)
    BY <2>2, DispatchDelivers
  <2> HIDE DEF R, H, G
  <2>7. CASE EmptyLine
    <3>1. PICK l \in Line : l = [kind |-> "empty", value |-> "blank"]
      BY DEF Line
    <3>2. /\ lines' = Append(lines, l) /\ handed' = R.handed /\ end' = R.end
          /\ data' = <<>> /\ body' = "open"
      BY <2>2, <2>7, <3>1 DEF EmptyLine, Read, Became, R
    <3>3. IsBreak(l) /\ l.kind # "bare"
      BY <3>1 DEF IsBreak
    <3>4. Heard(lines') = Also(H, G)
      BY <2>2, <3>2, <3>3, HeardGrows DEF H, G
    <3>5. Gathered(lines') = <<>>
      BY <2>2, <3>2, <3>3, GatheredGrows
    <3>6. Telling' = Also(H, G)
      BY <2>4, <3>2, <3>4 DEF Left
    <3>7. Len(Gathered(lines')) <= MaxEvent
      BY <3>5, FramingConstants
    <3> QED
      BY <1>1, <2>1, <2>5, <2>6, <3>2, <3>5, <3>6, <3>7 DEF FramingInv
  <2>8. CASE SkippedLine
    <3>1. PICK l \in Line : l = [kind |-> "skipped", value |-> "blank"]
      BY DEF Line
    <3>2. /\ lines' = Append(lines, l) /\ handed' = handed /\ end' = end /\ data' = data
          /\ body' = "open"
      BY <2>2, <2>8, <3>1 DEF SkippedLine, Read
    <3>3. ~ IsBreak(l) /\ l.kind # "bare" /\ l.kind # "data"
      BY <3>1 DEF IsBreak
    <3>4. Heard(lines') = H
      BY <2>2, <3>2, <3>3, HeardGrows DEF H
    <3>5. Gathered(lines') = G
      BY <2>2, <3>2, <3>3, GatheredGrows DEF G
    <3>6. Telling' = H
      BY <2>4, <3>2, <3>4 DEF Left
    <3> QED
      BY <1>1, <2>1, <2>2, <2>5, <3>2, <3>5, <3>6 DEF FramingInv
  <2>9. CASE DataLine
    <3>1. PICK v \in Value :
            /\ Read([kind |-> "data", value |-> v])
            /\ IF Len(data) + 1 > MaxEvent
               THEN end' = "error" /\ UNCHANGED data
               ELSE data' = Append(data, v) /\ UNCHANGED end
            /\ UNCHANGED handed
      BY <2>9 DEF DataLine
    <3>2. PICK l \in Line : l = [kind |-> "data", value |-> v]
      BY DEF Line
    <3>3. lines' = Append(lines, l) /\ handed' = handed /\ body' = "open"
      BY <2>2, <3>1, <3>2 DEF Read
    <3>4. ~ IsBreak(l) /\ l.kind = "data" /\ l.value = v
      BY <3>2 DEF IsBreak
    <3>5. Heard(lines') = H
      BY <2>2, <3>3, <3>4, HeardGrows DEF H
    <3>6. Gathered(lines') = Append(G, v)
      BY <2>2, <3>3, <3>4, GatheredGrows DEF G
    <3>7. Telling' = H
      BY <2>4, <3>3, <3>5 DEF Left
    <3>8. Len(Gathered(lines')) = Len(data) + 1
      BY <2>2, <3>6
    <3>9. CASE Len(data) + 1 > MaxEvent
      <4>1. end' = "error"
        BY <3>1, <3>9
      <4>2. BodyStops'
        BY <3>8, <3>9, <4>1 DEF BodyStops
      <4> QED
        BY <1>1, <2>1, <2>2, <2>5, <3>3, <3>7, <4>1, <4>2 DEF FramingInv
    <3>10. CASE ~ (Len(data) + 1 > MaxEvent)
      <4>1. data' = Append(G, v) /\ end' = "open"
        BY <2>1, <2>2, <3>1, <3>10
      <4>2. Len(Gathered(lines')) <= MaxEvent
        BY <2>2, <3>8, <3>10, FramingConstants
      <4> QED
        BY <1>1, <2>1, <2>2, <2>5, <3>3, <3>6, <3>7, <4>1, <4>2 DEF FramingInv
    <3> QED
      BY <3>9, <3>10
  <2>10. CASE BareLine
    <3>1. PICK v \in Value :
            /\ Read([kind |-> "bare", value |-> v])
            /\ Became(Dispatch(R, <<v>>))
            /\ data' = <<>>
      BY <2>10 DEF BareLine, R
    <3>2. PICK l \in Line : l = [kind |-> "bare", value |-> v]
      BY DEF Line
    <3>3. lines' = Append(lines, l) /\ body' = "open"
      BY <2>2, <3>1, <3>2 DEF Read
    <3>4. IsBreak(l) /\ l.kind = "bare" /\ l.value = v
      BY <3>2 DEF IsBreak
    <3>5. Heard(lines') = Also(Also(H, G), <<v>>)
      BY <2>2, <3>3, <3>4, HeardGrows DEF H, G
    <3>6. Gathered(lines') = <<>>
      BY <2>2, <3>3, <3>4, GatheredGrows
    <3>7. Telling' = Also(Also(H, G), <<v>>)
      BY <2>4, <3>3, <3>5 DEF Left
    <3>8. <<v>> \in Seq(Value)
      OBVIOUS
    <3>9. Delivered(Dispatch(R, <<v>>).handed, Dispatch(R, <<v>>).end,
                    Also(Also(H, G), <<v>>), refuseAt)
      BY <2>2, <2>6, <3>8, DispatchDelivers
    <3>10. handed' = Dispatch(R, <<v>>).handed /\ end' = Dispatch(R, <<v>>).end
      BY <3>1 DEF Became
    <3>11. Len(Gathered(lines')) <= MaxEvent
      BY <3>6, FramingConstants
    <3> QED
      BY <1>1, <2>1, <2>5, <3>1, <3>3, <3>6, <3>7, <3>9, <3>10, <3>11 DEF FramingInv
  <2>11. CASE LineCut
    <3>1. /\ end' = "readError" /\ body' = "cut"
          /\ lines' = lines /\ data' = data /\ handed' = handed
      BY <2>11 DEF LineCut
    <3>2. Telling' = H
      BY <2>4, <3>1 DEF Left, H
    <3>3. BodyStops' /\ Len(Gathered(lines')) <= MaxEvent
      BY <2>2, <3>1 DEF BodyStops, G
    <3> QED
      BY <1>1, <2>1, <2>2, <2>5, <3>1, <3>2, <3>3 DEF FramingInv
  <2>12. CASE BodyOver
    <3>1. /\ handed' = R.handed /\ lines' = lines
          /\ body' \in {"ended", "failed", "overlong"}
          /\ end' = IF R.end # "open" THEN R.end
                    ELSE IF body' = "ended" THEN "eof" ELSE "readError"
      BY <2>12 DEF BodyOver, R
    <3>2. end' # "open" /\ Len(Gathered(lines')) <= MaxEvent
      BY <2>2, <3>1 DEF G
    <3>3. Telling' = Also(H, G)
      BY <2>4, <3>1 DEF Left, H, G
    <3>4. CASE R.end = "open"
      <4>1. BodyStops'
        BY <3>1, <3>4 DEF BodyStops
      <4> QED
        BY <1>1, <2>1, <2>5, <2>6, <3>1, <3>2, <3>3, <3>4, <4>1 DEF FramingInv
    <3>5. CASE R.end # "open"
      BY <1>1, <2>1, <2>5, <2>6, <3>1, <3>2, <3>3, <3>5 DEF FramingInv
    <3> QED
      BY <3>4, <3>5
  <2> QED
    BY <1>3, <2>7, <2>8, <2>9, <2>10, <2>11, <2>12 DEF FramingNext
<1> QED
  BY <1>2, <1>3

(* It says what the reference says: the events in order up to the first    *)
(* payload that stops the call, and all of them when none does.            *)
LEMMA FramingInvIsBlockwise == FramingInv => FramingIsBlockwise
<1> SUFFICES ASSUME FramingInv PROVE FramingIsBlockwise
  OBVIOUS
<1> DEFINE T == Telling
           events == {n \in 0..Len(T) : \A i \in 1..n : IsEvent(T[i])}
           all == CHOOSE n \in events : \A m \in events : m <= n
           count == IF all < refuseAt THEN all ELSE refuseAt
           next == IF count < Len(T) THEN Decoded(T[count + 1]) ELSE "nothing"
           h == Len(handed)
<1>1. /\ handed \in Seq({"event", "joined"}) /\ h \in Nat /\ refuseAt \in Nat \ {0}
      /\ handed = [i \in 1..h |-> handed[i]]
  BY DEF FramingInv, FramingTypeOK
<1>2. Len(T) \in Nat
  <2>1. lines \in Seq(Line)
    BY DEF FramingInv, FramingTypeOK
  <2>2. PICK rest \in Seq(Value) : T = Among(Append(Closed(lines), rest), Told)
    <3>1. PICK l \in Line : l = [kind |-> "empty", value |-> "blank"]
      BY DEF Line
    <3>2. Gathered(lines) \in Seq(Value) /\ <<>> \in Seq(Value)
      BY <2>1, <3>1, GatheredGrows
    <3> QED
      BY <3>2 DEF Telling
  <2>3. Append(Closed(lines), rest) \in Seq(Seq(Value))
    BY <2>1, ClosedType, AppendProperties
  <2>4. T \in Seq(Told)
    BY <2>2, <2>3, AmongType
  <2> HIDE DEF T
  <2> QED
    BY <2>4, LenProperties
<1>3. /\ h <= Len(T)
      /\ \A i \in 1..h : handed[i] = Decoded(T[i]) /\ IsEvent(T[i])
  BY DEF FramingInv, Delivered
<1> HIDE DEF T, h
<1>4. h \in events
  BY <1>1, <1>2, <1>3
<1>5. all \in events /\ \A m \in events : m <= all
  <2>1. events \in SUBSET (0..Len(T))
    OBVIOUS
  <2>2. \E n \in events : \A m \in events : m <= n
    <3> HIDE DEF events
    <3> DEFINE shifted == {n + 1 : n \in events}
    <3>1. shifted \in SUBSET (1..(Len(T) + 1)) /\ shifted # {} /\ Len(T) + 1 \in Nat
      BY <1>2, <1>4, <2>1
    <3> HIDE DEF shifted
    <3>2. PICK x \in shifted : \A y \in shifted : y <= x
      BY <3>1, GreatestOf
    <3>3. PICK n \in events : x = n + 1
      BY DEF shifted
    <3>4. ASSUME NEW m \in events PROVE m <= n
      <4>1. m + 1 <= x
        BY <3>2 DEF shifted
      <4> QED
        BY <1>2, <2>1, <3>3, <4>1
    <3> QED
      BY <3>4
  <2> HIDE DEF events
  <2> QED
    BY <2>2
<1>6. all \in 0..Len(T) /\ h <= all /\ \A i \in 1..all : IsEvent(T[i])
  BY <1>4, <1>5
<1> HIDE DEF all
<1>7. /\ count = h
      /\ IF end = "refused" THEN h = refuseAt ELSE h < refuseAt
      /\ \/ end = "refused"
         \/ (BodyStops \/ end = "open") /\ h = Len(T)
         \/ end \in {"done", "error"} /\ h < Len(T) /\ Decoded(T[h + 1]) = end
  <2>1. CASE Delivered(handed, end, T, refuseAt)
    <3>1. /\ end \in {"open", "refused", "done", "error"}
          /\ IF end = "refused" THEN h = refuseAt ELSE h < refuseAt
          /\ end = "open" => h = Len(T)
          /\ end \in {"done", "error"} => h < Len(T) /\ Decoded(T[h + 1]) = end
      BY <2>1 DEF Delivered, h
    <3>2. CASE end = "refused"
      BY <1>1, <1>2, <1>6, <3>1, <3>2
    <3>3. CASE end = "open"
      BY <1>1, <1>2, <1>6, <3>1, <3>3
    <3>4. CASE end \in {"done", "error"}
      <4>1. ~ IsEvent(T[h + 1])
        BY <3>1, <3>4 DEF IsEvent
      <4>2. ~ (h < all)
        <5>1. SUFFICES ASSUME h < all PROVE FALSE
          OBVIOUS
        <5>2. h + 1 \in 1..all
          BY <1>1, <1>2, <1>6, <5>1
        <5> QED
          BY <1>6, <4>1, <5>2
      <4>3. all = h
        BY <1>1, <1>2, <1>6, <4>2
      <4> QED
        BY <1>1, <3>1, <3>4, <4>3
    <3> QED
      BY <3>1, <3>2, <3>3, <3>4
  <2>2. CASE BodyStops /\ Delivered(handed, "open", T, refuseAt)
    <3>1. h < refuseAt /\ h = Len(T)
      BY <2>2 DEF Delivered, h
    <3>2. all = h
      BY <1>2, <1>6, <3>1
    <3>3. end # "refused"
      BY <2>2 DEF BodyStops
    <3> QED
      BY <1>1, <2>2, <3>1, <3>2, <3>3
  <2> QED
    BY <2>1, <2>2 DEF FramingInv, T
<1> HIDE DEF count
<1>8. handed = [i \in 1..count |-> Decoded(T[i])]
  BY <1>1, <1>3, <1>7
<1>9. end = "refused" <=> count = refuseAt
  BY <1>1, <1>7
<1>10. end = "done" => next = "done"
  BY <1>7 DEF BodyStops, next
<1>11. end = "error" => (next = "error" \/ (next = "nothing" /\ Len(Gathered(lines)) > MaxEvent))
  BY <1>1, <1>2, <1>7 DEF BodyStops, next
<1>12. end \in {"open", "eof", "readError"} => next = "nothing"
  BY <1>1, <1>2, <1>7 DEF next
<1>13. /\ end # "error" => Len(Gathered(lines)) <= MaxEvent
       /\ end = "eof" => body = "ended"
       /\ end = "readError" => body \in {"failed", "overlong", "cut"}
  BY DEF FramingInv, Delivered, BodyStops
<1> HIDE DEF next
<1> QED
  BY <1>8, <1>9, <1>10, <1>11, <1>12, <1>13 DEF FramingIsBlockwise, T, count, all, next

(* However the lines of the upstream's body are mixed and wherever it ends *)
(* or breaks, the caller gets exactly the events of the text, in order, up *)
(* to the first payload that stops the call (parseStreamEvents), for texts *)
(* of any length and any limit on a payload.                               *)
THEOREM FramingIsBlockwiseHolds == Spec => []FramingIsBlockwise
<1>1. Init => FramingInv
  BY FramingStart DEF Init
<1>2. FramingInv /\ [Next]_vars => FramingInv'
  BY FramingStepKeepsInv DEF Next, vars, LimiterSide, OAuthSide, FramingSide,
     ConversionSide, ExposureSide, framingIdle
<1>3. FramingInv => FramingIsBlockwise
  BY FramingInvIsBlockwise
<1> QED
  BY <1>1, <1>2, <1>3, PTL DEF Spec

=============================================================================
