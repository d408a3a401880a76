---------------------------- MODULE SharedFacts ----------------------------
(***************************************************************************)
(* Facts about div and mod that the rotation of the account pool and the   *)
(* slots of the log ring rest on, about the least and the greatest number  *)
(* of a set, which the searches through lists rest on, and about the loops *)
(* that select elements of a list.                                         *)
(***************************************************************************)
EXTENDS Subsequence, WellFoundedInduction, TLAPS

(* The quotient and the remainder are integers, the remainder in range.    *)
LEMMA DivMod ==
  ASSUME NEW x \in Int, NEW n \in Nat \ {0}
  PROVE  /\ x \div n \in Int
         /\ x % n \in 0..(n - 1)
         /\ x = n * (x \div n) + (x % n)
  OBVIOUS

(* They are the only such pair.                                            *)
LEMMA ModUnique ==
  ASSUME NEW n \in Nat \ {0}, NEW q1 \in Int, NEW q2 \in Int,
         NEW r1 \in 0..(n - 1), NEW r2 \in 0..(n - 1),
         n * q1 + r1 = n * q2 + r2
  PROVE  r1 = r2
<1>1. n * (q1 - q2) = r2 - r1
  OBVIOUS
<1>2. CASE q1 = q2
  BY <1>2
<1>3. CASE q1 > q2
  <2>1. n * (q1 - q2) >= n
    BY <1>3
  <2> QED BY <1>1, <2>1
<1>4. CASE q1 < q2
  <2>1. n * (q2 - q1) >= n
    BY <1>4
  <2>2. n * (q2 - q1) = r1 - r2
    OBVIOUS
  <2> QED BY <2>1, <2>2
<1> QED BY <1>2, <1>3, <1>4

(* One step back.                                                          *)
LEMMA ModPred ==
  ASSUME NEW x \in Int, NEW n \in Nat \ {0}
  PROVE  (x - 1) % n = IF x % n = 0 THEN n - 1 ELSE (x % n) - 1
<1> DEFINE q == x \div n
           r == x % n
           q1 == (x - 1) \div n
           r1 == (x - 1) % n
<1>1. q \in Int /\ r \in 0..(n - 1) /\ x = n * q + r
  BY DivMod
<1>2. q1 \in Int /\ r1 \in 0..(n - 1) /\ x - 1 = n * q1 + r1
  <2>1. x - 1 \in Int
    OBVIOUS
  <2> QED BY <2>1, DivMod, Zenon
<1> HIDE DEF q, r, q1, r1
<1>3. CASE r = 0
  <2>1. n * q1 + r1 = n * (q - 1) + (n - 1)
    BY <1>1, <1>2, <1>3
  <2>2. q - 1 \in Int /\ n - 1 \in 0..(n - 1)
    BY <1>1
  <2>3. r1 = n - 1
    BY <2>1, <2>2, <1>2, ModUnique, Zenon
  <2> QED BY <2>3, <1>3 DEF r, r1
<1>4. CASE r # 0
  <2>1. n * q1 + r1 = n * q + (r - 1)
    BY <1>1, <1>2
  <2>2. r - 1 \in 0..(n - 1)
    BY <1>1, <1>4
  <2>3. r1 = r - 1
    BY <2>1, <2>2, <1>1, <1>2, ModUnique, Zenon
  <2> QED BY <2>3, <1>4 DEF r, r1
<1> QED BY <1>3, <1>4

(* Adding a multiple of n changes nothing.                                 *)
LEMMA ModShift ==
  ASSUME NEW x \in Int, NEW m \in Int, NEW n \in Nat \ {0}, m % n = 0
  PROVE  (x + m) % n = x % n
<1> DEFINE q == x \div n
           r == x % n
           k == m \div n
           q1 == (x + m) \div n
           r1 == (x + m) % n
<1>1. q \in Int /\ r \in 0..(n - 1) /\ x = n * q + r
  BY DivMod
<1>2. k \in Int /\ m = n * k
  BY DivMod
<1>3. q1 \in Int /\ r1 \in 0..(n - 1) /\ x + m = n * q1 + r1
  <2>1. x + m \in Int
    OBVIOUS
  <2> QED BY <2>1, DivMod, Zenon
<1> HIDE DEF q, r, k, q1, r1
<1>4. n * q1 + r1 = n * (q + k) + r
  <2>1. n * (q + k) = n * q + n * k
    BY <1>1, <1>2
  <2> QED BY <1>1, <1>2, <1>3, <2>1
<1>5. q + k \in Int
  BY <1>1, <1>2
<1>6. r1 = r
  BY <1>4, <1>5, <1>1, <1>3, ModUnique, Zenon
<1> QED BY <1>6 DEF r, r1

(* The scan that starts at cursor c starts at slot i exactly when i is no  *)
(* step ahead of it.                                                       *)
LEMMA ModZero ==
  ASSUME NEW i \in Int, NEW c \in Int, NEW n \in Nat \ {0},
         i \in 0..(n - 1), (i - c) % n = 0
  PROVE  c % n = i
<1> DEFINE k == (i - c) \div n
           q == c \div n
           r == c % n
<1>1. k \in Int /\ i - c = n * k
  BY DivMod
<1>2. q \in Int /\ r \in 0..(n - 1) /\ c = n * q + r
  BY DivMod
<1> HIDE DEF k, q, r
<1>3. PICK p \in Int : p = 0 - k
  BY <1>1
<1>4. n * q + r = n * p + i
  BY <1>1, <1>2, <1>3
<1>5. r = i
  BY <1>2, <1>4, ModUnique, Zenon
<1> QED BY <1>5 DEF r

(* A multiple leaves no remainder.                                         *)
LEMMA ModMultiple ==
  ASSUME NEW k \in Int, NEW n \in Nat \ {0}
  PROVE  n * k \in Int /\ (n * k) % n = 0
<1> DEFINE q == (n * k) \div n
           r == (n * k) % n
<1>1. n * k \in Int
  OBVIOUS
<1>2. q \in Int /\ r \in 0..(n - 1) /\ n * k = n * q + r
  BY <1>1, DivMod, Zenon
<1> HIDE DEF q, r
<1>3. n * k + 0 = n * q + r /\ 0 \in 0..(n - 1)
  BY <1>1, <1>2
<1>4. r = 0
  BY <1>2, <1>3, ModUnique, Zenon
<1> QED BY <1>1, <1>4 DEF r

(* Reducing a summand first changes nothing.                               *)
LEMMA ModAdd ==
  ASSUME NEW x \in Int, NEW y \in Int, NEW n \in Nat \ {0}
  PROVE  ((x % n) + y) % n = (x + y) % n
<1> DEFINE q == x \div n
           r == x % n
           m == n * q
<1>1. q \in Int /\ r \in Int /\ x = n * q + r
  BY DivMod
<1>2. m \in Int /\ m % n = 0
  BY <1>1, ModMultiple, Zenon
<1>3. x + y = (r + y) + m /\ r + y \in Int
  BY <1>1
<1> HIDE DEF q, r, m
<1>4. (r + y + m) % n = (r + y) % n
  BY <1>2, <1>3, ModShift, Zenon
<1> QED BY <1>3, <1>4 DEF r

(* Numbers less than n apart have different remainders.                    *)
LEMMA ModDistinct ==
  ASSUME NEW x \in Int, NEW y \in Int, NEW n \in Nat \ {0}, x < y, y - x < n
  PROVE  x % n # y % n
<1> SUFFICES ASSUME x % n = y % n
             PROVE  FALSE
  OBVIOUS
<1> DEFINE p == x \div n
           q == y \div n
           r == x % n
<1>1. p \in Int /\ q \in Int /\ r \in Int /\ x = n * p + r /\ y = n * q + r
  BY DivMod
<1> HIDE DEF p, q, r
<1>2. n * (q - p) + 0 = n * 0 + (y - x)
  BY <1>1
<1>3. q - p \in Int /\ 0 \in Int /\ 0 \in 0..(n - 1) /\ y - x \in 0..(n - 1)
  BY <1>1
<1>4. 0 = y - x
  BY <1>2, <1>3, ModUnique, Zenon
<1> QED BY <1>4

(* A set of natural numbers has a least element.                           *)
LEMMA LeastOf ==
  ASSUME NEW S \in SUBSET Nat, S # {}
  PROVE  \E x \in S : \A y \in S : x <= y
<1>1. IsWellFoundedOn(OpToRel(<, Nat), Nat)
  BY NatLessThanWellFounded
<1>2. PICK x \in S : \A y \in S : ~ (<<y, x>> \in OpToRel(<, Nat))
  BY <1>1, WFMin
<1>3. \A y \in S : ~ (y < x)
  BY <1>2 DEF OpToRel
<1> QED
  BY <1>3

(* A set of indices has a greatest element.                                *)
LEMMA GreatestOf ==
  ASSUME NEW n \in Nat, NEW S \in SUBSET (1..n), S # {}
  PROVE  \E x \in S : \A y \in S : y <= x
<1> DEFINE T == {n - x : x \in S}
<1>1. ASSUME NEW x \in S PROVE n - x \in Nat
  OBVIOUS
<1>2. T \subseteq Nat /\ T # {}
  BY <1>1
<1>3. PICK t \in T : \A u \in T : t <= u
  BY <1>2, LeastOf
<1>4. PICK x \in S : t = n - x
  OBVIOUS
<1>5. ASSUME NEW y \in S PROVE y <= x
  <2>1. t <= n - y
    BY <1>3
  <2> QED
    BY <2>1, <1>4
<1> QED
  BY <1>4, <1>5

-----------------------------------------------------------------------------
(* Induction on a bounded index, for a set of numbers.                     *)
LEMMA BoundedInduction ==
  ASSUME NEW n \in Nat, NEW P, 0 \in P,
         \A i \in 0..n : i \in P /\ i < n => i + 1 \in P
  PROVE  0..n \subseteq P
<1> DEFINE Missing == (0..n) \ P
<1>1. SUFFICES ASSUME Missing # {} PROVE FALSE
  OBVIOUS
<1>2. Missing \in SUBSET Nat
  OBVIOUS
<1>3. PICK x \in Missing : \A y \in Missing : x <= y
  BY <1>1, <1>2, LeastOf
<1>4. x \in Nat /\ x <= n /\ x # 0 /\ x \notin P
  BY <1>3
<1>5. x - 1 \in 0..n /\ x - 1 < n /\ x - 1 \notin Missing
  BY <1>3, <1>4
<1> QED
  BY <1>4, <1>5

(* What the loop of Among has collected after each element.                *)
IsScan(f, s, S, n) ==
  /\ f[0] = <<>>
  /\ \A i \in 1..n : f[i] = IF s[i] \in S THEN Append(f[i - 1], s[i]) ELSE f[i - 1]

LEMMA ScanExists ==
  ASSUME NEW n \in Nat, NEW s, NEW S
  PROVE  \E f : IsScan(f, s, S, n)
<1> DEFINE P == {m \in 0..n : \E f : IsScan(f, s, S, m)}
<1>1. 0 \in P
  <2> DEFINE f == [i \in 0..0 |-> <<>>]
  <2>1. IsScan(f, s, S, 0)
    BY DEF IsScan
  <2> QED
    BY <2>1
<1>2. ASSUME NEW m \in 0..n, m \in P, m < n PROVE m + 1 \in P
  <2>1. PICK f : IsScan(f, s, S, m)
    BY <1>2
  <2> DEFINE last == IF s[m + 1] \in S THEN Append(f[m], s[m + 1]) ELSE f[m]
             g == [i \in 0..(m + 1) |-> IF i <= m THEN f[i] ELSE last]
  <2>2. m + 1 \in 0..n /\ m \in Nat
    BY <1>2
  <2>3. g[0] = <<>> /\ g[m + 1] = last
    BY <2>1, <2>2 DEF IsScan
  <2>4. \A i \in 0..m : g[i] = f[i]
    BY <2>2
  <2> HIDE DEF g
  <2>5. ASSUME NEW i \in 1..(m + 1)
        PROVE  g[i] = IF s[i] \in S THEN Append(g[i - 1], s[i]) ELSE g[i - 1]
    <3>1. i - 1 \in 0..m /\ g[i - 1] = f[i - 1]
      BY <2>2, <2>4
    <3>2. CASE i = m + 1
      BY <3>1, <3>2, <2>2, <2>3
    <3>3. CASE i # m + 1
      <4>1. i \in 1..m /\ g[i] = f[i]
        BY <3>3, <2>2, <2>4
      <4> QED
        BY <4>1, <3>1, <2>1 DEF IsScan
    <3> QED
      BY <3>2, <3>3
  <2>6. IsScan(g, s, S, m + 1)
    BY <2>3, <2>5 DEF IsScan
  <2> QED
    BY <2>2, <2>6
<1>3. n \in P
  <2> HIDE DEF P
  <2>1. 0..n \subseteq P
    BY <1>1, <1>2, BoundedInduction
  <2> QED
    BY <2>1
<1> QED
  BY <1>3

(* Scans of the same list have collected the same.                         *)
LEMMA ScansAgree ==
  ASSUME NEW n \in Nat, NEW s, NEW S, NEW f, NEW g, IsScan(f, s, S, n), IsScan(g, s, S, n)
  PROVE  f[n] = g[n]
<1> DEFINE P == {i \in 0..n : f[i] = g[i]}
<1>1. 0 \in P
  BY DEF IsScan
<1>2. ASSUME NEW i \in 0..n, i \in P, i < n PROVE i + 1 \in P
  <2>1. i + 1 \in 1..n /\ (i + 1) - 1 = i /\ f[i] = g[i]
    BY <1>2
  <2>2. f[i + 1] = g[i + 1]
    BY <2>1 DEF IsScan
  <2> QED
    BY <2>1, <2>2
<1>3. 0..n \subseteq P
  <2> HIDE DEF P
  <2> QED
    BY <1>1, <1>2, BoundedInduction
<1> QED
  BY <1>3

(* Among is the end of the scan.                                           *)
LEMMA AmongIsScan ==
  ASSUME NEW T, NEW s \in Seq(T), NEW S
  PROVE  \E f : IsScan(f, s, S, Len(s)) /\ Among(s, S) = f[Len(s)]
<1> DEFINE kept[i \in 0..Len(s)] ==
             IF i = 0 THEN <<>>
             ELSE IF s[i] \in S THEN Append(kept[i - 1], s[i])
             ELSE kept[i - 1]
<1>1. Among(s, S) = kept[Len(s)]
  BY DEF Among
<1>2. kept = CHOOSE f : f = [i \in 0..Len(s) |->
                               IF i = 0 THEN <<>>
                               ELSE IF s[i] \in S THEN Append(f[i - 1], s[i])
                               ELSE f[i - 1]]
  BY DEF kept
<1> HIDE DEF kept
<1>3. Len(s) \in Nat
  OBVIOUS
<1>4. PICK f : IsScan(f, s, S, Len(s))
  BY <1>3, ScanExists
<1> DEFINE g == [i \in 0..Len(s) |-> f[i]]
<1>5. g = [i \in 0..Len(s) |-> IF i = 0 THEN <<>>
                               ELSE IF s[i] \in S THEN Append(g[i - 1], s[i])
                               ELSE g[i - 1]]
  <2>1. ASSUME NEW i \in 0..Len(s)
        PROVE  g[i] = IF i = 0 THEN <<>>
                      ELSE IF s[i] \in S THEN Append(g[i - 1], s[i]) ELSE g[i - 1]
    <3>1. CASE i = 0
      BY <3>1, <1>3, <1>4 DEF IsScan
    <3>2. CASE i # 0
      <4>1. i \in 1..Len(s) /\ i - 1 \in 0..Len(s)
        BY <3>2, <1>3
      <4>2. g[i] = f[i] /\ g[i - 1] = f[i - 1]
        BY <4>1
      <4> QED
        BY <4>1, <4>2, <3>2, <1>4 DEF IsScan
    <3> QED
      BY <3>1, <3>2
  <2> QED
    BY <2>1
<1> HIDE DEF g
<1>6. kept = [i \in 0..Len(s) |-> IF i = 0 THEN <<>>
                                  ELSE IF s[i] \in S THEN Append(kept[i - 1], s[i])
                                  ELSE kept[i - 1]]
  BY <1>2, <1>5
<1>7. IsScan(kept, s, S, Len(s))
  <2>2. kept[0] = <<>>
    BY <1>6, <1>3
  <2>3. ASSUME NEW i \in 1..Len(s)
        PROVE  kept[i] = IF s[i] \in S THEN Append(kept[i - 1], s[i]) ELSE kept[i - 1]
    <3>1. i \in 0..Len(s) /\ i # 0
      BY <1>3
    <3> QED
      BY <1>6, <3>1
  <2> QED
    BY <2>2, <2>3 DEF IsScan
<1> QED
  BY <1>1, <1>7

LEMMA ScanType ==
  ASSUME NEW n \in Nat, NEW s, NEW S, NEW f, IsScan(f, s, S, n)
  PROVE  \A i \in 0..n : f[i] \in Seq(S)
<1> DEFINE P == {i \in 0..n : f[i] \in Seq(S)}
<1>1. 0 \in P
  <2>1. f[0] = <<>>
    BY DEF IsScan
  <2>2. <<>> \in Seq(S)
    OBVIOUS
  <2>3. f[0] \in Seq(S)
    BY <2>1, <2>2
  <2> QED
    BY <2>3
<1>2. ASSUME NEW i \in 0..n, i \in P, i < n PROVE i + 1 \in P
  <2>1. i + 1 \in 1..n /\ (i + 1) - 1 = i /\ f[i] \in Seq(S)
    BY <1>2
  <2>2. f[i + 1] = IF s[i + 1] \in S THEN Append(f[i], s[i + 1]) ELSE f[i]
    BY <2>1 DEF IsScan
  <2>3. f[i + 1] \in Seq(S)
    BY <2>1, <2>2
  <2> QED
    BY <2>1, <2>3
<1>3. 0..n \subseteq P
  <2> HIDE DEF P
  <2> QED
    BY <1>1, <1>2, BoundedInduction
<1> QED
  BY <1>3

LEMMA AmongType ==
  ASSUME NEW T, NEW s \in Seq(T), NEW S
  PROVE  Among(s, S) \in Seq(S)
<1>1. PICK f : IsScan(f, s, S, Len(s)) /\ Among(s, S) = f[Len(s)]
  BY AmongIsScan
<1>2. Len(s) \in Nat
  OBVIOUS
<1> QED
  BY <1>1, <1>2, ScanType

LEMMA AppendToConcat ==
  ASSUME NEW T, NEW a \in Seq(T), NEW b \in Seq(T), NEW x \in T
  PROVE  a \o Append(b, x) = Append(a \o b, x)
OBVIOUS

(* The elements of u are those of s and then those of t.                   *)
Follow(u, s, t) ==
  /\ Len(u) = Len(s) + Len(t)
  /\ \A i \in 1..Len(s) : u[i] = s[i]
  /\ \A i \in 1..Len(t) : u[Len(s) + i] = t[i]

Joined(a, b) == a \o b

LEMMA ScanOfTwo ==
  ASSUME NEW T, NEW s \in Seq(T), NEW t \in Seq(T), NEW u \in Seq(T), NEW S,
         NEW f, NEW g, NEW h, Follow(u, s, t),
         IsScan(f, s, S, Len(s)), IsScan(g, t, S, Len(t)), IsScan(h, u, S, Len(u))
  PROVE  h[Len(u)] = Joined(f[Len(s)], g[Len(t)])
<1>a. Len(s) \in Nat /\ Len(t) \in Nat /\ Len(u) = Len(s) + Len(t)
  BY DEF Follow
<1> SUFFICES ASSUME NEW m \in Nat, NEW n \in Nat, m = Len(s), n = Len(t)
             PROVE  h[m + n] = f[m] \o g[n]
  BY <1>a DEF Joined
<1>0. /\ IsScan(f, s, S, m) /\ IsScan(g, t, S, n) /\ IsScan(h, u, S, m + n)
      /\ \A i \in 1..m : u[i] = s[i]
      /\ \A i \in 1..n : u[m + i] = t[i]
  BY DEF Follow
<1>1. h[m] = f[m]
  <2>1. ASSUME NEW i \in 1..m
        PROVE  h[i] = IF s[i] \in S THEN Append(h[i - 1], s[i]) ELSE h[i - 1]
    <3>1. i \in 1..(m + n) /\ u[i] = s[i]
      BY <1>0
    <3> QED
      BY <3>1, <1>0 DEF IsScan
  <2>2. h[0] = <<>>
    BY <1>0 DEF IsScan
  <2>3. IsScan(h, s, S, m)
    BY <2>1, <2>2 DEF IsScan
  <2> QED
    BY <2>3, <1>0, ScansAgree
<1>2. f[m] \in Seq(S) /\ \A i \in 0..n : g[i] \in Seq(S)
  BY <1>0, ScanType
<1> DEFINE r == [i \in 0..n |-> f[m] \o g[i]]
           P == {i \in 0..n : h[m + i] = r[i]}
<1>3. \A i \in 0..n : r[i] = f[m] \o g[i]
  OBVIOUS
<1> HIDE DEF r
<1>4. 0 \in P
  <2>1. g[0] = <<>> /\ m + 0 = m /\ 0 \in 0..n
    BY <1>0 DEF IsScan
  <2>2. f[m] \o <<>> = f[m]
    BY <1>2
  <2>3. h[m + 0] = r[0]
    BY <2>1, <2>2, <1>1, <1>3
  <2> QED
    BY <2>1, <2>3
<1>5. ASSUME NEW i \in 0..n, i \in P, i < n PROVE i + 1 \in P
  <2>1. h[m + i] = r[i] /\ r[i] = f[m] \o g[i]
    BY <1>3, <1>5
  <2>2. i + 1 \in 1..n /\ i + 1 \in 0..n /\ (i + 1) - 1 = i
    BY <1>5
  <2>3. m + (i + 1) \in 1..(m + n) /\ (m + (i + 1)) - 1 = m + i
    BY <1>5
  <2>4. u[m + (i + 1)] = t[i + 1]
    BY <2>2, <1>0
  <2>5. g[i + 1] = IF t[i + 1] \in S THEN Append(g[i], t[i + 1]) ELSE g[i]
    BY <2>2, <1>0 DEF IsScan
  <2>6. h[m + (i + 1)] = IF t[i + 1] \in S THEN Append(h[m + i], t[i + 1]) ELSE h[m + i]
    <3>1. \A k \in 1..(m + n) : h[k] = IF u[k] \in S THEN Append(h[k - 1], u[k]) ELSE h[k - 1]
      BY <1>0 DEF IsScan
    <3> QED
      BY <2>3, <2>4, <3>1
  <2>7. f[m] \in Seq(S) /\ g[i] \in Seq(S)
    BY <1>2
  <2>8. CASE t[i + 1] \in S
    <3>1. h[m + (i + 1)] = Append(f[m] \o g[i], t[i + 1])
      BY <2>1, <2>6, <2>8
    <3>2. r[i + 1] = f[m] \o Append(g[i], t[i + 1])
      BY <2>2, <2>5, <2>8, <1>3
    <3>3. ASSUME NEW a \in Seq(S), NEW b \in Seq(S), NEW x \in S
          PROVE  a \o Append(b, x) = Append(a \o b, x)
      BY AppendToConcat
    <3>4. f[m] \o Append(g[i], t[i + 1]) = Append(f[m] \o g[i], t[i + 1])
      BY <3>3, <2>7, <2>8, Zenon
    <3> QED
      BY <3>1, <3>2, <3>4, <2>2
  <2>9. CASE t[i + 1] \notin S
    <3>1. h[m + (i + 1)] = r[i] /\ r[i + 1] = f[m] \o g[i]
      BY <2>1, <2>2, <2>5, <2>6, <2>9, <1>3
    <3> QED
      BY <3>1, <2>1, <2>2
  <2> QED
    BY <2>8, <2>9
<1>6. n \in P
  <2> HIDE DEF P
  <2>1. 0..n \subseteq P
    BY <1>4, <1>5, BoundedInduction
  <2> QED
    BY <2>1
<1> QED
  BY <1>3, <1>6

(* Selecting from two lists in a row.                                      *)
LEMMA AmongJoined ==
  ASSUME NEW T, NEW s \in Seq(T), NEW t \in Seq(T), NEW u \in Seq(T), NEW S,
         Follow(u, s, t)
  PROVE  Among(u, S) = Joined(Among(s, S), Among(t, S))
<1>1. PICK f : IsScan(f, s, S, Len(s)) /\ Among(s, S) = f[Len(s)]
  BY AmongIsScan
<1>2. PICK g : IsScan(g, t, S, Len(t)) /\ Among(t, S) = g[Len(t)]
  BY AmongIsScan
<1>3. PICK h : IsScan(h, u, S, Len(u)) /\ Among(u, S) = h[Len(u)]
  BY AmongIsScan
<1>4. h[Len(u)] = Joined(f[Len(s)], g[Len(t)])
  BY <1>1, <1>2, <1>3, ScanOfTwo
<1> QED
  BY <1>1, <1>2, <1>3, <1>4

(* Selecting what is not there, and selecting everything.                  *)
LEMMA AmongNone ==
  ASSUME NEW T, NEW s \in Seq(T), NEW S, \A i \in 1..Len(s) : s[i] \notin S
  PROVE  Among(s, S) = <<>>
<1>1. PICK f : IsScan(f, s, S, Len(s)) /\ Among(s, S) = f[Len(s)]
  BY AmongIsScan
<1> DEFINE n == Len(s)
           P == {i \in 0..n : f[i] = <<>>}
<1>2. n \in Nat
  OBVIOUS
<1>3. 0 \in P
  BY <1>1 DEF IsScan
<1>4. ASSUME NEW i \in 0..n, i \in P, i < n PROVE i + 1 \in P
  <2>1. i + 1 \in 1..n /\ (i + 1) - 1 = i /\ f[i] = <<>>
    BY <1>2, <1>4
  <2>2. f[i + 1] = f[i]
    BY <1>1, <2>1 DEF IsScan
  <2> QED
    BY <2>1, <2>2
<1>5. n \in P
  <2> HIDE DEF P, n
  <2>1. 0..n \subseteq P
    BY <1>2, <1>3, <1>4, BoundedInduction
  <2> QED
    BY <2>1, <1>2
<1> QED
  BY <1>1, <1>5

LEMMA AmongAll ==
  ASSUME NEW T, NEW s \in Seq(T), NEW S, \A i \in 1..Len(s) : s[i] \in S
  PROVE  Among(s, S) = s
<1>1. PICK f : IsScan(f, s, S, Len(s)) /\ Among(s, S) = f[Len(s)]
  BY AmongIsScan
<1> DEFINE n == Len(s)
           P == {i \in 0..n : f[i] = SubSeq(s, 1, i)}
<1>2. n \in Nat
  OBVIOUS
<1>3. 0 \in P
  <2>1. f[0] = <<>>
    BY <1>1 DEF IsScan
  <2>2. SubSeq(s, 1, 0) = <<>>
    OBVIOUS
  <2>3. f[0] = SubSeq(s, 1, 0)
    BY <2>1, <2>2
  <2>4. 0 \in 0..n
    BY <1>2
  <2> QED
    BY <2>3, <2>4
<1>4. ASSUME NEW i \in 0..n, i \in P, i < n PROVE i + 1 \in P
  <2>1. i + 1 \in 1..n /\ (i + 1) - 1 = i /\ f[i] = SubSeq(s, 1, i)
    BY <1>2, <1>4
  <2>2. f[i + 1] = Append(SubSeq(s, 1, i), s[i + 1])
    BY <1>1, <2>1 DEF IsScan
  <2>3. Append(SubSeq(s, 1, i), s[i + 1]) = SubSeq(s, 1, i + 1)
    BY <2>1, <1>2
  <2>4. f[i + 1] = SubSeq(s, 1, i + 1) /\ i + 1 \in 0..n
    BY <2>1, <2>2, <2>3
  <2> QED
    BY <2>4
<1>5. n \in P
  <2> HIDE DEF P, n
  <2>1. 0..n \subseteq P
    BY <1>2, <1>3, <1>4, BoundedInduction
  <2> QED
    BY <2>1, <1>2
<1>6. SubSeq(s, 1, n) = s
  OBVIOUS
<1> QED
  BY <1>1, <1>5, <1>6

(* The list goes on with elements that are all left out, or all taken.     *)
LEMMA AmongSkips ==
  ASSUME NEW T, NEW s \in Seq(T), NEW t \in Seq(T), NEW u \in Seq(T), NEW S,
         Follow(u, s, t), \A i \in 1..Len(t) : t[i] \notin S
  PROVE  Among(u, S) = Among(s, S)
<1>1. Among(t, S) = <<>>
  BY AmongNone
<1>2. Among(s, S) \in Seq(S)
  BY AmongType
<1>3. ASSUME NEW a \in Seq(S) PROVE a \o <<>> = a
  OBVIOUS
<1>4. Joined(Among(s, S), <<>>) = Among(s, S)
  BY <1>2, <1>3, Zenon DEF Joined
<1> QED
  BY <1>1, <1>4, AmongJoined

LEMMA AmongTakes ==
  ASSUME NEW T, NEW s \in Seq(T), NEW t \in Seq(T), NEW u \in Seq(T), NEW S,
         Follow(u, s, t), \A i \in 1..Len(t) : t[i] \in S
  PROVE  Among(u, S) = Joined(Among(s, S), t)
<1>1. Among(t, S) = t
  BY AmongAll
<1> QED
  BY <1>1, AmongJoined

(* One more element is appended or skipped.                                *)
LEMMA AmongAppend ==
  ASSUME NEW T, NEW s \in Seq(T), NEW x \in T, NEW S
  PROVE  Among(Append(s, x), S) = IF x \in S THEN Append(Among(s, S), x) ELSE Among(s, S)
<1> DEFINE one == <<x>>
           u == Append(s, x)
<1>1. one \in Seq(T) /\ u \in Seq(T) /\ Len(one) = 1 /\ one[1] = x
  OBVIOUS
<1>2. Follow(u, s, one)
  BY DEF Follow
<1>3. Among(s, S) \in Seq(S)
  BY AmongType
<1> HIDE DEF one, u
<1>4. CASE x \in S
  <2>1. \A i \in 1..Len(one) : one[i] \in S
    BY <1>1, <1>4
  <2>2. Among(u, S) = Joined(Among(s, S), one)
    BY <1>1, <1>2, <2>1, AmongTakes
  <2>3. PICK a \in Seq(S) : a = Among(s, S)
    BY <1>3
  <2>4. a \o <<x>> = Append(a, x)
    BY <1>4
  <2> QED BY <1>4, <2>2, <2>3, <2>4 DEF Joined, one, u
<1>5. CASE x \notin S
  <2>1. \A i \in 1..Len(one) : one[i] \notin S
    BY <1>1, <1>5
  <2>2. Among(u, S) = Among(s, S)
    BY <1>1, <1>2, <2>1, AmongSkips
  <2> QED BY <1>5, <2>2 DEF u
<1> QED BY <1>4, <1>5
=============================================================================
