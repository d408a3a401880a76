--------------------------- MODULE LogRingProofs ---------------------------
(***************************************************************************)
(* The log ring holds the tail of the log, for every capacity and however  *)
(* long the process runs, and the console's polls skip no line of it.      *)
(***************************************************************************)
EXTENDS LogRing, SharedFacts, TLAPS

(* RingIsTail, made inductive: line k is in slot k - 1 modulo the          *)
(* capacity, so the next slot is where the oldest entry of a full ring is. *)
RingInv ==
  /\ seq = Len(log)
  /\ next = seq % Capacity
  /\ filled = IF seq < Capacity THEN seq ELSE Capacity
  /\ \A k \in (seq - filled + 1)..seq :
       entries[(k - 1) % Capacity] = [seq |-> k, line |-> log[k]]

(* A line that is in the ring after a write, and is not the new one, was   *)
(* in it before.                                                           *)
LEMMA LineStays ==
  ASSUME NEW s \in Int, NEW f \in Int, NEW g \in Int, g <= f + 1,
         NEW k \in ((s + 1) - g + 1)..(s + 1), k # s + 1
  PROVE  k - 1 \in Int /\ k - 1 < s /\ k \in (s - f + 1)..s
OBVIOUS

(* A process starts with the invariant.                                    *)
LEMMA RingInitInv == RingInit => RingTypeOK /\ RingInv
<1> SUFFICES ASSUME RingInit
             PROVE  RingTypeOK /\ RingInv
  OBVIOUS
<1>1. RingTypeOK
  BY RingAssumption DEF RingInit, RingTypeOK
<1>2. 0 % Capacity = 0
  <2>1. Capacity * 0 = 0
    BY RingAssumption
  <2> QED BY <2>1, RingAssumption, ModMultiple
<1>3. RingInv
  BY <1>2, RingAssumption DEF RingInit, RingInv
<1> QED BY <1>1, <1>3

(* Writing a line keeps it.                                                *)
LEMMA WriteInv ==
  ASSUME RingTypeOK, RingInv, NEW line \in Line, Write(line)
  PROVE  RingTypeOK' /\ RingInv'
<1>0. Capacity \in Nat \ {0}
  BY RingAssumption
<1> DEFINE new == [seq |-> seq + 1, line |-> line]
<1>1. seq \in Nat /\ filled \in 0..Capacity /\ log \in Seq(Line) /\ seq = Len(log)
      /\ next = seq % Capacity /\ next \in 0..(Capacity - 1)
  BY DEF RingTypeOK, RingInv
<1>2. seq' = seq + 1 /\ log' = Append(log, line) /\ entries' = [entries EXCEPT ![next] = new]
      /\ next' = (next + 1) % Capacity
      /\ filled' = IF filled < Capacity THEN filled + 1 ELSE filled
  BY DEF Write
<1>3. next' = (seq + 1) % Capacity
  <2>1. seq \in Int /\ 1 \in Int
    BY <1>1
  <2>2. ((seq % Capacity) + 1) % Capacity = (seq + 1) % Capacity
    BY <2>1, <1>0, ModAdd, Zenon
  <2> QED BY <2>2, <1>1, <1>2
<1>4. next' \in 0..(Capacity - 1)
  BY <1>0, <1>1, <1>2
<1>5. new \in Entries
  BY <1>1 DEF Entries
<1>6. RingTypeOK'
  <2>1. entries' \in [0..(Capacity - 1) -> Entries \cup {NoEntry}]
    <3> HIDE DEF new
    <3> QED BY <1>2, <1>5 DEF RingTypeOK
  <2>2. filled' \in 0..Capacity /\ seq' \in Nat /\ log' \in Seq(Line)
    BY <1>0, <1>1, <1>2
  <2> QED BY <2>1, <2>2, <1>4 DEF RingTypeOK
<1>7. seq' = Len(log') /\ filled' = IF seq' < Capacity THEN seq' ELSE Capacity
  BY <1>0, <1>1, <1>2 DEF RingInv
<1>8. ASSUME NEW k \in (seq' - filled' + 1)..seq'
      PROVE  entries'[(k - 1) % Capacity] = [seq |-> k, line |-> log'[k]]
  <2>1. k \in Int /\ k <= seq + 1 /\ k >= 1 /\ seq - (k - 1) < Capacity
    BY <1>0, <1>1, <1>2, <1>7 DEF RingInv
  <2>2. CASE k = seq + 1
    <3>1. (k - 1) % Capacity = next
      BY <1>1, <2>2
    <3>2. entries'[next] = new
      BY <1>1, <1>2 DEF RingTypeOK
    <3>3. log'[k] = line
      BY <1>1, <1>2, <2>2
    <3> QED BY <3>1, <3>2, <3>3, <2>2
  <2>3. CASE k # seq + 1
    <3>1. k - 1 \in Int /\ k - 1 < seq /\ k \in (seq - filled + 1)..seq
      <4>1. /\ seq \in Int /\ filled \in Int /\ filled' \in Int
            /\ seq' = seq + 1 /\ filled' <= filled + 1
        BY <1>0, <1>1, <1>2
      <4> QED BY <4>1, <2>1, <2>3, LineStays
    <3>2. (k - 1) % Capacity # next
      <4>1. (k - 1) % Capacity # seq % Capacity
        <5>1. k - 1 \in Int /\ seq \in Int
          BY <3>1, <1>1
        <5> QED BY <5>1, <3>1, <2>1, <1>0, ModDistinct, Zenon
      <4> QED BY <4>1, <1>1
    <3>3. (k - 1) % Capacity \in 0..(Capacity - 1)
      BY <3>1, <1>0
    <3>4. entries'[(k - 1) % Capacity] = entries[(k - 1) % Capacity]
      BY <3>2, <3>3, <1>2 DEF RingTypeOK
    <3>5. log'[k] = log[k]
      BY <3>1, <2>1, <1>1, <1>2
    <3> QED BY <3>1, <3>4, <3>5 DEF RingInv
  <2> QED BY <2>2, <2>3
<1>9. RingInv'
  <2>1. seq' = Len(log') /\ next' = seq' % Capacity
    BY <1>2, <1>3, <1>7
  <2> HIDE DEF new
  <2> QED BY <2>1, <1>7, <1>8 DEF RingInv
<1> QED BY <1>6, <1>9

(* So does every step: the console only reads.                             *)
LEMMA StepRingInv == RingTypeOK /\ RingInv /\ [LogNext]_logVars => RingTypeOK' /\ RingInv'
<1> SUFFICES ASSUME RingTypeOK, RingInv, [LogNext]_logVars
             PROVE  RingTypeOK' /\ RingInv'
  OBVIOUS
<1>1. CASE Log
  BY <1>1, WriteInv DEF Log
<1>2. CASE Restart
  <2>1. RingInit'
    BY <1>2 DEF Restart, RingInit
  <2> QED BY <2>1, RingInitInv, PTL
<1>3. CASE UNCHANGED ringVars
  BY <1>3 DEF ringVars, RingTypeOK, RingInv
<1>4. ASSUME NEW p \in Poll, AskLogs(p) \/ Serve(p) \/ Receive(p) \/ Lose(p)
      PROVE  UNCHANGED ringVars
  BY <1>4 DEF AskLogs, Serve, Receive, Lose
<1>5. CASE UNCHANGED logVars
  BY <1>5, <1>3 DEF logVars, ringVars
<1> QED BY <1>1, <1>2, <1>3, <1>4, <1>5 DEF LogNext

(* The invariant in terms of what After scans.                             *)
LEMMA RingInvIsTail == RingTypeOK /\ RingInv => RingIsTail
<1>0. Capacity \in Nat \ {0}
  BY RingAssumption
<1> SUFFICES ASSUME RingTypeOK, RingInv, NEW i \in 1..filled
             PROVE  Oldest(i) = [seq |-> seq - filled + i, line |-> log[seq - filled + i]]
  BY DEF RingIsTail, RingInv
<1> DEFINE y == (i - 1) - filled + Capacity
           x == seq - filled + (i - 1)
<1>1. seq \in Int /\ filled \in Int /\ next \in Int /\ next = seq % Capacity
      /\ 0 <= filled /\ filled <= seq
  BY <1>0 DEF RingTypeOK, RingInv
<1>2. y \in Int /\ x \in Int /\ next - filled + (i - 1) + Capacity = next + y
      /\ seq + y = x + Capacity
  BY <1>0, <1>1
<1> HIDE DEF y
<1>3. (next + y) % Capacity = (seq + y) % Capacity
  <2>1. ((seq % Capacity) + y) % Capacity = (seq + y) % Capacity
    BY <1>0, <1>1, <1>2, ModAdd, Zenon
  <2> QED BY <2>1, <1>1
<1>4. (x + Capacity) % Capacity = x % Capacity
  <2>1. Capacity % Capacity = 0 /\ Capacity \in Int
    <3>1. 1 \in Int /\ Capacity * 1 = Capacity
      BY <1>0
    <3>2. (Capacity * 1) % Capacity = 0
      BY <3>1, <1>0, ModMultiple, Zenon
    <3> QED BY <3>1, <3>2, <1>0
  <2> HIDE DEF x
  <2> QED BY <1>0, <1>2, <2>1, ModShift, Zenon
<1>5. Oldest(i) = entries[x % Capacity]
  BY <1>2, <1>3, <1>4 DEF Oldest
<1>6. x + 1 \in (seq - filled + 1)..seq /\ (x + 1) - 1 = x /\ x + 1 = seq - filled + i
  BY <1>1
<1>7. entries[((x + 1) - 1) % Capacity] = [seq |-> x + 1, line |-> log[x + 1]]
  BY <1>6 DEF RingInv
<1> QED BY <1>5, <1>6, <1>7

(* Theorem.  Whatever the capacity, and however often the process is       *)
(* restarted, the ring is the tail of the log of the running process.      *)
THEOREM RingIsTailHolds == LogSpec => []RingIsTail
<1>1. LogInit => RingTypeOK /\ RingInv
  BY RingInitInv DEF LogInit
<1> QED BY <1>1, StepRingInv, RingInvIsTail, PTL DEF LogSpec

-----------------------------------------------------------------------------
(* What After answers.                                                     *)
LEMMA SlotOfOldest ==
  ASSUME RingTypeOK, NEW i \in 1..filled
  PROVE  Oldest(i) \in Entries \cup {NoEntry}
<1> DEFINE x == next - filled + (i - 1) + Capacity
<1>1. Capacity \in Nat \ {0} /\ x \in Int
  BY RingAssumption DEF RingTypeOK
<1>2. x % Capacity \in 0..(Capacity - 1)
  <2> HIDE DEF x
  <2> QED BY <1>1, DivMod
<1> QED BY <1>2 DEF Oldest, RingTypeOK

LEMMA AfterType ==
  ASSUME RingTypeOK, NEW n
  PROVE  After(n) \in Seq(Entries)
<1>1. Window \in Seq(Entries \cup {NoEntry})
  <2>1. filled \in Nat
    BY RingAssumption DEF RingTypeOK
  <2> QED BY <2>1, SlotOfOldest DEF Window
<1> DEFINE S == {e \in Entries : e.seq > n}
<1>2. Among(Window, S) \in Seq(S)
  BY <1>1, AmongType
<1>3. S \subseteq Entries
  OBVIOUS
<1> HIDE DEF S
<1>4. Among(Window, S) \in Seq(Entries)
  BY <1>2, <1>3
<1> QED BY <1>4 DEF After, S

(* The lines after the first k of them.                                    *)
Lines(k) == [i \in 1..(seq - k) |-> [seq |-> k + i, line |-> log[k + i]]]

LEMMA AfterIsTail ==
  ASSUME RingTypeOK, RingInv, NEW n \in 0..seq
  PROVE  After(n) = Lines(IF n < seq - filled THEN seq - filled ELSE n)
<1> DEFINE from == IF n < seq - filled THEN seq - filled ELSE n
           old  == [i \in 1..(from - (seq - filled)) |->
                      [seq |-> seq - filled + i, line |-> log[seq - filled + i]]]
           S    == {e \in Entries : e.seq > n}
<1>1. seq \in Nat /\ filled \in 0..seq /\ from \in (seq - filled)..seq /\ n <= from
  BY RingAssumption DEF RingTypeOK, RingInv
<1>2. \A k \in 1..seq : log[k] \in Line
  BY DEF RingTypeOK, RingInv
<1>3. Window = [i \in 1..filled |-> [seq |-> seq - filled + i, line |-> log[seq - filled + i]]]
  BY RingInvIsTail DEF RingIsTail, Window
<1>4. Window \in Seq(Entries) /\ Len(Window) = filled
  BY <1>1, <1>2, <1>3 DEF Entries
<1>5. old \in Seq(Entries) /\ Len(old) = from - (seq - filled)
  BY <1>1, <1>2 DEF Entries
<1>6. Lines(from) \in Seq(Entries) /\ Len(Lines(from)) = seq - from
  BY <1>1, <1>2 DEF Entries, Lines
<1>7. Follow(Window, old, Lines(from))
  <2>1. filled = Len(old) + Len(Lines(from))
    BY <1>1, <1>5, <1>6
  <2>2. ASSUME NEW i \in 1..Len(old) PROVE Window[i] = old[i]
    BY <1>1, <1>3, <1>5
  <2>3. ASSUME NEW i \in 1..Len(Lines(from)) PROVE Window[Len(old) + i] = Lines(from)[i]
    <3>1. i \in 1..(seq - from) /\ Len(old) + i \in 1..filled
          /\ seq - filled + (Len(old) + i) = from + i
      BY <1>1, <1>5, <1>6
    <3>2. Window[Len(old) + i] = [seq |-> from + i, line |-> log[from + i]]
      BY <3>1, <1>3
    <3> QED BY <3>1, <3>2 DEF Lines
  <2> QED BY <2>1, <2>2, <2>3, <1>4 DEF Follow
<1>8. ASSUME NEW i \in 1..Len(old) PROVE old[i] \notin S
  <2>1. old[i].seq = seq - filled + i /\ seq - filled + i <= n
    BY <1>1, <1>5
  <2> QED BY <2>1, <1>1
<1>9. ASSUME NEW i \in 1..Len(Lines(from)) PROVE Lines(from)[i] \in S
  <2>1. Lines(from)[i].seq = from + i /\ from + i > n
    BY <1>1, <1>6 DEF Lines
  <2>2. Lines(from)[i] \in Entries
    BY <1>6
  <2> QED BY <2>1, <2>2
<1> HIDE DEF old, S, from
<1>10. Among(old, S) = <<>>
  BY <1>5, <1>8, AmongNone
<1>11. Among(Lines(from), S) = Lines(from)
  BY <1>6, <1>9, AmongAll
<1>12. Among(Window, S) = Joined(<<>>, Lines(from))
  BY <1>4, <1>5, <1>6, <1>7, <1>10, <1>11, AmongJoined
<1>13. Joined(<<>>, Lines(from)) = Lines(from)
  <2>1. ASSUME NEW a \in Seq(Entries) PROVE <<>> \o a = a
    OBVIOUS
  <2> QED BY <2>1, <1>6, Zenon DEF Joined
<1> QED BY <1>12, <1>13 DEF After, S, from

(* Theorem.  A poll is answered with all the lines after its cursor that   *)
(* are still in the ring, and no other (logRing.After).                    *)
THEOREM AfterIsSuffixHolds == LogSpec => []AfterIsSuffix
<1>1. LogInit => RingTypeOK /\ RingInv
  BY RingInitInv DEF LogInit
<1>2. RingTypeOK /\ RingInv => AfterIsSuffix
  BY AfterIsTail DEF AfterIsSuffix, Lines
<1> QED BY <1>1, <1>2, StepRingInv, PTL DEF LogSpec

-----------------------------------------------------------------------------
(* The console's polls.                                                    *)
Polls == [state: {"idle", "asked", "answered"}, after: Nat, entries: Seq(Entries), last: Nat]

ConsoleTypeOK ==
  /\ cursor \in Nat
  /\ shown \subseteq Nat
  /\ poll \in [Poll -> Polls]
  /\ boots \in Nat

(* NoLineSkipped, made inductive: it holds of the cursor a poll was asked  *)
(* with, and of the one it will leave together with the lines it brings.   *)
Accounted(n) == n \in shown \/ n <= seq - Capacity

Brings(p) == {e.seq : e \in ToSet(poll[p].entries)}

CursorInv ==
  boots = 0 =>
    /\ cursor <= seq
    /\ \A n \in 1..cursor : Accounted(n)
    /\ \A p \in Poll :
         /\ poll[p].state = "asked" =>
              /\ poll[p].after <= seq
              /\ \A n \in 1..poll[p].after : Accounted(n)
         /\ poll[p].state = "answered" =>
              /\ poll[p].last <= seq
              /\ \A n \in 1..poll[p].last : Accounted(n) \/ n \in Brings(p)

IInv == RingTypeOK /\ RingInv /\ ConsoleTypeOK /\ CursorInv

LEMMA NoPollType == NoPoll \in Polls
<1>1. <<>> \in Seq(Entries)
  OBVIOUS
<1> QED BY <1>1 DEF NoPoll, Polls

(* The types after a step that changes one poll.                           *)
LEMMA PollType ==
  ASSUME ConsoleTypeOK, NEW p \in Poll, NEW r \in Polls, poll' = [poll EXCEPT ![p] = r],
         cursor' \in Nat, shown' \subseteq Nat, boots' = boots
  PROVE  ConsoleTypeOK'
BY DEF ConsoleTypeOK

LEMMA AskType ==
  ASSUME ConsoleTypeOK, NEW p \in Poll, AskLogs(p)
  PROVE  ConsoleTypeOK'
<1> DEFINE r == [NoPoll EXCEPT !.state = "asked", !.after = cursor]
<1>1. r \in Polls
  BY NoPollType DEF ConsoleTypeOK, Polls
<1>2. /\ poll' = [poll EXCEPT ![p] = r] /\ cursor' \in Nat /\ shown' \subseteq Nat
      /\ boots' = boots
  BY DEF AskLogs, ConsoleTypeOK
<1> HIDE DEF r
<1> QED BY <1>1, <1>2, PollType

LEMMA ServeType ==
  ASSUME RingTypeOK, ConsoleTypeOK, NEW p \in Poll, Serve(p)
  PROVE  ConsoleTypeOK'
<1> DEFINE answer == After(poll[p].after)
           r == [poll[p] EXCEPT !.state = "answered", !.last = seq, !.entries = answer]
<1>1. answer \in Seq(Entries)
  BY AfterType
<1>2. /\ poll' = [poll EXCEPT ![p] = r] /\ cursor' \in Nat /\ shown' \subseteq Nat
      /\ boots' = boots
  BY DEF Serve, ConsoleTypeOK
<1> HIDE DEF answer
<1>3. r \in Polls
  BY <1>1 DEF ConsoleTypeOK, RingTypeOK, Polls
<1> HIDE DEF r
<1> QED BY <1>2, <1>3, PollType

LEMMA BringsNumbers ==
  ASSUME ConsoleTypeOK, NEW p \in Poll
  PROVE  Brings(p) \subseteq Nat
<1>1. poll[p].entries \in Seq(Entries)
  BY DEF ConsoleTypeOK, Polls
<1>2. \A i \in DOMAIN poll[p].entries : poll[p].entries[i] \in Entries
  BY <1>1
<1> QED BY <1>2 DEF Brings, ToSet, Entries

LEMMA ReceiveType ==
  ASSUME ConsoleTypeOK, NEW p \in Poll, Receive(p)
  PROVE  ConsoleTypeOK'
<1>1. poll' = [poll EXCEPT ![p] = NoPoll] /\ cursor' = poll[p].last /\ boots' = boots
      /\ shown' = shown \cup Brings(p)
  BY DEF Receive, Brings
<1>2. cursor' \in Nat
  BY <1>1 DEF ConsoleTypeOK, Polls
<1>3. shown' \subseteq Nat
  BY <1>1, BringsNumbers DEF ConsoleTypeOK
<1> QED BY <1>1, <1>2, <1>3, NoPollType, PollType

LEMMA LoseType ==
  ASSUME ConsoleTypeOK, NEW p \in Poll, Lose(p)
  PROVE  ConsoleTypeOK'
<1>1. /\ poll' = [poll EXCEPT ![p] = NoPoll] /\ cursor' \in Nat /\ shown' \subseteq Nat
      /\ boots' = boots
  BY DEF Lose, ConsoleTypeOK
<1> QED BY <1>1, NoPollType, PollType

LEMMA ConsoleTypeStep ==
  ASSUME RingTypeOK, ConsoleTypeOK, [LogNext]_logVars
  PROVE  ConsoleTypeOK'
<1>1. CASE Log
  BY <1>1 DEF Log, ConsoleTypeOK
<1>2. CASE Restart
  BY <1>2 DEF Restart, consoleVars, ConsoleTypeOK
<1>3. CASE UNCHANGED logVars
  BY <1>3 DEF logVars, ConsoleTypeOK
<1> QED BY <1>1, <1>2, <1>3, AskType, ServeType, ReceiveType, LoseType DEF LogNext

-----------------------------------------------------------------------------
(* A line that is written can only push others out.                        *)
LEMMA LogCursor ==
  ASSUME IInv, Log
  PROVE  CursorInv'
<1>1. seq \in Nat /\ seq' = seq + 1 /\ Capacity \in Nat
  BY RingAssumption DEF IInv, RingTypeOK, Log, Write
<1>2. UNCHANGED <<cursor, shown, poll, boots>>
  BY DEF Log
<1>3. ASSUME NEW n \in Nat, Accounted(n) PROVE Accounted(n)'
  BY <1>1, <1>2, <1>3 DEF Accounted
<1> SUFFICES ASSUME boots = 0 PROVE CursorInv'
  BY <1>2 DEF CursorInv
<1>4. cursor' <= seq' /\ \A n \in 1..cursor' : Accounted(n)'
  BY <1>1, <1>2, <1>3 DEF IInv, CursorInv, ConsoleTypeOK
<1>5. ASSUME NEW p \in Poll, poll[p].state = "asked"
      PROVE  poll[p].after <= seq' /\ \A n \in 1..poll[p].after : Accounted(n)'
  <2>1. poll[p].after \in Nat
    BY DEF IInv, ConsoleTypeOK, Polls
  <2> QED BY <2>1, <1>1, <1>3, <1>5 DEF IInv, CursorInv
<1>6. ASSUME NEW p \in Poll, poll[p].state = "answered"
      PROVE  /\ poll[p].last <= seq'
             /\ \A n \in 1..poll[p].last : Accounted(n)' \/ n \in Brings(p)
  <2>1. poll[p].last \in Nat
    BY DEF IInv, ConsoleTypeOK, Polls
  <2> QED BY <2>1, <1>1, <1>3, <1>6 DEF IInv, CursorInv
<1>7. \A p \in Poll : Brings(p)' = Brings(p)
  BY <1>2 DEF Brings
<1> QED BY <1>2, <1>4, <1>5, <1>6, <1>7 DEF CursorInv

(* The invariant after a step that changes one poll and leaves the ring.   *)
LEMMA PollCursor ==
  ASSUME IInv, UNCHANGED ringVars, boots' = boots,
         NEW p \in Poll, NEW r, poll' = [poll EXCEPT ![p] = r], shown \subseteq shown',
         boots = 0 =>
           /\ cursor' <= seq /\ \A n \in 1..cursor' : Accounted(n)'
           /\ r.state = "asked" =>
                r.after <= seq /\ \A n \in 1..r.after : Accounted(n)
           /\ r.state = "answered" =>
                /\ r.last <= seq
                /\ \A n \in 1..r.last : Accounted(n) \/ n \in {e.seq : e \in ToSet(r.entries)}
  PROVE  CursorInv'
<1> SUFFICES ASSUME boots = 0 PROVE CursorInv'
  BY DEF CursorInv
<1>1. seq' = seq /\ poll'[p] = r /\ \A q \in Poll \ {p} : poll'[q] = poll[q]
  BY DEF ringVars, IInv, ConsoleTypeOK
<1>2. \A n : Accounted(n) => Accounted(n)'
  BY <1>1 DEF Accounted
<1>3. cursor' <= seq' /\ \A n \in 1..cursor' : Accounted(n)'
  BY <1>1
<1>4. ASSUME NEW q \in Poll
      PROVE  /\ poll'[q].state = "asked" =>
                  poll'[q].after <= seq' /\ \A n \in 1..poll'[q].after : Accounted(n)'
             /\ poll'[q].state = "answered" =>
                  /\ poll'[q].last <= seq'
                  /\ \A n \in 1..poll'[q].last : Accounted(n)' \/ n \in Brings(q)'
  <2>1. CASE q = p
    BY <2>1, <1>1, <1>2 DEF Brings
  <2>2. CASE q # p
    <3>1. poll'[q] = poll[q] /\ Brings(q)' = Brings(q)
      BY <2>2, <1>1 DEF Brings
    <3> QED BY <3>1, <1>1, <1>2 DEF IInv, CursorInv
  <2> QED BY <2>1, <2>2
<1> QED BY <1>3, <1>4 DEF CursorInv

LEMMA AskCursor ==
  ASSUME IInv, NEW p \in Poll, AskLogs(p)
  PROVE  CursorInv'
<1> DEFINE r == [NoPoll EXCEPT !.state = "asked", !.after = cursor]
<1>1. r.state = "asked" /\ r.after = cursor
  BY DEF NoPoll
<1>2. /\ UNCHANGED ringVars /\ boots' = boots /\ poll' = [poll EXCEPT ![p] = r]
      /\ shown' = shown /\ cursor' = cursor /\ seq' = seq
  BY DEF AskLogs, ringVars
<1> HIDE DEF r
<1>3. boots = 0 => cursor <= seq /\ \A n \in 1..cursor : Accounted(n)
  BY DEF IInv, CursorInv
<1>4. \A n : Accounted(n)' <=> Accounted(n)
  BY <1>2 DEF Accounted
<1>5. shown \subseteq shown'
  BY <1>2
<1> QED BY <1>1, <1>2, <1>3, <1>4, <1>5, PollCursor

(* An answer brings what is in the ring after the cursor of its poll.      *)
LEMMA ServeCursor ==
  ASSUME IInv, NEW p \in Poll, Serve(p)
  PROVE  CursorInv'
<1> DEFINE n0 == poll[p].after
           r == [poll[p] EXCEPT !.state = "answered", !.last = seq, !.entries = After(n0)]
<1>1. r.state = "answered" /\ r.last = seq /\ r.entries = After(n0)
  BY DEF IInv, ConsoleTypeOK, Polls
<1>2. /\ UNCHANGED ringVars /\ boots' = boots /\ poll' = [poll EXCEPT ![p] = r]
      /\ shown' = shown /\ cursor' = cursor /\ seq' = seq
  BY DEF Serve, ringVars
<1>3. boots = 0 => n0 \in 0..seq /\ \A n \in 1..n0 : Accounted(n)
  BY DEF IInv, CursorInv, ConsoleTypeOK, Polls, Serve
<1>4. boots = 0 => cursor <= seq /\ \A n \in 1..cursor : Accounted(n)
  BY DEF IInv, CursorInv
<1>5. \A n : Accounted(n)' <=> Accounted(n)
  BY <1>2 DEF Accounted
<1> HIDE DEF r, n0
<1>6. ASSUME boots = 0, NEW n \in 1..seq, n > n0, ~ Accounted(n)
      PROVE  n \in {e.seq : e \in ToSet(r.entries)}
  <2> DEFINE from == IF n0 < seq - filled THEN seq - filled ELSE n0
  <2>1. r.entries = Lines(from)
    BY <1>1, <1>3, <1>6, AfterIsTail DEF IInv
  <2>2. seq \in Nat /\ filled = IF seq < Capacity THEN seq ELSE Capacity
    BY DEF IInv, RingTypeOK, RingInv
  <2>3. n > from /\ from \in 0..seq
    BY <1>3, <1>6, <2>2, RingAssumption DEF Accounted
  <2> HIDE DEF from
  <2>4. n - from \in 1..(seq - from) /\ from + (n - from) = n
    BY <2>2, <2>3
  <2>5. n - from \in DOMAIN Lines(from) /\ Lines(from)[n - from].seq = n
    BY <2>4 DEF Lines
  <2> QED BY <2>1, <2>5 DEF ToSet
<1>7. boots = 0 =>
        /\ r.last <= seq
        /\ \A n \in 1..r.last : Accounted(n) \/ n \in {e.seq : e \in ToSet(r.entries)}
  <2> SUFFICES ASSUME boots = 0, NEW n \in 1..seq, ~ Accounted(n)
               PROVE  n \in {e.seq : e \in ToSet(r.entries)}
    BY <1>1 DEF IInv, RingTypeOK
  <2>1. n > n0
    BY <1>3
  <2> QED BY <2>1, <1>6
<1>8. shown \subseteq shown'
  BY <1>2
<1> QED BY <1>1, <1>2, <1>4, <1>5, <1>7, <1>8, PollCursor

LEMMA ReceiveCursor ==
  ASSUME IInv, NEW p \in Poll, Receive(p)
  PROVE  CursorInv'
<1>1. /\ UNCHANGED ringVars /\ boots' = boots /\ poll' = [poll EXCEPT ![p] = NoPoll]
      /\ shown' = shown \cup Brings(p) /\ cursor' = poll[p].last /\ seq' = seq
  BY DEF Receive, Brings, ringVars
<1>2. boots = 0 => poll[p].last <= seq
                   /\ \A n \in 1..poll[p].last : Accounted(n) \/ n \in Brings(p)
  BY DEF IInv, CursorInv, Receive
<1>3. boots = 0 => cursor' <= seq /\ \A n \in 1..cursor' : Accounted(n)'
  BY <1>1, <1>2 DEF Accounted
<1>4. NoPoll.state = "idle"
  BY DEF NoPoll
<1>5. shown \subseteq shown'
  BY <1>1
<1> QED BY <1>1, <1>3, <1>4, <1>5, PollCursor

LEMMA LoseCursor ==
  ASSUME IInv, NEW p \in Poll, Lose(p)
  PROVE  CursorInv'
<1>1. /\ UNCHANGED ringVars /\ boots' = boots /\ poll' = [poll EXCEPT ![p] = NoPoll]
      /\ shown' = shown /\ cursor' = cursor /\ seq' = seq
  BY DEF Lose, ringVars
<1>2. boots = 0 => cursor' <= seq /\ \A n \in 1..cursor' : Accounted(n)'
  BY <1>1 DEF Accounted, IInv, CursorInv
<1>3. NoPoll.state = "idle"
  BY DEF NoPoll
<1>4. shown \subseteq shown'
  BY <1>1
<1> QED BY <1>1, <1>2, <1>3, <1>4, PollCursor

LEMMA StepIInv == IInv /\ [LogNext]_logVars => IInv'
<1> SUFFICES ASSUME IInv, [LogNext]_logVars PROVE IInv'
  OBVIOUS
<1>1. RingTypeOK' /\ RingInv'
  BY StepRingInv DEF IInv
<1>2. ConsoleTypeOK'
  BY ConsoleTypeStep DEF IInv
<1>3. CASE Restart
  <2>1. boots' # 0
    BY <1>3 DEF Restart, IInv, ConsoleTypeOK
  <2> QED BY <2>1, <1>1, <1>2 DEF IInv, CursorInv
<1>4. CASE UNCHANGED logVars
  <2>1. CursorInv'
    BY <1>4 DEF logVars, IInv, CursorInv, Accounted, Brings
  <2> QED BY <2>1, <1>1, <1>2 DEF IInv
<1>5. CASE Log
  BY <1>5, <1>1, <1>2, LogCursor DEF IInv
<1>6. ASSUME NEW p \in Poll, AskLogs(p) \/ Serve(p) \/ Receive(p) \/ Lose(p)
      PROVE  CursorInv'
  BY <1>6, AskCursor, ServeCursor, ReceiveCursor, LoseCursor
<1> QED BY <1>1, <1>2, <1>3, <1>4, <1>5, <1>6 DEF LogNext, IInv

THEOREM InvHolds == LogSpec => []IInv
<1>1. LogInit => IInv
  <2> SUFFICES ASSUME LogInit PROVE IInv
    OBVIOUS
  <2>1. RingTypeOK /\ RingInv
    BY RingInitInv DEF LogInit
  <2>2. ConsoleTypeOK
    BY NoPollType DEF LogInit, ConsoleTypeOK
  <2>3. CursorInv
    <3>1. cursor = 0 /\ 0 <= seq /\ \A p \in Poll : poll[p].state = "idle"
      BY <2>1 DEF LogInit, NoPoll, RingTypeOK
    <3> QED BY <3>1 DEF CursorInv
  <2> QED BY <2>1, <2>2, <2>3 DEF IInv
<1> QED BY <1>1, StepIInv, PTL DEF LogSpec

(* Theorem.  The ring and the console keep their types.                    *)
THEOREM TypeCorrect == LogSpec => []LogTypeOK
<1>1. IInv => LogTypeOK
  BY DEF IInv, ConsoleTypeOK, Polls, LogTypeOK
<1> QED BY <1>1, InvHolds, PTL

(* Theorem.  However many polls overlap, are lost or overtake each other,  *)
(* the console loses a line only to the ring (index.html, loadLogs).       *)
THEOREM NoLineSkippedHolds == LogSpec => []NoLineSkipped
<1>1. IInv => NoLineSkipped
  BY DEF IInv, CursorInv, Accounted, NoLineSkipped
<1> QED BY <1>1, InvHolds, PTL
=============================================================================
