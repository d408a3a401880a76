------------------------------ MODULE LogRing -------------------------------
(***************************************************************************)
(* The in-memory tail of the log (logbuf.go), written by every goroutine   *)
(* that logs and polled by the console (index.html, loadLogs).  The ring   *)
(* and its sequence numbers die with the process; the console's cursor     *)
(* does not.                                                               *)
(*                                                                         *)
(* A line is known by its place in log, the lines of the running process,  *)
(* a history variable.  Blank lines are not stored and change nothing.     *)
(* Not modelled: the console keeps 1200 lines only, and starts over when   *)
(* its language is switched.                                               *)
(***************************************************************************)
EXTENDS SequencesExt, Subsequence

CONSTANTS
  Capacity,   \* logRingCapacity
  Line,       \* what a line may say
  NoEntry,    \* the zero logEntry of a fresh slot
  Poll,       \* polls of the console, which may overlap
  MaxLines,   \* bound: lines of one process
  MaxBoots    \* bound: restarts

ASSUME RingAssumption ==
  /\ Capacity \in Nat \ {0}
  /\ NoEntry \notin [seq: Nat, line: Line]

VARIABLES
  entries,   \* the slots, counted from 0 like the code's
  next,      \* the slot to write
  filled,    \* slots in use
  seq,       \* the newest sequence number
  log        \* history: the lines written since the process started

VARIABLES
  cursor,    \* state.logsSeq
  shown,     \* the sequence numbers the console has shown
  poll,      \* the polls under way
  boots      \* restarts so far

ringVars == <<entries, next, filled, seq, log>>
consoleVars == <<cursor, shown, poll>>
logVars == <<entries, next, filled, seq, log, cursor, shown, poll, boots>>

Entries == [seq: Nat, line: Line]

RingTypeOK ==
  /\ entries \in [0..(Capacity - 1) -> Entries \cup {NoEntry}]
  /\ next \in 0..(Capacity - 1)
  /\ filled \in 0..Capacity
  /\ seq \in Nat
  /\ log \in Seq(Line)

RingInit ==
  /\ entries = [i \in 0..(Capacity - 1) |-> NoEntry]
  /\ next = 0
  /\ filled = 0
  /\ seq = 0
  /\ log = <<>>

----------------------------------------------------------------------------
(* Mutant: the slot to write does not wrap.                                *)
WriteOnward(line) ==
  /\ seq' = seq + 1
  /\ entries' = [entries EXCEPT ![next] = [seq |-> seq + 1, line |-> line]]
  /\ next' = next + 1
  /\ filled' = IF filled < Capacity THEN filled + 1 ELSE filled
  /\ log' = Append(log, line)

(* Write of a line that is not blank.                                      *)
Write(line) ==
  /\ seq' = seq + 1
  /\ entries' = [entries EXCEPT ![next] = [seq |-> seq + 1, line |-> line]]
  /\ next' = (next + 1) % Capacity
  /\ filled' = IF filled < Capacity THEN filled + 1 ELSE filled
  /\ log' = Append(log, line)

(* Mutant: the scan starts at the slot to write.                           *)
OldestFromNext(i) == entries[(next + (i - 1)) % Capacity]

(* The i-th oldest entry of the ring.                                      *)
Oldest(i) == entries[(next - filled + (i - 1) + Capacity) % Capacity]

Window == [i \in 1..filled |-> Oldest(i)]

(* Mutant: the comparison is off by one.                                   *)
AfterNext(n) == Among(Window, {e \in Entries : e.seq > n + 1})

(* After: the entries with a greater sequence number, oldest first.        *)
After(n) == Among(Window, {e \in Entries : e.seq > n})

----------------------------------------------------------------------------
(* The console                                                             *)

NoPoll == [state |-> "idle", after |-> 0, entries |-> <<>>, last |-> 0]

LogInit ==
  /\ RingInit
  /\ cursor = 0
  /\ shown = {}
  /\ poll = [p \in Poll |-> NoPoll]
  /\ boots = 0

Log ==
  /\ Len(log) < MaxLines
  /\ \E line \in Line : Write(line)
  /\ UNCHANGED <<cursor, shown, poll, boots>>

(* A new process starts with an empty ring.                                *)
Restart ==
  /\ boots < MaxBoots
  /\ boots' = boots + 1
  /\ entries' = [i \in 0..(Capacity - 1) |-> NoEntry]
  /\ next' = 0 /\ filled' = 0 /\ seq' = 0 /\ log' = <<>>
  /\ UNCHANGED consoleVars

(* The timer fires or the tab is opened, whether or not the last poll has  *)
(* been answered.                                                          *)
AskLogs(p) ==
  /\ poll[p].state = "idle"
  /\ poll' = [poll EXCEPT ![p] = [NoPoll EXCEPT !.state = "asked", !.after = cursor]]
  /\ UNCHANGED <<cursor, shown, boots, ringVars>>

(* handleAdminLogs: the entries and the newest number, under one lock.     *)
Serve(p) ==
  /\ poll[p].state = "asked"
  /\ poll' = [poll EXCEPT ![p] = [@ EXCEPT !.state = "answered", !.last = seq,
                                           !.entries = After(poll[p].after)]]
  /\ UNCHANGED <<cursor, shown, boots, ringVars>>

(* Mutant: an answer never moves the cursor back.                          *)
ReceiveForward(p) ==
  /\ poll[p].state = "answered"
  /\ cursor' = IF poll[p].last > cursor THEN poll[p].last ELSE cursor
  /\ shown' = shown \cup {e.seq : e \in ToSet(poll[p].entries)}
  /\ poll' = [poll EXCEPT ![p] = NoPoll]
  /\ UNCHANGED <<boots, ringVars>>

(* The answer arrives: whatever it says is the new cursor.                 *)
Receive(p) ==
  /\ poll[p].state = "answered"
  /\ cursor' = poll[p].last
  /\ shown' = shown \cup {e.seq : e \in ToSet(poll[p].entries)}
  /\ poll' = [poll EXCEPT ![p] = NoPoll]
  /\ UNCHANGED <<boots, ringVars>>

(* The request or its answer is lost.                                      *)
Lose(p) ==
  /\ poll[p].state # "idle"
  /\ poll' = [poll EXCEPT ![p] = NoPoll]
  /\ UNCHANGED <<cursor, shown, boots, ringVars>>

LogNext == Log \/ Restart \/ \E p \in Poll : AskLogs(p) \/ Serve(p) \/ Receive(p) \/ Lose(p)

LogSpec == LogInit /\ [][LogNext]_logVars

LogTypeOK ==
  /\ RingTypeOK
  /\ cursor \in Nat
  /\ shown \subseteq Nat
  /\ poll \in [Poll -> [state: {"idle", "asked", "answered"}, after: Nat,
                        entries: Seq(Entries), last: Nat]]
  /\ boots \in Nat

----------------------------------------------------------------------------
(* The ring is the tail of the log: the entries in it, from the oldest on, *)
(* are the newest lines in the order they were written, each under the     *)
(* number of its place, as many as fit (logbuf.go: "keeps the most recent  *)
(* log lines in memory").                                                  *)
RingIsTail ==
  /\ seq = Len(log)
  /\ filled = IF seq < Capacity THEN seq ELSE Capacity
  /\ \A i \in 1..filled : Oldest(i) = [seq |-> seq - filled + i, line |-> log[seq - filled + i]]

(* After(n) answers a poll with all the lines since n that are still there *)
(* and no other, oldest first (logbuf.go: "entries with a sequence number  *)
(* greater than seq, oldest first").                                       *)
AfterIsSuffix ==
  \A n \in 0..seq :
    LET from == IF n < seq - filled THEN seq - filled ELSE n
    IN After(n) = [i \in 1..(seq - from) |-> [seq |-> from + i, line |-> log[from + i]]]

(* The console loses a line only to the ring: until the first restart, the *)
(* lines up to its cursor have been shown or have been overwritten since,  *)
(* although polls overlap and answers are lost or overtake each other.     *)
NoLineSkipped ==
  boots = 0 => \A n \in 1..cursor : n \in shown \/ n <= seq - Capacity

(* A cursor from before a restart, which is ahead of the new process and   *)
(* hides its lines, is given up.                                           *)
CursorRecovers == cursor > seq ~> cursor <= seq

=============================================================================
