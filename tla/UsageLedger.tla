---------------------------- MODULE UsageLedger ----------------------------
(***************************************************************************)
(* The usage counters (usage.go), from the turns that charge them to       *)
(* usage.json, while the console changes the keys of accounts or deletes   *)
(* them, saves overlap and fail, and the process is shut down (runServer)  *)
(* or killed and started again.                                            *)
(*                                                                         *)
(* A counter stands for the set of turns counted in it: the five numbers   *)
(* of a record move together.  A counter of an account is a cell, found    *)
(* through the map accounts but added to outside its lock; the cell is     *)
(* named after the turn that created it or, once loaded, after its id.     *)
(*                                                                         *)
(* Not modelled: turns whose upstream fails (they record nothing), the     *)
(* counters of client keys (the same code, but never moved) and two edits  *)
(* of the console at one time.                                             *)
(***************************************************************************)
EXTENDS Integers, FiniteSets

CONSTANTS
  Turn,       \* successful chat requests
  Account,    \* account objects; a re-added account is another object
  Id,         \* account ids, each derived from a key
  Refresh,    \* refreshes of quotas, each of which saves the same file once
  Main,       \* the main goroutine
  NoOne,
  MaxEdits,   \* bound: accounts added, changed or deleted
  MaxBoots    \* bound: restarts

Saver == Turn \cup Refresh \cup {Main}
Cell == Turn \cup Id

ASSUME LedgerAssumption ==
  /\ Turn \cap (Id \cup Refresh) = {}
  /\ Main \notin Turn \cup Refresh
  /\ NoOne \notin Saver
  /\ MaxEdits \in Nat /\ MaxBoots \in Nat

VARIABLES
  total,      \* the turns in the tracker's own counters
  accounts,   \* u.accounts: some ids to cells
  cells,      \* the turns counted in each cell
  saveMu,     \* holder of the lock around save
  seen,       \* the totals each saver has read
  file        \* usage.json

VARIABLES
  pool, id,   \* the accounts being served and their ids
  console,    \* the edit under way
  server,     \* up, saving, exited or dead
  turn,       \* locals of the turns
  saving,     \* where each save stands
  drained,    \* no request was left when runServer returned
  boots

VARIABLES     \* history
  edits,      \* edits of accounts that have reached the tracker
  edited,     \* ids whose account was changed or deleted
  raced,      \* turns that were recording while their account's key changed
  torn        \* config.yaml and usage.json may have parted

trackerVars == <<total, accounts, cells>>
saveVars == <<saveMu, seen, file, saving>>
poolVars == <<pool, id, console>>
historyVars == <<edits, edited, raced, torn>>
serverVars == <<server, drained, boots>>
vars == <<trackerVars, saveVars, poolVars, historyVars, serverVars, turn>>

Running == server \in {"up", "saving"}
Recording == {"record", "add"}

With(f, i, v) == [j \in DOMAIN f \cup {i} |-> IF j = i THEN v ELSE f[j]]
Without(f, i) == [j \in DOMAIN f \ {i} |-> f[j]]
PartialFunctions(S, T) == UNION {[D -> T] : D \in SUBSET S}

(* AccountUsage for every id with a counter.                               *)
PerAccount == [i \in DOMAIN accounts |-> cells[accounts[i]]]

NoSnapshot == [total |-> {}, accounts |-> <<>>, edits |-> 0]

----------------------------------------------------------------------------
(* loadUsage and the accounts of the configuration.                        *)
Load(snapshot) ==
  /\ total' = snapshot.total
  /\ accounts' = [i \in DOMAIN snapshot.accounts |-> i]
  /\ cells' = [c \in Cell |-> IF c \in DOMAIN snapshot.accounts THEN snapshot.accounts[c] ELSE {}]

Init ==
  /\ total = {} /\ accounts = <<>> /\ cells = [c \in Cell |-> {}]
  /\ saveMu = NoOne /\ seen = [s \in Saver |-> {}] /\ file = NoSnapshot
  /\ saving = [s \in Saver |-> "idle"]
  /\ \E first \in Account, i \in Id :
       /\ pool = {first}
       /\ id = [a \in {first} |-> i]
  /\ console = [step |-> "idle"]
  /\ server = "up" /\ drained = FALSE /\ boots = 0
  /\ turn = [t \in Turn |-> [pc |-> "new"]]
  /\ edits = 0 /\ edited = {} /\ raced = {} /\ torn = FALSE

----------------------------------------------------------------------------
(* Turns                                                                   *)

(* A request is served by an account of the pool ...                       *)
Start(t) ==
  /\ server = "up"
  /\ turn[t].pc = "new"
  /\ \E a \in pool : turn' = [turn EXCEPT ![t] = [pc |-> "upstream", account |-> a]]
  /\ UNCHANGED <<trackerVars, saveVars, poolVars, historyVars, serverVars>>

(* ... and the account's id is read when the answer is there.              *)
RecorderFor(t) ==
  /\ Running
  /\ turn[t].pc = "upstream"
  /\ turn' = [turn EXCEPT ![t] = [pc |-> "record", account |-> turn[t].account,
                                   id |-> id[turn[t].account]]]
  /\ UNCHANGED <<trackerVars, saveVars, poolVars, historyVars, serverVars>>

(* Record: the tracker's own counters first; then counter finds or creates *)
(* the account's, under accMu.                                             *)
Record(t) ==
  /\ Running
  /\ turn[t].pc = "record"
  /\ total' = total \cup {t}
  /\ accounts' = IF turn[t].id \in DOMAIN accounts THEN accounts ELSE With(accounts, turn[t].id, t)
  /\ turn' = [turn EXCEPT ![t] = [pc |-> "add", account |-> turn[t].account, id |-> turn[t].id,
                                   cell |-> accounts'[turn[t].id]]]
  /\ UNCHANGED <<cells, saveVars, poolVars, historyVars, serverVars>>

(* add, outside the lock.                                                  *)
AddToCounter(t) ==
  /\ Running
  /\ turn[t].pc = "add"
  /\ cells' = [cells EXCEPT ![turn[t].cell] = @ \cup {t}]
  /\ turn' = [turn EXCEPT ![t] = [pc |-> "save", account |-> turn[t].account, id |-> turn[t].id]]
  /\ UNCHANGED <<total, accounts, saveVars, poolVars, historyVars, serverVars>>

----------------------------------------------------------------------------
(* save: of a turn at its end, of a refresh at any time, of main before it *)
(* returns                                                                 *)

MaySave(s) ==
  /\ saving[s] = "idle"
  /\ \/ s \in Turn /\ Running /\ turn[s].pc = "save"
     \/ s \in Refresh /\ Running
     \/ s = Main /\ server = "saving"

(* Mutant: the totals are read before the lock is taken.                   *)
ReadTotalEarly(s) ==
  /\ MaySave(s)
  /\ saveMu' = s
  /\ saving' = [saving EXCEPT ![s] = "maps"]
  /\ seen' = [seen EXCEPT ![s] = total]
  /\ UNCHANGED <<file, trackerVars, poolVars, historyVars, serverVars, turn>>

(* The lock is taken and Snapshot reads the tracker's own counters ...     *)
ReadTotal(s) ==
  /\ MaySave(s)
  /\ saveMu = NoOne
  /\ saveMu' = s
  /\ saving' = [saving EXCEPT ![s] = "maps"]
  /\ seen' = [seen EXCEPT ![s] = total]
  /\ UNCHANGED <<file, trackerVars, poolVars, historyVars, serverVars, turn>>

(* The lock is released; the turn ends, or the process does.               *)
Release(s, saved) ==
  /\ saveMu' = NoOne
  /\ saving' = [saving EXCEPT ![s] = IF s \in Refresh THEN "done" ELSE "idle"]
  /\ seen' = [seen EXCEPT ![s] = {}]
  /\ turn' = IF s \notin Turn THEN turn
             ELSE [turn EXCEPT ![s] = [pc |-> IF saved THEN "saved" ELSE "unsaved",
                                        account |-> turn[s].account, id |-> turn[s].id]]
  /\ server' = IF s = Main THEN (IF saved THEN "exited" ELSE "dead") ELSE server
  /\ torn' = (torn \/ (s = Main /\ (console.step # "idle" \/ file'.edits # edits)))
  /\ UNCHANGED <<trackerVars, poolVars, edits, edited, raced, drained, boots>>

(* ... and then, under accMu, the others; the temporary file is written    *)
(* and renamed, which no other save can see half done.                     *)
Save(s) ==
  /\ Running
  /\ saving[s] = "maps"
  /\ file' = [total |-> seen[s], accounts |-> PerAccount, edits |-> edits]
  /\ Release(s, TRUE)

(* Writing or renaming fails; the error is logged, the old file stays.     *)
SaveFails(s) ==
  /\ Running
  /\ saving[s] = "maps"
  /\ UNCHANGED file
  /\ Release(s, FALSE)

----------------------------------------------------------------------------
(* The console's edits.  SetKey and Remove are undone when the process     *)
(* ends before config.yaml is written, which is one step with the          *)
(* tracker's here (ConfigStore has the file).                              *)

(* SetKey: the account object gets the id of the new key, unless another   *)
(* account of the pool has it.                                             *)
ChangeKey(a, i) ==
  /\ server = "up" /\ console.step = "idle" /\ edits < MaxEdits
  /\ a \in pool /\ \A b \in pool : id[b] # i
  /\ id' = [id EXCEPT ![a] = i]
  /\ console' = [step |-> "move", account |-> a, from |-> id[a], to |-> i]
  /\ edited' = edited \cup {id[a]}
  /\ raced' = raced \cup {t \in Turn : turn[t].pc \in Recording /\ turn[t].account = a}
  /\ UNCHANGED <<pool, edits, torn, trackerVars, saveVars, serverVars, turn>>

(* Mutant: an existing counter of the new id hides the old one.            *)
MoveOver ==
  /\ Running /\ console.step = "move"
  /\ accounts' = IF {console.from, console.to} \subseteq DOMAIN accounts \/ console.from \notin DOMAIN accounts
                 THEN Without(accounts, console.from)
                 ELSE With(Without(accounts, console.from), console.to, accounts[console.from])
  /\ console' = [step |-> "idle"]
  /\ edits' = edits + 1
  /\ UNCHANGED <<total, cells, saveVars, pool, id, edited, raced, torn, serverVars, turn>>

(* Mutant: the old id is not deleted from the map.                         *)
MoveAndKeep ==
  /\ Running /\ console.step = "move"
  /\ accounts' = IF console.from \notin DOMAIN accounts THEN accounts
                 ELSE With(accounts, console.to, accounts[console.from])
  /\ console' = [step |-> "idle"]
  /\ edits' = edits + 1
  /\ UNCHANGED <<total, cells, saveVars, pool, id, edited, raced, torn, serverVars, turn>>

(* MoveAccount: the counter itself is moved, or added to the one that the  *)
(* new id already has.                                                     *)
MoveAccount ==
  /\ Running /\ console.step = "move"
  /\ LET old == console.from
         new == console.to
     IN IF old \notin DOMAIN accounts THEN UNCHANGED <<accounts, cells>>
        ELSE IF new \notin DOMAIN accounts
        THEN /\ accounts' = With(Without(accounts, old), new, accounts[old])
             /\ UNCHANGED cells
        ELSE /\ accounts' = Without(accounts, old)
             /\ cells' = [cells EXCEPT ![accounts[new]] = @ \cup cells[accounts[old]]]
  /\ console' = [step |-> "idle"]
  /\ edits' = edits + 1
  /\ UNCHANGED <<total, saveVars, pool, id, edited, raced, torn, serverVars, turn>>

(* Remove ...                                                              *)
Delete(a) ==
  /\ server = "up" /\ console.step = "idle" /\ edits < MaxEdits
  /\ a \in pool
  /\ pool' = pool \ {a}
  /\ console' = [step |-> "drop", account |-> a, from |-> id[a]]
  /\ edited' = edited \cup {id[a]}
  /\ UNCHANGED <<id, edits, raced, torn, trackerVars, saveVars, serverVars, turn>>

(* ... and DropAccount.                                                    *)
DropAccount ==
  /\ Running /\ console.step = "drop"
  /\ accounts' = Without(accounts, console.from)
  /\ console' = [step |-> "idle"]
  /\ edits' = edits + 1
  /\ UNCHANGED <<total, cells, saveVars, pool, id, edited, raced, torn, serverVars, turn>>

(* Add: another object, under an id no account of the pool has.            *)
Add(a, i) ==
  /\ server = "up" /\ console.step = "idle"
  /\ a \notin DOMAIN id /\ \A b \in pool : id[b] # i
  /\ pool' = pool \cup {a}
  /\ id' = With(id, a, i)
  /\ UNCHANGED <<console, trackerVars, saveVars, historyVars, serverVars, turn>>

----------------------------------------------------------------------------
(* The process                                                             *)

(* Mutant: nobody waits for idleConnsClosed.                               *)
ShutdownAtOnce ==
  /\ server = "up"
  /\ server' = "saving"
  /\ drained' = TRUE
  /\ UNCHANGED <<boots, trackerVars, saveVars, poolVars, historyVars, turn>>

(* After a signal nothing new is accepted, and runServer returns when no   *)
(* request is left or 15 s have passed; main's save follows.               *)
Shutdown ==
  /\ server = "up"
  /\ server' = "saving"
  /\ drained' = (console.step = "idle" /\ \A t \in Turn : turn[t].pc \in {"new", "saved", "unsaved", "killed"})
  /\ UNCHANGED <<boots, trackerVars, saveVars, poolVars, historyVars, turn>>

(* A process ends, and whatever ran in it: the turns under way, the saves, *)
(* the edit that is not in config.yaml yet.                                *)
Forget(snapshot) ==
  /\ Load(snapshot)
  /\ edits' = file.edits
  /\ pool' = IF console.step = "drop" THEN pool \cup {console.account} ELSE pool
  /\ id' = IF console.step = "move" THEN [id EXCEPT ![console.account] = console.from] ELSE id
  /\ console' = [step |-> "idle"]
  /\ turn' = [t \in Turn |-> IF turn[t].pc \in {"new", "saved", "unsaved"} THEN turn[t]
                             ELSE [pc |-> "killed"]]
  /\ saveMu' = NoOne /\ seen' = [s \in Saver |-> {}]
  /\ saving' = [s \in Saver |-> IF s \in Refresh /\ saving[s] # "idle" THEN "done" ELSE "idle"]
  /\ UNCHANGED <<file, edited, raced>>

(* The process is killed.                                                  *)
Crash ==
  /\ Running
  /\ server' = "dead"
  /\ torn' = (torn \/ console.step # "idle" \/ file.edits # edits)
  /\ Forget(NoSnapshot)
  /\ UNCHANGED <<drained, boots>>

(* main: loadUsage and loadConfig.                                         *)
Boot ==
  /\ ~Running /\ boots < MaxBoots
  /\ boots' = boots + 1 /\ server' = "up" /\ drained' = FALSE
  /\ Forget(file)
  /\ UNCHANGED torn

Next ==
  \/ \E t \in Turn : \/ Start(t) \/ RecorderFor(t) \/ Record(t) \/ AddToCounter(t)
  \/ \E s \in Saver : ReadTotal(s) \/ Save(s) \/ SaveFails(s)
  \/ \E a \in Account, i \in Id : ChangeKey(a, i) \/ Add(a, i)
  \/ \E a \in Account : Delete(a)
  \/ MoveAccount \/ DropAccount
  \/ Shutdown \/ Crash \/ Boot

Spec == Init /\ [][Next]_vars

----------------------------------------------------------------------------
Snapshots == [total: SUBSET Turn, accounts: PartialFunctions(Id, SUBSET Turn), edits: 0..MaxEdits]

Locals ==
  [pc: {"new", "killed"}]
  \cup [pc: {"upstream"}, account: Account]
  \cup [pc: {"record", "save", "saved", "unsaved"}, account: Account, id: Id]
  \cup [pc: {"add"}, account: Account, id: Id, cell: Cell]

TypeOK ==
  /\ total \subseteq Turn
  /\ accounts \in PartialFunctions(Id, Cell)
  /\ cells \in [Cell -> SUBSET Turn]
  /\ saveMu \in Saver \cup {NoOne}
  /\ seen \in [Saver -> SUBSET Turn] /\ file \in Snapshots
  /\ saving \in [Saver -> {"idle", "maps", "done"}]
  /\ \A s \in Saver : saving[s] = "maps" => saveMu = s
  /\ pool \subseteq DOMAIN id /\ id \in PartialFunctions(Account, Id)
  /\ console.step \in {"idle", "move", "drop"}
  /\ server \in {"up", "saving", "exited", "dead"}
  /\ turn \in [Turn -> Locals]
  /\ drained \in BOOLEAN /\ torn \in BOOLEAN /\ boots \in 0..MaxBoots /\ edits \in 0..MaxEdits
  /\ edited \subseteq Id /\ raced \subseteq Turn

----------------------------------------------------------------------------
(* A turn whose save has succeeded is on disk from then on, however saves  *)
(* overlap and processes end: in the totals, and in its account's counter  *)
(* unless that account's key was changed or it was deleted                 *)
(* (README.md, "/usage": totals "persist to usage.json").                  *)
SavedTurnsAreOnDisk ==
  \A t \in Turn : turn[t].pc = "saved" =>
    /\ t \in file.total
    /\ turn[t].id \notin edited =>
         turn[t].id \in DOMAIN file.accounts /\ t \in file.accounts[turn[t].id]

(* No turn is charged to two accounts, in memory or on disk, although      *)
(* counters are moved and merged under the turns that hold them.           *)
ChargedOnce ==
  \A t \in Turn : \A perAccount \in {PerAccount, file.accounts} :
    Cardinality({i \in DOMAIN perAccount : t \in perAccount[i]}) <= 1

(* An account keeps its history when its key changes (admin.go: "The ID    *)
(* derives from the key; carry the usage history over"): its saved turns   *)
(* are under the id it has now, except one that was recording while the    *)
(* key changed, and unless a process ended with config.yaml and usage.json *)
(* out of step.                                                            *)
HistoryFollowsKey ==
  server = "up" /\ console.step = "idle" /\ ~torn =>
    \A t \in Turn \ raced :
      turn[t].pc = "saved" /\ turn[t].account \in pool =>
        LET i == id[turn[t].account]
        IN i \in DOMAIN accounts /\ t \in cells[accounts[i]]

(* A shutdown that waited for the requests loses nothing, the turns whose  *)
(* own save failed included: the file is what the tracker holds.           *)
ExitKeepsAll ==
  server = "exited" /\ drained =>
    file.total = total /\ file.accounts = PerAccount

=============================================================================
