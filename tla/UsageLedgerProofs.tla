------------------------- MODULE UsageLedgerProofs -------------------------
(***************************************************************************)
(* Proofs that the usage counters lose nothing, charge nobody twice and    *)
(* follow an account whose key changes, for any number of turns, accounts, *)
(* ids, refreshes, edits and restarts.                                     *)
(*                                                                         *)
(* The properties are about saved turns; the invariants below say of every *)
(* turn where it stands between its record and its save, in memory and on  *)
(* disk, and where an account's counter is while the console moves it.     *)
(***************************************************************************)
EXTENDS UsageLedger, FiniteSetTheorems, TLAPS

(* The edit under way has its parts, and a turn its account.               *)
Consoles ==
  [step: {"idle"}]
  \cup [step: {"move"}, account: Account, from: Id, to: Id]
  \cup [step: {"drop"}, account: Account, from: Id]

Typed ==
  /\ TypeOK
  /\ console \in Consoles
  /\ console.step # "idle" => edits < MaxEdits /\ console.account \in DOMAIN id
  /\ \A t \in Turn : turn[t].pc \notin {"new", "killed"} => turn[t].account \in DOMAIN id

(* One save at a time, of a process that runs; what it has read holds the  *)
(* turns saved so far and the one it is for.                               *)
Locking ==
  \A s \in Saver :
    /\ saveMu = s => saving[s] = "maps"
    /\ saving[s] = "maps" =>
         /\ Running
         /\ \A t \in Turn : turn[t].pc = "saved" => t \in seen[s]
         /\ s \in Turn => turn[s].pc = "save" /\ s \in seen[s]
         /\ s = Main => server = "saving"

(* A turn that has recorded is in the totals, and unless its account was   *)
(* edited in the counter of its id once it has added itself.               *)
InMemory ==
  Running =>
    /\ \A t \in Turn : turn[t].pc \in {"add", "save", "saved"} => t \in total
    /\ \A t \in Turn : turn[t].pc = "add" /\ turn[t].id \notin edited =>
         turn[t].id \in DOMAIN accounts /\ turn[t].cell = accounts[turn[t].id]
    /\ \A t \in Turn : turn[t].pc \in {"save", "saved"} /\ turn[t].id \notin edited =>
         turn[t].id \in DOMAIN accounts /\ t \in cells[accounts[turn[t].id]]

EditsAreMarked == console.step # "idle" => console.from \in edited

DiskInv == Locking /\ InMemory /\ EditsAreMarked /\ SavedTurnsAreOnDisk

(* No two ids share a cell, no turn is in two counters, and one that has   *)
(* not added itself yet is in none.                                        *)
OneCell == \A i, j \in DOMAIN accounts : accounts[i] = accounts[j] => i = j

OneCounter ==
  \A t \in Turn : \A i, j \in DOMAIN accounts :
    t \in cells[accounts[i]] /\ t \in cells[accounts[j]] => i = j

OneCounterOnDisk ==
  \A t \in Turn : \A i, j \in DOMAIN file.accounts :
    t \in file.accounts[i] /\ t \in file.accounts[j] => i = j

NotYetCharged ==
  \A t \in Turn : turn[t].pc \in {"new", "upstream", "record", "add"} =>
    /\ \A c \in Cell : t \notin cells[c]
    /\ \A i \in DOMAIN file.accounts : t \notin file.accounts[i]

NotYetCreated ==
  \A t \in Turn : turn[t].pc \in {"new", "upstream", "record"} =>
    /\ cells[t] = {} /\ \A i \in DOMAIN accounts : accounts[i] # t
    /\ \A u \in Turn : turn[u].pc = "add" => turn[u].cell # t

OnceInv == OneCell /\ OneCounter /\ OneCounterOnDisk /\ NotYetCharged /\ NotYetCreated

(* Where the history of an account may be: under its id, and until the     *)
(* counter has been moved under the id before.                             *)
Homes(a) ==
  IF console.step = "move" /\ console.account = a THEN {console.from, id[a]} ELSE {id[a]}

IdsDiffer ==
  /\ \A a, b \in pool : id[a] = id[b] => a = b
  /\ console.step # "idle" => \A a \in pool : id[a] # console.from
  /\ console.step = "drop" => console.account \notin pool /\ id[console.account] = console.from
  /\ console.step = "move" => console.account \in pool /\ id[console.account] = console.to

Served(t) == t \notin raced /\ turn[t].account \in pool

UnderWay ==
  \A t \in Turn : turn[t].pc \in Recording /\ Served(t) =>
    /\ turn[t].id = id[turn[t].account]
    /\ Running /\ turn[t].pc = "add" =>
         turn[t].id \in DOMAIN accounts /\ turn[t].cell = accounts[turn[t].id]

AtHome ==
  Running /\ ~torn =>
    \A t \in Turn : turn[t].pc \in {"save", "saved"} /\ Served(t) =>
      \E i \in Homes(turn[t].account) \cap DOMAIN accounts : t \in cells[accounts[i]]

AtHomeOnDisk ==
  ~torn /\ file.edits = edits =>
    \A t \in Turn : turn[t].pc = "saved" /\ Served(t) =>
      \E i \in Homes(turn[t].account) \cap DOMAIN file.accounts : t \in file.accounts[i]

Settled ==
  /\ file.edits <= edits
  /\ ~Running /\ ~torn => console.step = "idle" /\ file.edits = edits

HistoryInv == IdsDiffer /\ UnderWay /\ AtHome /\ AtHomeOnDisk /\ Settled

(* Once the requests are drained nothing is left that could change what    *)
(* main saves.                                                             *)
DrainedInv ==
  drained /\ server \in {"saving", "exited"} =>
    /\ console.step = "idle"
    /\ \A t \in Turn : turn[t].pc \in {"new", "saved", "unsaved", "killed"}
    /\ saving[Main] = "maps" => seen[Main] = total
    /\ server = "exited" => file.total = total /\ file.accounts = PerAccount

IInv == Typed /\ DiskInv /\ OnceInv /\ HistoryInv /\ DrainedInv

----------------------------------------------------------------------------
(* Partial functions and records                                           *)

(* What it takes to be a partial function, ...                             *)
LEMMA PartialFunction ==
  ASSUME NEW S, NEW T, NEW f
  PROVE  f \in PartialFunctions(S, T) <=>
           /\ DOMAIN f \subseteq S
           /\ f = [x \in DOMAIN f |-> f[x]]
           /\ \A x \in DOMAIN f : f[x] \in T
  BY DEF PartialFunctions

(* ... that the empty one is, ...                                          *)
LEMMA EmptyFunction ==
  ASSUME NEW S, NEW T
  PROVE  <<>> \in PartialFunctions(S, T) /\ DOMAIN <<>> = {}
<1>1. <<>> = [x \in {} |-> {}]
  OBVIOUS
<1>2. [x \in {} |-> {}] \in [{} -> T]
  OBVIOUS
<1>. QED  BY <1>1, <1>2 DEF PartialFunctions

(* ... and what counters, ids and the edits of them keep.                  *)
LEMMA WithPartial ==
  ASSUME NEW S, NEW T, NEW f \in PartialFunctions(S, T), NEW i \in S, NEW v \in T
  PROVE  With(f, i, v) \in PartialFunctions(S, T) /\ DOMAIN With(f, i, v) = DOMAIN f \cup {i}
  BY PartialFunction DEF With

LEMMA WithoutPartial ==
  ASSUME NEW S, NEW T, NEW f \in PartialFunctions(S, T), NEW i
  PROVE  Without(f, i) \in PartialFunctions(S, T)
  BY PartialFunction DEF Without

(* What a turn has at each step.                                           *)
LEMMA LocalsHave ==
  ASSUME NEW r \in Locals
  PROVE  /\ r.pc \in {"new", "upstream", "record", "add", "save", "saved", "unsaved", "killed"}
         /\ r.pc \notin {"new", "killed"} => r.account \in Account
         /\ r.pc \in {"record", "add", "save", "saved", "unsaved"} => r.id \in Id
         /\ r.pc = "add" => r.cell \in Cell
  BY DEF Locals

LEMMA LocalsAre ==
  ASSUME NEW a \in Account, NEW i \in Id, NEW c \in Cell
  PROVE  /\ [pc |-> "new"] \in Locals /\ [pc |-> "killed"] \in Locals
         /\ [pc |-> "upstream", account |-> a] \in Locals
         /\ \A pc \in {"record", "save", "saved", "unsaved"} :
              [pc |-> pc, account |-> a, id |-> i] \in Locals
         /\ [pc |-> "add", account |-> a, id |-> i, cell |-> c] \in Locals
  BY DEF Locals

----------------------------------------------------------------------------
(* Types                                                                   *)

(* One entry of the turns changes, or none.                                *)
LEMMA TurnHas ==
  ASSUME Typed, NEW t \in Turn
  PROVE  /\ turn[t].pc \in {"new", "upstream", "record", "add", "save", "saved", "unsaved", "killed"}
         /\ turn[t].pc \notin {"new", "killed"} =>
              turn[t].account \in Account /\ turn[t].account \in DOMAIN id /\ id[turn[t].account] \in Id
         /\ turn[t].pc \in {"record", "add", "save", "saved", "unsaved"} => turn[t].id \in Id
         /\ turn[t].pc = "add" => turn[t].cell \in Cell
<1>1. turn[t] \in Locals
  BY DEF Typed, TypeOK
<1>2. \A a \in DOMAIN id : id[a] \in Id
  BY PartialFunction DEF Typed, TypeOK
<1>. QED  BY <1>1, <1>2, LocalsHave DEF Typed

LEMMA InitTyped == Init => Typed
<1>. SUFFICES ASSUME Init PROVE Typed
  OBVIOUS
<1>1. PICK first \in Account, i \in Id : pool = {first} /\ id = [a \in {first} |-> i]
  BY DEF Init
<1>2. id \in PartialFunctions(Account, Id) /\ pool \subseteq DOMAIN id
  BY <1>1, PartialFunction
<1>3. accounts \in PartialFunctions(Id, Cell)
  BY EmptyFunction DEF Init
<1>4. file \in Snapshots
  BY EmptyFunction, LedgerAssumption DEF Init, NoSnapshot, Snapshots
<1>5. turn \in [Turn -> Locals]
  BY DEF Init, Locals
<1>6. TypeOK
  <2>1. /\ total \subseteq Turn /\ cells \in [Cell -> SUBSET Turn] /\ seen \in [Saver -> SUBSET Turn]
        /\ saving \in [Saver -> {"idle", "maps", "done"}]
        /\ \A s \in Saver : saving[s] = "maps" => saveMu = s
    BY DEF Init
  <2>2. /\ saveMu \in Saver \cup {NoOne} /\ console.step \in {"idle", "move", "drop"}
        /\ server \in {"up", "saving", "exited", "dead"}
        /\ edited \subseteq Id /\ raced \subseteq Turn
    BY DEF Init
  <2>3. boots \in 0..MaxBoots /\ edits \in 0..MaxEdits
    BY LedgerAssumption DEF Init
  <2>4. drained \in BOOLEAN /\ torn \in BOOLEAN
    BY DEF Init
  <2>. QED  BY <1>2, <1>3, <1>4, <1>5, <2>1, <2>2, <2>3, <2>4 DEF TypeOK
<1>7. console \in Consoles /\ console.step = "idle"
  BY DEF Init, Consoles
<1>8. \A t \in Turn : turn[t].pc = "new"
  BY DEF Init
<1>. QED  BY <1>6, <1>7, <1>8 DEF Typed

(* A turn starts, reads its account's id, or has added itself.             *)
LEMMA TurnStepsTyped ==
  ASSUME Typed, NEW t \in Turn, Start(t) \/ RecorderFor(t) \/ AddToCounter(t)
  PROVE  Typed'
<1>1. /\ turn' \in [Turn -> Locals] /\ cells' \in [Cell -> SUBSET Turn]
      /\ \A u \in Turn : turn'[u].pc \notin {"new", "killed"} => turn'[u].account \in DOMAIN id
  <2>0. turn \in [Turn -> Locals] /\ cells \in [Cell -> SUBSET Turn]
    BY DEF Typed, TypeOK
  <2>1. CASE Start(t)
    <3>1. PICK a \in pool : turn' = [turn EXCEPT ![t] = [pc |-> "upstream", account |-> a]]
      BY <2>1 DEF Start
    <3>2. a \in DOMAIN id /\ a \in Account
      BY PartialFunction DEF Typed, TypeOK
    <3>3. [pc |-> "upstream", account |-> a] \in Locals
      BY <3>2, LocalsAre DEF Locals
    <3>4. cells' = cells
      BY <2>1 DEF Start, trackerVars
    <3>. QED  BY <2>0, <3>1, <3>2, <3>3, <3>4 DEF Typed
  <2>2. CASE RecorderFor(t)
    <3>. DEFINE r == [pc |-> "record", account |-> turn[t].account, id |-> id[turn[t].account]]
    <3>1. r \in Locals /\ r.account \in DOMAIN id
      BY <2>2, TurnHas DEF RecorderFor, Locals
    <3>2. turn' = [turn EXCEPT ![t] = r] /\ cells' = cells
      BY <2>2 DEF RecorderFor, trackerVars
    <3>. HIDE DEF r
    <3>. QED  BY <2>0, <3>1, <3>2 DEF Typed
  <2>3. CASE AddToCounter(t)
    <3>. DEFINE r == [pc |-> "save", account |-> turn[t].account, id |-> turn[t].id]
    <3>1. r \in Locals /\ r.account \in DOMAIN id /\ turn[t].cell \in Cell
      BY <2>3, TurnHas DEF AddToCounter, Locals
    <3>2. turn' = [turn EXCEPT ![t] = r] /\ cells' = [cells EXCEPT ![turn[t].cell] = @ \cup {t}]
      BY <2>3 DEF AddToCounter
    <3>. HIDE DEF r
    <3>. QED  BY <2>0, <3>1, <3>2 DEF Typed
  <2>. QED  BY <2>1, <2>2, <2>3
<1>2. UNCHANGED <<total, accounts, saveVars, poolVars, historyVars, serverVars>>
  BY DEF Start, RecorderFor, AddToCounter, trackerVars
<1>. QED
  BY <1>1, <1>2 DEF Typed, TypeOK, saveVars, poolVars, historyVars, serverVars

LEMMA RecordTyped ==
  ASSUME Typed, NEW t \in Turn, Record(t)
  PROVE  /\ Typed'
         /\ turn[t].id \in DOMAIN accounts' /\ accounts'[turn[t].id] \in Cell
<1>. DEFINE r == [pc |-> "add", account |-> turn[t].account, id |-> turn[t].id,
                  cell |-> accounts'[turn[t].id]]
<1>1. turn[t].account \in Account /\ turn[t].account \in DOMAIN id /\ turn[t].id \in Id
  BY TurnHas DEF Record
<1>2. accounts \in PartialFunctions(Id, Cell) /\ t \in Cell
  BY DEF Typed, TypeOK, Cell
<1>3. accounts' \in PartialFunctions(Id, Cell) /\ turn[t].id \in DOMAIN accounts'
  <2>1. CASE turn[t].id \in DOMAIN accounts
    BY <1>2, <2>1 DEF Record
  <2>2. CASE turn[t].id \notin DOMAIN accounts
    <3>1. accounts' = With(accounts, turn[t].id, t)
      BY <2>2 DEF Record
    <3>2. /\ With(accounts, turn[t].id, t) \in PartialFunctions(Id, Cell)
          /\ DOMAIN With(accounts, turn[t].id, t) = DOMAIN accounts \cup {turn[t].id}
      BY <1>1, <1>2, WithPartial
    <3>. QED  BY <3>1, <3>2
  <2>. QED  BY <2>1, <2>2
<1>4. accounts'[turn[t].id] \in Cell
  BY <1>3, PartialFunction
<1>5. r \in Locals /\ r.account \in DOMAIN id
  BY <1>1, <1>4, LocalsAre
<1>6. turn' = [turn EXCEPT ![t] = r] /\ total' = total \cup {t}
  BY DEF Record
<1>7. turn \in [Turn -> Locals] /\ \A u \in Turn : turn[u].pc \notin {"new", "killed"} => turn[u].account \in DOMAIN id
  BY DEF Typed, TypeOK
<1>. HIDE DEF r
<1>8. /\ turn' \in [Turn -> Locals]
      /\ \A u \in Turn : turn'[u].pc \notin {"new", "killed"} => turn'[u].account \in DOMAIN id
  BY <1>5, <1>6, <1>7
<1>9. UNCHANGED <<cells, saveVars, poolVars, historyVars, serverVars>>
  BY DEF Record
<1>. QED
  BY <1>3, <1>4, <1>6, <1>8, <1>9 DEF Typed, TypeOK, saveVars, poolVars, historyVars, serverVars

(* Saves.                                                                  *)
LEMMA ReadTotalTyped ==
  ASSUME Typed, NEW s \in Saver, ReadTotal(s)
  PROVE  Typed'
<1>1. /\ saving \in [Saver -> {"idle", "maps", "done"}] /\ saveMu = NoOne
      /\ \A x \in Saver : saving[x] # "maps"
  BY LedgerAssumption DEF Typed, TypeOK, ReadTotal
<1>2. /\ saveMu' = s /\ saving' = [saving EXCEPT ![s] = "maps"]
      /\ seen' = [seen EXCEPT ![s] = total]
  BY DEF ReadTotal
<1>3. /\ saving' \in [Saver -> {"idle", "maps", "done"}] /\ saveMu' \in Saver \cup {NoOne}
      /\ \A x \in Saver : saving'[x] = "maps" => saveMu' = x
  BY <1>1, <1>2
<1>4. seen' \in [Saver -> SUBSET Turn]
  BY <1>2 DEF Typed, TypeOK
<1>5. UNCHANGED <<file, trackerVars, poolVars, historyVars, serverVars, turn>>
  BY DEF ReadTotal
<1>. QED
  BY <1>3, <1>4, <1>5 DEF Typed, TypeOK, trackerVars, poolVars, historyVars, serverVars

LEMMA PerAccountTyped ==
  ASSUME Typed
  PROVE  /\ PerAccount \in PartialFunctions(Id, SUBSET Turn)
         /\ DOMAIN PerAccount = DOMAIN accounts
         /\ \A i \in DOMAIN accounts : PerAccount[i] = cells[accounts[i]] /\ accounts[i] \in Cell
<1>1. accounts \in PartialFunctions(Id, Cell) /\ cells \in [Cell -> SUBSET Turn]
  BY DEF Typed, TypeOK
<1>2. DOMAIN accounts \subseteq Id /\ \A i \in DOMAIN accounts : accounts[i] \in Cell
  BY <1>1, PartialFunction
<1>3. PerAccount \in [DOMAIN accounts -> SUBSET Turn]
  BY <1>1, <1>2 DEF PerAccount
<1>. QED  BY <1>2, <1>3 DEF PartialFunctions, PerAccount

(* What Release does to a turn: it ends, with its account.                 *)
LEMMA Releases ==
  ASSUME Typed, Locking, NEW s \in Saver, saving[s] = "maps", NEW saved \in BOOLEAN, Release(s, saved)
  PROVE  /\ turn' \in [Turn -> Locals]
         /\ \A t \in Turn :
              IF t = s
              THEN /\ turn[t].pc = "save" /\ turn'[t].pc = IF saved THEN "saved" ELSE "unsaved"
                   /\ turn'[t].account = turn[t].account /\ turn'[t].id = turn[t].id
              ELSE turn'[t] = turn[t]
<1>0. turn \in [Turn -> Locals]
  BY DEF Typed, TypeOK
<1>1. CASE s \notin Turn
  <2>1. turn' = turn
    BY <1>1 DEF Release
  <2>. QED  BY <1>0, <1>1, <2>1
<1>2. CASE s \in Turn
  <2>. DEFINE r == [pc |-> IF saved THEN "saved" ELSE "unsaved", account |-> turn[s].account, id |-> turn[s].id]
  <2>1. turn[s].pc = "save"
    BY <1>2 DEF Locking
  <2>2. r \in Locals
    BY <1>2, <2>1, TurnHas DEF Locals
  <2>3. /\ r.pc = (IF saved THEN "saved" ELSE "unsaved")
        /\ r.account = turn[s].account /\ r.id = turn[s].id
    OBVIOUS
  <2>4. turn' = [turn EXCEPT ![s] = r]
    BY <1>2 DEF Release
  <2>. HIDE DEF r
  <2>. QED  BY <1>0, <1>2, <2>1, <2>2, <2>3, <2>4
<1>. QED  BY <1>1, <1>2

LEMMA SaveTyped ==
  ASSUME Typed, Locking, NEW s \in Saver, Save(s) \/ SaveFails(s)
  PROVE  Typed'
<1>1. PICK saved \in BOOLEAN : Release(s, saved)
  BY DEF Save, SaveFails
<1>2. saving[s] = "maps"
  BY DEF Save, SaveFails
<1>3. file' \in Snapshots
  <2>1. CASE SaveFails(s)
    BY <2>1 DEF SaveFails, Typed, TypeOK
  <2>2. CASE Save(s)
    <3>1. file' = [total |-> seen[s], accounts |-> PerAccount, edits |-> edits]
      BY <2>2 DEF Save
    <3>2. seen[s] \subseteq Turn /\ edits \in 0..MaxEdits
      BY DEF Typed, TypeOK
    <3>. QED  BY <3>1, <3>2, PerAccountTyped DEF Snapshots
  <2>. QED  BY <2>1, <2>2
<1>4. /\ turn' \in [Turn -> Locals]
      /\ \A t \in Turn : turn'[t].pc \notin {"new", "killed"} => turn'[t].account \in DOMAIN id
  BY <1>1, <1>2, Releases DEF Typed
<1>5. /\ saveMu' = NoOne /\ saving' \in [Saver -> {"idle", "maps", "done"}]
      /\ seen' \in [Saver -> SUBSET Turn]
      /\ \A x \in Saver : saving'[x] # "maps"
  <2>1. /\ saving \in [Saver -> {"idle", "maps", "done"}] /\ seen \in [Saver -> SUBSET Turn]
        /\ \A x \in Saver : saving[x] = "maps" => x = s
    BY <1>2 DEF Typed, TypeOK
  <2>2. /\ saveMu' = NoOne /\ saving' = [saving EXCEPT ![s] = IF s \in Refresh THEN "done" ELSE "idle"]
        /\ seen' = [seen EXCEPT ![s] = {}]
    BY <1>1 DEF Release
  <2>. QED  BY <2>1, <2>2
<1>6. server' \in {"up", "saving", "exited", "dead"} /\ torn' \in BOOLEAN
  BY <1>1 DEF Release, Typed, TypeOK
<1>7. UNCHANGED <<trackerVars, poolVars, edits, edited, raced, drained, boots>>
  BY <1>1 DEF Release
<1>. QED
  BY <1>3, <1>4, <1>5, <1>6, <1>7 DEF Typed, TypeOK, trackerVars, poolVars

(* Edits of the console.                                                   *)
LEMMA ChangeKeyTyped ==
  ASSUME Typed, NEW a \in Account, NEW i \in Id, ChangeKey(a, i)
  PROVE  Typed'
<1>1. /\ id \in PartialFunctions(Account, Id) /\ a \in DOMAIN id /\ id[a] \in Id
      /\ edits \in 0..MaxEdits /\ edits < MaxEdits
  BY PartialFunction DEF Typed, TypeOK, ChangeKey
<1>2. id' \in PartialFunctions(Account, Id) /\ DOMAIN id' = DOMAIN id
  <2>1. PICK D \in SUBSET Account : id \in [D -> Id]
    BY <1>1 DEF PartialFunctions
  <2>2. id' = [id EXCEPT ![a] = i]
    BY DEF ChangeKey
  <2>3. id' \in [D -> Id]
    BY <2>1, <2>2
  <2>. QED  BY <2>1, <2>3 DEF PartialFunctions
<1>3. console' \in Consoles /\ console'.step = "move" /\ console'.account = a
  BY <1>1 DEF ChangeKey, Consoles
<1>4. edited' \subseteq Id /\ raced' \subseteq Turn
  BY <1>1 DEF ChangeKey, Typed, TypeOK
<1>5. UNCHANGED <<pool, edits, torn, trackerVars, saveVars, serverVars, turn>>
  BY DEF ChangeKey
<1>. QED
  BY <1>1, <1>2, <1>3, <1>4, <1>5 DEF Typed, TypeOK, trackerVars, saveVars, serverVars

LEMMA DeleteTyped ==
  ASSUME Typed, NEW a \in Account, Delete(a)
  PROVE  Typed'
<1>1. a \in DOMAIN id /\ id[a] \in Id /\ edits < MaxEdits
  BY PartialFunction DEF Typed, TypeOK, Delete
<1>2. console' \in Consoles /\ console'.step = "drop" /\ console'.account = a
  BY <1>1 DEF Delete, Consoles
<1>3. edited' \subseteq Id /\ pool' \subseteq DOMAIN id
  BY <1>1 DEF Delete, Typed, TypeOK
<1>4. UNCHANGED <<id, edits, raced, torn, trackerVars, saveVars, serverVars, turn>>
  BY DEF Delete
<1>. QED
  BY <1>1, <1>2, <1>3, <1>4 DEF Typed, TypeOK, trackerVars, saveVars, serverVars

LEMMA AddTyped ==
  ASSUME Typed, NEW a \in Account, NEW i \in Id, Add(a, i)
  PROVE  Typed'
<1>1. id \in PartialFunctions(Account, Id) /\ pool \subseteq DOMAIN id
  BY DEF Typed, TypeOK
<1>2. id' = With(id, a, i) /\ pool' = pool \cup {a}
  BY DEF Add
<1>3. With(id, a, i) \in PartialFunctions(Account, Id) /\ DOMAIN With(id, a, i) = DOMAIN id \cup {a}
  BY <1>1, WithPartial
<1>4. UNCHANGED <<console, trackerVars, saveVars, historyVars, serverVars, turn>>
  BY DEF Add
<1>. QED
  BY <1>1, <1>2, <1>3, <1>4 DEF Typed, TypeOK, trackerVars, saveVars, historyVars, serverVars

LEMMA MoveAccountTyped ==
  ASSUME Typed, MoveAccount
  PROVE  Typed'
<1>1. /\ accounts \in PartialFunctions(Id, Cell) /\ cells \in [Cell -> SUBSET Turn]
      /\ \A i \in DOMAIN accounts : accounts[i] \in Cell
  BY PartialFunction DEF Typed, TypeOK
<1>2. console.from \in Id /\ console.to \in Id
  BY DEF Typed, Consoles, MoveAccount
<1>3. accounts' \in PartialFunctions(Id, Cell) /\ cells' \in [Cell -> SUBSET Turn]
  <2>. DEFINE less == Without(accounts, console.from)
  <2>1. less \in PartialFunctions(Id, Cell)
    BY <1>1, WithoutPartial
  <2>2. CASE console.from \notin DOMAIN accounts
    BY <1>1, <2>2 DEF MoveAccount
  <2>3. CASE console.from \in DOMAIN accounts /\ console.to \notin DOMAIN accounts
    <3>1. accounts' = With(less, console.to, accounts[console.from]) /\ cells' = cells
      BY <2>3 DEF MoveAccount
    <3>. HIDE DEF less
    <3>2. With(less, console.to, accounts[console.from]) \in PartialFunctions(Id, Cell)
      BY <1>1, <1>2, <2>1, <2>3, WithPartial
    <3>. QED  BY <1>1, <3>1, <3>2
  <2>4. CASE console.from \in DOMAIN accounts /\ console.to \in DOMAIN accounts
    <3>1. /\ accounts' = less
          /\ cells' = [cells EXCEPT ![accounts[console.to]] = @ \cup cells[accounts[console.from]]]
      BY <2>4 DEF MoveAccount
    <3>. HIDE DEF less
    <3>. QED  BY <1>1, <2>1, <2>4, <3>1
  <2>. QED  BY <2>2, <2>3, <2>4
<1>4. console' \in Consoles /\ console'.step = "idle"
  BY DEF MoveAccount, Consoles
<1>5. edits' \in 0..MaxEdits
  <2>1. edits \in 0..MaxEdits /\ edits < MaxEdits /\ edits' = edits + 1
    BY DEF MoveAccount, Typed, TypeOK
  <2>. QED  BY <2>1, LedgerAssumption
<1>6. UNCHANGED <<total, saveVars, pool, id, edited, raced, torn, serverVars, turn>>
  BY DEF MoveAccount
<1>. QED
  BY <1>3, <1>4, <1>5, <1>6 DEF Typed, TypeOK, saveVars, serverVars

LEMMA DropAccountTyped ==
  ASSUME Typed, DropAccount
  PROVE  Typed'
<1>1. accounts' \in PartialFunctions(Id, Cell)
  <2>1. accounts \in PartialFunctions(Id, Cell) /\ accounts' = Without(accounts, console.from)
    BY DEF Typed, TypeOK, DropAccount
  <2>. QED  BY <2>1, WithoutPartial
<1>2. console' \in Consoles /\ console'.step = "idle"
  BY DEF DropAccount, Consoles
<1>3. edits' \in 0..MaxEdits
  <2>1. edits \in 0..MaxEdits /\ edits < MaxEdits /\ edits' = edits + 1
    BY DEF DropAccount, Typed, TypeOK
  <2>. QED  BY <2>1, LedgerAssumption
<1>4. UNCHANGED <<total, cells, saveVars, pool, id, edited, raced, torn, serverVars, turn>>
  BY DEF DropAccount
<1>. QED
  BY <1>1, <1>2, <1>3, <1>4 DEF Typed, TypeOK, saveVars, serverVars

(* The process.                                                            *)
LEMMA ShutdownTyped ==
  ASSUME Typed, Shutdown
  PROVE  Typed'
<1>1. server' \in {"up", "saving", "exited", "dead"} /\ drained' \in BOOLEAN
  BY DEF Shutdown
<1>2. UNCHANGED <<boots, trackerVars, saveVars, poolVars, historyVars, turn>>
  BY DEF Shutdown
<1>. QED
  BY <1>1, <1>2 DEF Typed, TypeOK, trackerVars, saveVars, poolVars, historyVars

(* What is left when a process has ended, or another has started.          *)
LEMMA Forgets ==
  ASSUME Typed, NEW snapshot \in Snapshots, Forget(snapshot)
  PROVE  /\ DOMAIN accounts' = DOMAIN snapshot.accounts
         /\ \A i \in DOMAIN snapshot.accounts :
              /\ i \in Id /\ accounts'[i] = i
              /\ cells'[i] = snapshot.accounts[i] /\ snapshot.accounts[i] \subseteq Turn
         /\ accounts' \in PartialFunctions(Id, Cell) /\ cells' \in [Cell -> SUBSET Turn]
         /\ \A c \in Cell : c \notin DOMAIN snapshot.accounts => cells'[c] = {}
         /\ total' = snapshot.total
<1>1. snapshot.accounts \in PartialFunctions(Id, SUBSET Turn)
  BY DEF Snapshots
<1>2. /\ DOMAIN snapshot.accounts \subseteq Id
      /\ \A i \in DOMAIN snapshot.accounts : snapshot.accounts[i] \subseteq Turn
  BY <1>1, PartialFunction
<1>3. /\ accounts' = [i \in DOMAIN snapshot.accounts |-> i]
      /\ cells' = [c \in Cell |-> IF c \in DOMAIN snapshot.accounts THEN snapshot.accounts[c] ELSE {}]
      /\ total' = snapshot.total
  BY DEF Forget, Load
<1>4. DOMAIN snapshot.accounts \subseteq Cell
  BY <1>2 DEF Cell
<1>. DEFINE D == DOMAIN snapshot.accounts
            m == snapshot.accounts
<1>. HIDE DEF D, m
<1>5. accounts' = [i \in D |-> i] /\ D \subseteq Id /\ D \subseteq Cell /\ \A i \in D : m[i] \subseteq Turn
  BY <1>2, <1>3, <1>4 DEF D, m
<1>6. cells' = [c \in Cell |-> IF c \in D THEN m[c] ELSE {}]
  BY <1>3 DEF D, m
<1>7. accounts' \in [D -> Cell]
  BY <1>5
<1>8. accounts' \in PartialFunctions(Id, Cell)
  BY <1>5, <1>7 DEF PartialFunctions
<1>9. cells' \in [Cell -> SUBSET Turn]
  BY <1>5, <1>6
<1>10. /\ DOMAIN accounts' = D
       /\ \A i \in D : i \in Id /\ accounts'[i] = i /\ cells'[i] = m[i] /\ m[i] \subseteq Turn
       /\ \A c \in Cell : c \notin D => cells'[c] = {}
  BY <1>5, <1>6
<1>. QED  BY <1>3, <1>8, <1>9, <1>10 DEF D, m

LEMMA ForgetTyped ==
  ASSUME Typed, NEW snapshot \in Snapshots, Forget(snapshot)
  PROVE  /\ total' \subseteq Turn
         /\ accounts' \in PartialFunctions(Id, Cell) /\ cells' \in [Cell -> SUBSET Turn]
         /\ saveMu' \in Saver \cup {NoOne} /\ seen' \in [Saver -> SUBSET Turn] /\ file' \in Snapshots
         /\ saving' \in [Saver -> {"idle", "maps", "done"}]
         /\ \A s \in Saver : saving'[s] # "maps"
         /\ pool' \subseteq DOMAIN id' /\ id' \in PartialFunctions(Account, Id)
         /\ console' = [step |-> "idle"]
         /\ turn' \in [Turn -> Locals]
         /\ \A t \in Turn : turn'[t].pc \notin {"new", "killed"} => turn'[t].account \in DOMAIN id'
         /\ edits' \in 0..MaxEdits /\ edited' \subseteq Id /\ raced' \subseteq Turn
<1>1. /\ total' \subseteq Turn
      /\ accounts' \in PartialFunctions(Id, Cell) /\ cells' \in [Cell -> SUBSET Turn]
  BY Forgets DEF Snapshots
<1>2. /\ saveMu' = NoOne /\ seen' = [s \in Saver |-> {}]
      /\ saving' = [s \in Saver |-> IF s \in Refresh /\ saving[s] # "idle" THEN "done" ELSE "idle"]
      /\ console' = [step |-> "idle"]
      /\ UNCHANGED <<file, edited, raced>> /\ edits' = file.edits
  BY DEF Forget
<1>3. saveMu' \in Saver \cup {NoOne} /\ seen' \in [Saver -> SUBSET Turn]
  BY <1>2
<1>4. /\ saving' \in [Saver -> {"idle", "maps", "done"}]
      /\ \A s \in Saver : saving'[s] # "maps"
  BY <1>2
<1>5. file' \in Snapshots /\ edited' \subseteq Id /\ raced' \subseteq Turn /\ edits' \in 0..MaxEdits
  BY <1>2 DEF Typed, TypeOK, Snapshots
<1>6. id' \in PartialFunctions(Account, Id) /\ DOMAIN id' = DOMAIN id
  <2>1. PICK D \in SUBSET Account : id \in [D -> Id]
    BY DEF Typed, TypeOK, PartialFunctions
  <2>2. id' \in [D -> Id]
    <3>1. CASE console.step = "move"
      <4>1. id' = [id EXCEPT ![console.account] = console.from]
        BY <3>1 DEF Forget
      <4>2. console.from \in Id
        BY <3>1 DEF Typed, Consoles
      <4>. QED  BY <2>1, <4>1, <4>2
    <3>2. CASE console.step # "move"
      BY <2>1, <3>2 DEF Forget
    <3>. QED  BY <3>1, <3>2
  <2>. QED  BY <2>1, <2>2 DEF PartialFunctions
<1>7. pool' \subseteq DOMAIN id'
  <2>1. pool \subseteq DOMAIN id /\ (console.step # "idle" => console.account \in DOMAIN id)
    BY DEF Typed, TypeOK
  <2>2. pool' = IF console.step = "drop" THEN pool \cup {console.account} ELSE pool
    BY DEF Forget
  <2>. QED  BY <1>6, <2>1, <2>2
<1>8. /\ turn' \in [Turn -> Locals]
      /\ \A t \in Turn : turn'[t].pc \notin {"new", "killed"} => turn'[t].account \in DOMAIN id'
  <2>1. turn' = [t \in Turn |-> IF turn[t].pc \in {"new", "saved", "unsaved"} THEN turn[t]
                               ELSE [pc |-> "killed"]]
    BY DEF Forget
  <2>2. turn \in [Turn -> Locals] /\ [pc |-> "killed"] \in Locals /\ [pc |-> "killed"].pc = "killed"
    BY DEF Typed, TypeOK, Locals
  <2>3. turn' \in [Turn -> Locals]
    BY <2>1, <2>2
  <2>4. \A t \in Turn : turn'[t].pc \notin {"new", "killed"} => turn'[t] = turn[t]
    BY <2>1, <2>2
  <2>. QED  BY <1>6, <2>3, <2>4 DEF Typed
<1>. QED
  BY <1>1, <1>2, <1>3, <1>4, <1>5, <1>6, <1>7, <1>8

LEMMA EndTyped ==
  ASSUME Typed, Crash \/ Boot
  PROVE  Typed'
<1>1. PICK snapshot \in Snapshots : Forget(snapshot)
  <2>1. NoSnapshot \in Snapshots
    BY EmptyFunction, LedgerAssumption DEF NoSnapshot, Snapshots
  <2>2. file \in Snapshots
    BY DEF Typed, TypeOK
  <2>. QED  BY <2>1, <2>2 DEF Crash, Boot
<1>2. server' \in {"up", "saving", "exited", "dead"} /\ torn' \in BOOLEAN /\ drained' \in BOOLEAN
  BY DEF Crash, Boot, Typed, TypeOK
<1>3. boots' \in 0..MaxBoots
  BY LedgerAssumption DEF Crash, Boot, Typed, TypeOK
<1>4. console' \in Consoles /\ console'.step = "idle"
  BY <1>1, ForgetTyped DEF Consoles
<1>. QED
  BY <1>1, <1>2, <1>3, <1>4, ForgetTyped DEF Typed, TypeOK

LEMMA StutterTyped == Typed /\ UNCHANGED vars => Typed'
  BY DEF Typed, TypeOK, vars, trackerVars, saveVars, poolVars, historyVars, serverVars

----------------------------------------------------------------------------
(* What the actions do to the turns and the counters                       *)

LEMMA StartMoves ==
  ASSUME Typed, NEW t \in Turn, Start(t)
  PROVE  /\ turn[t].pc = "new" /\ turn'[t].pc = "upstream" /\ turn'[t].account \in pool
         /\ \A u \in Turn \ {t} : turn'[u] = turn[u]
<1>1. PICK a \in pool : turn' = [turn EXCEPT ![t] = [pc |-> "upstream", account |-> a]]
  BY DEF Start
<1>. DEFINE r == [pc |-> "upstream", account |-> a]
<1>2. turn' = [turn EXCEPT ![t] = r] /\ r.pc = "upstream" /\ r.account = a /\ turn[t].pc = "new"
  BY <1>1 DEF Start
<1>. HIDE DEF r
<1>. QED  BY <1>2 DEF Typed, TypeOK

LEMMA RecorderForMoves ==
  ASSUME Typed, NEW t \in Turn, RecorderFor(t)
  PROVE  /\ turn[t].pc = "upstream" /\ turn'[t].pc = "record"
         /\ turn'[t].account = turn[t].account /\ turn'[t].id = id[turn[t].account]
         /\ \A u \in Turn \ {t} : turn'[u] = turn[u]
<1>. DEFINE r == [pc |-> "record", account |-> turn[t].account, id |-> id[turn[t].account]]
<1>1. /\ turn' = [turn EXCEPT ![t] = r] /\ turn[t].pc = "upstream"
      /\ r.pc = "record" /\ r.account = turn[t].account /\ r.id = id[turn[t].account]
  BY DEF RecorderFor
<1>. HIDE DEF r
<1>. QED  BY <1>1 DEF Typed, TypeOK

LEMMA RecordMoves ==
  ASSUME Typed, NEW t \in Turn, Record(t)
  PROVE  /\ turn[t].pc = "record" /\ turn'[t].pc = "add"
         /\ turn'[t].account = turn[t].account /\ turn'[t].id = turn[t].id
         /\ turn'[t].cell = accounts'[turn[t].id]
         /\ \A u \in Turn \ {t} : turn'[u] = turn[u]
<1>. DEFINE r == [pc |-> "add", account |-> turn[t].account, id |-> turn[t].id,
                  cell |-> accounts'[turn[t].id]]
<1>1. /\ turn' = [turn EXCEPT ![t] = r] /\ turn[t].pc = "record"
      /\ r.pc = "add" /\ r.account = turn[t].account /\ r.id = turn[t].id
      /\ r.cell = accounts'[turn[t].id]
  BY DEF Record
<1>. HIDE DEF r
<1>. QED  BY <1>1 DEF Typed, TypeOK

(* A counter is found or created under the turn's name; the others stay.   *)
LEMMA RecordCounts ==
  ASSUME Typed, NEW t \in Turn, Record(t)
  PROVE  /\ DOMAIN accounts' = DOMAIN accounts \cup {turn[t].id}
         /\ \A i \in DOMAIN accounts : accounts'[i] = accounts[i]
         /\ turn[t].id \notin DOMAIN accounts => accounts'[turn[t].id] = t
<1>0. accounts \in PartialFunctions(Id, Cell) /\ turn[t].id \in Id /\ t \in Cell
  BY TurnHas DEF Typed, TypeOK, Record, Cell
<1>1. CASE turn[t].id \in DOMAIN accounts
  BY <1>1 DEF Record
<1>2. CASE turn[t].id \notin DOMAIN accounts
  <2>. DEFINE more == With(accounts, turn[t].id, t)
  <2>1. accounts' = more
    BY <1>2 DEF Record
  <2>2. /\ DOMAIN more = DOMAIN accounts \cup {turn[t].id} /\ more[turn[t].id] = t
        /\ \A j \in DOMAIN accounts \ {turn[t].id} : more[j] = accounts[j]
    BY DEF With
  <2>. HIDE DEF more
  <2>. QED  BY <1>2, <2>1, <2>2
<1>. QED  BY <1>1, <1>2

LEMMA AddMoves ==
  ASSUME Typed, NEW t \in Turn, AddToCounter(t)
  PROVE  /\ turn[t].pc = "add" /\ turn'[t].pc = "save"
         /\ turn'[t].account = turn[t].account /\ turn'[t].id = turn[t].id
         /\ \A u \in Turn \ {t} : turn'[u] = turn[u]
         /\ turn[t].cell \in Cell
         /\ \A c \in Cell : cells'[c] = IF c = turn[t].cell THEN cells[c] \cup {t} ELSE cells[c]
<1>. DEFINE r == [pc |-> "save", account |-> turn[t].account, id |-> turn[t].id]
<1>1. /\ turn' = [turn EXCEPT ![t] = r] /\ turn[t].pc = "add"
      /\ cells' = [cells EXCEPT ![turn[t].cell] = @ \cup {t}]
      /\ r.pc = "save" /\ r.account = turn[t].account /\ r.id = turn[t].id
  BY DEF AddToCounter
<1>2. turn[t].cell \in Cell
  BY <1>1, TurnHas
<1>. HIDE DEF r
<1>. QED  BY <1>1, <1>2 DEF Typed, TypeOK

(* The counter of the old id becomes that of the new one, or part of it.   *)
LEMMA Moves ==
  ASSUME Typed, MoveAccount
  PROVE  /\ console.from \in Id /\ console.to \in Id
         /\ \/ /\ console.from \notin DOMAIN accounts
               /\ accounts' = accounts /\ cells' = cells
            \/ /\ console.from \in DOMAIN accounts /\ console.to \notin DOMAIN accounts
               /\ DOMAIN accounts' = (DOMAIN accounts \ {console.from}) \cup {console.to}
               /\ \A i \in DOMAIN accounts \ {console.from} : accounts'[i] = accounts[i]
               /\ accounts'[console.to] = accounts[console.from]
               /\ cells' = cells
            \/ /\ console.from \in DOMAIN accounts /\ console.to \in DOMAIN accounts
               /\ DOMAIN accounts' = DOMAIN accounts \ {console.from}
               /\ \A i \in DOMAIN accounts \ {console.from} : accounts'[i] = accounts[i]
               /\ \A c \in Cell : cells'[c] = IF c = accounts[console.to]
                                            THEN cells[c] \cup cells[accounts[console.from]] ELSE cells[c]
<1>1. /\ accounts \in PartialFunctions(Id, Cell) /\ cells \in [Cell -> SUBSET Turn]
      /\ \A i \in DOMAIN accounts : accounts[i] \in Cell
  BY PartialFunction DEF Typed, TypeOK
<1>2. console.from \in Id /\ console.to \in Id
  BY DEF Typed, Consoles, MoveAccount
<1>. DEFINE less == Without(accounts, console.from)
<1>3. /\ DOMAIN less = DOMAIN accounts \ {console.from}
      /\ \A i \in DOMAIN accounts \ {console.from} : less[i] = accounts[i]
  BY DEF Without
<1>4. CASE console.from \notin DOMAIN accounts
  BY <1>2, <1>4 DEF MoveAccount
<1>5. CASE console.from \in DOMAIN accounts /\ console.to \notin DOMAIN accounts
  <2>. DEFINE more == With(less, console.to, accounts[console.from])
  <2>1. accounts' = more /\ cells' = cells
    BY <1>5 DEF MoveAccount
  <2>. HIDE DEF less
  <2>2. /\ DOMAIN more = DOMAIN less \cup {console.to} /\ more[console.to] = accounts[console.from]
        /\ \A i \in DOMAIN less \ {console.to} : more[i] = less[i]
    BY DEF With
  <2>. HIDE DEF more
  <2>. QED  BY <1>2, <1>3, <1>5, <2>1, <2>2
<1>6. CASE console.from \in DOMAIN accounts /\ console.to \in DOMAIN accounts
  <2>1. /\ accounts' = less
        /\ cells' = [cells EXCEPT ![accounts[console.to]] = @ \cup cells[accounts[console.from]]]
    BY <1>6 DEF MoveAccount
  <2>. HIDE DEF less
  <2>. QED  BY <1>1, <1>2, <1>3, <1>6, <2>1
<1>. QED  BY <1>4, <1>5, <1>6

LEMMA Drops ==
  ASSUME Typed, DropAccount
  PROVE  /\ DOMAIN accounts' = DOMAIN accounts \ {console.from}
         /\ \A i \in DOMAIN accounts \ {console.from} : accounts'[i] = accounts[i]
  BY DEF DropAccount, Without

(* Turns that have ended survive their process; the others do not.         *)
LEMMA ForgetsTurns ==
  ASSUME Typed, NEW snapshot, Forget(snapshot), NEW t \in Turn
  PROVE  IF turn[t].pc \in {"new", "saved", "unsaved"} THEN turn'[t] = turn[t]
         ELSE turn'[t].pc = "killed"
<1>1. turn' = [u \in Turn |-> IF turn[u].pc \in {"new", "saved", "unsaved"} THEN turn[u]
                             ELSE [pc |-> "killed"]]
  BY DEF Forget
<1>2. [pc |-> "killed"].pc = "killed"
  OBVIOUS
<1>. QED  BY <1>1, <1>2

----------------------------------------------------------------------------
(* Saved turns are on disk                                                 *)

LEMMA InitDisk == Init => DiskInv
<1>. SUFFICES ASSUME Init PROVE DiskInv
  OBVIOUS
<1>1. /\ \A t \in Turn : turn[t].pc = "new"
      /\ \A s \in Saver : saving[s] = "idle" /\ saveMu # s
      /\ console.step = "idle"
  BY LedgerAssumption DEF Init
<1>. QED
  BY <1>1 DEF DiskInv, Locking, InMemory, EditsAreMarked, SavedTurnsAreOnDisk

(* Before its record a turn owes nothing.                                  *)
LEMMA EarlyStepsDisk ==
  ASSUME Typed, DiskInv, NEW t \in Turn, Start(t) \/ RecorderFor(t)
  PROVE  DiskInv'
<1>1. /\ turn[t].pc \in {"new", "upstream"} /\ turn'[t].pc \in {"upstream", "record"}
      /\ \A u \in Turn \ {t} : turn'[u] = turn[u]
  BY StartMoves, RecorderForMoves
<1>2. UNCHANGED <<trackerVars, saveVars, poolVars, historyVars, serverVars>>
  BY DEF Start, RecorderFor
<1>3. Locking'
  BY <1>1, <1>2 DEF DiskInv, Locking, Running, saveVars, serverVars
<1>4. InMemory'
  BY <1>1, <1>2 DEF DiskInv, InMemory, Running, trackerVars, serverVars, historyVars
<1>5. SavedTurnsAreOnDisk'
  BY <1>1, <1>2 DEF DiskInv, SavedTurnsAreOnDisk, saveVars, historyVars
<1>6. EditsAreMarked'
  BY <1>2 DEF DiskInv, EditsAreMarked, poolVars, historyVars
<1>. QED  BY <1>3, <1>4, <1>5, <1>6 DEF DiskInv

LEMMA RecordDisk ==
  ASSUME Typed, DiskInv, NEW t \in Turn, Record(t)
  PROVE  DiskInv'
<1>1. /\ turn[t].pc = "record" /\ turn'[t].pc = "add" /\ turn'[t].id = turn[t].id
      /\ turn'[t].cell = accounts'[turn[t].id]
      /\ \A u \in Turn \ {t} : turn'[u] = turn[u]
  BY RecordMoves
<1>2. /\ DOMAIN accounts' = DOMAIN accounts \cup {turn[t].id}
      /\ \A i \in DOMAIN accounts : accounts'[i] = accounts[i]
      /\ total' = total \cup {t}
  BY RecordCounts DEF Record
<1>3. UNCHANGED <<cells, saveVars, poolVars, historyVars, serverVars>> /\ Running
  BY DEF Record
<1>4. Locking'
  BY <1>1, <1>3 DEF DiskInv, Locking, Running, saveVars, serverVars
<1>5. InMemory'
  <2>1. \A u \in Turn : turn'[u].pc \in {"add", "save", "saved"} => u \in total'
    BY <1>1, <1>2, <1>3 DEF DiskInv, InMemory
  <2>2. \A u \in Turn : turn'[u].pc = "add" /\ turn'[u].id \notin edited =>
          turn'[u].id \in DOMAIN accounts' /\ turn'[u].cell = accounts'[turn'[u].id]
    BY <1>1, <1>2, <1>3 DEF DiskInv, InMemory
  <2>3. \A u \in Turn : turn'[u].pc \in {"save", "saved"} /\ turn'[u].id \notin edited =>
          turn'[u].id \in DOMAIN accounts' /\ u \in cells[accounts'[turn'[u].id]]
    BY <1>1, <1>2, <1>3 DEF DiskInv, InMemory
  <2>4. edited' = edited /\ cells' = cells
    BY <1>3 DEF historyVars
  <2>. QED  BY <2>1, <2>2, <2>3, <2>4 DEF InMemory
<1>6. SavedTurnsAreOnDisk'
  BY <1>1, <1>3 DEF DiskInv, SavedTurnsAreOnDisk, saveVars, historyVars
<1>7. EditsAreMarked'
  BY <1>3 DEF DiskInv, EditsAreMarked, poolVars, historyVars
<1>. QED  BY <1>4, <1>5, <1>6, <1>7 DEF DiskInv

LEMMA AddToCounterDisk ==
  ASSUME Typed, DiskInv, NEW t \in Turn, AddToCounter(t)
  PROVE  DiskInv'
<1>1. /\ turn[t].pc = "add" /\ turn'[t].pc = "save" /\ turn'[t].id = turn[t].id
      /\ \A u \in Turn \ {t} : turn'[u] = turn[u]
      /\ turn[t].cell \in Cell
      /\ \A c \in Cell : cells'[c] = IF c = turn[t].cell THEN cells[c] \cup {t} ELSE cells[c]
  BY AddMoves
<1>2. UNCHANGED <<total, accounts, saveVars, poolVars, historyVars, serverVars>> /\ Running
  BY DEF AddToCounter
<1>3. Locking'
  BY <1>1, <1>2 DEF DiskInv, Locking, Running, saveVars, serverVars
<1>4. InMemory'
  <2>1. \A u \in Turn : turn'[u].pc \in {"add", "save", "saved"} => u \in total
    BY <1>1, <1>2 DEF DiskInv, InMemory
  <2>2. \A u \in Turn : turn'[u].pc = "add" /\ turn'[u].id \notin edited =>
          turn'[u].id \in DOMAIN accounts /\ turn'[u].cell = accounts[turn'[u].id]
    BY <1>1, <1>2 DEF DiskInv, InMemory
  <2>3. \A i \in DOMAIN accounts : accounts[i] \in Cell
    BY PartialFunction DEF Typed, TypeOK
  <2>4. \A u \in Turn : turn'[u].pc \in {"save", "saved"} /\ turn'[u].id \notin edited =>
          turn'[u].id \in DOMAIN accounts /\ u \in cells'[accounts[turn'[u].id]]
    <3>. TAKE u \in Turn
    <3>1. turn[t].id \notin edited => turn[t].id \in DOMAIN accounts /\ turn[t].cell = accounts[turn[t].id]
      BY <1>1, <1>2 DEF DiskInv, InMemory
    <3>2. t \in cells'[turn[t].cell]
      BY <1>1
    <3>3. CASE u = t
      BY <1>1, <3>1, <3>2, <3>3
    <3>4. CASE u # t
      <4>1. turn'[u] = turn[u]
        BY <1>1, <3>4
      <4>2. turn[u].pc \in {"save", "saved"} /\ turn[u].id \notin edited =>
              turn[u].id \in DOMAIN accounts /\ u \in cells[accounts[turn[u].id]]
        BY <1>2 DEF DiskInv, InMemory
      <4>3. \A c \in Cell : cells[c] \subseteq cells'[c]
        BY <1>1
      <4>. QED  BY <4>1, <4>2, <4>3, <2>3
    <3>. QED  BY <3>3, <3>4
  <2>5. edited' = edited /\ total' = total /\ accounts' = accounts
    BY <1>2 DEF historyVars
  <2>. QED  BY <2>1, <2>2, <2>4, <2>5 DEF InMemory
<1>5. SavedTurnsAreOnDisk'
  BY <1>1, <1>2 DEF DiskInv, SavedTurnsAreOnDisk, saveVars, historyVars
<1>6. EditsAreMarked'
  BY <1>2 DEF DiskInv, EditsAreMarked, poolVars, historyVars
<1>. QED  BY <1>3, <1>4, <1>5, <1>6 DEF DiskInv

(* A save reads the totals under the lock, after its own turn's record and *)
(* that of every turn saved before.                                        *)
LEMMA ReadTotalDisk ==
  ASSUME Typed, DiskInv, NEW s \in Saver, ReadTotal(s)
  PROVE  DiskInv'
<1>1. /\ saveMu = NoOne /\ saveMu' = s /\ MaySave(s)
      /\ saving' = [saving EXCEPT ![s] = "maps"] /\ seen' = [seen EXCEPT ![s] = total]
      /\ UNCHANGED <<file, trackerVars, poolVars, historyVars, serverVars, turn>>
  BY DEF ReadTotal
<1>2. /\ saving \in [Saver -> {"idle", "maps", "done"}] /\ seen \in [Saver -> SUBSET Turn]
      /\ \A x \in Saver : saving[x] # "maps"
  BY <1>1, LedgerAssumption DEF Typed, TypeOK
<1>3. /\ Running /\ (s \in Turn => turn[s].pc = "save") /\ (s = Main => server = "saving")
  BY <1>1, LedgerAssumption DEF MaySave, Running
<1>4. \A t \in Turn : turn[t].pc \in {"save", "saved"} => t \in total
  BY <1>3 DEF DiskInv, InMemory
<1>5. Locking'
  <2>1. \A x \in Saver : saving'[x] = "maps" => x = s
    BY <1>1, <1>2
  <2>2. saveMu' = s /\ saving'[s] = "maps" /\ seen'[s] = total
    BY <1>1, <1>2
  <2>3. turn' = turn /\ server' = server
    BY <1>1 DEF serverVars
  <2>. QED  BY <1>3, <1>4, <2>1, <2>2, <2>3 DEF Locking, Running
<1>6. InMemory'
  BY <1>1 DEF DiskInv, InMemory, Running, trackerVars, historyVars, serverVars
<1>7. SavedTurnsAreOnDisk' /\ EditsAreMarked'
  BY <1>1 DEF DiskInv, SavedTurnsAreOnDisk, EditsAreMarked, historyVars, poolVars
<1>. QED  BY <1>5, <1>6, <1>7 DEF DiskInv

LEMMA SaveDisk ==
  ASSUME Typed, DiskInv, NEW s \in Saver, Save(s) \/ SaveFails(s)
  PROVE  DiskInv'
<1>1. saving[s] = "maps" /\ Running
  BY DEF Save, SaveFails
<1>2. PICK saved \in BOOLEAN : Release(s, saved) /\ (saved => Save(s)) /\ (~saved => SaveFails(s))
  BY DEF Save, SaveFails
<1>3. \A t \in Turn :
        IF t = s
        THEN /\ turn[t].pc = "save" /\ turn'[t].pc = IF saved THEN "saved" ELSE "unsaved"
             /\ turn'[t].account = turn[t].account /\ turn'[t].id = turn[t].id
        ELSE turn'[t] = turn[t]
  BY <1>1, <1>2, Releases DEF DiskInv
<1>4. UNCHANGED <<trackerVars, poolVars, edits, edited, raced, drained, boots>>
  BY <1>2 DEF Release
<1>5. Locking'
  <2>1. /\ saving \in [Saver -> {"idle", "maps", "done"}]
        /\ \A x \in Saver : saving[x] = "maps" => x = s
    BY <1>1 DEF Typed, TypeOK
  <2>2. saveMu' = NoOne /\ saving' = [saving EXCEPT ![s] = IF s \in Refresh THEN "done" ELSE "idle"]
    BY <1>2 DEF Release
  <2>3. \A x \in Saver : saving'[x] # "maps" /\ saveMu' # x
    BY <2>1, <2>2, LedgerAssumption
  <2>. QED  BY <2>3 DEF Locking
<1>6. InMemory'
  BY <1>1, <1>3, <1>4 DEF DiskInv, InMemory, trackerVars
<1>7. SavedTurnsAreOnDisk'
  <2>1. CASE saved
    <3>1. /\ file'.total = seen[s] /\ file'.accounts = PerAccount
      BY <1>2, <2>1 DEF Save
    <3>2. \A t \in Turn : turn'[t].pc = "saved" =>
            /\ turn[t].pc \in {"save", "saved"} /\ turn'[t].id = turn[t].id /\ t \in seen[s]
      BY <1>1, <1>3 DEF DiskInv, Locking
    <3>3. \A t \in Turn : turn[t].pc \in {"save", "saved"} /\ turn[t].id \notin edited =>
            turn[t].id \in DOMAIN PerAccount /\ t \in PerAccount[turn[t].id]
      BY <1>1, PerAccountTyped DEF DiskInv, InMemory
    <3>. QED  BY <1>4, <3>1, <3>2, <3>3 DEF SavedTurnsAreOnDisk
  <2>2. CASE ~saved
    BY <1>2, <1>3, <1>4, <2>2 DEF DiskInv, SavedTurnsAreOnDisk, SaveFails
  <2>. QED  BY <2>1, <2>2
<1>8. EditsAreMarked'
  BY <1>4 DEF DiskInv, EditsAreMarked, poolVars
<1>. QED  BY <1>5, <1>6, <1>7, <1>8 DEF DiskInv

LEMMA ChangeKeyDisk ==
  ASSUME Typed, DiskInv, NEW a \in Account, NEW i \in Id, ChangeKey(a, i)
  PROVE  DiskInv'
<1>1. /\ edited' = edited \cup {id[a]}
      /\ console' = [step |-> "move", account |-> a, from |-> id[a], to |-> i]
      /\ UNCHANGED <<pool, edits, torn, trackerVars, saveVars, serverVars, turn>>
  BY DEF ChangeKey
<1>2. Locking'
  BY <1>1 DEF DiskInv, Locking, Running, saveVars, serverVars
<1>3. InMemory'
  BY <1>1 DEF DiskInv, InMemory, Running, trackerVars, serverVars
<1>4. SavedTurnsAreOnDisk'
  BY <1>1 DEF DiskInv, SavedTurnsAreOnDisk, saveVars
<1>5. EditsAreMarked'
  BY <1>1 DEF EditsAreMarked
<1>. QED  BY <1>2, <1>3, <1>4, <1>5 DEF DiskInv

LEMMA DeleteDisk ==
  ASSUME Typed, DiskInv, NEW a \in Account, Delete(a)
  PROVE  DiskInv'
<1>1. /\ edited' = edited \cup {id[a]}
      /\ console' = [step |-> "drop", account |-> a, from |-> id[a]]
      /\ UNCHANGED <<id, edits, raced, torn, trackerVars, saveVars, serverVars, turn>>
  BY DEF Delete
<1>2. Locking'
  BY <1>1 DEF DiskInv, Locking, Running, saveVars, serverVars
<1>3. InMemory'
  BY <1>1 DEF DiskInv, InMemory, Running, trackerVars, serverVars
<1>4. SavedTurnsAreOnDisk'
  BY <1>1 DEF DiskInv, SavedTurnsAreOnDisk, saveVars
<1>5. EditsAreMarked'
  BY <1>1 DEF EditsAreMarked
<1>. QED  BY <1>2, <1>3, <1>4, <1>5 DEF DiskInv

(* The counter of an id that was never edited is neither moved nor         *)
(* dropped.                                                                *)
LEMMA EditEndsDisk ==
  ASSUME Typed, DiskInv, MoveAccount \/ DropAccount
  PROVE  DiskInv'
<1>1. /\ UNCHANGED <<total, saveVars, edited, serverVars, turn>>
      /\ console' = [step |-> "idle"] /\ Running /\ console.step # "idle"
  BY DEF MoveAccount, DropAccount
<1>2. console.from \in edited
  BY <1>1 DEF DiskInv, EditsAreMarked
<1>3. \A i \in DOMAIN accounts : accounts[i] \in Cell
  BY PartialFunction DEF Typed, TypeOK
<1>4. \A i \in DOMAIN accounts : i # console.from => i \in DOMAIN accounts' /\ accounts'[i] = accounts[i]
  <2>1. CASE MoveAccount
    BY <2>1, Moves
  <2>2. CASE DropAccount
    BY <2>2, Drops
  <2>. QED  BY <2>1, <2>2
<1>5. \A c \in Cell : cells[c] \subseteq cells'[c]
  <2>1. CASE MoveAccount
    BY <2>1, Moves
  <2>2. CASE DropAccount
    BY <2>2 DEF DropAccount
  <2>. QED  BY <2>1, <2>2
<1>6. Locking'
  BY <1>1 DEF DiskInv, Locking, Running, saveVars, serverVars
<1>7. InMemory'
  <2>1. \A u \in Turn : turn[u].pc \in {"add", "save", "saved"} => u \in total
    BY <1>1 DEF DiskInv, InMemory
  <2>2. \A u \in Turn : turn[u].pc = "add" /\ turn[u].id \notin edited =>
          turn[u].id \in DOMAIN accounts' /\ turn[u].cell = accounts'[turn[u].id]
    BY <1>1, <1>2, <1>4 DEF DiskInv, InMemory
  <2>3. \A u \in Turn : turn[u].pc \in {"save", "saved"} /\ turn[u].id \notin edited =>
          turn[u].id \in DOMAIN accounts' /\ u \in cells'[accounts'[turn[u].id]]
    BY <1>1, <1>2, <1>3, <1>4, <1>5 DEF DiskInv, InMemory
  <2>. QED  BY <1>1, <2>1, <2>2, <2>3 DEF InMemory
<1>8. SavedTurnsAreOnDisk'
  BY <1>1 DEF DiskInv, SavedTurnsAreOnDisk, saveVars
<1>9. EditsAreMarked'
  BY <1>1 DEF EditsAreMarked
<1>. QED  BY <1>6, <1>7, <1>8, <1>9 DEF DiskInv

LEMMA AddDisk ==
  ASSUME Typed, DiskInv, NEW a \in Account, NEW i \in Id, Add(a, i)
  PROVE  DiskInv'
<1>1. UNCHANGED <<console, trackerVars, saveVars, historyVars, serverVars, turn>>
  BY DEF Add
<1>2. Locking'
  BY <1>1 DEF DiskInv, Locking, Running, saveVars, serverVars
<1>3. InMemory'
  BY <1>1 DEF DiskInv, InMemory, Running, trackerVars, serverVars, historyVars
<1>4. SavedTurnsAreOnDisk' /\ EditsAreMarked'
  BY <1>1 DEF DiskInv, SavedTurnsAreOnDisk, EditsAreMarked, saveVars, historyVars
<1>. QED  BY <1>2, <1>3, <1>4 DEF DiskInv

LEMMA ShutdownDisk ==
  ASSUME Typed, DiskInv, Shutdown
  PROVE  DiskInv'
<1>1. /\ server = "up" /\ server' = "saving"
      /\ UNCHANGED <<boots, trackerVars, saveVars, poolVars, historyVars, turn>>
  BY DEF Shutdown
<1>2. Locking'
  BY <1>1 DEF DiskInv, Locking, Running, saveVars
<1>3. InMemory'
  BY <1>1 DEF DiskInv, InMemory, Running, trackerVars, historyVars
<1>4. SavedTurnsAreOnDisk' /\ EditsAreMarked'
  BY <1>1 DEF DiskInv, SavedTurnsAreOnDisk, EditsAreMarked, saveVars, historyVars, poolVars
<1>. QED  BY <1>2, <1>3, <1>4 DEF DiskInv

(* A process that ends leaves the file; the next one has what is in it.    *)
LEMMA EndDisk ==
  ASSUME Typed, DiskInv, Crash \/ Boot
  PROVE  DiskInv'
<1>1. file \in Snapshots /\ NoSnapshot \in Snapshots
  BY EmptyFunction, LedgerAssumption DEF Typed, TypeOK, NoSnapshot, Snapshots
<1>2. PICK snapshot \in Snapshots : Forget(snapshot) /\ (Boot => snapshot = file)
  BY <1>1 DEF Crash, Boot, Running
<1>3. /\ console' = [step |-> "idle"] /\ UNCHANGED <<file, edited, raced>>
      /\ \A s \in Saver : saving'[s] # "maps" /\ saveMu' # s
  BY <1>2, LedgerAssumption DEF Forget
<1>4. \A t \in Turn : turn'[t].pc \in {"new", "saved", "unsaved", "killed"}
                     /\ (turn'[t].pc = "saved" => turn[t].pc = "saved" /\ turn'[t] = turn[t])
  BY <1>2, ForgetsTurns
<1>5. Locking'
  BY <1>3 DEF Locking
<1>6. SavedTurnsAreOnDisk' /\ EditsAreMarked'
  BY <1>3, <1>4 DEF DiskInv, SavedTurnsAreOnDisk, EditsAreMarked
<1>7. InMemory'
  <2>1. CASE Crash
    BY <2>1 DEF Crash, InMemory, Running
  <2>2. CASE Boot
    <3>1. /\ DOMAIN accounts' = DOMAIN file.accounts /\ total' = file.total
          /\ \A i \in DOMAIN file.accounts : accounts'[i] = i /\ cells'[i] = file.accounts[i]
      BY <1>2, <2>2, Forgets
    <3>. QED  BY <1>3, <1>4, <3>1 DEF DiskInv, InMemory, SavedTurnsAreOnDisk
  <2>. QED  BY <2>1, <2>2
<1>. QED  BY <1>5, <1>6, <1>7 DEF DiskInv

LEMMA StutterDisk == DiskInv /\ UNCHANGED vars => DiskInv'
  BY DEF DiskInv, Locking, InMemory, EditsAreMarked, SavedTurnsAreOnDisk, Running,
         vars, trackerVars, saveVars, poolVars, historyVars, serverVars

----------------------------------------------------------------------------
(* Nobody is charged twice                                                 *)

LEMMA InitOnce == Init => OnceInv
<1>. SUFFICES ASSUME Init PROVE OnceInv
  OBVIOUS
<1>1. /\ DOMAIN accounts = {} /\ DOMAIN file.accounts = {}
      /\ \A c \in Cell : cells[c] = {}
      /\ \A t \in Turn : turn[t].pc = "new" /\ t \in Cell
  BY EmptyFunction DEF Init, NoSnapshot, Cell
<1>. QED
  BY <1>1 DEF OnceInv, OneCell, OneCounter, OneCounterOnDisk, NotYetCharged, NotYetCreated

LEMMA EarlyStepsOnce ==
  ASSUME Typed, OnceInv, NEW t \in Turn, Start(t) \/ RecorderFor(t)
  PROVE  OnceInv'
<1>1. /\ turn[t].pc \in {"new", "upstream"} /\ turn'[t].pc \in {"upstream", "record"}
      /\ \A u \in Turn \ {t} : turn'[u] = turn[u]
  BY StartMoves, RecorderForMoves
<1>2. UNCHANGED <<accounts, cells, file>>
  BY DEF Start, RecorderFor, trackerVars, saveVars
<1>3. OneCell' /\ OneCounter' /\ OneCounterOnDisk'
  BY <1>2 DEF OnceInv, OneCell, OneCounter, OneCounterOnDisk
<1>4. NotYetCharged' /\ NotYetCreated'
  BY <1>1, <1>2 DEF OnceInv, NotYetCharged, NotYetCreated
<1>. QED  BY <1>3, <1>4 DEF OnceInv

LEMMA RecordOnce ==
  ASSUME Typed, OnceInv, NEW t \in Turn, Record(t)
  PROVE  OnceInv'
<1>1. /\ turn[t].pc = "record" /\ turn'[t].pc = "add"
      /\ turn'[t].cell = accounts'[turn[t].id]
      /\ \A u \in Turn \ {t} : turn'[u] = turn[u]
  BY RecordMoves
<1>2. /\ DOMAIN accounts' = DOMAIN accounts \cup {turn[t].id}
      /\ \A i \in DOMAIN accounts : accounts'[i] = accounts[i]
      /\ turn[t].id \notin DOMAIN accounts => accounts'[turn[t].id] = t
  BY RecordCounts
<1>3. UNCHANGED <<cells, file>>
  BY DEF Record, saveVars
<1>4. cells[t] = {} /\ \A i \in DOMAIN accounts : accounts[i] # t
  BY <1>1 DEF OnceInv, NotYetCreated
<1>5. OneCell'
  BY <1>2, <1>4 DEF OnceInv, OneCell
<1>6. OneCounter' /\ OneCounterOnDisk'
  BY <1>2, <1>3, <1>4 DEF OnceInv, OneCounter, OneCounterOnDisk
<1>7. NotYetCharged'
  BY <1>1, <1>3 DEF OnceInv, NotYetCharged
<1>8. NotYetCreated'
  <2>. SUFFICES ASSUME NEW u \in Turn, turn'[u].pc \in {"new", "upstream", "record"}
                PROVE  /\ cells[u] = {} /\ \A i \in DOMAIN accounts' : accounts'[i] # u
                       /\ \A v \in Turn : turn'[v].pc = "add" => turn'[v].cell # u
    BY <1>3 DEF NotYetCreated
  <2>1. u # t /\ turn'[u] = turn[u]
    BY <1>1
  <2>2. /\ cells[u] = {} /\ \A i \in DOMAIN accounts : accounts[i] # u
        /\ \A v \in Turn : turn[v].pc = "add" => turn[v].cell # u
    BY <2>1 DEF OnceInv, NotYetCreated
  <2>3. \A i \in DOMAIN accounts' : accounts'[i] # u
    BY <1>2, <2>1, <2>2
  <2>. QED  BY <1>1, <1>2, <2>1, <2>2, <2>3
<1>. QED  BY <1>5, <1>6, <1>7, <1>8 DEF OnceInv

LEMMA AddToCounterOnce ==
  ASSUME Typed, OnceInv, NEW t \in Turn, AddToCounter(t)
  PROVE  OnceInv'
<1>1. /\ turn[t].pc = "add" /\ turn'[t].pc = "save"
      /\ \A u \in Turn \ {t} : turn'[u] = turn[u]
      /\ turn[t].cell \in Cell
      /\ \A c \in Cell : cells'[c] = IF c = turn[t].cell THEN cells[c] \cup {t} ELSE cells[c]
  BY AddMoves
<1>2. UNCHANGED <<accounts, file>>
  BY DEF AddToCounter, saveVars
<1>3. \A i \in DOMAIN accounts : accounts[i] \in Cell
  BY PartialFunction DEF Typed, TypeOK
<1>4. /\ \A c \in Cell : t \in cells'[c] => c = turn[t].cell
      /\ \A c \in Cell : \A u \in Turn \ {t} : u \in cells'[c] => u \in cells[c]
  <2>1. \A c \in Cell : t \notin cells[c]
    BY <1>1 DEF OnceInv, NotYetCharged
  <2>. QED  BY <1>1, <2>1
<1>5. OneCell' /\ OneCounterOnDisk'
  BY <1>2 DEF OnceInv, OneCell, OneCounterOnDisk
<1>6. OneCounter'
  <2>. SUFFICES ASSUME NEW u \in Turn, NEW i \in DOMAIN accounts, NEW j \in DOMAIN accounts,
                       u \in cells'[accounts[i]], u \in cells'[accounts[j]]
                PROVE  i = j
    BY <1>2 DEF OneCounter
  <2>1. CASE u = t
    BY <1>3, <1>4, <2>1 DEF OnceInv, OneCell
  <2>2. CASE u # t
    BY <1>3, <1>4, <2>2 DEF OnceInv, OneCounter
  <2>. QED  BY <2>1, <2>2
<1>7. NotYetCharged'
  <2>. SUFFICES ASSUME NEW u \in Turn, turn'[u].pc \in {"new", "upstream", "record", "add"}
                PROVE  /\ \A c \in Cell : u \notin cells'[c]
                       /\ \A i \in DOMAIN file.accounts : u \notin file.accounts[i]
    BY <1>2 DEF NotYetCharged
  <2>1. u # t /\ turn'[u] = turn[u]
    BY <1>1
  <2>. QED  BY <1>4, <2>1 DEF OnceInv, NotYetCharged
<1>8. NotYetCreated'
  <2>. SUFFICES ASSUME NEW u \in Turn, turn'[u].pc \in {"new", "upstream", "record"}
                PROVE  /\ cells'[u] = {} /\ \A i \in DOMAIN accounts : accounts[i] # u
                       /\ \A v \in Turn : turn'[v].pc = "add" => turn'[v].cell # u
    BY <1>2 DEF NotYetCreated
  <2>1. u # t /\ turn'[u] = turn[u] /\ u \in Cell
    BY <1>1 DEF Cell
  <2>2. /\ cells[u] = {} /\ \A i \in DOMAIN accounts : accounts[i] # u
        /\ \A v \in Turn : turn[v].pc = "add" => turn[v].cell # u
    BY <2>1 DEF OnceInv, NotYetCreated
  <2>3. cells'[u] = cells[u]
    BY <1>1, <2>1, <2>2
  <2>. QED  BY <1>1, <2>1, <2>2, <2>3
<1>. QED  BY <1>5, <1>6, <1>7, <1>8 DEF OnceInv

LEMMA ReadTotalOnce ==
  ASSUME OnceInv, NEW s \in Saver, ReadTotal(s)
  PROVE  OnceInv'
<1>1. UNCHANGED <<file, accounts, cells, turn>>
  BY DEF ReadTotal, trackerVars
<1>. QED
  BY <1>1 DEF OnceInv, OneCell, OneCounter, OneCounterOnDisk, NotYetCharged, NotYetCreated

LEMMA SaveOnce ==
  ASSUME Typed, Locking, OnceInv, NEW s \in Saver, Save(s) \/ SaveFails(s)
  PROVE  OnceInv'
<1>1. PICK saved \in BOOLEAN : Release(s, saved) /\ (saved => Save(s)) /\ (~saved => SaveFails(s))
  BY DEF Save, SaveFails
<1>2. saving[s] = "maps"
  BY DEF Save, SaveFails
<1>3. \A t \in Turn : \/ turn[t].pc = "save" /\ turn'[t].pc \in {"saved", "unsaved"}
                      \/ turn'[t] = turn[t]
  BY <1>1, <1>2, Releases
<1>4. UNCHANGED <<accounts, cells>>
  BY <1>1 DEF Release, trackerVars
<1>5. \/ UNCHANGED file
      \/ /\ DOMAIN file'.accounts = DOMAIN accounts
         /\ \A i \in DOMAIN accounts : file'.accounts[i] = cells[accounts[i]] /\ accounts[i] \in Cell
  <2>1. CASE saved
    BY <1>1, <2>1, PerAccountTyped DEF Save
  <2>2. CASE ~saved
    BY <1>1, <2>2 DEF SaveFails
  <2>. QED  BY <2>1, <2>2
<1>6. OneCell' /\ OneCounter'
  BY <1>4 DEF OnceInv, OneCell, OneCounter
<1>7. OneCounterOnDisk'
  BY <1>5 DEF OnceInv, OneCounter, OneCounterOnDisk
<1>8. NotYetCharged'
  BY <1>3, <1>4, <1>5 DEF OnceInv, NotYetCharged
<1>9. NotYetCreated'
  BY <1>3, <1>4 DEF OnceInv, NotYetCreated
<1>. QED  BY <1>6, <1>7, <1>8, <1>9 DEF OnceInv

LEMMA ConsoleStartsOnce ==
  ASSUME OnceInv, NEW a \in Account, NEW i \in Id, ChangeKey(a, i) \/ Delete(a) \/ Add(a, i)
  PROVE  OnceInv'
<1>1. UNCHANGED <<file, accounts, cells, turn>>
  BY DEF ChangeKey, Delete, Add, trackerVars, saveVars
<1>. QED
  BY <1>1 DEF OnceInv, OneCell, OneCounter, OneCounterOnDisk, NotYetCharged, NotYetCreated

LEMMA MoveAccountOnce ==
  ASSUME Typed, OnceInv, MoveAccount
  PROVE  OnceInv'
<1>1. UNCHANGED <<file, turn>>
  BY DEF MoveAccount, saveVars
<1>2. /\ \A i \in DOMAIN accounts : accounts[i] \in Cell
      /\ Turn \subseteq Cell
  BY PartialFunction DEF Typed, TypeOK, Cell
<1>3. OneCounterOnDisk'
  BY <1>1 DEF OnceInv, OneCounterOnDisk
<1>4. CASE console.from \notin DOMAIN accounts
  <2>1. UNCHANGED <<accounts, cells>>
    BY <1>4, Moves
  <2>. QED
    BY <1>1, <2>1 DEF OnceInv, OneCell, OneCounter, OneCounterOnDisk, NotYetCharged, NotYetCreated
<1>5. CASE console.from \in DOMAIN accounts /\ console.to \notin DOMAIN accounts
  <2>1. /\ DOMAIN accounts' = (DOMAIN accounts \ {console.from}) \cup {console.to}
        /\ \A i \in DOMAIN accounts \ {console.from} : accounts'[i] = accounts[i]
        /\ accounts'[console.to] = accounts[console.from]
        /\ cells' = cells
    BY <1>5, Moves
  <2>2. OneCell' /\ OneCounter'
    BY <1>5, <2>1 DEF OnceInv, OneCell, OneCounter
  <2>3. NotYetCharged' /\ NotYetCreated'
    BY <1>1, <1>5, <2>1 DEF OnceInv, NotYetCharged, NotYetCreated
  <2>. QED  BY <1>3, <2>2, <2>3 DEF OnceInv
<1>6. CASE console.from \in DOMAIN accounts /\ console.to \in DOMAIN accounts
  <2>1. /\ DOMAIN accounts' = DOMAIN accounts \ {console.from}
        /\ \A i \in DOMAIN accounts \ {console.from} : accounts'[i] = accounts[i]
        /\ \A c \in Cell : cells'[c] = IF c = accounts[console.to]
                                     THEN cells[c] \cup cells[accounts[console.from]] ELSE cells[c]
    BY <1>6, Moves
  <2>2. OneCell'
    BY <2>1 DEF OnceInv, OneCell
  <2>3. OneCounter'
    <3>. SUFFICES ASSUME NEW t \in Turn, NEW i \in DOMAIN accounts', NEW j \in DOMAIN accounts',
                         t \in cells'[accounts'[i]], t \in cells'[accounts'[j]]
                  PROVE  i = j
      BY DEF OneCounter
    <3>1. /\ i \in DOMAIN accounts \ {console.from} /\ j \in DOMAIN accounts \ {console.from}
          /\ t \in cells'[accounts[i]] /\ t \in cells'[accounts[j]]
      BY <2>1
    <3>2. \A k \in DOMAIN accounts \ {console.from} : t \in cells'[accounts[k]] =>
            \/ t \in cells[accounts[k]] /\ t \notin cells[accounts[console.from]]
            \/ t \in cells[accounts[console.from]] /\ k = console.to
      BY <1>2, <1>6, <2>1 DEF OnceInv, OneCell, OneCounter
    <3>. QED  BY <3>1, <3>2 DEF OnceInv, OneCounter
  <2>4. NotYetCharged'
    BY <1>1, <1>2, <1>6, <2>1 DEF OnceInv, NotYetCharged
  <2>5. NotYetCreated'
    <3>. SUFFICES ASSUME NEW t \in Turn, turn[t].pc \in {"new", "upstream", "record"}
                  PROVE  /\ cells'[t] = {} /\ \A i \in DOMAIN accounts' : accounts'[i] # t
                         /\ \A u \in Turn : turn[u].pc = "add" => turn[u].cell # t
      BY <1>1 DEF NotYetCreated
    <3>1. /\ cells[t] = {} /\ \A i \in DOMAIN accounts : accounts[i] # t
          /\ \A u \in Turn : turn[u].pc = "add" => turn[u].cell # t
      BY DEF OnceInv, NotYetCreated
    <3>2. cells'[t] = {}
      BY <1>2, <1>6, <2>1, <3>1
    <3>3. \A i \in DOMAIN accounts' : accounts'[i] # t
      BY <2>1, <3>1
    <3>. QED  BY <3>1, <3>2, <3>3
  <2>. QED  BY <1>3, <2>2, <2>3, <2>4, <2>5 DEF OnceInv
<1>. QED  BY <1>4, <1>5, <1>6

LEMMA DropAccountOnce ==
  ASSUME Typed, OnceInv, DropAccount
  PROVE  OnceInv'
<1>1. UNCHANGED <<file, cells, turn>>
  BY DEF DropAccount, saveVars
<1>2. /\ DOMAIN accounts' = DOMAIN accounts \ {console.from}
      /\ \A i \in DOMAIN accounts \ {console.from} : accounts'[i] = accounts[i]
  BY Drops
<1>. QED
  BY <1>1, <1>2 DEF OnceInv, OneCell, OneCounter, OneCounterOnDisk, NotYetCharged, NotYetCreated

LEMMA EndOnce ==
  ASSUME Typed, OnceInv, Crash \/ Boot
  PROVE  OnceInv'
<1>1. file \in Snapshots /\ NoSnapshot \in Snapshots /\ DOMAIN NoSnapshot.accounts = {}
  BY EmptyFunction, LedgerAssumption DEF Typed, TypeOK, NoSnapshot, Snapshots
<1>2. PICK snapshot \in Snapshots : Forget(snapshot) /\ snapshot \in {NoSnapshot, file}
  BY <1>1 DEF Crash, Boot
<1>3. file' = file
  BY <1>2 DEF Forget
<1>4. \A t \in Turn : turn'[t].pc \in {"new", "saved", "unsaved", "killed"}
                     /\ (turn'[t].pc = "new" => turn[t].pc = "new")
  BY <1>2, ForgetsTurns
<1>5. /\ DOMAIN accounts' = DOMAIN snapshot.accounts
      /\ \A i \in DOMAIN snapshot.accounts :
           i \in Id /\ accounts'[i] = i /\ cells'[i] = snapshot.accounts[i]
      /\ \A c \in Cell : c \notin DOMAIN snapshot.accounts => cells'[c] = {}
  BY <1>2, Forgets
<1>6. \A i \in DOMAIN snapshot.accounts :
        i \in DOMAIN file.accounts /\ snapshot.accounts[i] = file.accounts[i]
  BY <1>1, <1>2
<1>7. \A t \in Turn : t \in Cell /\ t \notin Id
  BY LedgerAssumption DEF Cell
<1>8. OneCell' /\ OneCounterOnDisk'
  BY <1>3, <1>5 DEF OnceInv, OneCell, OneCounterOnDisk
<1>9. OneCounter'
  BY <1>5, <1>6 DEF OnceInv, OneCounterOnDisk, OneCounter
<1>10. NotYetCharged'
  BY <1>3, <1>4, <1>5, <1>6 DEF OnceInv, NotYetCharged
<1>11. NotYetCreated'
  BY <1>4, <1>5, <1>7 DEF NotYetCreated
<1>. QED  BY <1>8, <1>9, <1>10, <1>11 DEF OnceInv

LEMMA StutterOnce == OnceInv /\ UNCHANGED vars => OnceInv'
  BY DEF OnceInv, OneCell, OneCounter, OneCounterOnDisk, NotYetCharged, NotYetCreated,
         vars, trackerVars, saveVars

(* A set without two members has at most one.                              *)
LEMMA AtMostOne ==
  ASSUME NEW S, \A i, j \in S : i = j
  PROVE  Cardinality(S) <= 1
<1>1. CASE S = {}
  BY <1>1, FS_EmptySet
<1>2. CASE S # {}
  <2>1. PICK i \in S : S = {i}
    BY <1>2
  <2>2. Cardinality({i}) = 1
    BY FS_Singleton
  <2>. QED  BY <2>1, <2>2
<1>. QED  BY <1>1, <1>2

LEMMA OnceImpliesChargedOnce ==
  ASSUME Typed, OnceInv
  PROVE  ChargedOnce
<1>. SUFFICES ASSUME NEW t \in Turn, NEW perAccount \in {PerAccount, file.accounts}
              PROVE  Cardinality({i \in DOMAIN perAccount : t \in perAccount[i]}) <= 1
  BY DEF ChargedOnce
<1>1. \A i, j \in DOMAIN perAccount : t \in perAccount[i] /\ t \in perAccount[j] => i = j
  <2>1. CASE perAccount = PerAccount
    BY <2>1, PerAccountTyped DEF OnceInv, OneCounter
  <2>2. CASE perAccount = file.accounts
    BY <2>2 DEF OnceInv, OneCounterOnDisk
  <2>. QED  BY <2>1, <2>2
<1>. DEFINE S == {i \in DOMAIN perAccount : t \in perAccount[i]}
<1>2. \A i, j \in S : i = j
  BY <1>1
<1>. HIDE DEF S
<1>3. Cardinality(S) <= 1
  BY <1>2, AtMostOne
<1>. QED  BY <1>3 DEF S

----------------------------------------------------------------------------
(* The history follows the account                                         *)

LEMMA InitHistory == Init => HistoryInv
<1>. SUFFICES ASSUME Init PROVE HistoryInv
  OBVIOUS
<1>1. /\ \A t \in Turn : turn[t].pc = "new"
      /\ console.step = "idle" /\ file.edits = 0 /\ edits = 0
      /\ \E first \in Account : pool = {first}
  BY DEF Init, NoSnapshot
<1>. QED
  BY <1>1 DEF HistoryInv, IdsDiffer, UnderWay, AtHome, AtHomeOnDisk, Settled, Recording

(* The turns between their record and their save, and those after it.      *)
LEMMA EarlyStepsHistory ==
  ASSUME Typed, HistoryInv, NEW t \in Turn, Start(t) \/ RecorderFor(t)
  PROVE  HistoryInv'
<1>1. /\ turn[t].pc \in {"new", "upstream"}
      /\ \/ turn'[t].pc = "upstream"
         \/ turn'[t].pc = "record" /\ turn'[t].account = turn[t].account /\ turn'[t].id = id[turn[t].account]
      /\ \A u \in Turn \ {t} : turn'[u] = turn[u]
  BY StartMoves, RecorderForMoves
<1>2. UNCHANGED <<trackerVars, saveVars, poolVars, historyVars, serverVars>>
  BY DEF Start, RecorderFor
<1>3. IdsDiffer' /\ Settled'
  BY <1>2 DEF HistoryInv, IdsDiffer, Settled, Running, saveVars, poolVars, historyVars, serverVars
<1>4. UnderWay'
  BY <1>1, <1>2 DEF HistoryInv, UnderWay, Served, Recording, Running, trackerVars, poolVars, historyVars, serverVars
<1>5. AtHome'
  BY <1>1, <1>2 DEF HistoryInv, AtHome, Served, Homes, Running, trackerVars, poolVars, historyVars, serverVars
<1>6. AtHomeOnDisk'
  BY <1>1, <1>2 DEF HistoryInv, AtHomeOnDisk, Served, Homes, saveVars, poolVars, historyVars
<1>. QED  BY <1>3, <1>4, <1>5, <1>6 DEF HistoryInv

LEMMA RecordHistory ==
  ASSUME Typed, HistoryInv, NEW t \in Turn, Record(t)
  PROVE  HistoryInv'
<1>1. /\ turn[t].pc = "record" /\ turn'[t].pc = "add"
      /\ turn'[t].account = turn[t].account /\ turn'[t].id = turn[t].id
      /\ turn'[t].cell = accounts'[turn[t].id]
      /\ \A u \in Turn \ {t} : turn'[u] = turn[u]
  BY RecordMoves
<1>2. /\ DOMAIN accounts' = DOMAIN accounts \cup {turn[t].id}
      /\ \A i \in DOMAIN accounts : accounts'[i] = accounts[i]
  BY RecordCounts
<1>3. UNCHANGED <<cells, saveVars, poolVars, historyVars, serverVars>>
  BY DEF Record
<1>4. IdsDiffer' /\ Settled'
  BY <1>3 DEF HistoryInv, IdsDiffer, Settled, Running, saveVars, poolVars, historyVars, serverVars
<1>5. UnderWay'
  BY <1>1, <1>2, <1>3 DEF HistoryInv, UnderWay, Served, Recording, Running, poolVars, historyVars, serverVars
<1>6. AtHome'
  BY <1>1, <1>2, <1>3 DEF HistoryInv, AtHome, Served, Homes, Running, poolVars, historyVars, serverVars
<1>7. AtHomeOnDisk'
  BY <1>1, <1>3 DEF HistoryInv, AtHomeOnDisk, Served, Homes, saveVars, poolVars, historyVars
<1>. QED  BY <1>4, <1>5, <1>6, <1>7 DEF HistoryInv

LEMMA AddToCounterHistory ==
  ASSUME Typed, HistoryInv, NEW t \in Turn, AddToCounter(t)
  PROVE  HistoryInv'
<1>1. /\ turn[t].pc = "add" /\ turn'[t].pc = "save"
      /\ turn'[t].account = turn[t].account /\ turn'[t].id = turn[t].id
      /\ \A u \in Turn \ {t} : turn'[u] = turn[u]
      /\ t \in cells'[turn[t].cell] /\ \A c \in Cell : cells[c] \subseteq cells'[c]
  BY AddMoves
<1>2. UNCHANGED <<total, accounts, saveVars, poolVars, historyVars, serverVars>> /\ Running
  BY DEF AddToCounter
<1>3. \A i \in DOMAIN accounts : accounts[i] \in Cell
  BY PartialFunction DEF Typed, TypeOK
<1>4. IdsDiffer' /\ Settled'
  BY <1>2 DEF HistoryInv, IdsDiffer, Settled, Running, saveVars, poolVars, historyVars, serverVars
<1>5. UnderWay'
  BY <1>1, <1>2 DEF HistoryInv, UnderWay, Served, Recording, Running, poolVars, historyVars, serverVars
<1>6. AtHome'
  <2>1. UNCHANGED <<pool, id, console, raced, torn>>
    BY <1>2 DEF poolVars, historyVars
  <2>. SUFFICES ASSUME ~torn, NEW u \in Turn, turn'[u].pc \in {"save", "saved"}, Served(u)'
                PROVE  \E i \in Homes(turn[u].account)' \cap DOMAIN accounts : u \in cells'[accounts[i]]
    BY <1>2, <2>1 DEF AtHome
  <2>2. turn'[u].account = turn[u].account /\ Served(u)
    BY <1>1, <2>1 DEF Served
  <2>3. Homes(turn[u].account)' = Homes(turn[u].account)
    BY <2>1, <2>2 DEF Homes
  <2>4. CASE u = t
    <3>1. /\ turn[t].id = id[turn[t].account] /\ turn[t].id \in DOMAIN accounts
          /\ turn[t].cell = accounts[turn[t].id]
      BY <1>1, <1>2, <2>2, <2>4 DEF HistoryInv, UnderWay, Recording
    <3>2. turn[t].id \in Homes(turn[t].account)
      BY <3>1 DEF Homes
    <3>. QED  BY <1>1, <2>3, <2>4, <3>1, <3>2
  <2>5. CASE u # t
    <3>1. PICK i \in Homes(turn[u].account) \cap DOMAIN accounts : u \in cells[accounts[i]]
      BY <1>1, <1>2, <2>2, <2>5 DEF HistoryInv, AtHome
    <3>. QED  BY <1>1, <1>3, <2>3, <3>1
  <2>. QED  BY <2>4, <2>5
<1>7. AtHomeOnDisk'
  BY <1>1, <1>2 DEF HistoryInv, AtHomeOnDisk, Served, Homes, saveVars, poolVars, historyVars
<1>. QED  BY <1>4, <1>5, <1>6, <1>7 DEF HistoryInv

LEMMA QuietHistory ==
  ASSUME HistoryInv, (\E s \in Saver : ReadTotal(s)) \/ Shutdown
  PROVE  HistoryInv'
<1>1. UNCHANGED <<trackerVars, file, poolVars, historyVars, turn>> /\ (Running' <=> Running)
  BY DEF ReadTotal, Shutdown, saveVars, serverVars, Running
<1>2. IdsDiffer' /\ Settled'
  BY <1>1 DEF HistoryInv, IdsDiffer, Settled, poolVars, historyVars
<1>3. UnderWay'
  BY <1>1 DEF HistoryInv, UnderWay, Served, trackerVars, poolVars, historyVars
<1>4. AtHome' /\ AtHomeOnDisk'
  BY <1>1 DEF HistoryInv, AtHome, AtHomeOnDisk, Served, Homes, trackerVars, poolVars, historyVars
<1>. QED  BY <1>2, <1>3, <1>4 DEF HistoryInv

LEMMA SaveHistory ==
  ASSUME Typed, Locking, HistoryInv, NEW s \in Saver, Save(s) \/ SaveFails(s)
  PROVE  HistoryInv'
<1>1. PICK saved \in BOOLEAN : Release(s, saved) /\ (saved => Save(s)) /\ (~saved => SaveFails(s))
  BY DEF Save, SaveFails
<1>2. saving[s] = "maps" /\ Running
  BY DEF Save, SaveFails
<1>3. \A t \in Turn : \/ /\ turn[t].pc = "save" /\ turn'[t].pc = IF saved THEN "saved" ELSE "unsaved"
                         /\ turn'[t].account = turn[t].account /\ turn'[t].id = turn[t].id
                      \/ turn'[t] = turn[t]
  BY <1>1, <1>2, Releases
<1>4. /\ UNCHANGED <<accounts, cells, pool, id, console, edits, raced>>
      /\ torn' = (torn \/ (s = Main /\ (console.step # "idle" \/ file'.edits # edits)))
      /\ server' = IF s = Main THEN (IF saved THEN "exited" ELSE "dead") ELSE server
  BY <1>1 DEF Release, trackerVars, poolVars
<1>5. /\ ~saved => file' = file
      /\ saved => /\ DOMAIN file'.accounts = DOMAIN accounts /\ file'.edits = edits
                  /\ \A i \in DOMAIN accounts : file'.accounts[i] = cells[accounts[i]]
  <2>1. CASE saved
    BY <1>1, <2>1, PerAccountTyped DEF Save
  <2>2. CASE ~saved
    BY <1>1, <2>2 DEF SaveFails
  <2>. QED  BY <2>1, <2>2
<1>6. IdsDiffer'
  BY <1>4 DEF HistoryInv, IdsDiffer
<1>7. Settled'
  <2>1. edits \in Int
    BY DEF Typed, TypeOK
  <2>2. file'.edits <= edits'
    BY <1>4, <1>5, <2>1 DEF HistoryInv, Settled
  <2>3. ~Running' /\ ~torn' => console'.step = "idle" /\ file'.edits = edits'
    BY <1>2, <1>4 DEF Running
  <2>. QED  BY <2>2, <2>3 DEF Settled
<1>8. UnderWay'
  BY <1>2, <1>3, <1>4 DEF HistoryInv, UnderWay, Served, Recording
<1>9. AtHome'
  BY <1>2, <1>3, <1>4 DEF HistoryInv, AtHome, Served, Homes
<1>10. AtHomeOnDisk'
  <2>1. CASE saved
    <3>. SUFFICES ASSUME ~torn, NEW t \in Turn, turn'[t].pc = "saved", Served(t)'
                  PROVE  \E i \in Homes(turn[t].account)' \cap DOMAIN file'.accounts : t \in file'.accounts[i]
      BY <1>4 DEF AtHomeOnDisk
    <3>1. turn[t].pc \in {"save", "saved"} /\ Served(t)
      BY <1>3, <1>4 DEF Served
    <3>2. Homes(turn[t].account)' = Homes(turn[t].account)
      BY <1>3, <1>4 DEF Homes
    <3>3. PICK i \in Homes(turn[t].account) \cap DOMAIN accounts : t \in cells[accounts[i]]
      BY <1>2, <3>1 DEF HistoryInv, AtHome
    <3>. QED  BY <1>5, <2>1, <3>2, <3>3
  <2>2. CASE ~saved
    BY <1>2, <1>3, <1>4, <1>5, <2>2 DEF HistoryInv, AtHomeOnDisk, Served, Homes
  <2>. QED  BY <2>1, <2>2
<1>. QED  BY <1>6, <1>7, <1>8, <1>9, <1>10 DEF HistoryInv

(* The edits: the account's new id is free, and so is its old one until    *)
(* the counter has been moved.                                             *)
LEMMA ChangeKeyHistory ==
  ASSUME Typed, HistoryInv, NEW a \in Account, NEW i \in Id, ChangeKey(a, i)
  PROVE  HistoryInv'
<1>1. /\ server = "up" /\ console.step = "idle" /\ a \in pool /\ \A b \in pool : id[b] # i
      /\ id' = [id EXCEPT ![a] = i]
      /\ console' = [step |-> "move", account |-> a, from |-> id[a], to |-> i]
      /\ raced' = raced \cup {t \in Turn : turn[t].pc \in Recording /\ turn[t].account = a}
      /\ UNCHANGED <<pool, edits, torn, trackerVars, saveVars, serverVars, turn>>
  BY DEF ChangeKey
<1>2. pool \subseteq DOMAIN id
  BY DEF Typed, TypeOK
<1>3. \A b \in pool : id'[b] = IF b = a THEN i ELSE id[b]
  BY <1>1, <1>2
<1>4. /\ console'.step = "move" /\ console'.account = a /\ console'.from = id[a] /\ console'.to = i
  BY <1>1
<1>5. IdsDiffer'
  BY <1>1, <1>3, <1>4 DEF HistoryInv, IdsDiffer
<1>6. UnderWay'
  <2>1. \A t \in Turn : turn[t].pc \in Recording /\ Served(t)' =>
          Served(t) /\ turn[t].account # a /\ id'[turn[t].account] = id[turn[t].account]
    BY <1>1, <1>3 DEF Served
  <2>. QED  BY <1>1, <2>1 DEF HistoryInv, UnderWay, Running, trackerVars, serverVars
<1>7. \A b \in pool : Homes(b) \subseteq Homes(b)'
  BY <1>1, <1>3, <1>4 DEF Homes
<1>8. \A t \in Turn : Served(t)' => Served(t) /\ Homes(turn[t].account) \subseteq Homes(turn[t].account)'
  BY <1>1, <1>7 DEF Served
<1>9. AtHome'
  BY <1>1, <1>8 DEF HistoryInv, AtHome, Running, trackerVars, serverVars
<1>10. AtHomeOnDisk'
  BY <1>1, <1>8 DEF HistoryInv, AtHomeOnDisk, saveVars
<1>11. Settled'
  BY <1>1 DEF HistoryInv, Settled, Running, saveVars, serverVars
<1>. QED  BY <1>5, <1>6, <1>9, <1>10, <1>11 DEF HistoryInv

LEMMA DeleteHistory ==
  ASSUME Typed, HistoryInv, NEW a \in Account, Delete(a)
  PROVE  HistoryInv'
<1>1. /\ server = "up" /\ console.step = "idle" /\ a \in pool /\ pool' = pool \ {a}
      /\ console' = [step |-> "drop", account |-> a, from |-> id[a]]
      /\ UNCHANGED <<id, edits, raced, torn, trackerVars, saveVars, serverVars, turn>>
  BY DEF Delete
<1>2. console'.step = "drop" /\ console'.account = a /\ console'.from = id[a]
  BY <1>1
<1>3. IdsDiffer'
  BY <1>1, <1>2 DEF HistoryInv, IdsDiffer
<1>4. \A t \in Turn : Served(t)' => Served(t) /\ Homes(turn[t].account)' = Homes(turn[t].account)
  BY <1>1, <1>2 DEF Served, Homes
<1>5. UnderWay'
  BY <1>1, <1>4 DEF HistoryInv, UnderWay, Running, trackerVars, serverVars
<1>6. AtHome'
  BY <1>1, <1>4 DEF HistoryInv, AtHome, Running, trackerVars, serverVars
<1>7. AtHomeOnDisk'
  BY <1>1, <1>4 DEF HistoryInv, AtHomeOnDisk, saveVars
<1>8. Settled'
  BY <1>1 DEF HistoryInv, Settled, Running, saveVars, serverVars
<1>. QED  BY <1>3, <1>5, <1>6, <1>7, <1>8 DEF HistoryInv

LEMMA AddHistory ==
  ASSUME Typed, HistoryInv, NEW a \in Account, NEW i \in Id, Add(a, i)
  PROVE  HistoryInv'
<1>1. /\ server = "up" /\ console.step = "idle" /\ a \notin DOMAIN id /\ \A b \in pool : id[b] # i
      /\ pool' = pool \cup {a} /\ id' = With(id, a, i)
      /\ UNCHANGED <<console, trackerVars, saveVars, historyVars, serverVars, turn>>
  BY DEF Add
<1>2. pool \subseteq DOMAIN id
  BY DEF Typed, TypeOK
<1>3. id'[a] = i /\ \A b \in DOMAIN id : id'[b] = id[b]
  BY <1>1 DEF With
<1>4. IdsDiffer'
  BY <1>1, <1>2, <1>3 DEF HistoryInv, IdsDiffer
<1>5. \A t \in Turn : turn[t].pc \notin {"new", "killed"} /\ Served(t)' =>
        /\ Served(t) /\ turn[t].account \in DOMAIN id
        /\ id'[turn[t].account] = id[turn[t].account]
        /\ Homes(turn[t].account)' = Homes(turn[t].account)
  <2>1. raced' = raced /\ turn' = turn /\ console' = console
    BY <1>1 DEF historyVars
  <2>2. \A t \in Turn : turn[t].pc \notin {"new", "killed"} => turn[t].account \in DOMAIN id
    BY DEF Typed
  <2>. QED  BY <1>1, <1>3, <2>1, <2>2 DEF Served, Homes
<1>6. UnderWay'
  BY <1>1, <1>5 DEF HistoryInv, UnderWay, Recording, Running, trackerVars, serverVars
<1>7. AtHome'
  BY <1>1, <1>5 DEF HistoryInv, AtHome, Running, trackerVars, serverVars, historyVars
<1>8. AtHomeOnDisk'
  BY <1>1, <1>5 DEF HistoryInv, AtHomeOnDisk, saveVars, historyVars
<1>9. Settled'
  BY <1>1 DEF HistoryInv, Settled, Running, saveVars, serverVars, historyVars
<1>. QED  BY <1>4, <1>6, <1>7, <1>8, <1>9 DEF HistoryInv

(* The counter follows; the counters of other accounts stay where they are.*)
LEMMA EditEndsHistory ==
  ASSUME Typed, HistoryInv, MoveAccount \/ DropAccount
  PROVE  HistoryInv'
<1>1. /\ UNCHANGED <<saveVars, pool, id, raced, torn, serverVars, turn>>
      /\ console' = [step |-> "idle"] /\ Running /\ console.step # "idle" /\ edits' = edits + 1
  BY DEF MoveAccount, DropAccount
<1>2. \A i \in DOMAIN accounts : accounts[i] \in Cell
  BY PartialFunction DEF Typed, TypeOK
<1>3. file.edits \in Int /\ edits \in Int /\ file.edits <= edits
  BY DEF HistoryInv, Settled, Typed, TypeOK, Snapshots
<1>4. \A a \in pool : id[a] # console.from
  BY <1>1 DEF HistoryInv, IdsDiffer
<1>5. \A a \in pool : id[a] \in DOMAIN accounts =>
        id[a] \in DOMAIN accounts' /\ accounts'[id[a]] = accounts[id[a]]
  <2>1. CASE MoveAccount
    BY <1>4, <2>1, Moves
  <2>2. CASE DropAccount
    BY <1>4, <2>2, Drops
  <2>. QED  BY <2>1, <2>2
<1>6. \A c \in Cell : cells[c] \subseteq cells'[c]
  <2>1. CASE MoveAccount
    BY <2>1, Moves
  <2>2. CASE DropAccount
    BY <2>2 DEF DropAccount
  <2>. QED  BY <2>1, <2>2
<1>7. \A a \in pool : \A t \in Turn :
        (\E i \in Homes(a) \cap DOMAIN accounts : t \in cells[accounts[i]]) =>
          id[a] \in DOMAIN accounts' /\ t \in cells'[accounts'[id[a]]]
  <2>. SUFFICES ASSUME NEW a \in pool, NEW t \in Turn,
                       NEW i \in Homes(a) \cap DOMAIN accounts, t \in cells[accounts[i]]
                PROVE  id[a] \in DOMAIN accounts' /\ t \in cells'[accounts'[id[a]]]
    OBVIOUS
  <2>1. CASE i = id[a]
    BY <1>2, <1>5, <1>6, <2>1
  <2>2. CASE i # id[a]
    <3>1. console.step = "move" /\ console.account = a /\ i = console.from /\ i \in DOMAIN accounts
      BY <2>2 DEF Homes
    <3>2. id[a] = console.to /\ console.to # console.from
      BY <1>4, <3>1 DEF HistoryInv, IdsDiffer
    <3>3. MoveAccount
      BY <3>1 DEF DropAccount
    <3>4. CASE console.to \notin DOMAIN accounts
      BY <1>2, <3>1, <3>2, <3>3, <3>4, Moves
    <3>5. CASE console.to \in DOMAIN accounts
      <4>1. console.to \in DOMAIN accounts' /\ accounts'[console.to] = accounts[console.to]
        BY <1>5, <3>2, <3>5
      <4>2. cells'[accounts[console.to]] = cells[accounts[console.to]] \cup cells[accounts[console.from]]
        BY <1>2, <3>1, <3>3, <3>5, Moves
      <4>. QED  BY <3>1, <3>2, <4>1, <4>2
    <3>. QED  BY <3>4, <3>5
  <2>. QED  BY <2>1, <2>2
<1>8. IdsDiffer'
  BY <1>1 DEF HistoryInv, IdsDiffer
<1>9. UnderWay'
  BY <1>1, <1>5 DEF HistoryInv, UnderWay, Served, Running, serverVars
<1>10. AtHome'
  <2>. SUFFICES ASSUME ~torn, NEW t \in Turn, turn[t].pc \in {"save", "saved"}, Served(t)
                PROVE  \E i \in Homes(turn[t].account)' \cap DOMAIN accounts' : t \in cells'[accounts'[i]]
    BY <1>1 DEF AtHome, Served
  <2>1. \E i \in Homes(turn[t].account) \cap DOMAIN accounts : t \in cells[accounts[i]]
    BY <1>1 DEF HistoryInv, AtHome
  <2>2. id[turn[t].account] \in DOMAIN accounts' /\ t \in cells'[accounts'[id[turn[t].account]]]
    BY <1>7, <2>1 DEF Served
  <2>3. id[turn[t].account] \in Homes(turn[t].account)'
    BY <1>1 DEF Homes
  <2>. QED  BY <2>2, <2>3
<1>11. AtHomeOnDisk'
  BY <1>1, <1>3 DEF AtHomeOnDisk, saveVars
<1>12. Settled'
  BY <1>1, <1>3 DEF Settled, Running, saveVars, serverVars
<1>. QED  BY <1>8, <1>9, <1>10, <1>11, <1>12 DEF HistoryInv

(* An edit that is undone puts its account back where its counter is.      *)
LEMMA EndHistory ==
  ASSUME Typed, HistoryInv, Crash \/ Boot
  PROVE  HistoryInv'
<1>1. file \in Snapshots /\ NoSnapshot \in Snapshots
  BY EmptyFunction, LedgerAssumption DEF Typed, TypeOK, NoSnapshot, Snapshots
<1>2. PICK snapshot \in Snapshots : Forget(snapshot) /\ (Boot => snapshot = file)
  BY <1>1 DEF Crash, Boot, Running
<1>3. /\ edits' = file.edits /\ UNCHANGED <<file, edited, raced>> /\ console' = [step |-> "idle"]
      /\ pool' = IF console.step = "drop" THEN pool \cup {console.account} ELSE pool
      /\ id' = IF console.step = "move" THEN [id EXCEPT ![console.account] = console.from] ELSE id
  BY <1>2 DEF Forget
<1>4. \A t \in Turn : turn'[t].pc \in {"new", "saved", "unsaved", "killed"}
                     /\ (turn'[t].pc = "saved" => turn[t].pc = "saved" /\ turn'[t] = turn[t])
  BY <1>2, ForgetsTurns
<1>5. ~torn' => ~torn /\ console.step = "idle" /\ file.edits = edits
  BY DEF Crash, Boot, HistoryInv, Settled
<1>6. IdsDiffer'
  <2>1. \A a, b \in pool' : id'[a] = id'[b] => a = b
    <3>1. CASE console.step = "move"
      <4>1. \A a \in pool : id'[a] = IF a = console.account THEN console.from ELSE id[a]
        BY <1>3, <3>1 DEF Typed, TypeOK
      <4>. QED  BY <1>3, <3>1, <4>1 DEF HistoryInv, IdsDiffer
    <3>2. CASE console.step # "move"
      BY <1>3, <3>2 DEF HistoryInv, IdsDiffer
    <3>. QED  BY <3>1, <3>2
  <2>. QED  BY <1>3, <2>1 DEF IdsDiffer
<1>7. UnderWay'
  BY <1>4 DEF UnderWay, Recording
<1>8. AtHomeOnDisk'
  BY <1>3, <1>4, <1>5 DEF HistoryInv, AtHomeOnDisk, Served, Homes
<1>9. AtHome'
  <2>1. CASE Crash
    BY <2>1 DEF Crash, AtHome, Running
  <2>2. CASE Boot
    <3>1. /\ DOMAIN accounts' = DOMAIN file.accounts
          /\ \A i \in DOMAIN file.accounts : accounts'[i] = i /\ cells'[i] = file.accounts[i]
      BY <1>2, <2>2, Forgets
    <3>. QED  BY <1>3, <1>4, <1>8, <3>1 DEF AtHome, AtHomeOnDisk
  <2>. QED  BY <2>1, <2>2
<1>10. Settled'
  <2>1. file.edits \in Int
    BY DEF Typed, TypeOK, Snapshots
  <2>. QED  BY <1>3, <2>1 DEF Settled
<1>. QED  BY <1>6, <1>7, <1>8, <1>9, <1>10 DEF HistoryInv

LEMMA StutterHistory == HistoryInv /\ UNCHANGED vars => HistoryInv'
<1>. SUFFICES ASSUME HistoryInv, UNCHANGED vars PROVE HistoryInv'
  OBVIOUS
<1>1. UNCHANGED <<trackerVars, saveVars, poolVars, historyVars, serverVars, turn>>
  BY DEF vars
<1>2. IdsDiffer' /\ Settled'
  BY <1>1 DEF HistoryInv, IdsDiffer, Settled, Running, saveVars, poolVars, historyVars, serverVars
<1>3. UnderWay' /\ AtHome' /\ AtHomeOnDisk'
  BY <1>1 DEF HistoryInv, UnderWay, AtHome, AtHomeOnDisk, Served, Homes, Running,
             trackerVars, saveVars, poolVars, historyVars, serverVars
<1>. QED  BY <1>2, <1>3 DEF HistoryInv

LEMMA HistoryImpliesFollows == HistoryInv => HistoryFollowsKey
  BY DEF HistoryInv, AtHome, Homes, Served, HistoryFollowsKey, Running

----------------------------------------------------------------------------
(* A drained shutdown loses nothing                                        *)

(* Whoever acts while the server is drained is a save.                     *)
LEMMA InitDrained == Init => DrainedInv
  BY DEF Init, DrainedInv

LEMMA TurnStepsDrained ==
  ASSUME Typed, DrainedInv, NEW t \in Turn,
         Start(t) \/ RecorderFor(t) \/ Record(t) \/ AddToCounter(t)
  PROVE  DrainedInv'
<1>1. turn[t].pc \in {"new", "upstream", "record", "add"} /\ UNCHANGED <<server, drained>>
  BY DEF Start, RecorderFor, Record, AddToCounter, serverVars
<1>2. turn[t].pc = "new" => server = "up"
  BY DEF Start, RecorderFor, Record, AddToCounter
<1>3. ~(drained /\ server \in {"saving", "exited"})
  BY <1>1, <1>2 DEF DrainedInv
<1>. QED  BY <1>1, <1>3 DEF DrainedInv

LEMMA ConsoleStepsDrained ==
  ASSUME DrainedInv, NEW a \in Account, NEW i \in Id,
         ChangeKey(a, i) \/ Delete(a) \/ Add(a, i) \/ MoveAccount \/ DropAccount
  PROVE  DrainedInv'
<1>1. UNCHANGED <<server, drained>> /\ (server = "up" \/ console.step # "idle")
  BY DEF ChangeKey, Delete, Add, MoveAccount, DropAccount, serverVars
<1>2. ~(drained /\ server \in {"saving", "exited"})
  BY <1>1 DEF DrainedInv
<1>. QED  BY <1>1, <1>2 DEF DrainedInv

LEMMA ReadTotalDrained ==
  ASSUME Typed, DrainedInv, NEW s \in Saver, ReadTotal(s)
  PROVE  DrainedInv'
<1>1. /\ saving' = [saving EXCEPT ![s] = "maps"] /\ seen' = [seen EXCEPT ![s] = total]
      /\ UNCHANGED <<file, trackerVars, poolVars, historyVars, serverVars, turn>>
      /\ Running
  BY LedgerAssumption DEF ReadTotal, MaySave, Running
<1>2. saving \in [Saver -> {"idle", "maps", "done"}] /\ seen \in [Saver -> SUBSET Turn] /\ Main \in Saver
  BY DEF Typed, TypeOK, Saver
<1>3. UNCHANGED <<console, server, drained, total, file, accounts, cells>>
  BY <1>1 DEF poolVars, serverVars, trackerVars
<1>4. saving'[Main] = "maps" => seen'[Main] = total \/ (saving[Main] = "maps" /\ seen'[Main] = seen[Main])
  BY <1>1, <1>2
<1>5. server # "exited"
  BY <1>1 DEF Running
<1>. QED  BY <1>1, <1>3, <1>4, <1>5 DEF DrainedInv

LEMMA SaveDrained ==
  ASSUME Typed, Locking, DrainedInv, NEW s \in Saver, Save(s) \/ SaveFails(s)
  PROVE  DrainedInv'
<1>1. PICK saved \in BOOLEAN : Release(s, saved) /\ (saved => Save(s)) /\ (~saved => SaveFails(s))
  BY DEF Save, SaveFails
<1>2. saving[s] = "maps" /\ Running
  BY DEF Save, SaveFails
<1>3. /\ UNCHANGED <<total, accounts, cells, console, drained>>
      /\ saving' = [saving EXCEPT ![s] = IF s \in Refresh THEN "done" ELSE "idle"]
      /\ server' = IF s = Main THEN (IF saved THEN "exited" ELSE "dead") ELSE server
  BY <1>1 DEF Release, trackerVars, poolVars
<1>. SUFFICES ASSUME drained, server' \in {"saving", "exited"}
              PROVE  /\ console.step = "idle"
                     /\ \A t \in Turn : turn'[t].pc \in {"new", "saved", "unsaved", "killed"}
                     /\ saving'[Main] # "maps"
                     /\ server' = "exited" => file'.total = total /\ file'.accounts = PerAccount'
  BY <1>3 DEF DrainedInv
<1>4. server \in {"saving", "exited"} /\ console.step = "idle"
  BY <1>2, <1>3 DEF DrainedInv, Locking
<1>5. \A t \in Turn : turn'[t].pc \in {"new", "saved", "unsaved", "killed"}
  BY <1>1, <1>2, <1>4, Releases DEF DrainedInv
<1>6. saving'[Main] # "maps"
  <2>1. /\ saving \in [Saver -> {"idle", "maps", "done"}] /\ Main \in Saver
        /\ \A x \in Saver : saving[x] = "maps" => x = s
    BY <1>2 DEF Typed, TypeOK, Saver
  <2>. QED  BY <1>3, <2>1
<1>7. server' = "exited" => file'.total = total /\ file'.accounts = PerAccount'
  <2>. SUFFICES ASSUME server' = "exited"
                PROVE  file'.total = total /\ file'.accounts = PerAccount'
    OBVIOUS
  <2>1. s = Main /\ saved
    BY <1>2, <1>3 DEF Running
  <2>2. file'.total = seen[Main] /\ file'.accounts = PerAccount
    BY <1>1, <2>1 DEF Save
  <2>3. seen[Main] = total
    BY <1>2, <1>4, <2>1 DEF DrainedInv
  <2>4. PerAccount' = PerAccount
    BY <1>3 DEF PerAccount
  <2>. QED  BY <2>2, <2>3, <2>4
<1>. QED  BY <1>4, <1>5, <1>6, <1>7

LEMMA ProcessStepsDrained ==
  ASSUME Typed, Locking, DrainedInv, Shutdown \/ Crash \/ Boot
  PROVE  DrainedInv'
<1>1. CASE Shutdown
  <2>1. /\ server = "up" /\ server' = "saving"
        /\ drained' => console.step = "idle" /\ \A t \in Turn : turn[t].pc \in {"new", "saved", "unsaved", "killed"}
        /\ UNCHANGED <<console, turn, saving>>
    BY <1>1 DEF Shutdown, poolVars, saveVars
  <2>2. saving[Main] # "maps"
    BY <2>1 DEF Locking, Saver
  <2>. QED  BY <2>1, <2>2 DEF DrainedInv
<1>2. CASE Crash \/ Boot
  BY <1>2 DEF Crash, Boot, DrainedInv
<1>. QED  BY <1>1, <1>2

LEMMA StutterDrained == DrainedInv /\ UNCHANGED vars => DrainedInv'
  BY DEF DrainedInv, PerAccount, vars, trackerVars, saveVars, poolVars, serverVars

LEMMA DrainedImpliesKeepsAll == DrainedInv => ExitKeepsAll
  BY DEF DrainedInv, ExitKeepsAll

----------------------------------------------------------------------------
(* The theorems                                                            *)

LEMMA InitIInv == Init => IInv
  BY InitTyped, InitDisk, InitOnce, InitHistory, InitDrained DEF IInv

LEMMA NextIInv ==
  ASSUME IInv, [Next]_vars
  PROVE  IInv'
<1>. USE DEF IInv
<1>0. Locking
  BY DEF DiskInv
<1>1. ASSUME NEW t \in Turn, Start(t) \/ RecorderFor(t)
      PROVE  IInv'
  BY <1>1, TurnStepsTyped, EarlyStepsDisk, EarlyStepsOnce, EarlyStepsHistory, TurnStepsDrained
<1>2. ASSUME NEW t \in Turn, Record(t)
      PROVE  IInv'
  BY <1>2, RecordTyped, RecordDisk, RecordOnce, RecordHistory, TurnStepsDrained
<1>3. ASSUME NEW t \in Turn, AddToCounter(t)
      PROVE  IInv'
  BY <1>3, TurnStepsTyped, AddToCounterDisk, AddToCounterOnce, AddToCounterHistory, TurnStepsDrained
<1>4. ASSUME NEW s \in Saver, ReadTotal(s)
      PROVE  IInv'
  BY <1>4, ReadTotalTyped, ReadTotalDisk, ReadTotalOnce, QuietHistory, ReadTotalDrained
<1>5. ASSUME NEW s \in Saver, Save(s) \/ SaveFails(s)
      PROVE  IInv'
  BY <1>0, <1>5, SaveTyped, SaveDisk, SaveOnce, SaveHistory, SaveDrained
<1>6. ASSUME NEW a \in Account, NEW i \in Id, ChangeKey(a, i)
      PROVE  IInv'
  BY <1>6, ChangeKeyTyped, ChangeKeyDisk, ConsoleStartsOnce, ChangeKeyHistory, ConsoleStepsDrained
<1>7. ASSUME NEW a \in Account, NEW i \in Id, Add(a, i)
      PROVE  IInv'
  BY <1>7, AddTyped, AddDisk, ConsoleStartsOnce, AddHistory, ConsoleStepsDrained
<1>8. ASSUME NEW a \in Account, Delete(a)
      PROVE  IInv'
  <2>1. id[a] \in Id
    BY <1>8, PartialFunction DEF Typed, TypeOK, Delete
  <2>. QED  BY <1>8, <2>1, DeleteTyped, DeleteDisk, ConsoleStartsOnce, DeleteHistory, ConsoleStepsDrained
<1>9. ASSUME MoveAccount \/ DropAccount
      PROVE  IInv'
  <2>1. console.account \in Account /\ console.from \in Id
    BY <1>9 DEF Typed, Consoles, MoveAccount, DropAccount
  <2>2. Typed' /\ OnceInv'
    BY <1>9, MoveAccountTyped, DropAccountTyped, MoveAccountOnce, DropAccountOnce
  <2>3. DrainedInv'
    BY <1>9, <2>1, ConsoleStepsDrained
  <2>. QED  BY <1>9, <2>2, <2>3, EditEndsDisk, EditEndsHistory
<1>10. ASSUME Shutdown
       PROVE  IInv'
  <2>1. OnceInv'
    <3>1. UNCHANGED <<file, accounts, cells, turn>>
      BY <1>10 DEF Shutdown, trackerVars, saveVars
    <3>. QED
      BY <3>1 DEF OnceInv, OneCell, OneCounter, OneCounterOnDisk, NotYetCharged, NotYetCreated
  <2>. QED  BY <1>0, <1>10, <2>1, ShutdownTyped, ShutdownDisk, QuietHistory, ProcessStepsDrained
<1>11. ASSUME Crash \/ Boot
       PROVE  IInv'
  BY <1>0, <1>11, EndTyped, EndDisk, EndOnce, EndHistory, ProcessStepsDrained
<1>12. ASSUME UNCHANGED vars
       PROVE  IInv'
  BY <1>12, StutterTyped, StutterDisk, StutterOnce, StutterHistory, StutterDrained
<1>. QED
  BY <1>1, <1>2, <1>3, <1>4, <1>5, <1>6, <1>7, <1>8, <1>9, <1>10, <1>11, <1>12 DEF Next

LEMMA InvHolds == Spec => []IInv
<1>1. Init => IInv
  BY InitIInv
<1>2. IInv /\ [Next]_vars => IInv'
  BY NextIInv
<1>. QED  BY <1>1, <1>2, PTL DEF Spec

(* The tracker, its file and the console keep their types.                 *)
THEOREM TypeCorrect == Spec => []TypeOK
<1>1. IInv => TypeOK
  BY DEF IInv, Typed
<1>. QED  BY <1>1, InvHolds, PTL

(* Whatever saves overlap, whatever process ends: a turn whose save has    *)
(* succeeded is in usage.json (usage.go, save and Snapshot).               *)
THEOREM SavedTurnsAreOnDiskHolds == Spec => []SavedTurnsAreOnDisk
<1>1. IInv => SavedTurnsAreOnDisk
  BY DEF IInv, DiskInv
<1>. QED  BY <1>1, InvHolds, PTL

(* No turn is in the counters of two accounts, in memory or on disk,       *)
(* however counters are created, moved and merged (usage.go, counter and   *)
(* MoveAccount).                                                           *)
THEOREM ChargedOnceHolds == Spec => []ChargedOnce
<1>1. IInv => ChargedOnce
  BY OnceImpliesChargedOnce DEF IInv
<1>. QED  BY <1>1, InvHolds, PTL

(* An account whose key changes keeps the turns it has saved (admin.go,    *)
(* the PATCH of an account).                                               *)
THEOREM HistoryFollowsKeyHolds == Spec => []HistoryFollowsKey
<1>1. IInv => HistoryFollowsKey
  BY HistoryImpliesFollows DEF IInv
<1>. QED  BY <1>1, InvHolds, PTL

(* After a drained shutdown usage.json is what the tracker held            *)
(* (server.go, runServer; cli.go, the save after it).                      *)
THEOREM ExitKeepsAllHolds == Spec => []ExitKeepsAll
<1>1. IInv => ExitKeepsAll
  BY DrainedImpliesKeepsAll DEF IInv
<1>. QED  BY <1>1, InvHolds, PTL
=============================================================================
