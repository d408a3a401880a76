------------------------- MODULE ConfigStoreProofs -------------------------
(***************************************************************************)
(* Proofs that config.yaml keeps what the console was told is saved, for   *)
(* any number of overlapping requests, accounts, client keys, settings,    *)
(* edits and restarts.                                                     *)
(*                                                                         *)
(* A field is trusted only while every save since its last acknowledgement *)
(* was made by a request that ran alone; the invariant follows what such a *)
(* request holds, from the pool into the Config, into the marshalled bytes *)
(* and into the file.                                                      *)
(***************************************************************************)
EXTENDS ConfigStore, SharedFacts, SequenceTheorems, TLAPS

Promises == [accounts: Seq(Account), keys: SUBSET ClientKey, setting: Setting \cup {NoSetting}]

Saving == {"marshal", "truncate", "write"}

Idle(h) == handler[h].pc = "idle"

Typed ==
  /\ TypeOK
  /\ promised \in Promises
  /\ \A h \in Handler :
       /\ handler[h].pc \in {"project", "assign"} => handler[h].kind \in {"accounts", "keys"}
       /\ handler[h].pc = "append" => handler[h].cred \in Cred

(* While a field is trusted nothing overlaps.                              *)
Alone ==
  /\ \A h \in Handler : lone = h => \A g \in Handler \ {h} : Idle(g)
  /\ trusted # {} => \A h \in Handler : ~Idle(h) => lone = h
  /\ server # "up" => \A h \in Handler : Idle(h)

(* What a request that is alone has taken from the pool or the keys is     *)
(* what is there, and so is what it has put into the Config, ...           *)
InHand ==
  \A h \in Handler : lone = h =>
    /\ handler[h].kind = "accounts" =>
         /\ handler[h].pc = "assign" => handler[h].data.accounts = accounts
         /\ handler[h].pc \in Saving => cfg.accounts = accounts
    /\ handler[h].kind = "keys" =>
         /\ handler[h].pc = "assign" => handler[h].data.keys = keys
         /\ handler[h].pc \in Saving => cfg.keys = keys
    /\ handler[h].pc \in {"truncate", "write"} => handler[h].data = cfg

(* ... the Config agrees with the promises unless such a request is about  *)
(* to renew them, ...                                                      *)
Renewing(kind) == \E h \in Handler : lone = h /\ handler[h].kind = kind /\ handler[h].pc \in Saving

InMemory ==
  server = "up" =>
    /\ "accounts" \in trusted => cfg.accounts = promised.accounts \/ Renewing("accounts")
    /\ "keys" \in trusted => cfg.keys = promised.keys \/ Renewing("keys")

(* ... and a file that is whole keeps them.                                *)
OnDisk ==
  disk.state = "whole" =>
    /\ "accounts" \in trusted /\ promised.accounts # <<>> =>
         Migrated(disk.data).accounts = promised.accounts
    /\ "keys" \in trusted => disk.data.keys = promised.keys
    /\ "setting" \in trusted => disk.data.setting = promised.setting

IInv == Typed /\ Alone /\ InHand /\ InMemory /\ OnDisk

----------------------------------------------------------------------------
(* Configurations and lists                                                *)

LEMMA NoConfigTyped == NoConfig \in Configs
<1>1. <<>> \in Seq(Account)
  BY EmptySeq
<1>. QED  BY <1>1 DEF NoConfig, Configs

(* Clearing the legacy field leaves the rest alone.                        *)
LEMMA ClearedKeeps ==
  ASSUME NEW config \in Configs
  PROVE  /\ Cleared(config) \in Configs
         /\ Cleared(config).accounts = config.accounts
         /\ Cleared(config).keys = config.keys
         /\ Cleared(config).setting = config.setting
  BY DEF Cleared, Configs

(* Migrating it touches the accounts alone, and only when there are none.  *)
LEMMA MigratedKeeps ==
  ASSUME NEW config \in Configs
  PROVE  /\ Migrated(config) \in Configs
         /\ config.accounts # <<>> => Migrated(config).accounts = config.accounts
         /\ Migrated(config).keys = config.keys
         /\ Migrated(config).setting = config.setting
<1>1. CASE config.accounts = <<>> /\ config.legacy # NoCred
  <2>. DEFINE one == <<[cred |-> config.legacy, on |-> TRUE]>>
  <2>1. [cred |-> config.legacy, on |-> TRUE] \in Account
    BY <1>1 DEF Configs, Account
  <2>2. one \in Seq(Account)
    BY <2>1
  <2>3. Migrated(config) = [config EXCEPT !.accounts = one]
    BY <1>1 DEF Migrated
  <2>. HIDE DEF one
  <2>. QED  BY <1>1, <2>2, <2>3 DEF Configs
<1>2. CASE ~(config.accounts = <<>> /\ config.legacy # NoCred)
  BY <1>2 DEF Migrated
<1>. QED  BY <1>1, <1>2

LEMMA LoadedTyped ==
  ASSUME NEW config \in Configs
  PROVE  /\ Loaded(config) \in Promises
         /\ Loaded(config).accounts = Migrated(config).accounts
         /\ Loaded(config).keys = config.keys /\ Loaded(config).setting = config.setting
<1>1. Migrated(config) \in Configs
  BY MigratedKeeps
<1>. QED  BY <1>1 DEF Loaded, Promises, Configs

(* The place of an id is a place.                                          *)
LEMMA PlaceIn ==
  ASSUME NEW list \in Seq(Account), NEW c \in Creds(list)
  PROVE  Place(list, c) \in 1..Len(list)
<1>. DEFINE S == {i \in DOMAIN list : list[i].cred = c}
<1>1. DOMAIN list = 1..Len(list) /\ Len(list) \in Nat
  OBVIOUS
<1>2. S \in SUBSET Nat /\ S # {}
  BY <1>1 DEF Creds
<1>3. PICK x \in S : \A y \in S : x <= y
  BY <1>2, LeastOf
<1>4. \A k \in 1..(x - 1) : list[k].cred # c
  <2>. SUFFICES ASSUME NEW k \in 1..(x - 1), list[k].cred = c PROVE FALSE
    OBVIOUS
  <2>1. k \in DOMAIN list /\ ~(x <= k)
    BY <1>1, <1>3
  <2>. QED  BY <1>3, <2>1
<1>5. Place(list, c) \in DOMAIN list
  BY <1>3, <1>4 DEF Place
<1>. QED  BY <1>1, <1>5

(* What the handlers make of the pool is a pool.                           *)
LEMMA EditsTyped ==
  ASSUME NEW list \in Seq(Account), NEW c \in Creds(list), NEW new \in Cred
  PROVE  /\ [list EXCEPT ![Place(list, c)].on = ~@] \in Seq(Account)
         /\ [list EXCEPT ![Place(list, c)].cred = new] \in Seq(Account)
         /\ RemoveAt(list, Place(list, c)) \in Seq(Account)
<1>. DEFINE p == Place(list, c)
<1>1. p \in 1..Len(list)
  BY PlaceIn
<1>. HIDE DEF p
<1>2. list[p] \in Account
  BY <1>1
<1>3. /\ [list[p] EXCEPT !.on = ~@] \in Account
      /\ [list[p] EXCEPT !.cred = new] \in Account
  BY <1>2 DEF Account
<1>4. /\ [list EXCEPT ![p] = [list[p] EXCEPT !.on = ~@]] \in Seq(Account)
      /\ [list EXCEPT ![p] = [list[p] EXCEPT !.cred = new]] \in Seq(Account)
  BY <1>1, <1>3, ExceptSeq
<1>5. RemoveAt(list, p) \in Seq(Account)
  <2>1. SubSeq(list, 1, p - 1) \in Seq(Account)
    <3>1. \A i \in 1..(p - 1) : list[i] \in Account
      BY <1>1
    <3>. QED  BY <1>1, <3>1, SubSeqProperties
  <2>2. SubSeq(list, p + 1, Len(list)) \in Seq(Account)
    <3>1. \A i \in (p + 1)..Len(list) : list[i] \in Account
      BY <1>1
    <3>. QED  BY <1>1, <3>1, SubSeqProperties
  <2>. QED  BY <2>1, <2>2, ConcatProperties DEF RemoveAt
<1>. QED  BY <1>4, <1>5 DEF p

(* The locals a request goes on with.                                      *)
LEMMA IdleHas == IdleHandler \in Locals /\ IdleHandler.pc = "idle" /\ IdleHandler.kind = "none"
  BY NoConfigTyped DEF IdleHandler, Locals

LEMMA AtHas ==
  ASSUME NEW pc \in {"project", "marshal", "truncate"}, NEW kind \in Field \cup {"none"}
  PROVE  At(pc, kind) \in Locals /\ At(pc, kind).pc = pc /\ At(pc, kind).kind = kind
  BY IdleHas DEF At, Locals

LEMMA HoldingHas ==
  ASSUME NEW pc \in {"append", "rekey"}, NEW c \in Cred
  PROVE  /\ Holding(pc, c) \in Locals
         /\ Holding(pc, c).pc = pc /\ Holding(pc, c).kind = "accounts" /\ Holding(pc, c).cred = c
  BY IdleHas DEF Holding, Locals, Field

----------------------------------------------------------------------------
(* Requests that start and requests that go on                             *)

(* A request may change the pool and the settings when it starts; the      *)
(* accounts and keys of the Config it leaves alone.                        *)
LEMMA StartKeeps ==
  ASSUME IInv, NEW h \in Handler, NEW next \in Locals, Start(h, next),
         next.pc \notin {"assign", "truncate", "write"},
         next.pc = "project" => next.kind \in {"accounts", "keys"},
         next.pc = "marshal" => next.kind = "setting",
         next.pc = "append" => next.cred \in Cred,
         accounts' \in Seq(Account), keys' \subseteq ClientKey, cfg' \in Configs,
         cfg'.accounts = cfg.accounts, cfg'.keys = cfg.keys
  PROVE  IInv'
<1>. DEFINE alone == \A g \in Handler : Idle(g)
<1>1. /\ server = "up" /\ Idle(h) /\ edits < MaxEdits /\ edits' = edits + 1
      /\ handler' = [handler EXCEPT ![h] = next]
      /\ lone' = IF alone THEN h ELSE NoOne
      /\ trusted' = IF alone THEN trusted ELSE {}
      /\ UNCHANGED <<disk, server, boots, promised>>
  BY DEF Start, Idle
<1>2. handler'[h] = next /\ \A g \in Handler \ {h} : handler'[g] = handler[g]
  BY <1>1 DEF IInv, Typed, TypeOK
<1>3. Typed'
  <2>1. edits' \in 0..MaxEdits
    BY <1>1, StoreAssumption DEF IInv, Typed, TypeOK
  <2>2. handler' \in [Handler -> Locals]
    BY <1>1 DEF IInv, Typed, TypeOK
  <2>3. trusted' \subseteq Field /\ lone' \in Handler \cup {NoOne}
    BY <1>1 DEF IInv, Typed, TypeOK
  <2>4. \A g \in Handler :
          /\ handler'[g].pc \in {"project", "assign"} => handler'[g].kind \in {"accounts", "keys"}
          /\ handler'[g].pc = "append" => handler'[g].cred \in Cred
    BY <1>2 DEF IInv, Typed
  <2>. QED  BY <1>1, <2>1, <2>2, <2>3, <2>4 DEF IInv, Typed, TypeOK
<1>4. NoOne \notin Handler
  BY StoreAssumption
<1>5. Alone'
  BY <1>1, <1>2, <1>4 DEF Alone, Idle
<1>6. InHand'
  BY <1>1, <1>2, <1>4 DEF InHand, Saving
<1>7. InMemory'
  <2>1. trusted' # {} => alone /\ trusted' = trusted
    BY <1>1
  <2>2. alone => ~Renewing("accounts") /\ ~Renewing("keys")
    BY DEF Idle, Renewing, Saving
  <2>. QED  BY <1>1, <2>1, <2>2 DEF IInv, InMemory
<1>8. OnDisk'
  BY <1>1 DEF IInv, OnDisk
<1>. QED  BY <1>3, <1>5, <1>6, <1>7, <1>8 DEF IInv

(* One that goes on takes what is there, and changes the Config's accounts *)
(* or keys only when it is about to save them.                             *)
LEMMA StepKeeps ==
  ASSUME IInv, NEW h \in Handler, NEW next \in Locals, Step(h, next), ~Idle(h),
         accounts' \in Seq(Account), keys' \subseteq ClientKey, cfg' \in Configs,
         disk' = disk \/ disk' = [state |-> "empty", data |-> NoConfig],
         next.pc \in {"project", "assign"} => next.kind \in {"accounts", "keys"},
         next.pc # "append",
         lone = h =>
           /\ next.kind = "accounts" =>
                /\ next.pc = "assign" => next.data.accounts = accounts'
                /\ next.pc \in Saving => cfg'.accounts = accounts'
           /\ next.kind = "keys" =>
                /\ next.pc = "assign" => next.data.keys = keys'
                /\ next.pc \in Saving => cfg'.keys = keys'
           /\ next.pc \in {"truncate", "write"} => next.data = cfg',
         cfg'.accounts # cfg.accounts => next.kind = "accounts" /\ next.pc \in Saving,
         cfg'.keys # cfg.keys => next.kind = "keys" /\ next.pc \in Saving,
         handler[h].pc \in Saving => next.pc \in Saving /\ next.kind = handler[h].kind
  PROVE  IInv'
<1>1. /\ server = "up" /\ handler' = [handler EXCEPT ![h] = next]
      /\ UNCHANGED <<server, edits, boots, promised, trusted, lone>>
  BY DEF Step, historyVars
<1>2. handler'[h] = next /\ \A g \in Handler \ {h} : handler'[g] = handler[g]
  BY <1>1 DEF IInv, Typed, TypeOK
<1>3. Typed'
  <2>1. handler' \in [Handler -> Locals]
    BY <1>1 DEF IInv, Typed, TypeOK
  <2>2. /\ disk' \in [state: {"whole", "torn", "empty"}, data: Configs]
        /\ disk'.state # "whole" => disk'.data = NoConfig
    BY NoConfigTyped DEF IInv, Typed, TypeOK
  <2>3. \A g \in Handler :
          /\ handler'[g].pc \in {"project", "assign"} => handler'[g].kind \in {"accounts", "keys"}
          /\ handler'[g].pc = "append" => handler'[g].cred \in Cred
    BY <1>2 DEF IInv, Typed
  <2>. QED  BY <1>1, <2>1, <2>2, <2>3 DEF IInv, Typed, TypeOK
<1>4. /\ \A g \in Handler : lone = g => g = h
      /\ trusted # {} => lone = h
  BY DEF IInv, Alone
<1>5. Alone'
  BY <1>1, <1>2, <1>4 DEF IInv, Alone, Idle
<1>6. InHand'
  BY <1>1, <1>2, <1>4 DEF InHand
<1>7. InMemory'
  <2>1. /\ "accounts" \in trusted => cfg'.accounts = promised.accounts \/ Renewing("accounts")'
    <3>. SUFFICES ASSUME "accounts" \in trusted, cfg'.accounts # promised.accounts
                  PROVE  Renewing("accounts")'
      OBVIOUS
    <3>1. next.kind = "accounts" /\ next.pc \in Saving
      <4>1. CASE cfg'.accounts = cfg.accounts
        <5>1. Renewing("accounts")
          BY <1>1, <4>1 DEF IInv, InMemory
        <5>. QED  BY <1>4, <5>1 DEF Renewing
      <4>. QED  BY <4>1
    <3>. QED  BY <1>1, <1>2, <1>4, <3>1 DEF Renewing
  <2>2. /\ "keys" \in trusted => cfg'.keys = promised.keys \/ Renewing("keys")'
    <3>. SUFFICES ASSUME "keys" \in trusted, cfg'.keys # promised.keys
                  PROVE  Renewing("keys")'
      OBVIOUS
    <3>1. next.kind = "keys" /\ next.pc \in Saving
      <4>1. CASE cfg'.keys = cfg.keys
        <5>1. Renewing("keys")
          BY <1>1, <4>1 DEF IInv, InMemory
        <5>. QED  BY <1>4, <5>1 DEF Renewing
      <4>. QED  BY <4>1
    <3>. QED  BY <1>1, <1>2, <1>4, <3>1 DEF Renewing
  <2>. QED  BY <1>1, <2>1, <2>2 DEF InMemory
<1>8. OnDisk'
  BY <1>1 DEF IInv, OnDisk
<1>. QED  BY <1>3, <1>5, <1>6, <1>7, <1>8 DEF IInv

----------------------------------------------------------------------------
(* Every action keeps the invariant                                        *)

LEMMA InitIInv == Init => IInv
<1>. SUFFICES ASSUME Init PROVE IInv
  OBVIOUS
<1>1. PICK s \in Setting, c \in Cred :
        disk = [state |-> "whole",
                data |-> [accounts |-> IF Legacy = NoCred THEN <<[cred |-> c, on |-> TRUE]>> ELSE <<>>,
                          legacy |-> Legacy, keys |-> ClientKey, setting |-> s]]
  BY DEF Init
<1>2. disk.data \in Configs /\ disk.state = "whole" /\ disk.data.keys = ClientKey
      /\ disk \in [state: {"whole", "torn", "empty"}, data: Configs]
  <2>. DEFINE list == IF Legacy = NoCred THEN <<[cred |-> c, on |-> TRUE]>> ELSE <<>>
              d == [accounts |-> list, legacy |-> Legacy, keys |-> ClientKey, setting |-> s]
  <2>1. [cred |-> c, on |-> TRUE] \in Account
    BY DEF Account
  <2>2. list \in Seq(Account)
    BY <2>1, EmptySeq
  <2>. HIDE DEF list
  <2>3. d \in Configs /\ d.keys = ClientKey
    BY <2>2, StoreAssumption DEF Configs
  <2>4. disk = [state |-> "whole", data |-> d]
    BY <1>1 DEF list
  <2>. HIDE DEF d
  <2>. QED  BY <2>3, <2>4
<1>3. /\ cfg = Migrated(disk.data) /\ cfg \in Configs /\ promised = Loaded(disk.data)
      /\ accounts = cfg.accounts /\ keys = cfg.keys
      /\ promised \in Promises /\ promised.accounts = cfg.accounts
      /\ promised.keys = disk.data.keys /\ promised.setting = disk.data.setting /\ cfg.keys = disk.data.keys
  BY <1>2, MigratedKeeps, LoadedTyped DEF Init
<1>4. handler \in [Handler -> Locals] /\ \A h \in Handler : handler[h].pc = "idle"
  BY IdleHas DEF Init
<1>5. /\ server = "up" /\ trusted = Field /\ lone = NoOne /\ NoOne \notin Handler
      /\ edits \in 0..MaxEdits /\ boots \in 0..MaxBoots
  BY StoreAssumption DEF Init
<1>6. accounts \in Seq(Account) /\ keys \subseteq ClientKey
  BY <1>3 DEF Configs
<1>7. Typed
  BY <1>2, <1>3, <1>4, <1>5, <1>6 DEF Typed, TypeOK, Promises
<1>8. Alone /\ InHand
  BY <1>4, <1>5 DEF Alone, InHand, Idle
<1>9. InMemory /\ OnDisk
  BY <1>2, <1>3 DEF InMemory, OnDisk
<1>. QED  BY <1>7, <1>8, <1>9 DEF IInv

(* The requests.                                                           *)
LEMMA AccountRequestsKeep ==
  ASSUME IInv, NEW h \in Handler, NEW c \in Cred,
         AddAccount(h, c) \/ PatchAccount(h, c) \/ DeleteAccount(h, c)
  PROVE  IInv'
<1>1. accounts \in Seq(Account) /\ keys \subseteq ClientKey /\ cfg \in Configs
  BY DEF IInv, Typed, TypeOK
<1>2. UNCHANGED <<keys, cfg>>
  BY DEF AddAccount, PatchAccount, DeleteAccount
<1>3. accounts' \in Seq(Account)
  <2>1. CASE AddAccount(h, c)
    BY <1>1, <2>1 DEF AddAccount
  <2>2. CASE PatchAccount(h, c)
    <3>1. /\ c \in Creds(accounts)
          /\ \/ accounts' = [accounts EXCEPT ![Place(accounts, c)].on = ~@]
             \/ accounts' = accounts
      BY <2>2 DEF PatchAccount
    <3>. QED  BY <1>1, <3>1, EditsTyped
  <2>3. CASE DeleteAccount(h, c)
    <3>1. c \in Creds(accounts) /\ accounts' = RemoveAt(accounts, Place(accounts, c))
      BY <2>3 DEF DeleteAccount
    <3>. QED  BY <1>1, <3>1, EditsTyped
  <2>. QED  BY <2>1, <2>2, <2>3
<1>4. CASE Start(h, Holding("append", c)) \/ Start(h, Holding("rekey", c))
  <2>1. PICK next \in {Holding("append", c), Holding("rekey", c)} : Start(h, next)
    BY <1>4
  <2>2. next \in Locals /\ next.pc \in {"append", "rekey"} /\ next.cred \in Cred
    BY HoldingHas
  <2>. QED  BY <1>1, <1>2, <1>3, <2>1, <2>2, StartKeeps
<1>5. CASE Start(h, At("project", "accounts"))
  <2>1. /\ At("project", "accounts") \in Locals
        /\ At("project", "accounts").pc = "project" /\ At("project", "accounts").kind = "accounts"
    BY AtHas DEF Field
  <2>. QED  BY <1>1, <1>2, <1>3, <1>5, <2>1, StartKeeps
<1>. QED  BY <1>4, <1>5 DEF AddAccount, PatchAccount, DeleteAccount

LEMMA EditKeysKeeps ==
  ASSUME IInv, NEW h \in Handler, NEW k \in ClientKey, EditKeys(h, k)
  PROVE  IInv'
<1>1. accounts \in Seq(Account) /\ keys \subseteq ClientKey /\ cfg \in Configs
  BY DEF IInv, Typed, TypeOK
<1>2. UNCHANGED <<accounts, cfg>> /\ keys' \subseteq ClientKey /\ Start(h, At("project", "keys"))
  BY <1>1 DEF EditKeys
<1>3. /\ At("project", "keys") \in Locals
      /\ At("project", "keys").pc = "project" /\ At("project", "keys").kind = "keys"
  BY AtHas DEF Field
<1>. QED  BY <1>1, <1>2, <1>3, StartKeeps

LEMMA SettingRequestsKeep ==
  ASSUME IInv, NEW h \in Handler, NEW s \in Setting, PutModels(h, s) \/ PutSettings(h, s)
  PROVE  IInv'
<1>1. accounts \in Seq(Account) /\ keys \subseteq ClientKey /\ cfg \in Configs
  BY DEF IInv, Typed, TypeOK
<1>2. UNCHANGED <<accounts, keys>> /\ cfg' = [cfg EXCEPT !.setting = s]
  BY DEF PutModels, PutSettings
<1>3. cfg' \in Configs /\ cfg'.accounts = cfg.accounts /\ cfg'.keys = cfg.keys
  BY <1>1, <1>2 DEF Configs
<1>4. CASE Start(h, At("marshal", "setting"))
  <2>1. /\ At("marshal", "setting") \in Locals
        /\ At("marshal", "setting").pc = "marshal" /\ At("marshal", "setting").kind = "setting"
    BY AtHas DEF Field
  <2>. QED  BY <1>1, <1>2, <1>3, <1>4, <2>1, StartKeeps
<1>5. CASE Start(h, At("project", "accounts"))
  <2>1. /\ At("project", "accounts") \in Locals
        /\ At("project", "accounts").pc = "project" /\ At("project", "accounts").kind = "accounts"
    BY AtHas DEF Field
  <2>. QED  BY <1>1, <1>2, <1>3, <1>5, <2>1, StartKeeps
<1>6. CASE Start(h, IdleHandler)
  BY <1>1, <1>2, <1>3, <1>6, IdleHas, StartKeeps
<1>. QED  BY <1>4, <1>5, <1>6 DEF PutModels, PutSettings

(* Their steps up to the file.                                             *)
LEMMA AppendAccountKeeps ==
  ASSUME IInv, NEW h \in Handler, AppendAccount(h)
  PROVE  IInv'
<1>1. /\ handler[h].pc = "append" /\ Step(h, At("project", "accounts"))
      /\ accounts' = Append(accounts, [cred |-> handler[h].cred, on |-> TRUE])
      /\ UNCHANGED <<keys, cfg, disk>>
  BY DEF AppendAccount
<1>2. accounts \in Seq(Account) /\ keys \subseteq ClientKey /\ cfg \in Configs
  BY DEF IInv, Typed, TypeOK
<1>3. accounts' \in Seq(Account)
  <2>1. [cred |-> handler[h].cred, on |-> TRUE] \in Account
    BY <1>1 DEF IInv, Typed, Account
  <2>. QED  BY <1>1, <1>2, <2>1, AppendProperties
<1>4. /\ At("project", "accounts") \in Locals
      /\ At("project", "accounts").pc = "project" /\ At("project", "accounts").kind = "accounts"
  BY AtHas DEF Field
<1>. QED  BY <1>1, <1>2, <1>3, <1>4, StepKeeps DEF Idle, Saving

LEMMA RekeyAccountKeeps ==
  ASSUME IInv, NEW h \in Handler, NEW c \in Cred, RekeyAccount(h, c)
  PROVE  IInv'
<1>1. handler[h].pc = "rekey" /\ UNCHANGED <<keys, cfg, disk>>
  BY DEF RekeyAccount
<1>2. accounts \in Seq(Account) /\ keys \subseteq ClientKey /\ cfg \in Configs
  BY DEF IInv, Typed, TypeOK
<1>3. CASE Step(h, IdleHandler) /\ UNCHANGED accounts
  BY <1>1, <1>2, <1>3, IdleHas, StepKeeps DEF Idle, Saving
<1>4. CASE /\ handler[h].cred \in Creds(accounts)
           /\ accounts' = [accounts EXCEPT ![Place(accounts, handler[h].cred)].cred = c]
           /\ Step(h, At("project", "accounts"))
  <2>1. accounts' \in Seq(Account)
    BY <1>2, <1>4, EditsTyped
  <2>2. /\ At("project", "accounts") \in Locals
        /\ At("project", "accounts").pc = "project" /\ At("project", "accounts").kind = "accounts"
    BY AtHas DEF Field
  <2>. QED  BY <1>1, <1>2, <1>4, <2>1, <2>2, StepKeeps DEF Idle, Saving
<1>. QED  BY <1>3, <1>4 DEF RekeyAccount

LEMMA ProjectKeeps ==
  ASSUME IInv, NEW h \in Handler, Project(h)
  PROVE  IInv'
<1>. DEFINE d == IF handler[h].kind = "keys" THEN [NoConfig EXCEPT !.keys = keys]
                 ELSE [NoConfig EXCEPT !.accounts = accounts]
            next == [handler[h] EXCEPT !.pc = "assign", !.data = d]
<1>1. handler[h].pc = "project" /\ Step(h, next) /\ UNCHANGED <<accounts, keys, cfg, disk>>
  BY DEF Project, storeVars
<1>2. /\ accounts \in Seq(Account) /\ keys \subseteq ClientKey /\ cfg \in Configs
      /\ handler[h] \in Locals /\ handler[h].kind \in {"accounts", "keys"}
  BY <1>1 DEF IInv, Typed, TypeOK
<1>3. /\ d \in Configs
      /\ handler[h].kind = "accounts" => d.accounts = accounts
      /\ handler[h].kind = "keys" => d.keys = keys
  BY <1>2, NoConfigTyped DEF Configs
<1>. HIDE DEF d
<1>4. next \in Locals /\ next.pc = "assign" /\ next.kind = handler[h].kind /\ next.data = d
  BY <1>2, <1>3 DEF Locals
<1>. HIDE DEF next
<1>. QED  BY <1>1, <1>2, <1>3, <1>4, StepKeeps DEF Idle, Saving

LEMMA AssignKeeps ==
  ASSUME IInv, NEW h \in Handler, Assign(h)
  PROVE  IInv'
<1>1. /\ handler[h].pc = "assign" /\ Step(h, At("marshal", handler[h].kind))
      /\ UNCHANGED <<accounts, keys, disk>>
  BY DEF Assign
<1>2. /\ accounts \in Seq(Account) /\ keys \subseteq ClientKey /\ cfg \in Configs
      /\ handler[h].data \in Configs /\ handler[h].kind \in {"accounts", "keys"}
  BY <1>1 DEF IInv, Typed, TypeOK, Locals
<1>3. /\ At("marshal", handler[h].kind) \in Locals
      /\ At("marshal", handler[h].kind).pc = "marshal"
      /\ At("marshal", handler[h].kind).kind = handler[h].kind
  BY <1>2, AtHas DEF Field
<1>4. CASE handler[h].kind = "keys"
  <2>1. cfg' = [cfg EXCEPT !.keys = handler[h].data.keys]
    BY <1>4 DEF Assign
  <2>2. cfg' \in Configs /\ cfg'.accounts = cfg.accounts /\ cfg'.keys = handler[h].data.keys
    BY <1>2, <2>1 DEF Configs
  <2>3. lone = h => cfg'.keys = keys
    BY <1>1, <1>4, <2>2 DEF IInv, InHand
  <2>. QED  BY <1>1, <1>2, <1>3, <1>4, <2>2, <2>3, StepKeeps DEF Idle, Saving
<1>5. CASE handler[h].kind = "accounts"
  <2>. DEFINE config == [cfg EXCEPT !.accounts = handler[h].data.accounts]
  <2>1. cfg' = Cleared(config)
    BY <1>5 DEF Assign
  <2>2. config \in Configs /\ config.keys = cfg.keys /\ config.accounts = handler[h].data.accounts
    BY <1>2 DEF Configs
  <2>. HIDE DEF config
  <2>3. cfg' \in Configs /\ cfg'.keys = cfg.keys /\ cfg'.accounts = handler[h].data.accounts
    BY <2>1, <2>2, ClearedKeeps
  <2>4. lone = h => cfg'.accounts = accounts
    BY <1>1, <1>5, <2>3 DEF IInv, InHand
  <2>. QED  BY <1>1, <1>2, <1>3, <1>5, <2>3, <2>4, StepKeeps DEF Idle, Saving
<1>. QED  BY <1>2, <1>4, <1>5

LEMMA MarshalKeeps ==
  ASSUME IInv, NEW h \in Handler, Marshal(h)
  PROVE  IInv'
<1>. DEFINE next == [At("truncate", handler[h].kind) EXCEPT !.data = Cleared(cfg)]
<1>1. /\ handler[h].pc = "marshal" /\ Step(h, next) /\ cfg' = Cleared(cfg)
      /\ UNCHANGED <<accounts, keys, disk>>
  BY DEF Marshal
<1>2. /\ accounts \in Seq(Account) /\ keys \subseteq ClientKey /\ cfg \in Configs
      /\ handler[h].kind \in Field \cup {"none"}
  BY DEF IInv, Typed, TypeOK, Locals
<1>3. cfg' \in Configs /\ cfg'.accounts = cfg.accounts /\ cfg'.keys = cfg.keys
  BY <1>1, <1>2, ClearedKeeps
<1>4. /\ At("truncate", handler[h].kind) \in Locals /\ At("truncate", handler[h].kind).pc = "truncate"
      /\ At("truncate", handler[h].kind).kind = handler[h].kind
  BY <1>2, AtHas
<1>5. next \in Locals /\ next.pc = "truncate" /\ next.kind = handler[h].kind /\ next.data = cfg'
  BY <1>1, <1>3, <1>4 DEF Locals
<1>. HIDE DEF next
<1>6. lone = h => /\ handler[h].kind = "accounts" => cfg.accounts = accounts
                  /\ handler[h].kind = "keys" => cfg.keys = keys
  BY <1>1 DEF IInv, InHand, Saving
<1>. QED  BY <1>1, <1>2, <1>3, <1>5, <1>6, StepKeeps DEF Idle, Saving

LEMMA TruncateKeeps ==
  ASSUME IInv, NEW h \in Handler, Truncate(h)
  PROVE  IInv'
<1>. DEFINE next == [handler[h] EXCEPT !.pc = "write"]
<1>1. /\ handler[h].pc = "truncate" /\ Step(h, next) /\ disk' = [state |-> "empty", data |-> NoConfig]
      /\ UNCHANGED <<accounts, keys, cfg>>
  BY DEF Truncate
<1>2. /\ accounts \in Seq(Account) /\ keys \subseteq ClientKey /\ cfg \in Configs
      /\ handler[h] \in Locals
  BY DEF IInv, Typed, TypeOK
<1>3. /\ next \in Locals /\ next.pc = "write" /\ next.kind = handler[h].kind
      /\ next.data = handler[h].data
  BY <1>2 DEF Locals
<1>. HIDE DEF next
<1>4. lone = h => /\ handler[h].kind = "accounts" => cfg.accounts = accounts
                  /\ handler[h].kind = "keys" => cfg.keys = keys
                  /\ handler[h].data = cfg
  BY <1>1 DEF IInv, InHand, Saving
<1>. QED  BY <1>1, <1>2, <1>3, <1>4, StepKeeps DEF Idle, Saving

(* The file is written: the fields that are trusted from here on are those *)
(* of the request that ends, which has been alone.                         *)
LEMMA WriteKeeps ==
  ASSUME IInv, NEW h \in Handler, Write(h)
  PROVE  IInv'
<1>1. /\ server = "up" /\ handler[h].pc = "write" /\ disk' \in Written(handler[h].data)
      /\ handler' = [handler EXCEPT ![h] = IdleHandler] /\ Acknowledge(h)
      /\ lone' = IF lone = h THEN NoOne ELSE lone
      /\ UNCHANGED <<accounts, keys, cfg, server, edits, boots>>
  BY DEF Write
<1>2. /\ accounts \in Seq(Account) /\ keys \subseteq ClientKey /\ cfg \in Configs
      /\ handler \in [Handler -> Locals] /\ handler[h].data \in Configs /\ NoOne \notin Handler
  BY StoreAssumption DEF IInv, Typed, TypeOK, Locals
<1>3. handler'[h] = IdleHandler /\ \A g \in Handler \ {h} : handler'[g] = handler[g]
  BY <1>1, <1>2
<1>4. /\ disk' \in [state: {"whole", "torn", "empty"}, data: Configs]
      /\ disk'.state # "whole" => disk'.data = NoConfig
      /\ disk'.state = "whole" => disk'.data = handler[h].data
  BY <1>1, <1>2, NoConfigTyped DEF Written
<1>5. CASE lone # h
  <2>1. trusted = {} /\ UNCHANGED <<promised, trusted, lone>>
    BY <1>1, <1>5 DEF IInv, Alone, Idle, Acknowledge
  <2>2. Typed'
    <3>1. handler' \in [Handler -> Locals]
      BY <1>1, <1>2, IdleHas
    <3>2. \A g \in Handler :
            /\ handler'[g].pc \in {"project", "assign"} => handler'[g].kind \in {"accounts", "keys"}
            /\ handler'[g].pc = "append" => handler'[g].cred \in Cred
      BY <1>3, IdleHas DEF IInv, Typed
    <3>. QED  BY <1>1, <1>4, <2>1, <3>1, <3>2 DEF IInv, Typed, TypeOK
  <2>3. Alone'
    BY <1>1, <1>3, <2>1, IdleHas DEF IInv, Alone, Idle
  <2>4. InHand'
    BY <1>1, <1>3, <1>5, <2>1 DEF IInv, InHand
  <2>5. InMemory' /\ OnDisk'
    BY <2>1 DEF InMemory, OnDisk
  <2>. QED  BY <2>2, <2>3, <2>4, <2>5 DEF IInv
<1>6. CASE lone = h
  <2>1. /\ promised' = [promised EXCEPT
               !.accounts = IF handler[h].kind = "accounts" THEN accounts ELSE @,
               !.keys = IF handler[h].kind = "keys" THEN keys ELSE @,
               !.setting = cfg.setting]
        /\ trusted' = trusted \cup (Field \cap {handler[h].kind, "setting"})
        /\ lone' = NoOne
    BY <1>1, <1>6 DEF Acknowledge
  <2>2. /\ promised' \in Promises /\ promised'.setting = cfg.setting
        /\ promised'.accounts = IF handler[h].kind = "accounts" THEN accounts ELSE promised.accounts
        /\ promised'.keys = IF handler[h].kind = "keys" THEN keys ELSE promised.keys
    BY <1>2, <2>1 DEF IInv, Typed, Promises, Configs
  <2>3. /\ handler[h].kind = "accounts" => cfg.accounts = accounts
        /\ handler[h].kind = "keys" => cfg.keys = keys
        /\ handler[h].data = cfg
    BY <1>1, <1>6 DEF IInv, InHand, Saving
  <2>4. /\ "accounts" \in trusted' => cfg.accounts = promised'.accounts
        /\ "keys" \in trusted' => cfg.keys = promised'.keys
    <3>1. handler[h].kind # "accounts" => ~Renewing("accounts")
      BY <1>6 DEF Renewing
    <3>2. handler[h].kind # "keys" => ~Renewing("keys")
      BY <1>6 DEF Renewing
    <3>3. /\ "accounts" \in trusted' => handler[h].kind = "accounts" \/ "accounts" \in trusted
          /\ "keys" \in trusted' => handler[h].kind = "keys" \/ "keys" \in trusted
      BY <2>1
    <3>. QED  BY <1>1, <2>2, <2>3, <3>1, <3>2, <3>3 DEF IInv, InMemory
  <2>5. \A g \in Handler : handler'[g].pc = "idle"
    BY <1>3, <1>6, IdleHas DEF IInv, Alone, Idle
  <2>6. Typed'
    <3>1. handler' \in [Handler -> Locals]
      BY <1>1, <1>2, IdleHas
    <3>2. trusted' \subseteq Field
      BY <2>1 DEF IInv, Typed, TypeOK
    <3>3. \A g \in Handler :
            /\ handler'[g].pc \in {"project", "assign"} => handler'[g].kind \in {"accounts", "keys"}
            /\ handler'[g].pc = "append" => handler'[g].cred \in Cred
      BY <2>5
    <3>4. promised'.accounts \in Seq(Account) /\ promised'.keys \subseteq ClientKey
      BY <2>2 DEF Promises
    <3>. QED  BY <1>1, <1>4, <2>1, <2>2, <3>1, <3>2, <3>3, <3>4 DEF IInv, Typed, TypeOK
  <2>7. Alone' /\ InHand'
    BY <1>2, <2>1, <2>5 DEF Alone, InHand, Idle
  <2>8. InMemory'
    BY <1>1, <2>4 DEF InMemory
  <2>9. OnDisk'
    <3>1. cfg.accounts # <<>> => Migrated(cfg).accounts = cfg.accounts
      BY <1>2, MigratedKeeps
    <3>2. disk'.state = "whole" => disk'.data = cfg
      BY <1>4, <2>3
    <3>. QED  BY <2>2, <2>4, <3>1, <3>2 DEF OnDisk
  <2>. QED  BY <2>6, <2>7, <2>8, <2>9 DEF IInv
<1>. QED  BY <1>5, <1>6

LEMMA SaveFailsKeeps ==
  ASSUME IInv, NEW h \in Handler, SaveFails(h)
  PROVE  IInv'
<1>1. /\ server = "up" /\ handler[h].pc \in {"truncate", "write"}
      /\ disk' = disk \/ disk' = [state |-> "torn", data |-> NoConfig]
      /\ handler' = [handler EXCEPT ![h] = IdleHandler]
      /\ trusted' = trusted \ {handler[h].kind}
      /\ UNCHANGED <<accounts, keys, cfg, server, edits, boots, promised, lone>>
  BY DEF SaveFails
<1>2. /\ disk' \in [state: {"whole", "torn", "empty"}, data: Configs]
      /\ disk'.state # "whole" => disk'.data = NoConfig
      /\ disk'.state = "whole" => disk' = disk
  BY <1>1, NoConfigTyped DEF IInv, Typed, TypeOK
<1>3. /\ handler' \in [Handler -> Locals]
      /\ handler'[h] = IdleHandler /\ \A g \in Handler \ {h} : handler'[g] = handler[g]
  BY <1>1, IdleHas DEF IInv, Typed, TypeOK
<1>4. Typed'
  <2>1. \A g \in Handler :
          /\ handler'[g].pc \in {"project", "assign"} => handler'[g].kind \in {"accounts", "keys"}
          /\ handler'[g].pc = "append" => handler'[g].cred \in Cred
    BY <1>3, IdleHas DEF IInv, Typed
  <2>. QED  BY <1>1, <1>2, <1>3, <2>1 DEF IInv, Typed, TypeOK
<1>5. Alone'
  BY <1>1, <1>3, IdleHas DEF IInv, Alone, Idle
<1>6. InHand'
  BY <1>1, <1>3, IdleHas DEF IInv, InHand, Saving
<1>7. trusted # {} => lone = h
  BY <1>1 DEF IInv, Alone, Idle
<1>8. InMemory'
  <2>1. "accounts" \in trusted' => cfg.accounts = promised.accounts
    BY <1>1, <1>7 DEF IInv, InMemory, Renewing
  <2>2. "keys" \in trusted' => cfg.keys = promised.keys
    BY <1>1, <1>7 DEF IInv, InMemory, Renewing
  <2>. QED  BY <1>1, <2>1, <2>2 DEF InMemory
<1>9. OnDisk'
  BY <1>1, <1>2 DEF IInv, OnDisk
<1>. QED  BY <1>4, <1>5, <1>6, <1>8, <1>9 DEF IInv

(* The process.                                                            *)
LEMMA CrashKeeps ==
  ASSUME IInv, Crash
  PROVE  IInv'
<1>1. /\ server' = "dead" /\ handler' = [h \in Handler |-> IdleHandler]
      /\ disk' = disk \/ disk' = [state |-> "torn", data |-> NoConfig]
      /\ UNCHANGED <<accounts, keys, cfg, edits, boots, promised, trusted, lone>>
  BY DEF Crash, historyVars
<1>2. /\ disk' \in [state: {"whole", "torn", "empty"}, data: Configs]
      /\ disk'.state # "whole" => disk'.data = NoConfig
      /\ disk'.state = "whole" => disk' = disk
  BY <1>1, NoConfigTyped DEF IInv, Typed, TypeOK
<1>3. /\ handler' \in [Handler -> Locals]
      /\ \A h \in Handler : handler'[h].pc = "idle"
  BY <1>1, IdleHas
<1>4. Typed'
  BY <1>1, <1>2, <1>3 DEF IInv, Typed, TypeOK
<1>5. Alone' /\ InHand' /\ InMemory'
  BY <1>1, <1>3 DEF Alone, InHand, InMemory, Idle, Saving
<1>6. OnDisk'
  BY <1>1, <1>2 DEF IInv, OnDisk
<1>. QED  BY <1>4, <1>5, <1>6 DEF IInv

LEMMA BootKeeps ==
  ASSUME IInv, Boot
  PROVE  IInv'
<1>1. /\ server = "dead" /\ boots' = boots + 1 /\ boots < MaxBoots /\ UNCHANGED <<handler, edits>>
      /\ \A h \in Handler : handler[h].pc = "idle"
  BY DEF Boot, IInv, Alone, Idle
<1>2. boots' \in 0..MaxBoots
  BY <1>1, StoreAssumption DEF IInv, Typed, TypeOK
<1>3. CASE disk.state = "torn"
  <2>1. server' = "refused" /\ UNCHANGED <<accounts, keys, cfg, disk, promised, trusted, lone>>
    BY <1>3 DEF Boot, storeVars, historyVars
  <2>2. Typed'
    BY <1>1, <1>2, <2>1 DEF IInv, Typed, TypeOK
  <2>3. Alone' /\ InHand' /\ InMemory' /\ OnDisk'
    BY <1>1, <2>1 DEF IInv, Alone, InHand, InMemory, OnDisk, Idle, Saving
  <2>. QED  BY <2>2, <2>3 DEF IInv
<1>4. CASE disk.state # "torn"
  <2>1. /\ server' = "up" /\ cfg' = Migrated(disk.data)
        /\ accounts' = cfg'.accounts /\ keys' = cfg'.keys
        /\ disk' = [disk EXCEPT !.state = "whole"]
        /\ promised' = Loaded(disk.data) /\ trusted' = Field /\ lone' = NoOne
    BY <1>4 DEF Boot
  <2>2. disk.data \in Configs /\ disk \in [state: {"whole", "torn", "empty"}, data: Configs]
    BY DEF IInv, Typed, TypeOK
  <2>3. /\ disk' \in [state: {"whole", "torn", "empty"}, data: Configs]
        /\ disk'.state = "whole" /\ disk'.data = disk.data
    BY <2>1, <2>2
  <2>4. /\ cfg' \in Configs /\ promised' \in Promises /\ promised'.accounts = cfg'.accounts
        /\ promised'.keys = disk.data.keys /\ promised'.setting = disk.data.setting
        /\ cfg'.keys = disk.data.keys
    BY <2>1, <2>2, MigratedKeeps, LoadedTyped
  <2>5. accounts' \in Seq(Account) /\ keys' \subseteq ClientKey
    BY <2>1, <2>4 DEF Configs
  <2>6. promised'.accounts \in Seq(Account) /\ promised'.keys \subseteq ClientKey
    BY <2>4 DEF Promises
  <2>7. Typed'
    BY <1>1, <1>2, <2>1, <2>3, <2>4, <2>5, <2>6 DEF IInv, Typed, TypeOK
  <2>8. Alone' /\ InHand'
    BY <1>1, <2>1, StoreAssumption DEF Alone, InHand, Idle
  <2>9. InMemory' /\ OnDisk'
    BY <2>1, <2>3, <2>4 DEF InMemory, OnDisk
  <2>. QED  BY <2>7, <2>8, <2>9 DEF IInv
<1>. QED  BY <1>3, <1>4

LEMMA StutterKeeps == IInv /\ UNCHANGED vars => IInv'
<1>. SUFFICES ASSUME IInv, UNCHANGED vars PROVE IInv'
  OBVIOUS
<1>1. UNCHANGED <<accounts, keys, cfg, disk, handler, server, edits, boots, promised, trusted, lone>>
  BY DEF vars, historyVars
<1>2. Typed'
  BY <1>1 DEF IInv, Typed, TypeOK
<1>3. Alone' /\ InHand' /\ InMemory' /\ OnDisk'
  BY <1>1 DEF IInv, Alone, InHand, InMemory, OnDisk, Renewing, Idle
<1>. QED  BY <1>2, <1>3 DEF IInv

----------------------------------------------------------------------------
(* The theorems                                                            *)

LEMMA NextIInv ==
  ASSUME IInv, [Next]_vars
  PROVE  IInv'
<1>1. ASSUME NEW h \in Handler, NEW c \in Cred,
             AddAccount(h, c) \/ PatchAccount(h, c) \/ RekeyAccount(h, c) \/ DeleteAccount(h, c)
      PROVE  IInv'
  BY <1>1, AccountRequestsKeep, RekeyAccountKeeps
<1>2. ASSUME NEW h \in Handler, NEW k \in ClientKey, EditKeys(h, k)
      PROVE  IInv'
  BY <1>2, EditKeysKeeps
<1>3. ASSUME NEW h \in Handler, NEW s \in Setting, PutModels(h, s) \/ PutSettings(h, s)
      PROVE  IInv'
  BY <1>3, SettingRequestsKeep
<1>4. ASSUME NEW h \in Handler,
             \/ AppendAccount(h) \/ Project(h) \/ Assign(h) \/ Marshal(h)
             \/ Truncate(h) \/ Write(h) \/ SaveFails(h)
      PROVE  IInv'
  BY <1>4, AppendAccountKeeps, ProjectKeeps, AssignKeeps, MarshalKeeps, TruncateKeeps, WriteKeeps,
     SaveFailsKeeps
<1>5. ASSUME Crash \/ Boot \/ UNCHANGED vars
      PROVE  IInv'
  BY <1>5, CrashKeeps, BootKeeps, StutterKeeps
<1>. QED  BY <1>1, <1>2, <1>3, <1>4, <1>5 DEF Next

LEMMA InvHolds == Spec => []IInv
<1>1. Init => IInv
  BY InitIInv
<1>2. IInv /\ [Next]_vars => IInv'
  BY NextIInv
<1>. QED  BY <1>1, <1>2, PTL DEF Spec

(* The pools, the Config and the file keep their types, through requests   *)
(* that overlap, writes that fail and restarts.                            *)
THEOREM TypeCorrect == Spec => []TypeOK
<1>1. IInv => TypeOK
  BY DEF IInv, Typed
<1>. QED  BY <1>1, InvHolds, PTL

(* Only Boot counts a restart.                                             *)
LEMMA OthersDoNotRestart ==
  ASSUME [Next]_vars, boots' # boots
  PROVE  Boot
<1>1. ASSUME NEW h \in Handler, NEW c \in Cred,
             AddAccount(h, c) \/ PatchAccount(h, c) \/ RekeyAccount(h, c) \/ DeleteAccount(h, c)
      PROVE  boots' = boots
  BY <1>1 DEF AddAccount, PatchAccount, RekeyAccount, DeleteAccount, Start, Step
<1>2. ASSUME NEW h \in Handler, NEW k \in ClientKey, EditKeys(h, k)
      PROVE  boots' = boots
  BY <1>2 DEF EditKeys, Start
<1>3. ASSUME NEW h \in Handler, NEW s \in Setting, PutModels(h, s) \/ PutSettings(h, s)
      PROVE  boots' = boots
  BY <1>3 DEF PutModels, PutSettings, Start
<1>4. ASSUME NEW h \in Handler,
             \/ AppendAccount(h) \/ Project(h) \/ Assign(h) \/ Marshal(h)
             \/ Truncate(h) \/ Write(h) \/ SaveFails(h)
      PROVE  boots' = boots
  BY <1>4 DEF AppendAccount, Project, Assign, Marshal, Truncate, Write, SaveFails, Step
<1>5. Crash \/ UNCHANGED vars => boots' = boots
  BY DEF Crash, vars
<1>. QED  BY <1>1, <1>2, <1>3, <1>4, <1>5 DEF Next

(* What the next process starts with is what the console acknowledged      *)
(* last, of every field no overlapping or failed save has touched since    *)
(* (config.go, saveConfig and loadConfig; admin.go, persistPool and        *)
(* persistKeys).                                                           *)
THEOREM RestartKeepsPromiseHolds == Spec => RestartKeepsPromise
<1>1. ASSUME IInv, [Next]_vars
      PROVE  /\ Restarts("accounts") /\ promised.accounts # <<>> => accounts' = promised.accounts
             /\ Restarts("keys") => keys' = promised.keys
             /\ Restarts("setting") => cfg'.setting = promised.setting
  <2>. SUFFICES ASSUME boots' # boots, disk.state = "whole"
                PROVE  /\ "accounts" \in trusted /\ promised.accounts # <<>> => accounts' = promised.accounts
                       /\ "keys" \in trusted => keys' = promised.keys
                       /\ "setting" \in trusted => cfg'.setting = promised.setting
    BY DEF Restarts
  <2>1. Boot
    BY <1>1, OthersDoNotRestart
  <2>2. /\ cfg' = Migrated(disk.data) /\ accounts' = cfg'.accounts /\ keys' = cfg'.keys
    BY <2>1 DEF Boot
  <2>3. disk.data \in Configs
    BY <1>1 DEF IInv, Typed, TypeOK
  <2>4. cfg'.keys = disk.data.keys /\ cfg'.setting = disk.data.setting
    BY <2>2, <2>3, MigratedKeeps
  <2>. QED  BY <1>1, <2>2, <2>4 DEF IInv, OnDisk
<1>. QED  BY <1>1, InvHolds, PTL DEF Spec, RestartKeepsPromise
=============================================================================
