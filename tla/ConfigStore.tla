---------------------------- MODULE ConfigStore ----------------------------
(***************************************************************************)
(* The console's handlers that edit the account pool, the client keys and  *)
(* the settings (admin.go), the Config they share (config.go) and          *)
(* config.yaml, through crashes, failed writes and restarts.               *)
(*                                                                         *)
(* A handler edits a pool, copies the pool into the Config, marshals the   *)
(* Config under its lock, and truncates and writes the file; nothing keeps *)
(* two handlers apart.  The settings stand for all fields that live in the *)
(* Config alone.  A torn file is refused at the start, an empty one is the *)
(* empty configuration; a prefix that happens to parse is left out, and so *)
(* are names and the legacy client key, which is treated like the legacy   *)
(* account.                                                                *)
(***************************************************************************)
EXTENDS Integers, SequencesExt

CONSTANTS
  Cred,       \* keys of accounts, and the ids that derive from them
  NoCred,
  ClientKey,  \* local keys
  Setting,    \* values of the settings
  NoSetting,  \* those of an empty file
  Legacy,     \* the legacy api_key of the first config.yaml, or NoCred
  Handler,    \* requests to the console that may overlap
  NoOne,
  MaxEdits,   \* bound: requests
  MaxBoots    \* bound: restarts

ASSUME StoreAssumption ==
  /\ NoCred \notin Cred /\ Legacy \in Cred \cup {NoCred}
  /\ NoSetting \notin Setting /\ NoOne \notin Handler
  /\ MaxEdits \in Nat /\ MaxBoots \in Nat

VARIABLES
  accounts,  \* the pool, in order
  keys,      \* the client keys
  cfg,       \* the Config in memory
  disk,      \* config.yaml: whole, torn or empty, and what it says
  handler,   \* the requests under way
  server,    \* up, dead or refused (the file does not parse)
  edits, boots

VARIABLES    \* history
  promised,  \* what the last request of each kind that ran alone has acknowledged
  trusted,   \* the fields of promised that no overlapping or failed save has touched since
  lone       \* the one request under way, if it has been alone so far

storeVars == <<accounts, keys, cfg, disk>>
historyVars == <<promised, trusted, lone>>
vars == <<accounts, keys, cfg, disk, handler, server, edits, boots, historyVars>>

Field == {"accounts", "keys", "setting"}
Account == [cred: Cred, on: BOOLEAN]
Configs == [accounts: Seq(Account), legacy: Cred \cup {NoCred}, keys: SUBSET ClientKey,
            setting: Setting \cup {NoSetting}]

NoConfig == [accounts |-> <<>>, legacy |-> NoCred, keys |-> {}, setting |-> NoSetting]
IdleHandler == [pc |-> "idle", kind |-> "none", cred |-> NoCred, data |-> NoConfig]

Creds(list) == {list[i].cred : i \in DOMAIN list}
Place(list, c) == CHOOSE i \in DOMAIN list : list[i].cred = c /\ \A k \in 1..(i - 1) : list[k].cred # c

(* Non-empty lists are the source of truth: the legacy field is cleared.   *)
Cleared(config) == IF config.accounts # <<>> THEN [config EXCEPT !.legacy = NoCred] ELSE config

(* Mutant: an absent legacy field becomes an account, too.                 *)
MigratedAlways(config) ==
  IF config.accounts = <<>>
  THEN [config EXCEPT !.accounts = <<[cred |-> config.legacy, on |-> TRUE]>>] ELSE config

(* loadConfig: the legacy field becomes an account when there is none.     *)
Migrated(config) ==
  IF config.accounts = <<>> /\ config.legacy # NoCred
  THEN [config EXCEPT !.accounts = <<[cred |-> config.legacy, on |-> TRUE]>>] ELSE config

(* A process starts from a configuration.                                  *)
Loaded(config) == [accounts |-> Migrated(config).accounts, keys |-> config.keys, setting |-> config.setting]

Init ==
  /\ \E s \in Setting, c \in Cred :
       disk = [state |-> "whole",
               data |-> [accounts |-> IF Legacy = NoCred THEN <<[cred |-> c, on |-> TRUE]>> ELSE <<>>,
                         legacy |-> Legacy, keys |-> ClientKey, setting |-> s]]
  /\ cfg = Migrated(disk.data)
  /\ accounts = cfg.accounts /\ keys = cfg.keys
  /\ handler = [h \in Handler |-> IdleHandler]
  /\ server = "up" /\ edits = 0 /\ boots = 0
  /\ promised = Loaded(disk.data) /\ trusted = Field /\ lone = NoOne

----------------------------------------------------------------------------
(* Requests.  One that starts while another is under way overlaps it.      *)

Start(h, next) ==
  /\ server = "up" /\ handler[h].pc = "idle" /\ edits < MaxEdits
  /\ edits' = edits + 1
  /\ handler' = [handler EXCEPT ![h] = next]
  /\ LET alone == \A g \in Handler : handler[g].pc = "idle"
     IN /\ lone' = IF alone THEN h ELSE NoOne
        /\ trusted' = IF alone THEN trusted ELSE {}
  /\ UNCHANGED <<disk, server, boots, promised>>

At(pc, kind) == [IdleHandler EXCEPT !.pc = pc, !.kind = kind]
Holding(pc, c) == [IdleHandler EXCEPT !.pc = pc, !.kind = "accounts", !.cred = c]

Step(h, next) ==
  /\ server = "up"
  /\ handler' = [handler EXCEPT ![h] = next]
  /\ UNCHANGED <<server, edits, boots, historyVars>>

(* POST account: Add looks for a duplicate (409) ...                       *)
AddAccount(h, c) ==
  /\ c \notin Creds(accounts)
  /\ Start(h, Holding("append", c))
  /\ UNCHANGED <<accounts, keys, cfg>>

(* ... and appends under the lock.                                         *)
AppendAccount(h) ==
  /\ handler[h].pc = "append"
  /\ accounts' = Append(accounts, [cred |-> handler[h].cred, on |-> TRUE])
  /\ Step(h, At("project", "accounts"))
  /\ UNCHANGED <<keys, cfg, disk>>

(* PATCH account: SetEnabled first, then the new key, if the request has   *)
(* one.                                                                    *)
PatchAccount(h, c) ==
  /\ c \in Creds(accounts)
  /\ \/ /\ accounts' = [accounts EXCEPT ![Place(accounts, c)].on = ~@]
        /\ Start(h, At("project", "accounts")) \/ Start(h, Holding("rekey", c))
     \/ Start(h, Holding("rekey", c)) /\ UNCHANGED accounts
  /\ UNCHANGED <<keys, cfg>>

(* SetKey under the lock; a duplicate or an unknown id ends the request    *)
(* with 409, the flag set and nothing saved.                               *)
RekeyAccount(h, c) ==
  /\ handler[h].pc = "rekey"
  /\ LET old == handler[h].cred
     IN IF old \in Creds(accounts) /\ (c = old \/ c \notin Creds(accounts))
        THEN /\ accounts' = [accounts EXCEPT ![Place(accounts, old)].cred = c]
             /\ Step(h, At("project", "accounts"))
        ELSE /\ Step(h, IdleHandler)
             /\ UNCHANGED accounts
  /\ UNCHANGED <<keys, cfg, disk>>

(* DELETE account: the first of that id.                                   *)
DeleteAccount(h, c) ==
  /\ c \in Creds(accounts)
  /\ accounts' = RemoveAt(accounts, Place(accounts, c))
  /\ Start(h, At("project", "accounts"))
  /\ UNCHANGED <<keys, cfg>>

(* POST and DELETE of a client key.                                        *)
EditKeys(h, k) ==
  /\ keys' = IF k \in keys THEN keys \ {k} ELSE keys \cup {k}
  /\ Start(h, At("project", "keys"))
  /\ UNCHANGED <<accounts, cfg>>

(* PUT models writes the Config alone.                                     *)
PutModels(h, s) ==
  /\ cfg' = [cfg EXCEPT !.setting = s]
  /\ Start(h, At("marshal", "setting"))
  /\ UNCHANGED <<accounts, keys>>

(* PUT settings applies the excluded models before an empty base_url is    *)
(* refused (400), and copies the pool into the Config otherwise.           *)
PutSettings(h, s) ==
  /\ cfg' = [cfg EXCEPT !.setting = s]
  /\ Start(h, At("project", "accounts")) \/ Start(h, IdleHandler)
  /\ UNCHANGED <<accounts, keys>>

----------------------------------------------------------------------------
(* persistPool and persistKeys                                             *)

(* SyncToConfig: the pool's list is made under the pool's lock ...         *)
Project(h) ==
  /\ handler[h].pc = "project"
  /\ Step(h, [handler[h] EXCEPT !.pc = "assign",
                !.data = IF handler[h].kind = "keys" THEN [NoConfig EXCEPT !.keys = keys]
                         ELSE [NoConfig EXCEPT !.accounts = accounts]])
  /\ UNCHANGED storeVars

(* Mutant: the pool is not copied into the Config.                         *)
AssignNothing(h) ==
  /\ handler[h].pc = "assign"
  /\ Step(h, At("marshal", handler[h].kind))
  /\ UNCHANGED storeVars

(* ... and assigned to the Config under no lock.                           *)
Assign(h) ==
  /\ handler[h].pc = "assign"
  /\ cfg' = IF handler[h].kind = "keys" THEN [cfg EXCEPT !.keys = handler[h].data.keys]
            ELSE Cleared([cfg EXCEPT !.accounts = handler[h].data.accounts])
  /\ Step(h, At("marshal", handler[h].kind))
  /\ UNCHANGED <<accounts, keys, disk>>

(* saveConfig: marshalled under the Config's lock.                         *)
Marshal(h) ==
  /\ handler[h].pc = "marshal"
  /\ cfg' = Cleared(cfg)
  /\ Step(h, [At("truncate", handler[h].kind) EXCEPT !.data = Cleared(cfg)])
  /\ UNCHANGED <<accounts, keys, disk>>

(* WriteFile opens and truncates the file ...                              *)
Truncate(h) ==
  /\ handler[h].pc = "truncate"
  /\ disk' = [state |-> "empty", data |-> NoConfig]
  /\ Step(h, [handler[h] EXCEPT !.pc = "write"])
  /\ UNCHANGED <<accounts, keys, cfg>>

(* What a write leaves: over another request's other bytes it may leave    *)
(* the end of the longer ones.                                             *)
Written(data) ==
  {[state |-> "whole", data |-> data]}
  \cup IF disk.state = "empty" \/ disk.data = data THEN {} ELSE {[state |-> "torn", data |-> NoConfig]}

(* A request that has been alone from its start is trusted from its 2xx on.*)
Acknowledge(h) ==
  LET kind == handler[h].kind
      fresh == Field \cap {kind, "setting"}
  IN IF lone = h
     THEN /\ promised' = [promised EXCEPT
                 !.accounts = IF kind = "accounts" THEN accounts ELSE @,
                 !.keys = IF kind = "keys" THEN keys ELSE @,
                 !.setting = cfg.setting]
          /\ trusted' = trusted \cup fresh
     ELSE UNCHANGED <<promised, trusted>>

(* ... and writes it, which ends the request with success.                 *)
Write(h) ==
  /\ server = "up"
  /\ handler[h].pc = "write"
  /\ disk' \in Written(handler[h].data)
  /\ handler' = [handler EXCEPT ![h] = IdleHandler]
  /\ Acknowledge(h)
  /\ lone' = IF lone = h THEN NoOne ELSE lone
  /\ UNCHANGED <<accounts, keys, cfg, server, edits, boots>>

(* Opening fails and leaves the file alone, or writing fails half way; the *)
(* request ends with 500, its edit in force and in the Config, where the   *)
(* next save of any kind finds it.                                         *)
SaveFails(h) ==
  /\ server = "up"
  /\ \/ handler[h].pc = "truncate" /\ UNCHANGED disk
     \/ handler[h].pc = "write" /\ disk' = [state |-> "torn", data |-> NoConfig]
  /\ handler' = [handler EXCEPT ![h] = IdleHandler]
  /\ trusted' = trusted \ {handler[h].kind}
  /\ UNCHANGED <<accounts, keys, cfg, server, edits, boots, promised, lone>>

----------------------------------------------------------------------------
(* The process                                                             *)

(* The process ends; a write under way may be cut short.                   *)
Crash ==
  /\ server = "up"
  /\ server' = "dead"
  /\ handler' = [h \in Handler |-> IdleHandler]
  /\ \/ UNCHANGED disk
     \/ /\ \E h \in Handler : handler[h].pc = "write"
        /\ disk' = [state |-> "torn", data |-> NoConfig]
  /\ UNCHANGED <<accounts, keys, cfg, edits, boots, historyVars>>

(* main.  An empty file has no password: one is generated, and the empty   *)
(* configuration is saved.                                                 *)
Boot ==
  /\ server = "dead" /\ boots < MaxBoots
  /\ boots' = boots + 1
  /\ IF disk.state = "torn"
     THEN /\ server' = "refused"
          /\ UNCHANGED <<storeVars, historyVars>>
     ELSE /\ server' = "up"
          /\ cfg' = Migrated(disk.data)
          /\ accounts' = cfg'.accounts /\ keys' = cfg'.keys
          /\ disk' = [disk EXCEPT !.state = "whole"]
          /\ promised' = Loaded(disk.data) /\ trusted' = Field /\ lone' = NoOne
  /\ UNCHANGED <<handler, edits>>

Next ==
  \/ \E h \in Handler, c \in Cred :
       AddAccount(h, c) \/ PatchAccount(h, c) \/ RekeyAccount(h, c) \/ DeleteAccount(h, c)
  \/ \E h \in Handler, k \in ClientKey : EditKeys(h, k)
  \/ \E h \in Handler, s \in Setting : PutModels(h, s) \/ PutSettings(h, s)
  \/ \E h \in Handler : \/ AppendAccount(h) \/ Project(h) \/ Assign(h) \/ Marshal(h)
                        \/ Truncate(h) \/ Write(h) \/ SaveFails(h)
  \/ Crash \/ Boot

Spec == Init /\ [][Next]_vars

----------------------------------------------------------------------------
Locals == [pc: {"idle", "append", "rekey", "project", "assign", "marshal", "truncate", "write"},
           kind: Field \cup {"none"}, cred: Cred \cup {NoCred}, data: Configs]

TypeOK ==
  /\ accounts \in Seq(Account) /\ keys \subseteq ClientKey
  /\ cfg \in Configs
  /\ disk \in [state: {"whole", "torn", "empty"}, data: Configs]
  /\ disk.state # "whole" => disk.data = NoConfig
  /\ handler \in [Handler -> Locals]
  /\ server \in {"up", "dead", "refused"}
  /\ promised.accounts \in Seq(Account) /\ promised.keys \subseteq ClientKey
  /\ trusted \subseteq Field /\ lone \in Handler \cup {NoOne}
  /\ edits \in 0..MaxEdits /\ boots \in 0..MaxBoots

(* What the console was told is saved is what the next process starts with *)
(* (README.md, "changes apply immediately and persist here"): for every    *)
(* kind of request, as the last one that ran alone left it, whatever was   *)
(* refused, failed or overlapped before it, and however the next request   *)
(* ended.  Excepted are files cut short or mangled and, for a pool without *)
(* accounts, the legacy key (DeletedStaysDeleted).                         *)
Restarts(field) == boots' # boots /\ disk.state = "whole" /\ field \in trusted

RestartKeepsPromise ==
  [][ /\ Restarts("accounts") /\ promised.accounts # <<>> => accounts' = promised.accounts
      /\ Restarts("keys") => keys' = promised.keys
      /\ Restarts("setting") => cfg'.setting = promised.setting ]_vars

(* A restart brings no deleted account back (accounts.go: the legacy field *)
(* is cleared "so a deleted account cannot resurrect from the stale        *)
(* field").                                                                *)
DeletedStaysDeleted ==
  [][Restarts("accounts") => Creds(accounts') \subseteq Creds(promised.accounts)]_vars

=============================================================================
