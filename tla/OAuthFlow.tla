------------------------------ MODULE OAuthFlow ------------------------------
(***************************************************************************)
(* The OAuth login (oauth.go) and the admin handlers that drive it         *)
(* (admin.go): at most one current flow; a goroutine per flow that waits   *)
(* for a callback, a cancellation or the timeout and then adds the         *)
(* account; callback and cancel handlers that run beside it.               *)
(*                                                                         *)
(* A flow is its own state token.  A flow started with a callback URL is   *)
(* answered on the gateway's public endpoint ("web"); the others listen on *)
(* 127.0.0.1 ("local").  Saving the configuration after the account is     *)
(* added is ConfigStore's AppendAccount and Project.                       *)
(***************************************************************************)
EXTENDS Naturals

CONSTANTS
    Flow,       \* flows one server lifetime may start; also the state tokens
    ApiKey,     \* keys a callback may carry
    Caller,     \* callback and cancel requests that may be under way together
    Transport   \* of the flows that are started: a subset of {"web", "local"}

CONSTANTS NoFlow, NoKey

ASSUME OAuthConstants ==
    /\ NoFlow \notin Flow /\ NoKey \notin ApiKey
    /\ Transport \subseteq {"web", "local"}

VARIABLES
    current,    \* webOAuthFlow
    flow,       \* [Flow -> the OAuthFlow and its waiting goroutine]
    lost,       \* [Flow -> what sits in the local listener's own channels]
    caller,     \* [Caller -> where its handler is, on which flow, with which key]
    oauthPool,  \* keys the pool has accounts for
    answered    \* [Flow -> keys whose callback with that token got "success"]

oauthVars == <<current, flow, lost, caller, oauthPool, answered>>

Unstarted ==
    [transport |-> "none", done |-> FALSE, result |-> NoKey, err |-> FALSE,
     resultCh |-> NoKey, errCh |-> FALSE,
     waiter |-> "none", got |-> NoKey, outcome |-> "none"]

Idle == [at |-> "idle", flow |-> NoFlow, state |-> NoFlow, key |-> NoKey]

OAuthInit ==
    /\ current = NoFlow
    /\ flow = [f \in Flow |-> Unstarted]
    /\ lost = [f \in Flow |-> NoKey]
    /\ caller = [c \in Caller |-> Idle]
    /\ oauthPool = {}
    /\ answered = [f \in Flow |-> {}]

(* StateName: a flow whose done channel is closed has failed if an error   *)
(* was recorded and succeeded otherwise.                                   *)
StateName(f) ==
    IF ~ flow[f].done THEN "pending"
    ELSE IF flow[f].err THEN "failed" ELSE "success"

CurrentIsPending == current # NoFlow /\ StateName(current) = "pending"

(* POST oauth/start, under webOAuthMu: a pending flow is kept, otherwise a *)
(* new one takes its place and its goroutine starts to wait.               *)
StartFlow(f, transport) ==
    /\ flow[f].waiter = "none"
    /\ ~ CurrentIsPending
    /\ current' = f
    /\ flow' = [flow EXCEPT ![f].transport = transport, ![f].waiter = "waiting"]
    /\ UNCHANGED <<lost, caller, oauthPool, answered>>

-----------------------------------------------------------------------------
(* The handlers.  Callback picks up the current flow; one that carries an  *)
(* error instead of a key goes on to Cancel.  A flow that is not pending   *)
(* is refused and changes nothing.                                         *)
Callback(c, state, key) ==
    /\ caller[c] = Idle
    /\ CurrentIsPending
    /\ caller' = [caller EXCEPT ![c] =
          [at |-> "check", flow |-> current, state |-> state, key |-> key]]
    /\ UNCHANGED <<current, flow, lost, oauthPool, answered>>

(* POST oauth/cancel, or a callback with ?error=, on a pending flow.       *)
BeginCancel(c) ==
    /\ caller[c] = Idle
    /\ CurrentIsPending
    /\ caller' = [caller EXCEPT ![c] = [Idle EXCEPT !.at = "cancel", !.flow = current]]
    /\ UNCHANGED <<current, flow, lost, oauthPool, answered>>

(* deliver, first half: still pending, and the right token?                *)
Check(c) ==
    /\ caller[c].at = "check"
    /\ caller' = [caller EXCEPT ![c] =
          IF flow[@.flow].done \/ @.state # @.flow THEN Idle ELSE [@ EXCEPT !.at = "store"]]
    /\ UNCHANGED <<current, flow, lost, oauthPool, answered>>

StoreResult(c) ==
    /\ caller[c].at = "store"
    /\ flow' = [flow EXCEPT ![caller[c].flow].result = caller[c].key]
    /\ caller' = [caller EXCEPT ![c].at = "close"]
    /\ UNCHANGED <<current, lost, oauthPool, answered>>

(* Cancel, first half: the error goes to the channel if there is room.     *)
PushCancel(c) ==
    /\ caller[c].at = "cancel"
    /\ flow' = [flow EXCEPT ![caller[c].flow].errCh = TRUE]
    /\ caller' = [caller EXCEPT ![c].at = "close"]
    /\ UNCHANGED <<current, lost, oauthPool, answered>>

(* finish(nil) of deliver and of Cancel: the done channel is closed once.  *)
FinishNil(c) ==
    /\ caller[c].at = "close"
    /\ flow' = [flow EXCEPT ![caller[c].flow].done = TRUE]
    /\ caller' = [caller EXCEPT ![c] = IF @.key = NoKey THEN Idle ELSE [@ EXCEPT !.at = "push"]]
    /\ UNCHANGED <<current, lost, oauthPool, answered>>

(* The rest of deliver: the result goes to the waiter if there is room,    *)
(* and the caller is told of success in either case.                       *)
PushResult(c) ==
    /\ caller[c].at = "push"
    /\ flow' = [flow EXCEPT ![caller[c].flow].resultCh = IF @ = NoKey THEN caller[c].key ELSE @]
    /\ answered' = [answered EXCEPT ![caller[c].flow] = @ \cup {caller[c].key}]
    /\ caller' = [caller EXCEPT ![c] = Idle]
    /\ UNCHANGED <<current, lost, oauthPool>>

(* The callback server on 127.0.0.1, open until the flow is done: it       *)
(* answers success for any token and pushes to a channel of its own, which *)
(* nobody reads.  A second callback blocks on the full channel, and its    *)
(* answer never leaves the buffer.                                         *)
LocalCallback(f, state, key) ==
    /\ flow[f].transport = "local" /\ ~ flow[f].done
    /\ lost[f] = NoKey
    /\ lost' = [lost EXCEPT ![f] = key]
    /\ answered' = IF state = f THEN [answered EXCEPT ![f] = @ \cup {key}] ELSE answered
    /\ UNCHANGED <<current, flow, caller, oauthPool>>

-----------------------------------------------------------------------------
(* The goroutine: Wait takes a result, whose token deliver has compared    *)
(* already (Wait compares it again) ...                                    *)
TakeResult(f) ==
    /\ flow[f].waiter = "waiting"
    /\ flow[f].resultCh # NoKey
    /\ flow' = [flow EXCEPT ![f].result = flow[f].resultCh, ![f].resultCh = NoKey,
                 ![f].got = flow[f].resultCh, ![f].done = TRUE, ![f].waiter = "adding"]
    /\ UNCHANGED <<current, lost, caller, oauthPool, answered>>

(* Mutant: finish records the error inside closeOnce.                      *)
FailedOnce(f) == [f EXCEPT !.err = @ \/ ~ f.done, !.waiter = "closing"]

(* finish(err) records an error also when the flow is done already; which  *)
(* error it is, is wording.                                                *)
Failed(f) == [f EXCEPT !.err = TRUE, !.waiter = "closing"]

(* ... or the cancellation ...                                             *)
TakeError(f) ==
    /\ flow[f].waiter = "waiting"
    /\ flow[f].errCh
    /\ flow' = [flow EXCEPT ![f] = [Failed(@) EXCEPT !.errCh = FALSE]]
    /\ UNCHANGED <<current, lost, caller, oauthPool, answered>>

(* ... or runs out of time; select picks any that is ready.                *)
TimeOut(f) ==
    /\ flow[f].waiter = "waiting"
    /\ flow' = [flow EXCEPT ![f] = Failed(@)]
    /\ UNCHANGED <<current, lost, caller, oauthPool, answered>>

FinishErr(f) ==
    /\ flow[f].waiter = "closing"
    /\ flow' = [flow EXCEPT ![f].done = TRUE, ![f].waiter = "ended"]
    /\ UNCHANGED <<current, lost, caller, oauthPool, answered>>

(* The account is added; a key the pool already has is refused.            *)
AddOAuthAccount(f) ==
    /\ flow[f].waiter = "adding"
    /\ flow' = [flow EXCEPT ![f].waiter = "ended",
                   ![f].outcome = IF flow[f].got \in oauthPool THEN "refused" ELSE "added"]
    /\ oauthPool' = oauthPool \cup {flow[f].got}
    /\ UNCHANGED <<current, lost, caller, answered>>

Wait(f) == TakeResult(f) \/ TakeError(f) \/ TimeOut(f) \/ FinishErr(f) \/ AddOAuthAccount(f)

Handle(c) == Check(c) \/ StoreResult(c) \/ PushCancel(c) \/ FinishNil(c) \/ PushResult(c)

OAuthNext ==
    \/ \E f \in Flow, t \in Transport : StartFlow(f, t)
    \/ \E c \in Caller, s \in Flow, k \in ApiKey : Callback(c, s, k)
    \/ \E f, s \in Flow, k \in ApiKey : LocalCallback(f, s, k)
    \/ \E c \in Caller : BeginCancel(c) \/ Handle(c)
    \/ \E f \in Flow : Wait(f)

(* The goroutine is scheduled, and its timer fires.                        *)
OAuthFairness == \A f \in Flow : WF_oauthVars(Wait(f))

OAuthSpec == OAuthInit /\ [][OAuthNext]_oauthVars /\ OAuthFairness

-----------------------------------------------------------------------------
OAuthTypeOK ==
    /\ current \in Flow \cup {NoFlow}
    /\ \A f \in Flow :
          /\ flow[f].transport \in Transport \cup {"none"}
          /\ {flow[f].done, flow[f].errCh, flow[f].err} \subseteq BOOLEAN
          /\ {flow[f].result, flow[f].resultCh, flow[f].got} \subseteq ApiKey \cup {NoKey}
          /\ flow[f].waiter \in {"none", "waiting", "closing", "adding", "ended"}
          /\ flow[f].outcome \in {"none", "added", "refused"}
    /\ lost \in [Flow -> ApiKey \cup {NoKey}]
    /\ \A c \in Caller :
          /\ caller[c].at \in {"idle", "check", "store", "cancel", "close", "push"}
          /\ caller[c].flow \in Flow \cup {NoFlow}
    /\ oauthPool \subseteq ApiKey
    /\ answered \in [Flow -> SUBSET ApiKey]

(* At rest, the status a flow shows is what became of it: "failed" exactly *)
(* if its goroutine gave up, "success" exactly if it went to the pool.     *)
(* While Cancel is under way the status may say "success" for a moment;    *)
(* and callbacks, cancellation and the timeout may meet in any order.      *)
SettledRight(f) ==
    /\ flow[f].waiter = "ended"
    /\ StateName(f) = IF flow[f].outcome = "none" THEN "failed" ELSE "success"

(* Every flow that is started settles, and shows what became of it from    *)
(* then on, whatever callbacks still arrive.                               *)
FlowSettles ==
    \A f \in Flow : flow[f].waiter # "none" ~> [](SettledRight(f))

(* A callback with the flow's own token that is answered "success" has     *)
(* reached the flow: its result is set.                                    *)
AnswerReachesFlow ==
    \A f \in Flow : answered[f] # {} => flow[f].result # NoKey
=============================================================================
