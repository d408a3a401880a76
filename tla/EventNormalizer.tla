-------------------------- MODULE EventNormalizer --------------------------
(***************************************************************************)
(* ccEventNormalizer (events.go): what one event of the upstream's answer  *)
(* does to the state of a turn, and what it passes on to the handler.      *)
(* Both handlers, the streaming and the collecting one, drive one of their *)
(* own.                                                                    *)
(*                                                                         *)
(* Two kinds of event speak of tool calls.  A tool-call event is           *)
(* authoritative: it is validated and kept until the finish event releases *)
(* it.  The tool-input events only announce a call that is being written;  *)
(* their buffers are provisional and never leave the normalizer, so only   *)
(* the ids of the open ones are modelled.                                  *)
(***************************************************************************)
EXTENDS Integers, SequencesExt, Subsequence

CONSTANTS
  CallId,    \* tool call ids
  NoId,      \* the missing or blank id
  Args,      \* tool names with their arguments, complete JSON objects
  BadArgs,   \* anything toolCallFromEvent rejects: no input, no object, no name
  Text,      \* payloads of the text and reasoning deltas, "" among them
  Usage,     \* usage reports: [tokens, cached]
  NoUsage,   \* an event without a usage report
  FinishWords,  \* finish reasons as the upstream spells them
  NoDetails  \* a report without inputTokenDetails

ASSUME NormalizerAssumption ==
  /\ NoId \notin CallId
  /\ BadArgs \notin Args
  /\ Usage \subseteq [tokens: Nat, cached: Nat \cup {NoDetails}]
  /\ NoUsage \notin [tokens: Nat, cached: Nat \cup {NoDetails}]
  /\ NoDetails \notin Nat

----------------------------------------------------------------------------
(* Events                                                                  *)

StopWords   == {"stop", "end", "end_turn"}
CallWords   == {"tool-calls", "tool_calls", "tool_use", "function_call"}
LengthWords == {"max_tokens", "max_output_tokens", "length"}

DeltaEvents == [type: {"text-delta", "reasoning-delta"}, text: Text]
CallEvents  == [type: {"tool-call"}, id: CallId \cup {NoId}, args: Args \cup {BadArgs}]
InputEvents == [type: {"tool-input-start", "tool-input-delta", "tool-input-end",
                       "tool-input-available", "tool-error"},
                id: CallId \cup {NoId}]
StepEvents  == [type: {"finish-step"}, usage: Usage \cup {NoUsage}]
(* rawFinishReason counts only when finishReason is blank.                 *)
FinishEvents == {ev \in [type: {"finish"}, reason: FinishWords, raw: FinishWords,
                         usage: Usage \cup {NoUsage}] :
                   ev.reason = "" \/ ev.raw = ""}
PlainEvents == [type: {"text-end", "reasoning-end", "start", "error"}]

Events == DeltaEvents \cup CallEvents \cup InputEvents \cup StepEvents
            \cup FinishEvents \cup PlainEvents

Calls == [id: CallId, args: Args]

(* normalizeFinishReason; anything else is an error of the stream.         *)
Reasons == {"stop", "tool_calls", "length", "content_filter"}

NormalizeFinishReason(word) ==
  IF word \in StopWords THEN "stop"
  ELSE IF word \in CallWords THEN "tool_calls"
  ELSE IF word \in LengthWords THEN "length"
  ELSE IF word = "content_filter" THEN "content_filter"
  ELSE "error"

(* Mutant: calls hide that the answer was cut off.                         *)
ResolveCallsFirst(reason, hasToolCalls, truncated) ==
  IF reason = "content_filter" THEN reason
  ELSE IF hasToolCalls THEN "tool_calls"
  ELSE IF truncated THEN "length"
  ELSE reason

(* resolveFinishReason: what the client is told.                           *)
ResolveFinishReason(reason, hasToolCalls, truncated) ==
  IF truncated THEN "length"
  ELSE IF reason = "content_filter" THEN reason
  ELSE IF hasToolCalls THEN "tool_calls"
  ELSE reason

----------------------------------------------------------------------------
(* The normalizer's state                                                  *)

Normalizers == [pending: Seq(CallId),   \* toolInputOrder, the keys of toolInputBuf
                kept: Seq(Calls),       \* toolCalls.kept
                usage: [tokens: Nat, cached: Nat],
                finished: BOOLEAN]

NewNormalizer == [pending |-> <<>>, kept |-> <<>>,
                  usage |-> [tokens |-> 0, cached |-> 0], finished |-> FALSE]

(* Mutant: the last call with an id wins.                                  *)
AddCallLastWins(kept, call) ==
  IF \E i \in DOMAIN kept : kept[i].id = call.id
    THEN [i \in DOMAIN kept |-> IF kept[i].id = call.id THEN call ELSE kept[i]]
    ELSE Append(kept, call)

(* toolCallDeduper.Add: the first call with an id stays, in order of first *)
(* sight.                                                                  *)
AddCall(kept, call) ==
  IF \E i \in DOMAIN kept : kept[i].id = call.id THEN kept ELSE Append(kept, call)

(* Mutants: a report is taken over as it is; one without details keeps the *)
(* details of the one before.                                              *)
SetUsageRaw(n, u) == IF u = NoUsage THEN n ELSE [n EXCEPT !.usage = u]

SetUsageKeepsCache(n, u) ==
  IF u = NoUsage THEN n
  ELSE [n EXCEPT !.usage = [tokens |-> u.tokens,
                            cached |-> IF u.cached = NoDetails THEN @.cached ELSE u.cached]]

(* setUsage: a report replaces the earlier one as a whole.                 *)
SetUsage(n, u) ==
  IF u = NoUsage THEN n
  ELSE [n EXCEPT !.usage = [tokens |-> u.tokens,
                            cached |-> IF u.cached = NoDetails THEN 0 ELSE u.cached]]

TrackToolInput(n, id) ==
  IF \E i \in DOMAIN n.pending : n.pending[i] = id THEN n
  ELSE [n EXCEPT !.pending = Append(@, id)]

ForgetToolInput(n, id) == [n EXCEPT !.pending = Among(@, CallId \ {id})]

----------------------------------------------------------------------------
(* Consume: the new state, what is passed on, and whether the event is an  *)
(* error of the stream.  A finish is passed on with the calls it releases; *)
(* the code passes them on one by one just before it.                      *)
Nothing == [kind |-> "nothing"]

Outcomes ==
  [kind: {"nothing", "error"}]
    \cup [kind: {"text", "reasoning"}, text: Text]
    \cup [kind: {"finish"}, calls: Seq(Calls), reason: Reasons,
          usage: [tokens: Nat, cached: Nat], truncated: BOOLEAN]

Yield(n, out) == [n |-> n, out |-> out]
Error(n) == Yield(n, [kind |-> "error"])

ConsumeDelta(n, ev) ==
  Yield(n, [kind |-> IF ev.type = "text-delta" THEN "text" ELSE "reasoning",
            text |-> ev.text])

(* A call is kept even after the finish, where nothing releases it.        *)
ConsumeCall(n, ev) ==
  IF ev.id = NoId \/ ev.args = BadArgs THEN Error(n)
  ELSE Yield([n EXCEPT !.kept = AddCall(@, [id |-> ev.id, args |-> ev.args])], Nothing)

(* Mutant: a finished input is promoted to a call.                         *)
ConsumeInputPromotes(n, ev) ==
  IF ev.type \in {"tool-input-start", "tool-input-delta"}
    THEN IF ev.id = NoId THEN Error(n) ELSE Yield(TrackToolInput(n, ev.id), Nothing)
    ELSE IF ev.type # "tool-error" /\ \E i \in DOMAIN n.pending : n.pending[i] = ev.id
      THEN Yield([ForgetToolInput(n, ev.id) EXCEPT
                    !.kept = AddCall(@, [id |-> ev.id, args |-> CHOOSE a \in Args : TRUE])],
                 Nothing)
      ELSE Yield(ForgetToolInput(n, ev.id), Nothing)

(* Only opening an input without an id is an error; what is wrong with one *)
(* that ends is discarded with it.                                         *)
ConsumeInput(n, ev) ==
  IF ev.type \in {"tool-input-start", "tool-input-delta"}
    THEN IF ev.id = NoId THEN Error(n) ELSE Yield(TrackToolInput(n, ev.id), Nothing)
    ELSE Yield(ForgetToolInput(n, ev.id), Nothing)

ConsumeStep(n, ev) ==
  Yield(IF n.finished THEN n ELSE SetUsage(n, ev.usage), Nothing)

ConsumeFinish(n, ev) ==
  LET reason == NormalizeFinishReason(IF ev.reason = "" THEN ev.raw ELSE ev.reason)
      m == [SetUsage(n, ev.usage) EXCEPT !.pending = <<>>, !.finished = TRUE]
  IN IF n.finished THEN Yield(n, Nothing)
     ELSE IF reason = "error" THEN Error(n)
     ELSE Yield(m, [kind |-> "finish", calls |-> n.kept, reason |-> reason,
                    usage |-> m.usage, truncated |-> reason = "length"])

Consume(n, ev) ==
  IF ev.type \in {"text-delta", "reasoning-delta"} THEN ConsumeDelta(n, ev)
  ELSE IF ev.type = "tool-call" THEN ConsumeCall(n, ev)
  ELSE IF ev.type = "finish-step" THEN ConsumeStep(n, ev)
  ELSE IF ev.type = "finish" THEN ConsumeFinish(n, ev)
  ELSE IF ev.type = "error" THEN Error(n)
  ELSE IF ev.type \in {"text-end", "reasoning-end", "start"} THEN Yield(n, Nothing)
  ELSE ConsumeInput(n, ev)
=============================================================================
