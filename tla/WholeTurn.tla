----------------------------- MODULE WholeTurn ------------------------------
(***************************************************************************)
(* handleNonStream (handler.go): the same upstream answer collected and    *)
(* returned as one response.  It drives a normalizer of its own and, other *)
(* than the streaming handler, reads on after the finish event.            *)
(***************************************************************************)
EXTENDS EventNormalizer

CONSTANT NoReply   \* no response has been written

VARIABLES
  wnorm,      \* the normalizer
  content,    \* textContent and reasoningContent: the deltas, in order
  turn,       \* finishReason, toolCalls and truncated, NoTurn before the finish
  reply,      \* the response
  billed      \* what usage.Record was given, NoUsage if it was not called

wholeVars == <<wnorm, content, turn, reply, billed>>

NoTurn == [calls |-> <<>>, reason |-> "", truncated |-> FALSE]

Turns == [calls: Seq(Calls), reason: Reasons \cup {""}, truncated: BOOLEAN]

Contents == Seq([kind: {"text", "reasoning"}, text: Text])

Codes == {"upstream_stream_error", "upstream_stream_incomplete", "invalid_tool_call"}

Replies == [status: {200}, content: Contents, calls: Seq(Calls), reason: Reasons,
            usage: [tokens: Nat, cached: Nat]]
             \cup [status: {502}, code: Codes]

ASSUME ReplyAssumption == NoReply \notin Replies

WholeTypeOK ==
  /\ wnorm \in Normalizers
  /\ content \in Contents
  /\ turn \in Turns
  /\ reply \in Replies \cup {NoReply}
  /\ billed \in [tokens: Nat, cached: Nat] \cup {NoUsage}

WholeInit ==
  /\ wnorm = NewNormalizer
  /\ content = <<>>
  /\ turn = NoTurn
  /\ reply = NoReply
  /\ billed = NoUsage

----------------------------------------------------------------------------
Refuse(code) ==
  /\ reply' = [status |-> 502, code |-> code]
  /\ UNCHANGED <<content, turn, billed>>

(* The callback of one event; an error ends the request, finished or not.  *)
WholeEvent(ev) ==
  LET step == Consume(wnorm, ev)
      out  == step.out
  IN /\ reply = NoReply
     /\ wnorm' = step.n
     /\ IF out.kind = "error" THEN Refuse("upstream_stream_error")
        ELSE /\ UNCHANGED <<reply, billed>>
             /\ content' = IF out.kind \in {"text", "reasoning"} /\ out.text # ""
                             THEN Append(content, out) ELSE content
             /\ turn' = IF out.kind = "finish"
                          THEN [calls |-> out.calls, reason |-> out.reason,
                                truncated |-> out.truncated]
                          ELSE turn

(* Answer(calls) is the response built from the turn and these calls.      *)
Answer(calls) ==
  /\ reply' = [status |-> 200, content |-> content, calls |-> calls,
               reason |-> ResolveFinishReason(turn.reason, calls # <<>>, turn.truncated),
               usage |-> wnorm.usage]
  /\ billed' = wnorm.usage
  /\ UNCHANGED <<content, turn>>

(* Mutants: the response takes over what the normalizer has kept, with the *)
(* calls that came after the finish; a turn that asks for calls and has    *)
(* none is answered.                                                       *)
WholeEndLate ==
  /\ reply = NoReply
  /\ UNCHANGED wnorm
  /\ IF ~wnorm.finished THEN Refuse("upstream_stream_incomplete")
     ELSE IF turn.reason = "tool_calls" /\ turn.calls = <<>> THEN Refuse("invalid_tool_call")
     ELSE Answer(wnorm.kept)

WholeEndHollow ==
  /\ reply = NoReply
  /\ UNCHANGED wnorm
  /\ IF ~wnorm.finished THEN Refuse("upstream_stream_incomplete") ELSE Answer(turn.calls)

(* The answer ended: the response is built from what the finish event      *)
(* released and from all the text.                                         *)
WholeEnd ==
  /\ reply = NoReply
  /\ UNCHANGED wnorm
  /\ IF ~wnorm.finished THEN Refuse("upstream_stream_incomplete")
     ELSE IF turn.reason = "tool_calls" /\ turn.calls = <<>> THEN Refuse("invalid_tool_call")
     ELSE Answer(turn.calls)

WholeBreak ==
  /\ reply = NoReply
  /\ UNCHANGED wnorm
  /\ Refuse("upstream_stream_error")

=============================================================================
