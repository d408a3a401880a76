----------------------------- MODULE StreamTurn -----------------------------
(***************************************************************************)
(* handleStreamWithOptions (handler.go): one upstream answer, rendered     *)
(* event by event as an OpenAI chunk stream.  Text is forwarded at once;   *)
(* calls wait for the finish event, the commit point of the turn.          *)
(*                                                                         *)
(* The upstream is the environment: it sends any sequence of events and    *)
(* ends it with [DONE], by closing the connection, or with an error (a     *)
(* broken connection, a frame that is no event, the client's own 600 s     *)
(* timeout).  parseStreamEvents hands the events over one by one and stops *)
(* at the end of the answer or at the first error.                         *)
(***************************************************************************)
EXTENDS EventNormalizer

VARIABLES
  norm,          \* the normalizer
  includeUsage,  \* stream_options.include_usage
  firstText,     \* no chunk has carried the role yet
  done,          \* [DONE] has been written
  wire,          \* the chunks written to the client
  reading,       \* parseStreamEvents has not returned
  charged        \* what usage.Record was given, NoUsage before

streamVars == <<norm, includeUsage, firstText, done, wire, reading, charged>>

ContentChunk == [kind: {"text", "reasoning"}, text: Text, role: BOOLEAN]
CallChunk    == [kind: {"call"}, index: Nat, call: Calls, role: BOOLEAN]

Chunks ==
  ContentChunk \cup CallChunk
    \cup [kind: {"finish"}, reason: Reasons]
    \cup [kind: {"usage"}, usage: [tokens: Nat, cached: Nat]]
    \cup [kind: {"error"}, code: {"upstream_stream_error", "upstream_stream_incomplete"}]
    \cup [kind: {"done"}]

DoneChunk == [kind |-> "done"]

StreamTypeOK ==
  /\ norm \in Normalizers
  /\ includeUsage \in BOOLEAN /\ firstText \in BOOLEAN
  /\ done \in BOOLEAN /\ reading \in BOOLEAN
  /\ wire \in Seq(Chunks)
  /\ charged \in [tokens: Nat, cached: Nat] \cup {NoUsage}

StreamInit ==
  /\ norm = NewNormalizer
  /\ includeUsage \in BOOLEAN
  /\ firstText = TRUE
  /\ done = FALSE
  /\ wire = <<>>
  /\ reading = TRUE
  /\ charged = NoUsage

----------------------------------------------------------------------------
(* Mutants: a delta is written although the stream is closed; the role is  *)
(* repeated on every chunk.                                                *)
EmitContentLate(kind, text) ==
  IF text = "" THEN UNCHANGED <<wire, firstText>>
  ELSE /\ wire' = Append(wire, [kind |-> kind, text |-> text, role |-> firstText])
       /\ firstText' = FALSE

EmitContentRoles(kind, text) ==
  IF text = "" \/ done THEN UNCHANGED <<wire, firstText>>
  ELSE /\ wire' = Append(wire, [kind |-> kind, text |-> text, role |-> firstText])
       /\ UNCHANGED firstText

EmitContent(kind, text) ==
  IF text = "" \/ done THEN UNCHANGED <<wire, firstText>>
  ELSE /\ wire' = Append(wire, [kind |-> kind, text |-> text, role |-> firstText])
       /\ firstText' = FALSE

CallChunks(calls) ==
  [i \in DOMAIN calls |->
     [kind |-> "call", index |-> i - 1, call |-> calls[i], role |-> firstText /\ i = 1]]

(* failStream: an error that arrives after the commit is not reported.     *)
FailStream(code) ==
  IF done THEN UNCHANGED <<wire, done>>
  ELSE /\ wire' = wire \o <<[kind |-> "error", code |-> code], DoneChunk>>
       /\ done' = TRUE

(* parseStreamEvents returned; the usage is recorded in every case.        *)
Stop(n) ==
  /\ norm' = n
  /\ reading' = FALSE
  /\ charged' = n.usage

StopWithError(n) ==
  /\ FailStream("upstream_stream_error")
  /\ Stop(n)
  /\ UNCHANGED <<includeUsage, firstText>>

(* finishStream, the commit.  (The normalizer yields one finish per turn,  *)
(* so finishing cannot be set here; its calls have distinct ids and were   *)
(* validated, so collecting them keeps them as they are.)                  *)
FinishStream(turn) ==
  /\ wire' = wire \o CallChunks(turn.calls)
                  \o <<[kind |-> "finish",
                        reason |-> ResolveFinishReason(turn.reason, turn.calls # <<>>,
                                                       turn.truncated)]>>
                  \o (IF includeUsage THEN <<[kind |-> "usage", usage |-> turn.usage]>>
                                      ELSE <<>>)
                  \o <<DoneChunk>>
  /\ firstText' = (firstText /\ turn.calls = <<>>)
  /\ done' = TRUE

(* The callback of one event.                                              *)
StreamEvent(ev) ==
  LET step == Consume(norm, ev)
      out  == step.out
      hollow == out.kind = "finish" /\ out.reason = "tool_calls" /\ out.calls = <<>>
  IN /\ reading
     /\ IF out.kind = "error" \/ hollow THEN StopWithError(step.n)
        ELSE /\ norm' = step.n
             /\ UNCHANGED <<includeUsage, reading, charged>>
             /\ IF out.kind = "finish" THEN FinishStream(out)
                ELSE /\ UNCHANGED done
                     /\ IF out.kind = "nothing" THEN UNCHANGED <<wire, firstText>>
                        ELSE EmitContent(out.kind, out.text)

(* The upstream's answer ends in order ...                                 *)
StreamEnd ==
  /\ reading
  /\ IF done THEN UNCHANGED <<wire, done>> ELSE FailStream("upstream_stream_incomplete")
  /\ Stop(norm)
  /\ UNCHANGED <<includeUsage, firstText>>

(* ... or does not.                                                        *)
StreamBreak == reading /\ StopWithError(norm)

=============================================================================
