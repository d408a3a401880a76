------------------------------ MODULE ChatTurn ------------------------------
(***************************************************************************)
(* One upstream answer read by both handlers of /v1/chat/completions, the  *)
(* streaming and the collecting one, in lockstep.  A client gets one of    *)
(* the two; running them side by side compares what it would be told.      *)
(***************************************************************************)
EXTENDS StreamTurn, WholeTurn

CONSTANTS
  MaxEvents,       \* bound: events of one answer
  Open, Failed     \* outcomes of a turn that is not committed

ASSUME OutcomeAssumption ==
  /\ Open # Failed
  /\ {Open, Failed} \cap [calls: Seq(Calls), reason: Reasons] = {}

VARIABLES
  count,    \* events so far
  ending,   \* how the first finish event among them ends the answer
  late,     \* something followed it
  heard,    \* the authoritative calls of the events before it, in order
  told      \* the last usage report up to it

historyVars == <<count, ending, late, heard, told>>
vars == <<norm, includeUsage, firstText, done, wire, reading, charged,
          wnorm, content, turn, reply, billed, count, ending, late, heard, told>>

Init ==
  /\ StreamInit
  /\ WholeInit
  /\ count = 0
  /\ ending = "none"
  /\ late = FALSE
  /\ heard = <<>>
  /\ told = NoUsage

(* A handler that has ended hears nothing more.                            *)
InStream(A) == (reading /\ A) \/ (~reading /\ UNCHANGED streamVars)
InWhole(A) == (reply = NoReply /\ A) \/ (reply # NoReply /\ UNCHANGED wholeVars)

Authoritative(ev) == ev.type = "tool-call" /\ ev.id # NoId /\ ev.args # BadArgs

Reports(ev) == ev.type \in {"finish-step", "finish"} /\ ev.usage # NoUsage

closed == ending # "none"

(* What the upstream says of a finish in its own words.                    *)
Ending(ev) ==
  LET words == {ev.reason, ev.raw} \ {""}
  IN IF words \cap StopWords # {} THEN "stop"
     ELSE IF words \cap CallWords # {} THEN "calls"
     ELSE IF words \cap LengthWords # {} THEN "length"
     ELSE IF words = {"content_filter"} THEN "filter"
     ELSE "other"

Event(ev) ==
  /\ reading \/ reply = NoReply
  /\ count < MaxEvents
  /\ InStream(StreamEvent(ev))
  /\ InWhole(WholeEvent(ev))
  /\ count' = count + 1
  /\ ending' = IF ~closed /\ ev.type = "finish" THEN Ending(ev) ELSE ending
  /\ late' = closed
  /\ heard' = IF ~closed /\ Authoritative(ev)
                THEN Append(heard, [id |-> ev.id, args |-> ev.args]) ELSE heard
  /\ told' = IF ~closed /\ Reports(ev) THEN ev.usage ELSE told

End ==
  /\ reading \/ reply = NoReply
  /\ InStream(StreamEnd)
  /\ InWhole(WholeEnd)
  /\ UNCHANGED historyVars

Break ==
  /\ reading \/ reply = NoReply
  /\ InStream(StreamBreak)
  /\ InWhole(WholeBreak)
  /\ late' = closed
  /\ UNCHANGED <<count, ending, heard, told>>

Next == (\E ev \in Events : Event(ev)) \/ End \/ Break

Spec == Init /\ [][Next]_vars

TypeOK == StreamTypeOK /\ WholeTypeOK

----------------------------------------------------------------------------
(* What the client of the stream has been told.                            *)
Said == LET chunks == Among(wire, ContentChunk)
        IN [i \in DOMAIN chunks |-> [kind |-> chunks[i].kind, text |-> chunks[i].text]]

CallsSent == LET chunks == Among(wire, CallChunk)
             IN [i \in DOMAIN chunks |-> chunks[i].call]

OnWire(kind) == {i \in DOMAIN wire : wire[i].kind = kind}

ReasonSent == wire[CHOOSE i \in OnWire("finish") : TRUE].reason

Committed == OnWire("finish") # {}

StreamOutcome ==
  IF OnWire("error") # {} THEN Failed
  ELSE IF Committed \/ CallsSent # <<>>
    THEN [calls |-> CallsSent, reason |-> IF Committed THEN ReasonSent ELSE ""]
  ELSE Open

WholeOutcome ==
  IF reply = NoReply THEN Open
  ELSE IF reply.status = 200 THEN [calls |-> reply.calls, reason |-> reply.reason]
  ELSE Failed

Pieces == [kind: {"text", "reasoning"}, text: Text]

Stream == INSTANCE Completion WITH Content <- Pieces, Call <- Calls,
                                   said <- Said, outcome <- StreamOutcome

Whole == INSTANCE Completion WITH Content <- Pieces, Call <- Calls,
                                  said <- content, outcome <- WholeOutcome

(* handler.go: "finishStream is the commit point: validated authoritative  *)
(* calls can now be emitted exactly once".  The chunk stream is a chat     *)
(* completion: no call before the commit or without it, every call once,   *)
(* first come first kept, nothing after the end, and a reason that hides   *)
(* neither the calls nor that the upstream was cut off.                    *)
StreamKeepsPromise == Stream!Spec

(* So is the collected response, which must not let the events that follow *)
(* the finish change the calls or the reason it committed to.              *)
WholeKeepsPromise == Whole!Spec

(* handler.go: "[DONE] has been written; nothing more may be emitted".     *)
(* The stream ends with its only [DONE] and is never left without one.     *)
ClosedOnce ==
  /\ OnWire("done") = IF done THEN {Len(wire)} ELSE {}
  /\ ~reading => done

(* The role is sent once, in the first chunk that says anything, be it     *)
(* text, reasoning or a call.                                              *)
RoleOnce ==
  \A i \in DOMAIN wire :
    wire[i] \in ContentChunk \cup CallChunk => (wire[i].role <=> i = 1)

(* The account and the key are charged what the client is told, and that   *)
(* is the last report up to the finish: neither a later one nor the cache  *)
(* details of an earlier one get into it.                                  *)
Reported == IF told = NoUsage THEN [tokens |-> 0, cached |-> 0]
            ELSE [told EXCEPT !.cached = IF @ = NoDetails THEN 0 ELSE @]

ChargedAsTold ==
  /\ ~reading /\ Committed =>
       /\ charged = Reported
       /\ \A i \in OnWire("usage") : wire[i].usage = Reported
       /\ includeUsage <=> OnWire("usage") # {}
  /\ reply # NoReply => billed = IF reply.status = 200 THEN reply.usage ELSE NoUsage
  /\ reply # NoReply /\ reply.status = 200 => billed = Reported

(* Streaming is not another answer.  What the collected response commits   *)
(* to, the stream has committed to as well; and if nothing follows the     *)
(* finish event the two say the same.                                      *)
ModesAgree ==
  ~reading /\ reply # NoReply =>
    /\ WholeOutcome # Failed => StreamOutcome = WholeOutcome /\ IsPrefix(Said, content)
                                  /\ charged = billed
    /\ ~late => StreamOutcome = WholeOutcome /\ (StreamOutcome # Failed => Said = content)
=============================================================================
