----------------------------- MODULE Completion -----------------------------
(***************************************************************************)
(* What a chat completion promises its client, streamed or not: content is *)
(* delivered in the order it was said and only while the turn is open; the *)
(* turn then ends once, either committed with exactly the authoritative    *)
(* calls heard so far and the finish reason that these calls and the       *)
(* upstream's own way of ending ask for, or failed with none.              *)
(***************************************************************************)
EXTENDS Integers, Sequences

CONSTANTS
  Content,   \* pieces of text and of reasoning
  Call,      \* authoritative tool calls: records with an id
  Open, Failed   \* outcomes besides a commit

VARIABLES
  heard,     \* the calls the upstream has made, repetitions included
  said,      \* the content delivered
  outcome,   \* Open, Failed or [calls, reason]
  ending     \* how the upstream ended its answer, if it has: an input, which
             \* no step here determines

vars == <<heard, said, outcome>>

Init ==
  /\ heard = <<>>
  /\ said = <<>>
  /\ outcome = Open

(* calls holds the first call heard with each id, in the order of these    *)
(* first calls.                                                            *)
First(i) == \A j \in 1..(i - 1) : heard[j].id # heard[i].id

FirstHeard(calls) ==
  \E at \in [DOMAIN calls -> DOMAIN heard] :
    /\ \A k \in DOMAIN calls : calls[k] = heard[at[k]]
    /\ \A k, l \in DOMAIN calls : k < l => at[k] < at[l]
    /\ \A i \in DOMAIN heard : First(i) <=> \E k \in DOMAIN calls : at[k] = i

Hear(call) ==
  /\ heard' = Append(heard, call)
  /\ UNCHANGED <<said, outcome>>

Say(piece) ==
  /\ outcome = Open
  /\ said' = Append(said, piece)
  /\ UNCHANGED <<heard, outcome>>

(* The client acts on the reason: a turn that was cut off or filtered says *)
(* so whatever it carries, and no other turn does; tool_calls promises a   *)
(* call, and stop a whole answer without one.                              *)
Honest(calls, reason, how) ==
  /\ how \in {"stop", "calls", "length", "filter"}
  /\ reason = "length" <=> how = "length"
  /\ reason = "content_filter" <=> how = "filter"
  /\ reason = "tool_calls" => calls # <<>>
  /\ reason = "stop" => calls = <<>> /\ how = "stop"

Commit(calls, reason) ==
  /\ outcome = Open
  /\ FirstHeard(calls)
  /\ Honest(calls, reason, ending')
  /\ outcome' = [calls |-> calls, reason |-> reason]
  /\ UNCHANGED <<heard, said>>

Fail ==
  /\ outcome = Open
  /\ outcome' = Failed
  /\ UNCHANGED <<heard, said>>

Next ==
  \/ \E call \in Call : Hear(call)
  \/ \E piece \in Content : Say(piece)
  \/ outcome' \notin {Open, Failed} /\ Commit(outcome'.calls, outcome'.reason)
  \/ Fail

Spec == Init /\ [][Next]_vars
=============================================================================
