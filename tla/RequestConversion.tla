-------------------------- MODULE RequestConversion --------------------------
(***************************************************************************)
(* openAIToCC (cc.go): the client's chat messages become the upstream's.   *)
(* System and developer messages are taken out; every other message is     *)
(* checked and converted in order, and a tool result that does not name    *)
(* its tool gets the name from the tool calls seen so far.                 *)
(*                                                                         *)
(* A message is a record of what conversion looks at: its role; its        *)
(* content parts, by kind; its tool calls, each with id, name and whether  *)
(* its arguments are one JSON object; and for a tool result the id and the *)
(* name.  String content is one text part.                                 *)
(***************************************************************************)
EXTENDS Integers, SequencesExt

CONSTANTS
    Message,        \* the messages clients send
    TokenLimit,     \* pairs <<max_completion_tokens, max_tokens>> they ask for
    DefaultBudget,  \* defaultCCMaxTokens
    MaximumBudget,  \* maximumCCMaxTokens
    MaxMessages     \* bound: messages in a request

ASSUME ConversionConstants ==
    /\ MaxMessages \in Nat
    /\ DefaultBudget \in 1..MaximumBudget /\ MaximumBudget \in Nat
    /\ TokenLimit \subseteq Int \X Int
    /\ \A m \in Message : m.calls \in Seq({m.calls[k] : k \in DOMAIN m.calls})

VARIABLES
    request,    \* the client's messages
    limit,      \* the client's token limits
    position,   \* the message converted next
    toolNames,  \* [tool call id -> name], for the ids seen so far
    out,        \* the upstream's messages
    system,     \* the texts of the system prompt
    budget,     \* max_tokens for the upstream; 0 until it is set
    verdict     \* "converting", "ok" or "invalid"

conversionVars == <<request, limit, position, toolNames, out, system, budget, verdict>>

None == ""

ConversionInit ==
    /\ request \in UNION {[1..n -> Message] : n \in 1..MaxMessages}
    /\ limit \in TokenLimit
    /\ position = 1 /\ toolNames = <<>> /\ out = <<>> /\ system = <<>>
    /\ budget = 0
    /\ verdict = "converting"

IsSystem(m) == m.role \in {"system", "developer"}

roleToCC(role) == IF role \in {"assistant", "tool"} THEN role ELSE "user"

(* The first of the two limits that is positive, or 0.                     *)
OutputTokenBudget(l) == IF l[1] > 0 THEN l[1] ELSE IF l[2] > 0 THEN l[2] ELSE 0

Texts(m) == SelectSeq(m.parts, LAMBDA p : p = "text")

(* The tool calls of a message that have an id and a name, and their ids.  *)
Tellable(m) == {k \in DOMAIN m.calls : m.calls[k].id # None /\ m.calls[k].name # None}

IdsOf(m) == IF m.role = "assistant" THEN {m.calls[k].id : k \in Tellable(m)} ELSE {}

(* Mutant: an id keeps the first name it was seen with.                    *)
LearnedOnce(names, m) ==
    [id \in DOMAIN names \cup IdsOf(m) |->
        IF id \in DOMAIN names THEN names[id]
        ELSE m.calls[CHOOSE k \in Tellable(m) : m.calls[k].id = id].name]

(* The names an assistant message adds; a later call of one id wins.       *)
Learned(names, m) ==
    LET last(id) == CHOOSE k \in Tellable(m) :
                      /\ m.calls[k].id = id
                      /\ \A j \in Tellable(m) : m.calls[j].id = id => j <= k
    IN [id \in DOMAIN names \cup IdsOf(m) |->
          IF id \in IdsOf(m) THEN m.calls[last(id)].name ELSE names[id]]

-----------------------------------------------------------------------------
(* contentToCC: what makes a message invalid ...                           *)
Named(m, names) ==
    IF m.role = "tool" /\ m.name = None /\ m.callId \in DOMAIN names
    THEN names[m.callId] ELSE m.name

InvalidResult(m, name) ==
    \/ m.callId = None
    \/ name = None
    \/ \E i \in DOMAIN m.parts : m.parts[i] \notin {"text", "empty"}

InvalidContent(m) ==
    \/ \E i \in DOMAIN m.parts : m.parts[i] \in {"badimage", "unknown"}
    \/ \E i \in DOMAIN m.calls :
          m.calls[i].id = None \/ m.calls[i].name = None \/ ~ m.calls[i].object

(* ... and what a valid one becomes: a tool result is one part, anything   *)
(* else its reasoning, its non-empty parts and its tool calls.             *)
ResultPart(m, name) ==
    <<[type |-> "tool-result", id |-> m.callId, name |-> name]>>

ContentParts(m) ==
    LET part(type) == [type |-> type, id |-> None, name |-> None]
        content    == SelectSeq(m.parts, LAMBDA p : p # "empty")
    IN (IF m.role = "assistant" /\ m.reasoning THEN <<part("reasoning")>> ELSE <<>>)
          \o [i \in DOMAIN content |-> part(content[i])]
          \o [i \in DOMAIN m.calls |->
                [type |-> "tool-call", id |-> m.calls[i].id, name |-> m.calls[i].name]]

(* messagesToCC, one message.                                              *)
ConvertMessage ==
    /\ verdict = "converting" /\ position <= Len(request)
    /\ LET m     == request[position]
           names == Learned(toolNames, m)
           name  == Named(m, names)
           valid == IF m.role = "tool" THEN ~ InvalidResult(m, name) ELSE ~ InvalidContent(m)
           parts == IF m.role = "tool" THEN ResultPart(m, name) ELSE ContentParts(m)
       IN IF IsSystem(m) THEN UNCHANGED <<toolNames, out, verdict>>
          ELSE /\ toolNames' = names
               /\ IF valid
                  THEN /\ out' = Append(out, [role |-> roleToCC(m.role), parts |-> parts])
                       /\ UNCHANGED verdict
                  ELSE verdict' = "invalid" /\ UNCHANGED out
    /\ position' = position + 1
    /\ UNCHANGED <<request, limit, system, budget>>

(* extractSystem and the rest of openAIToCC, once all messages are through.*)
Finish ==
    /\ verdict = "converting" /\ position > Len(request)
    /\ system' = FlattenSeq([i \in DOMAIN request |->
                    IF IsSystem(request[i]) /\ Texts(request[i]) # <<>> THEN <<i>> ELSE <<>>])
    /\ LET asked == OutputTokenBudget(limit)
       IN budget' = IF asked <= 0 THEN DefaultBudget
                    ELSE IF asked > MaximumBudget THEN MaximumBudget ELSE asked
    /\ verdict' = "ok"
    /\ UNCHANGED <<request, limit, position, toolNames, out>>

ConversionNext == ConvertMessage \/ Finish

ConversionTypeOK ==
    /\ position \in 1..(Len(request) + 1)
    /\ DOMAIN toolNames \subseteq
          UNION {{request[i].calls[j].id : j \in DOMAIN request[i].calls} : i \in DOMAIN request}
    /\ \A i \in DOMAIN out : out[i].role \in {"assistant", "tool", "user"}
    /\ budget \in 0..MaximumBudget /\ (verdict = "ok" <=> budget > 0)
    /\ verdict \in {"converting", "ok", "invalid"}

-----------------------------------------------------------------------------
(* Told in terms of the client's request: the call a tool result i answers *)
(* is the last one before it, in an assistant message, with its id.        *)
Calls(i) == {k \in DOMAIN request[i].calls : request[i].role = "assistant"}

Answers(i) ==
    UNION {{<<j, k>> : k \in {k \in Calls(j) : request[j].calls[k].id = request[i].callId}}
              : j \in 1..(i - 1)}

Earlier(c, d) == c[1] < d[1] \/ (c[1] = d[1] /\ c[2] <= d[2])

LatestName(i) ==
    LET latest == CHOOSE c \in Answers(i) : \A d \in Answers(i) : Earlier(d, c)
    IN request[latest[1]].calls[latest[2]].name

(* How many of the first i messages are not system prompts.                *)
Kept(i) == Cardinality({j \in 1..i : ~ IsSystem(request[j])})

(* What the upstream receives of an accepted conversation holds together:  *)
(* every message that is not a system prompt is there, in order, and every *)
(* tool result that came without a name bears the name of the latest call  *)
(* of its id, also when an id is used again with another tool.             *)
ResultsNameTheirCall ==
    verdict = "ok" =>
        /\ Len(out) = Kept(Len(request))
        /\ \A i \in DOMAIN request : ~ IsSystem(request[i]) =>
              /\ out[Kept(i)].role = roleToCC(request[i].role)
              /\ request[i].role = "tool" =>
                   out[Kept(i)].parts[1].name =
                      IF request[i].name # None THEN request[i].name ELSE LatestName(i)
=============================================================================
