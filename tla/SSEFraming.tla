----------------------------- MODULE SSEFraming -----------------------------
(***************************************************************************)
(* parseStreamEvents (cc.go): the upstream's body is read line by line and *)
(* cut into payloads, and each payload that is an event is handed to the   *)
(* caller.  A blank line ends a payload; so does a bare JSON line, which   *)
(* is a payload of its own; comments and other fields may stand anywhere.  *)
(*                                                                         *)
(* A value is what decoding tells apart: one whole event, the two halves   *)
(* of one (JSON may be broken over data lines), [DONE], white space.  The  *)
(* size of a payload is counted in values.                                 *)
(***************************************************************************)
EXTENDS Integers, SequencesExt, Subsequence

CONSTANTS
    MaxEvent,   \* maxSSELineBytes, in values
    MaxLines,   \* bound: lines the upstream sends before its body ends
    RefuseAts   \* on which event the client may turn out to be gone

ASSUME FramingConstants ==
    /\ MaxEvent \in Nat \ {0} /\ MaxLines \in Nat
    /\ RefuseAts \subseteq Nat \ {0} /\ RefuseAts # {}

VARIABLES
    lines,      \* the lines read so far
    data,       \* dataLines
    handed,     \* the events handed to onEvent, in order
    end,        \* "open", or how the call returned
    refuseAt,   \* onEvent fails on this event
    body        \* history: what reading the body has come to

framingVars == <<lines, data, handed, end, refuseAt, body>>

Value == {"event", "head", "tail", "done", "blank"}

Line ==
    [kind : {"empty", "skipped"}, value : {"blank"}]
        \cup [kind : {"data", "bare"}, value : Value]

FramingInit ==
    /\ lines = <<>> /\ data = <<>> /\ handed = <<>>
    /\ end = "open"
    /\ refuseAt \in RefuseAts
    /\ body = "open"

(* What a payload is: nothing, the end mark, the event it decodes to, or   *)
(* not one JSON value.  White space around JSON does not count.            *)
Decoded(values) ==
    LET text == Among(values, Value \ {"blank"})
    IN CASE text = <<>>                 -> "nothing"
         [] text = <<"done">>           -> "done"
         [] text = <<"event">>          -> "event"
         [] text = <<"head", "tail">>   -> "joined"
         [] OTHER                       -> "error"

IsEvent(values) == Decoded(values) \in {"event", "joined"}

Reading == [handed |-> handed, end |-> end]

(* dispatch: the pending lines become one payload.                         *)
Dispatch(r, values) ==
    IF r.end # "open" \/ Decoded(values) = "nothing" THEN r
    ELSE IF IsEvent(values)
    THEN [handed |-> Append(r.handed, Decoded(values)),
          end    |-> IF Len(r.handed) + 1 = refuseAt THEN "refused" ELSE "open"]
    ELSE [r EXCEPT !.end = Decoded(values)]

Became(r) == handed' = r.handed /\ end' = r.end

Read(l) ==
    /\ end = "open" /\ Len(lines) < MaxLines
    /\ lines' = Append(lines, l)
    /\ UNCHANGED <<refuseAt, body>>

EmptyLine ==
    /\ Read([kind |-> "empty", value |-> "blank"])
    /\ Became(Dispatch(Reading, data))
    /\ data' = <<>>

(* Comments (keep-alives) and event, id and retry fields change nothing.   *)
SkippedLine ==
    /\ Read([kind |-> "skipped", value |-> "blank"])
    /\ UNCHANGED <<data, handed, end>>

(* Mutant: the limit is looked at before the line is counted.              *)
DataLineLate ==
    \E v \in Value :
        /\ Read([kind |-> "data", value |-> v])
        /\ IF Len(data) > MaxEvent
           THEN end' = "error" /\ UNCHANGED data
           ELSE data' = Append(data, v) /\ UNCHANGED end
        /\ UNCHANGED handed

(* A payload may not grow beyond the limit over its data lines.            *)
DataLine ==
    \E v \in Value :
        /\ Read([kind |-> "data", value |-> v])
        /\ IF Len(data) + 1 > MaxEvent
           THEN end' = "error" /\ UNCHANGED data
           ELSE data' = Append(data, v) /\ UNCHANGED end
        /\ UNCHANGED handed

(* Mutant: a bare line joins the data lines that wait before it.           *)
BareLineJoins ==
    \E v \in Value :
        /\ Read([kind |-> "bare", value |-> v])
        /\ Became(Dispatch(Reading, Append(data, v)))
        /\ data' = <<>>

(* Any other line is bare JSON: what was pending goes first.               *)
BareLine ==
    \E v \in Value :
        /\ Read([kind |-> "bare", value |-> v])
        /\ Became(Dispatch(Dispatch(Reading, data), <<v>>))
        /\ data' = <<>>

(* Mutant: what is pending when the body is over is never dispatched.      *)
BodyOverDrops ==
    /\ end = "open"
    /\ body' \in {"ended", "failed", "overlong"}
    /\ end' = IF body' = "ended" THEN "eof" ELSE "readError"
    /\ UNCHANGED <<lines, data, handed, refuseAt>>

(* The body ends, reading it fails, or the next line is longer than the    *)
(* limit: readSSELine returns an empty line with the error, so what is     *)
(* pending is dispatched, as at an empty line, before the error counts.    *)
BodyOver ==
    /\ end = "open"
    /\ body' \in {"ended", "failed", "overlong"}
    /\ LET r == Dispatch(Reading, data)
       IN /\ handed' = r.handed
          /\ end' = IF r.end # "open" THEN r.end
                    ELSE IF body' = "ended" THEN "eof" ELSE "readError"
    /\ data' = <<>>
    /\ UNCHANGED <<lines, refuseAt>>

(* A read error inside a line longer than the reader's buffer comes with   *)
(* the part read so far, the last line here; nothing is dispatched for it. *)
LineCut ==
    /\ end = "open" /\ lines # <<>> /\ Last(lines).kind # "empty"
    /\ body' = "cut" /\ end' = "readError"
    /\ UNCHANGED <<lines, data, handed, refuseAt>>

FramingNext ==
    EmptyLine \/ SkippedLine \/ DataLine \/ BareLine \/ BodyOver \/ LineCut

FramingTypeOK ==
    /\ lines \in Seq(Line) /\ Len(lines) <= MaxLines
    /\ data \in Seq(Value) /\ Len(data) <= MaxEvent
    /\ handed \in Seq({"event", "joined"})
    /\ end \in {"open", "done", "eof", "error", "readError", "refused"}
    /\ body \in {"open", "ended", "failed", "overlong", "cut"}

-----------------------------------------------------------------------------
(* The reference: the payloads of a text, read off its lines at once.      *)
IsBreak(l) == l.kind \in {"empty", "bare"}

(* What is left of a text after its last break.                            *)
AfterBreak(text) ==
    LET cuts == {j \in 0..Len(text) : \A k \in (j + 1)..Len(text) : ~ IsBreak(text[k])}
        cut  == CHOOSE j \in cuts : \A k \in cuts : j <= k
    IN SubSeq(text, cut + 1, Len(text))

(* The values of its data lines, in order.                                 *)
Gathered(text) ==
    LET held == Among(AfterBreak(text), [kind : {"data"}, value : Value])
    IN [n \in 1..Len(held) |-> held[n].value]

(* The payloads a text closes, with two places for every line: for what it *)
(* ends, and for itself when it is bare.  Most places are empty.           *)
Closed(text) ==
    [k \in 1..(2 * Len(text)) |->
        LET i == (k + 1) \div 2
        IN IF k % 2 = 1
           THEN IF IsBreak(text[i]) THEN Gathered(SubSeq(text, 1, i - 1)) ELSE <<>>
           ELSE IF text[i].kind = "bare" THEN <<text[i].value>> ELSE <<>>]

Told == {p \in Seq(Value) : Decoded(p) # "nothing"}

(* What a body consists of.  Its end closes the last payload; so does a    *)
(* read error or an overlong line after a whole line, but not an error in  *)
(* the middle of one.                                                      *)
Telling ==
    LET rest == IF body \in {"ended", "failed", "overlong"} THEN Gathered(lines) ELSE <<>>
    IN Among(Append(Closed(lines), rest), Told)

(* However the lines are mixed and wherever and however the body ends, the *)
(* caller gets exactly the events of the text in order, up to the first    *)
(* payload that is [DONE], that does not decode or that the caller         *)
(* refuses; and the call returns for the reason that is true: [DONE] or an *)
(* error when that payload is the next one, EOF or the read error when     *)
(* every payload of the body was handed on, and the size limit exactly     *)
(* when the payload under way exceeds it.                                  *)
FramingIsBlockwise ==
    LET told   == Telling
        events == {n \in 0..Len(told) : \A i \in 1..n : IsEvent(told[i])}
        all    == CHOOSE n \in events : \A m \in events : m <= n
        count  == IF all < refuseAt THEN all ELSE refuseAt
        next   == IF count < Len(told) THEN Decoded(told[count + 1]) ELSE "nothing"
    IN /\ handed = [i \in 1..count |-> Decoded(told[i])]
       /\ end = "refused" <=> count = refuseAt
       /\ end = "done" => next = "done"
       /\ end = "error" => \/ next = "error"
                           \/ next = "nothing" /\ Len(Gathered(lines)) > MaxEvent
       /\ end # "error" => Len(Gathered(lines)) <= MaxEvent
       /\ end \in {"open", "eof", "readError"} => next = "nothing"
       /\ end = "eof" => body = "ended"
       /\ end = "readError" => body \in {"failed", "overlong", "cut"}
=============================================================================
