--------------------------- MODULE ChatTurnProofs ---------------------------
(***************************************************************************)
(* Both handlers of a chat completion keep its promise, whatever the       *)
(* upstream answers and however long the answer is, and agree on what they *)
(* tell the client and charge the account.                                 *)
(***************************************************************************)
EXTENDS ChatTurn, SharedFacts, TLAPS

(* What a list of chunks tells the client.                                 *)
At(w, kind) == {i \in DOMAIN w : w[i].kind = kind}

Bare(chunks) == [i \in DOMAIN chunks |-> [kind |-> chunks[i].kind, text |-> chunks[i].text]]

SaidIn(w) == Bare(Among(w, ContentChunk))

CallsIn(w) == [i \in DOMAIN Among(w, CallChunk) |-> Among(w, CallChunk)[i].call]

Roles(w) ==
  \A i \in DOMAIN w : w[i] \in ContentChunk \cup CallChunk => (w[i].role <=> i = 1)

Begins(s, t) == Len(s) <= Len(t) /\ \A i \in 1..Len(s) : s[i] = t[i]

(* Completion's FirstHeard of the calls in h.                              *)
FirstAt(h, i) == \A j \in 1..(i - 1) : h[j].id # h[i].id

FirstCalls(h, calls) ==
  \E at \in [DOMAIN calls -> DOMAIN h] :
    /\ \A k \in DOMAIN calls : calls[k] = h[at[k]]
    /\ \A k, l \in DOMAIN calls : k < l => at[k] < at[l]
    /\ \A i \in DOMAIN h : FirstAt(h, i) <=> \E k \in DOMAIN calls : at[k] = i

(* The inductive invariant.  As long as the stream is read, the two        *)
(* handlers have heard the same and their normalizers are the same.        *)
Together == reading => reply = NoReply /\ norm = wnorm

Phases ==
  /\ closed \in BOOLEAN /\ late \in BOOLEAN
  /\ ~reading => done
  /\ reading => (done <=> closed)
  /\ reply = NoReply => (closed <=> wnorm.finished)
  /\ reply = NoReply /\ ~closed => reading
  /\ late => closed

(* The reason the normalizer reads out of an ending.                       *)
EndedAs(how, reason) ==
  \/ how = "stop" /\ reason = "stop"
  \/ how = "calls" /\ reason = "tool_calls"
  \/ how = "length" /\ reason = "length"
  \/ how = "filter" /\ reason = "content_filter"

(* Until the finish event the normalizer keeps what a commit would send,   *)
(* afterwards the turn does.                                               *)
Decision ==
  /\ heard \in Seq(Calls)
  /\ reply = NoReply =>
       IF closed
         THEN /\ FirstCalls(heard, turn.calls)
              /\ turn.reason \in Reasons
              /\ EndedAs(ending, turn.reason)
              /\ turn.truncated = (turn.reason = "length")
         ELSE turn = NoTurn /\ FirstCalls(heard, wnorm.kept)

Metered ==
  /\ told \in Usage \cup {NoUsage}
  /\ reply = NoReply => wnorm.usage = Reported

(* The stream before and after its [DONE].                                 *)
Speaking ==
  ~done => /\ wire \in Seq(ContentChunk)
           /\ Roles(wire)
           /\ firstText <=> wire = <<>>
           /\ Said = content

(* What the client is told about a commit.                                 *)
Announced(calls, reason, truncated) ==
  [calls |-> calls, reason |-> ResolveFinishReason(reason, calls # <<>>, truncated)]

HollowTurn == turn.reason = "tool_calls" /\ turn.calls = <<>>

Decided ==
  /\ Committed
  /\ ~HollowTurn
  /\ StreamOutcome = Announced(turn.calls, turn.reason, turn.truncated)
  /\ \A i \in OnWire("usage") : wire[i].usage = Reported
  /\ includeUsage <=> OnWire("usage") # {}
  /\ ~reading => charged = Reported
  /\ Begins(Said, content)
  /\ ~late => Said = content

Spoken ==
  done => /\ OnWire("done") = {Len(wire)}
          /\ Roles(wire)
          /\ Decided \/ (~reading /\ ~Committed /\ StreamOutcome = Failed)

(* The collecting handler reads on alone only when the finish event asked  *)
(* for calls there are none of.                                            *)
Alone == ~reading /\ reply = NoReply => HollowTurn /\ StreamOutcome = Failed

Answered ==
  IF reply = NoReply THEN billed = NoUsage
  ELSE /\ billed = IF reply.status = 200 THEN reply.usage ELSE NoUsage
       /\ reply.status = 200 => billed = Reported
       /\ ModesAgree

IInv ==
  /\ TypeOK /\ Together /\ Phases /\ Decision /\ Metered /\ Speaking /\ Spoken /\ Alone
  /\ Answered



-----------------------------------------------------------------------------
(* The normalizer                                                          *)
UsageReports == [tokens: Nat, cached: Nat]

(* A report as the normalizer stores it.                                   *)
Stored(u) == [tokens |-> u.tokens, cached |-> IF u.cached = NoDetails THEN 0 ELSE u.cached]

Kinds == {"nothing", "error", "text", "reasoning", "finish"}

Released(n, m, out) ==
  /\ ~n.finished
  /\ out.calls = n.kept /\ out.calls \in Seq(Calls)
  /\ out.reason \in Reasons
  /\ out.truncated = (out.reason = "length")
  /\ out.usage = m.usage /\ out.usage \in UsageReports

(* What one event does, as far as the handlers can tell: m is the new      *)
(* state of the normalizer, out what it passes on.                         *)
Does(n, ev, m, out) ==
  /\ m \in Normalizers
  /\ out.kind \in Kinds
  /\ m.finished = (n.finished \/ out.kind = "finish")
  /\ out.kind = "finish" => /\ ev.type = "finish" /\ Released(n, m, out)
                          /\ EndedAs(Ending(ev), out.reason)
  /\ ev.type = "finish" /\ ~n.finished => out.kind \in {"finish", "error"}
  /\ out.kind = "error" => m = n
  /\ out.kind \in {"text", "reasoning"} => out \in Pieces
  /\ Authoritative(ev) => out.kind = "nothing"
  /\ m.kept = IF Authoritative(ev) THEN AddCall(n.kept, [id |-> ev.id, args |-> ev.args])
                                  ELSE n.kept
  /\ m.usage = IF ~n.finished /\ Reports(ev) /\ out.kind # "error" THEN Stored(ev.usage)
                                                                  ELSE n.usage

LEMMA StoredType ==
  ASSUME NEW u \in Usage
  PROVE  Stored(u) \in UsageReports /\ u # NoUsage
<1>1. u \in [tokens: Nat, cached: Nat \cup {NoDetails}]
  BY NormalizerAssumption
<1>2. u.tokens \in Nat /\ (u.cached # NoDetails => u.cached \in Nat)
  BY <1>1
<1> QED
  BY <1>1, <1>2, NormalizerAssumption DEF Stored, UsageReports

LEMMA SetUsageFacts ==
  ASSUME NEW n \in Normalizers, NEW u \in Usage \cup {NoUsage}
  PROVE  /\ SetUsage(n, u) \in Normalizers
         /\ SetUsage(n, u).finished = n.finished
         /\ SetUsage(n, u).kept = n.kept
         /\ SetUsage(n, u).usage = IF u = NoUsage THEN n.usage ELSE Stored(u)
<1>1. CASE u = NoUsage
  BY <1>1 DEF SetUsage
<1>2. CASE u # NoUsage
  <2>1. Stored(u) \in UsageReports
    BY <1>2, StoredType
  <2>2. SetUsage(n, u) = [n EXCEPT !.usage = Stored(u)]
    BY <1>2 DEF SetUsage, Stored
  <2> QED
    BY <2>1, <2>2, <1>2 DEF Normalizers, UsageReports
<1> QED
  BY <1>1, <1>2

LEMMA PendingFacts ==
  ASSUME NEW n \in Normalizers, NEW id
  PROVE  /\ id \in CallId => TrackToolInput(n, id) \in Normalizers
         /\ TrackToolInput(n, id).finished = n.finished
         /\ TrackToolInput(n, id).kept = n.kept
         /\ TrackToolInput(n, id).usage = n.usage
         /\ ForgetToolInput(n, id) \in Normalizers
         /\ ForgetToolInput(n, id).finished = n.finished
         /\ ForgetToolInput(n, id).kept = n.kept
         /\ ForgetToolInput(n, id).usage = n.usage
<1> DEFINE rest == Among(n.pending, CallId \ {id})
<1>1. n.pending \in Seq(CallId)
  BY DEF Normalizers
<1>2. rest \in Seq(CallId)
  <2>1. rest \in Seq(CallId \ {id})
    BY <1>1, AmongType
  <2> HIDE DEF rest
  <2> QED
    BY <2>1
<1>3. ForgetToolInput(n, id) = [n EXCEPT !.pending = rest]
  BY DEF ForgetToolInput
<1> HIDE DEF rest
<1>4. id \in CallId => Append(n.pending, id) \in Seq(CallId)
  BY <1>1
<1> QED
  BY <1>1, <1>2, <1>3, <1>4 DEF TrackToolInput, Normalizers

LEMMA AddCallType ==
  ASSUME NEW kept \in Seq(Calls), NEW call \in Calls
  PROVE  AddCall(kept, call) \in Seq(Calls)
BY DEF AddCall

(* An error of the stream and an event that passes nothing on.             *)
LEMMA DoesError ==
  ASSUME NEW n \in Normalizers, NEW ev, ~Authoritative(ev)
  PROVE  Does(n, ev, Error(n).n, Error(n).out)
BY DEF Does, Error, Yield, Kinds, Normalizers

LEMMA DoesNothing ==
  ASSUME NEW n \in Normalizers, NEW ev, NEW m \in Normalizers,
         m.finished = n.finished, m.kept = n.kept, m.usage = n.usage,
         ~Authoritative(ev), ~n.finished => ~Reports(ev) /\ ev.type # "finish"
  PROVE  Does(n, ev, Yield(m, Nothing).n, Yield(m, Nothing).out)
BY DEF Does, Yield, Nothing, Kinds, Normalizers

LEMMA DoesDelta ==
  ASSUME NEW n \in Normalizers, NEW ev \in DeltaEvents
  PROVE  Does(n, ev, ConsumeDelta(n, ev).n, ConsumeDelta(n, ev).out)
BY DEF Does, ConsumeDelta, Yield, Kinds, Normalizers, DeltaEvents, Authoritative, Reports, Pieces

LEMMA DoesCall ==
  ASSUME NEW n \in Normalizers, NEW ev \in CallEvents
  PROVE  Does(n, ev, ConsumeCall(n, ev).n, ConsumeCall(n, ev).out)
<1>1. ev.type = "tool-call" /\ ev.id \in CallId \cup {NoId} /\ ev.args \in Args \cup {BadArgs}
  BY DEF CallEvents
<1>2. CASE ev.id = NoId \/ ev.args = BadArgs
  BY <1>2, DoesError DEF ConsumeCall, Authoritative
<1>3. CASE ~(ev.id = NoId \/ ev.args = BadArgs)
  <2> DEFINE call == [id |-> ev.id, args |-> ev.args]
             k == AddCall(n.kept, call)
             m == [n EXCEPT !.kept = k]
  <2>1. Authoritative(ev) /\ call \in Calls
    BY <1>1, <1>3 DEF Authoritative, Calls
  <2>2. k \in Seq(Calls)
    <3>1. n.kept \in Seq(Calls)
      BY DEF Normalizers
    <3> QED
      BY <2>1, <3>1, AddCallType
  <2>3. ConsumeCall(n, ev) = Yield(m, Nothing)
    BY <1>3 DEF ConsumeCall
  <2>4. k = AddCall(n.kept, [id |-> ev.id, args |-> ev.args])
    OBVIOUS
  <2> HIDE DEF k
  <2>5. m \in Normalizers /\ m.kept = k /\ m.usage = n.usage /\ m.finished = n.finished
    BY <2>2 DEF Normalizers
  <2> HIDE DEF m
  <2>6. n.finished \in BOOLEAN /\ ~Reports(ev)
    BY <1>1 DEF Normalizers, Reports
  <2> QED
    BY <1>1, <2>1, <2>3, <2>4, <2>5, <2>6 DEF Does, Yield, Nothing, Kinds
<1> QED
  BY <1>2, <1>3

LEMMA DoesInput ==
  ASSUME NEW n \in Normalizers, NEW ev \in InputEvents
  PROVE  Does(n, ev, ConsumeInput(n, ev).n, ConsumeInput(n, ev).out)
<1>1. ~Authoritative(ev) /\ ~Reports(ev) /\ ev.type # "finish" /\ ev.id \in CallId \cup {NoId}
  BY DEF InputEvents, Authoritative, Reports
<1>2. CASE ev.type \in {"tool-input-start", "tool-input-delta"} /\ ev.id = NoId
  BY <1>1, <1>2, DoesError DEF ConsumeInput
<1>3. CASE ev.type \in {"tool-input-start", "tool-input-delta"} /\ ev.id # NoId
  <2>1. ConsumeInput(n, ev) = Yield(TrackToolInput(n, ev.id), Nothing)
    BY <1>3 DEF ConsumeInput
  <2>2. ev.id \in CallId
    BY <1>1, <1>3
  <2> QED
    BY <1>1, <2>1, <2>2, PendingFacts, DoesNothing
<1>4. CASE ev.type \notin {"tool-input-start", "tool-input-delta"}
  <2>1. ConsumeInput(n, ev) = Yield(ForgetToolInput(n, ev.id), Nothing)
    BY <1>4 DEF ConsumeInput
  <2> QED
    BY <1>1, <2>1, PendingFacts, DoesNothing
<1> QED
  BY <1>2, <1>3, <1>4

LEMMA DoesStep ==
  ASSUME NEW n \in Normalizers, NEW ev \in StepEvents
  PROVE  Does(n, ev, ConsumeStep(n, ev).n, ConsumeStep(n, ev).out)
<1>1. ev.type = "finish-step" /\ ev.usage \in Usage \cup {NoUsage} /\ ~Authoritative(ev)
      /\ (Reports(ev) <=> ev.usage # NoUsage)
  BY DEF StepEvents, Authoritative, Reports
<1>2. CASE n.finished
  BY <1>1, <1>2, DoesNothing DEF ConsumeStep
<1>3. CASE ~n.finished
  <2> DEFINE m == SetUsage(n, ev.usage)
  <2>1. /\ m \in Normalizers /\ m.finished = n.finished /\ m.kept = n.kept
        /\ m.usage = IF ev.usage = NoUsage THEN n.usage ELSE Stored(ev.usage)
    BY <1>1, SetUsageFacts
  <2>2. ConsumeStep(n, ev) = Yield(m, Nothing)
    BY <1>3 DEF ConsumeStep
  <2> HIDE DEF m
  <2>3. n.finished \in BOOLEAN
    BY DEF Normalizers
  <2> QED
    BY <1>1, <1>3, <2>1, <2>2, <2>3 DEF Does, Yield, Nothing, Kinds
<1> QED
  BY <1>2, <1>3

LEMMA FinishEndsAs ==
  ASSUME NEW ev \in FinishEvents,
         NormalizeFinishReason(IF ev.reason = "" THEN ev.raw ELSE ev.reason) # "error"
  PROVE  EndedAs(Ending(ev), NormalizeFinishReason(IF ev.reason = "" THEN ev.raw ELSE ev.reason))
<1> DEFINE word == IF ev.reason = "" THEN ev.raw ELSE ev.reason
<1>1. word # ""
  BY DEF NormalizeFinishReason, StopWords, CallWords, LengthWords
<1>2. {ev.reason, ev.raw} \ {""} = {word}
  BY <1>1 DEF FinishEvents
<1> HIDE DEF word
<1>3. Ending(ev) = IF word \in StopWords THEN "stop"
                   ELSE IF word \in CallWords THEN "calls"
                   ELSE IF word \in LengthWords THEN "length"
                   ELSE IF word = "content_filter" THEN "filter"
                   ELSE "other"
  BY <1>2 DEF Ending
<1>4. EndedAs(Ending(ev), NormalizeFinishReason(word))
  <2>1. NormalizeFinishReason(word) # "error"
    BY DEF word
  <2> QED
    BY <1>3, <2>1 DEF NormalizeFinishReason, EndedAs
<1> QED
  BY <1>4 DEF word

LEMMA DoesFinish ==
  ASSUME NEW n \in Normalizers, NEW ev \in FinishEvents
  PROVE  Does(n, ev, ConsumeFinish(n, ev).n, ConsumeFinish(n, ev).out)
<1> DEFINE word == IF ev.reason = "" THEN ev.raw ELSE ev.reason
           reason == NormalizeFinishReason(word)
           u == SetUsage(n, ev.usage)
           m == [u EXCEPT !.pending = <<>>, !.finished = TRUE]
           out == [kind |-> "finish", calls |-> n.kept, reason |-> reason,
                   usage |-> m.usage, truncated |-> reason = "length"]
<1>1. ev.type = "finish" /\ ev.usage \in Usage \cup {NoUsage} /\ ~Authoritative(ev)
      /\ (Reports(ev) <=> ev.usage # NoUsage)
  BY DEF FinishEvents, Authoritative, Reports
<1>2. CASE n.finished
  <2>1. ConsumeFinish(n, ev) = Yield(n, Nothing)
    BY <1>2 DEF ConsumeFinish
  <2> QED
    BY <1>1, <1>2, <2>1, DoesNothing
<1>3. CASE ~n.finished /\ reason = "error"
  <2>1. ConsumeFinish(n, ev) = Error(n)
    BY <1>3 DEF ConsumeFinish
  <2> QED
    BY <1>1, <1>3, <2>1, DoesError
<1>4. CASE ~n.finished /\ reason # "error"
  <2>1. ConsumeFinish(n, ev) = Yield(m, out)
    BY <1>4 DEF ConsumeFinish
  <2>2. /\ u \in Normalizers /\ u.kept = n.kept
        /\ u.usage = IF ev.usage = NoUsage THEN n.usage ELSE Stored(ev.usage)
    BY <1>1, SetUsageFacts
  <2>3. reason \in Reasons
    BY <1>4 DEF NormalizeFinishReason, Reasons
  <2>4. EndedAs(Ending(ev), reason)
    BY <1>4, FinishEndsAs
  <2> HIDE DEF reason, u
  <2>5. /\ m \in Normalizers /\ m.kept = n.kept /\ m.finished = TRUE /\ m.usage \in UsageReports
        /\ m.usage = IF ev.usage = NoUsage THEN n.usage ELSE Stored(ev.usage)
    <3>1. <<>> \in Seq(CallId)
      OBVIOUS
    <3> QED
      BY <2>2, <3>1 DEF Normalizers, UsageReports
  <2> HIDE DEF m
  <2>6. Released(n, m, out)
    BY <1>4, <2>3, <2>5 DEF Released, Normalizers
  <2>7. out.kind = "finish" /\ EndedAs(Ending(ev), out.reason)
    BY <2>4
  <2> HIDE DEF out
  <2>8. Yield(m, out).n = m /\ Yield(m, out).out = out
    BY DEF Yield
  <2>9. Does(n, ev, m, out)
    BY <1>1, <1>4, <2>5, <2>6, <2>7 DEF Does, Kinds
  <2> QED
    BY <2>1, <2>8, <2>9
<1> QED
  BY <1>2, <1>3, <1>4

(* Every event of the upstream.                                            *)
LEMMA ConsumeFacts ==
  ASSUME NEW n \in Normalizers, NEW ev \in Events
  PROVE  Does(n, ev, Consume(n, ev).n, Consume(n, ev).out)
<1>1. CASE ev \in DeltaEvents
  <2>1. Consume(n, ev) = ConsumeDelta(n, ev)
    BY <1>1 DEF Consume, DeltaEvents
  <2> QED
    BY <1>1, <2>1, DoesDelta
<1>2. CASE ev \in CallEvents
  <2>1. Consume(n, ev) = ConsumeCall(n, ev)
    BY <1>2 DEF Consume, CallEvents
  <2> QED
    BY <1>2, <2>1, DoesCall
<1>3. CASE ev \in InputEvents
  <2>1. Consume(n, ev) = ConsumeInput(n, ev)
    BY <1>3 DEF Consume, InputEvents
  <2> QED
    BY <1>3, <2>1, DoesInput
<1>4. CASE ev \in StepEvents
  <2>1. Consume(n, ev) = ConsumeStep(n, ev)
    BY <1>4 DEF Consume, StepEvents
  <2> QED
    BY <1>4, <2>1, DoesStep
<1>5. CASE ev \in FinishEvents
  <2>1. Consume(n, ev) = ConsumeFinish(n, ev)
    BY <1>5 DEF Consume, FinishEvents
  <2> QED
    BY <1>5, <2>1, DoesFinish
<1>6. CASE ev \in PlainEvents
  <2>1. ~Authoritative(ev) /\ ~Reports(ev) /\ ev.type # "finish"
    BY <1>6 DEF PlainEvents, Authoritative, Reports
  <2>2. Consume(n, ev) = IF ev.type = "error" THEN Error(n) ELSE Yield(n, Nothing)
    BY <1>6 DEF Consume, PlainEvents
  <2> QED
    BY <2>1, <2>2, DoesError, DoesNothing
<1> QED
  BY <1>1, <1>2, <1>3, <1>4, <1>5, <1>6 DEF Events

-----------------------------------------------------------------------------
(* The wire                                                                *)
OutcomeIn(w) ==
  IF At(w, "error") # {} THEN Failed
  ELSE IF At(w, "finish") # {} \/ CallsIn(w) # <<>>
    THEN [calls |-> CallsIn(w),
          reason |-> IF At(w, "finish") # {}
                       THEN w[CHOOSE i \in At(w, "finish") : TRUE].reason ELSE ""]
  ELSE Open

LEMMA WireFunctions ==
  /\ Said = SaidIn(wire)
  /\ CallsSent = CallsIn(wire)
  /\ StreamOutcome = OutcomeIn(wire)
  /\ \A kind : OnWire(kind) = At(wire, kind)
  /\ Said' = SaidIn(wire')
  /\ StreamOutcome' = OutcomeIn(wire')
  /\ \A kind : OnWire(kind)' = At(wire', kind)
BY DEF Said, SaidIn, Bare, CallsSent, CallsIn, StreamOutcome, OutcomeIn, Committed, OnWire, At,
       ReasonSent

LEMMA FunctionIsSeq ==
  ASSUME NEW n \in Nat, NEW S, NEW f \in [1..n -> S]
  PROVE  f \in Seq(S) /\ Len(f) = n
OBVIOUS

LEMMA BareType ==
  ASSUME NEW w \in Seq(ContentChunk)
  PROVE  Bare(w) \in Seq(Pieces) /\ Len(Bare(w)) = Len(w)
<1>1. \A i \in 1..Len(w) : w[i] \in ContentChunk
  OBVIOUS
<1>2. \A i \in 1..Len(w) : [kind |-> w[i].kind, text |-> w[i].text] \in Pieces
  BY <1>1 DEF ContentChunk, Pieces
<1>3. Bare(w) \in [1..Len(w) -> Pieces] /\ Len(w) \in Nat
  BY <1>2 DEF Bare
<1> QED
  BY <1>3, FunctionIsSeq

(* Content alone leaves the turn open.                                     *)
LEMMA ContentOnly ==
  ASSUME NEW w \in Seq(ContentChunk)
  PROVE  /\ SaidIn(w) = Bare(w)
         /\ OutcomeIn(w) = Open
         /\ \A kind \in {"call", "finish", "usage", "error", "done"} : At(w, kind) = {}
         /\ Among(w, ContentChunk) = w
         /\ Among(w, CallChunk) = <<>>
<1>0. \A i \in 1..Len(w) : w[i] \in ContentChunk
  OBVIOUS
<1>1. \A i \in 1..Len(w) : w[i] \in ContentChunk /\ w[i].kind \in {"text", "reasoning"}
  BY <1>0 DEF ContentChunk
<1>2. \A i \in 1..Len(w) : w[i] \notin CallChunk
  BY <1>1 DEF CallChunk
<1>3. Among(w, ContentChunk) = w
  BY <1>1, AmongAll
<1>4. Among(w, CallChunk) = <<>>
  BY <1>2, AmongNone
<1>5. \A kind \in {"call", "finish", "usage", "error", "done"} : At(w, kind) = {}
  BY <1>1 DEF At
<1>6. CallsIn(w) = <<>>
  BY <1>4 DEF CallsIn
<1> QED
  BY <1>3, <1>4, <1>5, <1>6 DEF SaidIn, OutcomeIn

(* A chunk of content adds its piece.                                      *)
LEMMA ContentAdded ==
  ASSUME NEW w \in Seq(ContentChunk), NEW c \in ContentChunk
  PROVE  /\ Append(w, c) \in Seq(ContentChunk)
         /\ Bare(Append(w, c)) = Append(Bare(w), [kind |-> c.kind, text |-> c.text])
<1>1. Append(w, c) \in Seq(ContentChunk) /\ Len(Append(w, c)) = Len(w) + 1
      /\ Len(w) \in Nat
  OBVIOUS
<1> DEFINE piece == [kind |-> c.kind, text |-> c.text]
<1>2. Bare(w) \in Seq(Pieces) /\ piece \in Pieces /\ Len(Bare(w)) = Len(w)
  BY BareType DEF ContentChunk, Pieces
<1>3. Bare(Append(w, c)) \in Seq(Pieces) /\ Len(Bare(Append(w, c))) = Len(w) + 1
  BY <1>1, BareType
<1>4. ASSUME NEW i \in 1..(Len(w) + 1)
      PROVE  Bare(Append(w, c))[i] = Append(Bare(w), piece)[i]
  <2>1. CASE i = Len(w) + 1
    BY <1>1, <1>2, <2>1 DEF Bare
  <2>2. CASE i # Len(w) + 1
    BY <1>1, <1>2, <2>2 DEF Bare
  <2> QED
    BY <2>1, <2>2
<1> HIDE DEF piece
<1>5. Append(Bare(w), piece) \in Seq(Pieces) /\ Len(Append(Bare(w), piece)) = Len(w) + 1
  BY <1>2
<1>6. Bare(Append(w, c)) = Append(Bare(w), piece)
  BY <1>1, <1>3, <1>4, <1>5
<1> QED
  BY <1>1, <1>6 DEF piece

LEMMA AppendPlaces ==
  ASSUME NEW T, NEW s \in Seq(T), NEW x \in T, NEW u, u = Append(s, x)
  PROVE  /\ Len(s) \in Nat /\ Len(u) = Len(s) + 1 /\ u # <<>>
         /\ DOMAIN s = 1..Len(s) /\ DOMAIN u = 1..(Len(s) + 1)
         /\ u[Len(s) + 1] = x /\ \A i \in 1..Len(s) : u[i] = s[i]
         /\ s = <<>> <=> Len(s) = 0
OBVIOUS

LEMMA RolesAdded ==
  ASSUME NEW w \in Seq(ContentChunk), NEW c \in ContentChunk, NEW u, u = Append(w, c),
         Roles(w), c.role <=> w = <<>>
  PROVE  Roles(u) /\ u # <<>>
<1>1. /\ Len(w) \in Nat /\ u # <<>>
      /\ DOMAIN w = 1..Len(w) /\ DOMAIN u = 1..(Len(w) + 1)
      /\ u[Len(w) + 1] = c /\ \A i \in 1..Len(w) : u[i] = w[i]
      /\ w = <<>> <=> Len(w) = 0
  BY AppendPlaces
<1>2. ASSUME NEW i \in DOMAIN u, u[i] \in ContentChunk \cup CallChunk
      PROVE  u[i].role <=> i = 1
  <2>1. CASE i = Len(w) + 1
    <3>1. i = 1 <=> w = <<>>
      BY <1>1, <2>1
    <3>2. u[i] = c
      BY <1>1, <2>1
    <3> QED
      BY <3>1, <3>2
  <2>2. CASE i # Len(w) + 1
    <3>1. i \in DOMAIN w /\ u[i] = w[i]
      BY <1>1, <2>2
    <3> QED
      BY <3>1, <1>2 DEF Roles
  <2> QED
    BY <2>1, <2>2
<1> QED
  BY <1>1, <1>2 DEF Roles

(* A chunk stream is closed by chunks that are no content.                 *)
LEMMA TailIsNoContent ==
  ASSUME NEW w \in Seq(ContentChunk), NEW tail \in Seq(Chunks), NEW u \in Seq(Chunks),
         Follow(u, w, tail), \A i \in 1..Len(tail) : tail[i] \notin ContentChunk
  PROVE  SaidIn(u) = SaidIn(w)
<1>1. w \in Seq(Chunks)
  BY DEF Chunks
<1>2. Among(u, ContentChunk) = Among(w, ContentChunk)
  BY <1>1, AmongSkips
<1> QED
  BY <1>2 DEF SaidIn

ErrorChunks == [kind: {"error"}, code: {"upstream_stream_error", "upstream_stream_incomplete"}]
FinishChunks == [kind: {"finish"}, reason: Reasons]
UsageChunks == [kind: {"usage"}, usage: UsageReports]

LEMMA ChunkKinds ==
  /\ ContentChunk \subseteq Chunks /\ CallChunk \subseteq Chunks /\ ErrorChunks \subseteq Chunks
  /\ FinishChunks \subseteq Chunks /\ UsageChunks \subseteq Chunks /\ DoneChunk \in Chunks
  /\ \A c \in ContentChunk : c.kind \in {"text", "reasoning"}
  /\ \A c \in CallChunk : c.kind = "call"
  /\ \A c \in ErrorChunks : c.kind = "error"
  /\ \A c \in FinishChunks : c.kind = "finish"
  /\ \A c \in UsageChunks : c.kind = "usage"
  /\ DoneChunk.kind = "done"
BY DEF ContentChunk, CallChunk, ErrorChunks, FinishChunks, UsageChunks, DoneChunk, Chunks,
       UsageReports

LEMMA ContentIsChunks ==
  ASSUME NEW w \in Seq(ContentChunk)
  PROVE  w \in Seq(Chunks)
<1>1. ContentChunk \subseteq Chunks
  BY ChunkKinds
<1> QED
  BY <1>1

(* A failed stream.                                                        *)
LEMMA FailedWire ==
  ASSUME NEW w \in Seq(ContentChunk), NEW e \in ErrorChunks, NEW u, u = w \o <<e, DoneChunk>>
  PROVE  /\ u \in Seq(Chunks)
         /\ OutcomeIn(u) = Failed
         /\ At(u, "finish") = {}
         /\ At(u, "done") = {Len(u)}
         /\ SaidIn(u) = SaidIn(w)
         /\ Roles(w) => Roles(u)
<1> DEFINE tail == <<e, DoneChunk>>
<1>1. w \in Seq(Chunks) /\ \A i \in 1..Len(w) : w[i] \in ContentChunk
  BY ChunkKinds
<1>2. tail \in Seq(Chunks) /\ Len(tail) = 2 /\ tail[1] = e /\ tail[2] = DoneChunk
  BY ChunkKinds
<1> HIDE DEF tail
<1>3. u = w \o tail
  BY DEF tail
<1>4. u \in Seq(Chunks) /\ Len(u) = Len(w) + 2 /\ Len(w) \in Nat
      /\ \A i \in 1..Len(w) : u[i] = w[i]
  BY <1>1, <1>2, <1>3
<1>5. u[Len(w) + 1] = e /\ u[Len(w) + 2] = DoneChunk
  BY <1>1, <1>2, <1>3
<1>6. \A i \in DOMAIN u : i \in 1..Len(w) \/ i = Len(w) + 1 \/ i = Len(w) + 2
  BY <1>4
<1>7. \A i \in 1..Len(w) : u[i] \in ContentChunk
  BY <1>1, <1>4
<1>8. At(u, "error") # {} /\ At(u, "finish") = {} /\ At(u, "done") = {Len(u)}
  <2>1. Len(w) + 1 \in At(u, "error")
    BY <1>4, <1>5, ChunkKinds DEF At
  <2>2. \A i \in DOMAIN u : u[i].kind # "finish" /\ (u[i].kind = "done" <=> i = Len(w) + 2)
    BY <1>4, <1>5, <1>6, <1>7, ChunkKinds
  <2>3. DOMAIN u = 1..(Len(w) + 2) /\ Len(w) + 2 \in DOMAIN u
    BY <1>4
  <2>4. At(u, "done") = {Len(w) + 2}
    BY <2>2, <2>3 DEF At
  <2>5. At(u, "finish") = {}
    BY <2>2 DEF At
  <2> QED
    BY <2>1, <2>4, <2>5, <1>4
<1>9. SaidIn(u) = SaidIn(w)
  <2>1. Follow(u, w, tail)
    BY <1>2, <1>4, <1>5 DEF Follow
  <2>2. e \notin ContentChunk /\ DoneChunk \notin ContentChunk
    BY ChunkKinds
  <2>3. \A i \in 1..Len(tail) : tail[i] \notin ContentChunk
    BY <1>2, <2>2
  <2> QED
    BY <1>2, <1>4, <2>1, <2>3, TailIsNoContent
<1>10. ASSUME Roles(w) PROVE Roles(u)
  <2>1. e \notin ContentChunk \cup CallChunk /\ DoneChunk \notin ContentChunk \cup CallChunk
    BY ChunkKinds
  <2> QED
    BY <1>1, <1>4, <1>5, <1>6, <1>10, <2>1 DEF Roles
<1> QED
  BY <1>4, <1>8, <1>9, <1>10 DEF OutcomeIn

(* A committed stream: the chunks of the calls, a finish chunk, perhaps a  *)
(* usage chunk, and [DONE].                                                *)
Layout(u, w, cs, f, us) ==
  /\ Len(u) = Len(w) + Len(cs) + 1 + Len(us) + 1
  /\ \A i \in 1..Len(w) : u[i] = w[i]
  /\ \A i \in 1..Len(cs) : u[Len(w) + i] = cs[i]
  /\ u[Len(w) + Len(cs) + 1] = f
  /\ \A i \in 1..Len(us) : u[Len(w) + Len(cs) + 1 + i] = us[i]
  /\ u[Len(u)] = DoneChunk

LEMMA JoinFollows ==
  ASSUME NEW T, NEW p \in Seq(T), NEW q \in Seq(T), NEW u, u = p \o q
  PROVE  u \in Seq(T) /\ Follow(u, p, q)
BY DEF Follow

LEMMA CommitLayout ==
  ASSUME NEW w \in Seq(Chunks), NEW cs \in Seq(Chunks), NEW f \in Chunks,
         NEW us \in Seq(Chunks), NEW u, u = w \o cs \o <<f>> \o us \o <<DoneChunk>>
  PROVE  u \in Seq(Chunks) /\ Layout(u, w, cs, f, us)
<1> DEFINE a == w \o cs
           b == a \o <<f>>
           c == b \o us
<1>1. <<f>> \in Seq(Chunks) /\ <<DoneChunk>> \in Seq(Chunks)
  BY ChunkKinds
<1>2. a \in Seq(Chunks) /\ Follow(a, w, cs)
  BY JoinFollows
<1> HIDE DEF a
<1>3. b \in Seq(Chunks) /\ Follow(b, a, <<f>>)
  BY <1>1, <1>2, JoinFollows
<1> HIDE DEF b
<1>4. c \in Seq(Chunks) /\ Follow(c, b, us)
  BY <1>3, JoinFollows
<1> HIDE DEF c
<1>5. u = c \o <<DoneChunk>>
  BY DEF a, b, c
<1>6. u \in Seq(Chunks) /\ Follow(u, c, <<DoneChunk>>)
  BY <1>1, <1>4, <1>5, JoinFollows
<1>7. Len(w) \in Nat /\ Len(cs) \in Nat /\ Len(us) \in Nat
  OBVIOUS
<1>8. /\ Len(a) = Len(w) + Len(cs)
      /\ \A i \in 1..Len(w) : a[i] = w[i]
      /\ \A i \in 1..Len(cs) : a[Len(w) + i] = cs[i]
  BY <1>2 DEF Follow
<1>9. /\ Len(b) = Len(a) + 1
      /\ \A i \in 1..Len(a) : b[i] = a[i]
      /\ b[Len(a) + 1] = f
  BY <1>3 DEF Follow
<1>10. /\ Len(c) = Len(b) + Len(us)
       /\ \A i \in 1..Len(b) : c[i] = b[i]
       /\ \A i \in 1..Len(us) : c[Len(b) + i] = us[i]
  BY <1>4 DEF Follow
<1>11. /\ Len(u) = Len(c) + 1
       /\ \A i \in 1..Len(c) : u[i] = c[i]
       /\ u[Len(c) + 1] = DoneChunk
  BY <1>6 DEF Follow
<1>12. Layout(u, w, cs, f, us)
  BY <1>7, <1>8, <1>9, <1>10, <1>11 DEF Layout
<1> QED
  BY <1>6, <1>12

Placed(i, u, w, cs, f, us) ==
  \/ i \in 1..Len(w) /\ u[i] \in ContentChunk /\ u[i] = w[i]
  \/ \E k \in 1..Len(cs) : i = Len(w) + k /\ u[i] \in CallChunk /\ u[i] = cs[k]
  \/ i = Len(w) + Len(cs) + 1 /\ u[i] = f
  \/ \E k \in 1..Len(us) : i = Len(w) + Len(cs) + 1 + k /\ u[i] \in UsageChunks
                           /\ u[i] = us[k]
  \/ i = Len(u) /\ u[i] = DoneChunk

LEMMA CommitPlaces ==
  ASSUME NEW w \in Seq(ContentChunk), NEW cs \in Seq(CallChunk), NEW f \in FinishChunks,
         NEW us \in Seq(UsageChunks), NEW u \in Seq(Chunks), Layout(u, w, cs, f, us),
         NEW i \in DOMAIN u
  PROVE  Placed(i, u, w, cs, f, us)
<1>1. Len(w) \in Nat /\ Len(cs) \in Nat /\ Len(us) \in Nat /\ i \in 1..Len(u)
      /\ Len(u) = Len(w) + Len(cs) + 1 + Len(us) + 1
  BY DEF Layout
<1>2. CASE i \in 1..Len(w)
  <2>1. w[i] \in ContentChunk
    BY <1>2
  <2> QED
    BY <1>2, <2>1 DEF Layout, Placed
<1>3. CASE i > Len(w) /\ i <= Len(w) + Len(cs)
  <2> DEFINE k == i - Len(w)
  <2>1. k \in 1..Len(cs) /\ i = Len(w) + k
    BY <1>1, <1>3
  <2> HIDE DEF k
  <2>2. cs[k] \in CallChunk
    BY <2>1
  <2>3. u[Len(w) + k] = cs[k]
    BY <2>1 DEF Layout
  <2> QED
    BY <2>1, <2>2, <2>3 DEF Placed
<1>4. CASE i = Len(w) + Len(cs) + 1
  BY <1>4 DEF Layout, Placed
<1>5. CASE i > Len(w) + Len(cs) + 1 /\ i < Len(u)
  <2> DEFINE k == i - (Len(w) + Len(cs) + 1)
  <2>1. k \in 1..Len(us) /\ i = Len(w) + Len(cs) + 1 + k
    BY <1>1, <1>5
  <2> HIDE DEF k
  <2>2. us[k] \in UsageChunks
    BY <2>1
  <2>3. u[Len(w) + Len(cs) + 1 + k] = us[k]
    BY <2>1 DEF Layout
  <2> QED
    BY <2>1, <2>2, <2>3 DEF Placed
<1>6. CASE i = Len(u)
  BY <1>6 DEF Layout, Placed
<1>7. \A a, b, c, d \in Nat : \A j \in 1..d : d = a + b + 1 + c + 1 =>
        \/ j \in 1..a
        \/ j > a /\ j <= a + b
        \/ j = a + b + 1
        \/ j > a + b + 1 /\ j < d
        \/ j = d
  OBVIOUS
<1>8. Len(u) \in Nat
  OBVIOUS
<1>9. \/ i \in 1..Len(w)
      \/ i > Len(w) /\ i <= Len(w) + Len(cs)
      \/ i = Len(w) + Len(cs) + 1
      \/ i > Len(w) + Len(cs) + 1 /\ i < Len(u)
      \/ i = Len(u)
  BY <1>1, <1>7, <1>8, Zenon
<1> QED
  BY <1>2, <1>3, <1>4, <1>5, <1>6, <1>9, Zenon

LEMMA CommittedWire ==
  ASSUME NEW w \in Seq(ContentChunk), NEW cs \in Seq(CallChunk), NEW f \in FinishChunks,
         NEW us \in Seq(UsageChunks), NEW u \in Seq(Chunks), Layout(u, w, cs, f, us)
  PROVE  /\ At(u, "error") = {}
         /\ At(u, "finish") # {} /\ \A i \in At(u, "finish") : u[i] = f
         /\ At(u, "done") = {Len(u)}
         /\ At(u, "usage") # {} <=> us # <<>>
         /\ \A i \in At(u, "usage") : \E k \in 1..Len(us) : u[i] = us[k]
         /\ SaidIn(u) = SaidIn(w)
         /\ Among(u, CallChunk) = cs
<1> DEFINE n == Len(w)
           m == Len(cs)
<1>1. n \in Nat /\ m \in Nat /\ Len(us) \in Nat /\ DOMAIN u = 1..Len(u)
      /\ Len(u) = n + m + 1 + Len(us) + 1
  BY DEF Layout
<1>2. \A i \in DOMAIN u :
        /\ u[i].kind # "error"
        /\ u[i].kind = "finish" => u[i] = f
        /\ u[i].kind = "done" <=> i = Len(u)
        /\ u[i].kind = "usage" => \E k \in 1..Len(us) : u[i] = us[k]
  <2> TAKE i \in DOMAIN u
  <2>1. CASE i \in 1..Len(w) /\ u[i] \in ContentChunk /\ u[i] = w[i]
    <3>1. u[i].kind \in {"text", "reasoning"} /\ i # Len(u)
      BY <2>1, <1>1, ChunkKinds
    <3> QED
      BY <3>1
  <2>2. CASE \E k \in 1..Len(cs) : i = Len(w) + k /\ u[i] \in CallChunk /\ u[i] = cs[k]
    <3>1. u[i].kind = "call" /\ i # Len(u)
      BY <2>2, <1>1, ChunkKinds
    <3> QED
      BY <3>1
  <2>3. CASE i = Len(w) + Len(cs) + 1 /\ u[i] = f
    <3>1. u[i].kind = "finish" /\ i # Len(u)
      BY <2>3, <1>1, ChunkKinds
    <3> QED
      BY <3>1, <2>3
  <2>4. CASE \E k \in 1..Len(us) : i = Len(w) + Len(cs) + 1 + k /\ u[i] \in UsageChunks
                                   /\ u[i] = us[k]
    <3>1. u[i].kind = "usage" /\ i # Len(u)
      BY <2>4, <1>1, ChunkKinds
    <3> QED
      BY <3>1, <2>4
  <2>5. CASE i = Len(u) /\ u[i] = DoneChunk
    BY <2>5, ChunkKinds
  <2>6. Placed(i, u, w, cs, f, us)
    BY CommitPlaces
  <2> QED
    BY <2>1, <2>2, <2>3, <2>4, <2>5, <2>6, Zenon DEF Placed
<1>3. At(u, "finish") # {}
  <2>1. n + m + 1 \in DOMAIN u /\ u[n + m + 1] = f
    BY <1>1 DEF Layout
  <2>2. f.kind = "finish"
    BY ChunkKinds
  <2> HIDE DEF n, m
  <2> QED
    BY <2>1, <2>2 DEF At
<1>4. At(u, "usage") # {} <=> us # <<>>
  <2>1. ASSUME At(u, "usage") # {} PROVE us # <<>>
    BY <1>2, <2>1 DEF At
  <2>2. ASSUME us # <<>> PROVE At(u, "usage") # {}
    <3>1. Len(us) # 0
      BY <2>2
    <3>2. n + m + 1 + 1 \in DOMAIN u /\ 1 \in 1..Len(us)
      BY <1>1, <3>1
    <3>3. u[n + m + 1 + 1] = us[1]
      BY <3>2 DEF Layout
    <3>4. us[1] \in UsageChunks
      BY <3>2
    <3>5. us[1].kind = "usage"
      BY <3>4, ChunkKinds
    <3> HIDE DEF n, m
    <3> QED
      BY <3>2, <3>3, <3>5 DEF At
  <2> QED
    BY <2>1, <2>2
<1>5. At(u, "done") = {Len(u)}
  BY <1>1, <1>2 DEF At
<1> DEFINE tail == SubSeq(u, n + 1, Len(u))
           rest == SubSeq(u, n + m + 1, Len(u))
<1>6. tail \in Seq(Chunks) /\ Len(tail) = Len(u) - n
      /\ \A i \in 1..Len(tail) : tail[i] = u[n + i]
  BY <1>1
<1>7. rest \in Seq(Chunks) /\ Len(rest) = Len(u) - (n + m)
      /\ \A i \in 1..Len(rest) : rest[i] = u[n + m + i]
  BY <1>1
<1> HIDE DEF tail, rest
<1>8. Follow(u, w, tail)
  BY <1>1, <1>6 DEF Follow, Layout
<1>9. Follow(tail, cs, rest)
  <2>1. Len(tail) = m + Len(rest)
    BY <1>1, <1>6, <1>7
  <2>2. \A i \in 1..m : tail[i] = cs[i]
    <3> TAKE i \in 1..m
    <3>1. i \in 1..Len(tail)
      BY <1>1, <1>6
    <3>2. u[Len(w) + i] = cs[i]
      BY DEF Layout
    <3> QED
      BY <3>1, <3>2, <1>6
  <2>3. \A i \in 1..Len(rest) : tail[m + i] = rest[i]
    <3> TAKE i \in 1..Len(rest)
    <3>1. m + i \in 1..Len(tail) /\ n + (m + i) = n + m + i
      BY <1>1, <1>6, <1>7
    <3>2. tail[m + i] = u[n + (m + i)]
      BY <3>1, <1>6
    <3> QED
      BY <3>1, <3>2, <1>7
  <2> QED
    BY <2>1, <2>2, <2>3 DEF Follow
<1>10. \A i \in 1..Len(u) : i > n => u[i] \notin ContentChunk
  <2> TAKE i \in 1..Len(u)
  <2> HAVE i > n
  <2>1. i \in DOMAIN u /\ i \notin 1..Len(w)
    BY <1>1
  <2>2. Placed(i, u, w, cs, f, us)
    BY <2>1, CommitPlaces
  <2>3. u[i] \in CallChunk \/ u[i] = f \/ u[i] \in UsageChunks \/ u[i] = DoneChunk
    BY <2>1, <2>2, Zenon DEF Placed
  <2> QED
    BY <2>3, ChunkKinds
<1>11. \A i \in 1..Len(u) : i > n + m => u[i] \notin CallChunk
  <2> TAKE i \in 1..Len(u)
  <2> HAVE i > n + m
  <2>1. i \in DOMAIN u /\ i \notin 1..Len(w) /\ ~\E k \in 1..Len(cs) : i = Len(w) + k
    BY <1>1
  <2>2. Placed(i, u, w, cs, f, us)
    BY <2>1, CommitPlaces
  <2>3. u[i] = f \/ u[i] \in UsageChunks \/ u[i] = DoneChunk
    BY <2>1, <2>2, Zenon DEF Placed
  <2> QED
    BY <2>3, ChunkKinds
<1>12. SaidIn(u) = SaidIn(w)
  <2>1. \A i \in 1..Len(tail) : tail[i] \notin ContentChunk
    <3> TAKE i \in 1..Len(tail)
    <3>1. n + i \in 1..Len(u) /\ n + i > n
      BY <1>1, <1>6
    <3> QED
      BY <3>1, <1>6, <1>10
  <2> QED
    BY <1>6, <1>8, <2>1, TailIsNoContent
<1>13. Among(tail, CallChunk) = cs
  <2>1. \A i \in 1..Len(rest) : rest[i] \notin CallChunk
    <3> TAKE i \in 1..Len(rest)
    <3>1. n + m + i \in 1..Len(u) /\ n + m + i > n + m
      BY <1>1, <1>7
    <3> QED
      BY <3>1, <1>7, <1>11
  <2>2. cs \in Seq(Chunks)
    BY ChunkKinds
  <2>3. Among(tail, CallChunk) = Among(cs, CallChunk)
    BY <1>6, <1>7, <1>9, <2>1, <2>2, AmongSkips
  <2>4. \A i \in 1..Len(cs) : cs[i] \in CallChunk
    OBVIOUS
  <2>5. Among(cs, CallChunk) = cs
    BY <2>4, AmongAll
  <2> QED
    BY <2>3, <2>5
<1>14. Among(u, CallChunk) = cs
  <2>1. w \in Seq(Chunks)
    BY ChunkKinds
  <2>2. Among(u, CallChunk) = Joined(Among(w, CallChunk), Among(tail, CallChunk))
    BY <1>6, <1>8, <2>1, AmongJoined
  <2>3. Among(w, CallChunk) = <<>>
    BY ContentOnly
  <2>4. Joined(<<>>, cs) = cs
    BY DEF Joined
  <2> QED
    BY <1>13, <2>2, <2>3, <2>4
<1> QED
  BY <1>2, <1>3, <1>4, <1>5, <1>12, <1>14 DEF At

LEMMA CommittedRoles ==
  ASSUME NEW w \in Seq(ContentChunk), NEW cs \in Seq(CallChunk), NEW f \in FinishChunks,
         NEW us \in Seq(UsageChunks), NEW u \in Seq(Chunks), Layout(u, w, cs, f, us),
         Roles(w), \A k \in 1..Len(cs) : cs[k].role <=> w = <<>> /\ k = 1
  PROVE  Roles(u)
<1> SUFFICES ASSUME NEW i \in DOMAIN u, u[i] \in ContentChunk \cup CallChunk
             PROVE  u[i].role <=> i = 1
  BY DEF Roles
<1>1. Len(w) \in Nat /\ (w = <<>> <=> Len(w) = 0)
  OBVIOUS
<1>2. CASE i \in 1..Len(w) /\ u[i] = w[i]
  BY <1>2, ChunkKinds DEF Roles
<1>3. CASE \E k \in 1..Len(cs) : i = Len(w) + k /\ u[i] = cs[k]
  BY <1>1, <1>3
<1>4. f \notin ContentChunk \cup CallChunk /\ DoneChunk \notin ContentChunk \cup CallChunk
      /\ \A c \in UsageChunks : c \notin ContentChunk \cup CallChunk
  BY ChunkKinds
<1>5. Placed(i, u, w, cs, f, us)
  BY CommitPlaces
<1> QED
  BY <1>2, <1>3, <1>4, <1>5, Zenon DEF Placed

-----------------------------------------------------------------------------
(* The calls heard                                                         *)
LEMMA FirstHeardIs ==
  ASSUME NEW calls
  PROVE  /\ Stream!FirstHeard(calls) <=> FirstCalls(heard, calls)
         /\ Whole!FirstHeard(calls) <=> FirstCalls(heard, calls)
BY DEF Stream!FirstHeard, Stream!First, Whole!FirstHeard, Whole!First, FirstCalls, FirstAt

LEMMA FirstCallsNone == FirstCalls(<<>>, <<>>)
<1> DEFINE at == [k \in {} |-> 0]
<1>1. DOMAIN <<>> = {}
  OBVIOUS
<1>2. at \in [{} -> {}]
  OBVIOUS
<1> QED
  BY <1>1, <1>2 DEF FirstCalls

(* Hearing a call, the deduper keeps the first calls of what was heard.    *)
LEMMA FirstCallsAdd ==
  ASSUME NEW h \in Seq(Calls), NEW kept \in Seq(Calls), NEW call \in Calls,
         FirstCalls(h, kept)
  PROVE  FirstCalls(Append(h, call), AddCall(kept, call))
<1> DEFINE n == Len(h)
           m == Len(kept)
           g == Append(h, call)
<1>1. /\ n \in Nat /\ DOMAIN h = 1..n /\ g \in Seq(Calls) /\ DOMAIN g = 1..(n + 1)
      /\ g[n + 1] = call /\ \A i \in 1..n : g[i] = h[i]
  OBVIOUS
<1>2. m \in Nat /\ DOMAIN kept = 1..m
  OBVIOUS
<1>a. PICK at \in [DOMAIN kept -> DOMAIN h] :
        /\ \A k \in DOMAIN kept : kept[k] = h[at[k]]
        /\ \A k, l \in DOMAIN kept : k < l => at[k] < at[l]
        /\ \A i \in DOMAIN h : FirstAt(h, i) <=> \E k \in DOMAIN kept : at[k] = i
  BY DEF FirstCalls
<1> HIDE DEF g, n, m
<1>3. /\ at \in [1..m -> 1..n]
      /\ \A k \in 1..m : kept[k] = h[at[k]]
      /\ \A k, l \in 1..m : k < l => at[k] < at[l]
      /\ \A i \in 1..n : FirstAt(h, i) <=> \E k \in 1..m : at[k] = i
  BY <1>1, <1>2, <1>a
<1>4. \A i \in 1..n : FirstAt(g, i) <=> FirstAt(h, i)
  <2> TAKE i \in 1..n
  <2>1. \A j \in 1..(i - 1) : g[j] = h[j] /\ g[i] = h[i]
    BY <1>1
  <2> QED
    BY <2>1 DEF FirstAt
<1>5. \A k \in 1..m : at[k] \in 1..n
  BY <1>3
<1>6. CASE \E k \in 1..m : kept[k].id = call.id
  <2>1. AddCall(kept, call) = kept
    <3>1. \E k \in DOMAIN kept : kept[k].id = call.id
      BY <1>2, <1>6, Zenon
    <3> QED
      BY <3>1, Zenon DEF AddCall
  <2>2. PICK k \in 1..m : kept[k].id = call.id
    BY <1>6
  <2>3. at[k] \in 1..((n + 1) - 1) /\ g[at[k]].id = call.id
    <3>1. at[k] \in 1..n /\ kept[k] = h[at[k]] /\ g[at[k]] = h[at[k]]
      BY <1>1, <1>3, <1>5
    <3>2. (n + 1) - 1 = n
      BY <1>1
    <3> QED
      BY <3>1, <3>2, <2>2
  <2>4. ~FirstAt(g, n + 1)
    BY <1>1, <2>3 DEF FirstAt
  <2>5. at \in [DOMAIN kept -> DOMAIN g]
    BY <1>1, <1>2, <1>3
  <2>6. \A j \in DOMAIN kept : kept[j] = g[at[j]]
    BY <1>1, <1>2, <1>3, <1>5
  <2>7. \A i \in DOMAIN g : FirstAt(g, i) <=> \E j \in DOMAIN kept : at[j] = i
    <3> TAKE i \in DOMAIN g
    <3>1. CASE i = n + 1
      <4>1. \A j \in 1..m : at[j] # n + 1
        BY <1>1, <1>5
      <4> QED
        BY <3>1, <4>1, <2>4, <1>2
    <3>2. CASE i # n + 1
      <4>1. i \in 1..n
        BY <1>1, <3>2
      <4> QED
        BY <4>1, <1>2, <1>3, <1>4
    <3> QED
      BY <3>1, <3>2
  <2> QED
    <3>1. \A j, l \in DOMAIN kept : j < l => at[j] < at[l]
      BY <1>a
    <3>2. FirstCalls(g, kept)
      BY <2>5, <2>6, <2>7, <3>1, Zenon DEF FirstCalls
    <3> QED
      BY <2>1, <3>2 DEF g
<1>7. CASE ~\E k \in 1..m : kept[k].id = call.id
  <2> DEFINE kept2 == Append(kept, call)
             at2 == [k \in 1..(m + 1) |-> IF k <= m THEN at[k] ELSE n + 1]
  <2>1. AddCall(kept, call) = kept2
    BY <1>2, <1>7 DEF AddCall
  <2>2. /\ kept2 \in Seq(Calls) /\ DOMAIN kept2 = 1..(m + 1) /\ kept2[m + 1] = call
        /\ \A k \in 1..m : kept2[k] = kept[k]
    BY DEF m
  <2>3. /\ at2[m + 1] = n + 1 /\ \A k \in 1..m : at2[k] = at[k]
        /\ at2 \in [1..(m + 1) -> 1..(n + 1)]
    BY <1>1, <1>2, <1>5
  <2> HIDE DEF kept2, at2
  <2>4. FirstAt(g, n + 1)
    <3> SUFFICES ASSUME NEW j \in 1..n, h[j].id = call.id PROVE FALSE
      BY <1>1 DEF FirstAt
    <3> DEFINE S == {i \in 1..n : h[i].id = call.id}
    <3>1. S \in SUBSET Nat /\ S # {}
      <4>1. 1..n \subseteq Nat
        OBVIOUS
      <4>2. S \subseteq 1..n /\ j \in S
        OBVIOUS
      <4> HIDE DEF S
      <4> QED
        BY <4>1, <4>2
    <3>2. PICK x \in S : \A y \in S : x <= y
      BY <3>1, LeastOf
    <3>3. FirstAt(h, x)
      <4> SUFFICES ASSUME NEW i \in 1..(x - 1), h[i].id = h[x].id PROVE FALSE
        BY DEF FirstAt
      <4>1. i \in S /\ i < x
        BY <3>2, <1>1
      <4> QED
        BY <4>1, <3>2, <1>1
    <3>4. PICK k \in 1..m : at[k] = x
      BY <3>2, <3>3, <1>3
    <3>5. kept[k].id = call.id
      BY <3>2, <3>4, <1>3
    <3> QED
      BY <3>5, <1>7
  <2>5. at2 \in [DOMAIN kept2 -> DOMAIN g]
    BY <1>1, <2>2, <2>3
  <2>6. \A k \in DOMAIN kept2 : kept2[k] = g[at2[k]]
    <3> TAKE k \in DOMAIN kept2
    <3>1. CASE k = m + 1
      BY <3>1, <1>1, <2>2, <2>3
    <3>2. CASE k # m + 1
      <4>1. k \in 1..m
        BY <3>2, <1>2, <2>2
      <4> QED
        BY <4>1, <1>1, <1>3, <1>5, <2>2, <2>3
    <3> QED
      BY <3>1, <3>2
  <2>7. \A k, l \in DOMAIN kept2 : k < l => at2[k] < at2[l]
    <3> TAKE k, l \in DOMAIN kept2
    <3> HAVE k < l
    <3>1. k \in 1..m /\ at2[k] = at[k] /\ at[k] \in 1..n
      BY <1>2, <1>5, <2>2, <2>3
    <3>2. CASE l = m + 1
      BY <3>1, <3>2, <1>1, <2>3
    <3>3. CASE l # m + 1
      <4>1. l \in 1..m /\ at2[l] = at[l]
        BY <3>3, <1>2, <2>2, <2>3
      <4> QED
        BY <3>1, <4>1, <1>3
    <3> QED
      BY <3>2, <3>3
  <2>8. \A i \in DOMAIN g : FirstAt(g, i) <=> \E k \in DOMAIN kept2 : at2[k] = i
    <3> TAKE i \in DOMAIN g
    <3>1. CASE i = n + 1
      <4>1. m + 1 \in DOMAIN kept2
        BY <1>2, <2>2
      <4> QED
        BY <3>1, <4>1, <2>3, <2>4
    <3>2. CASE i # n + 1
      <4>1. i \in 1..n
        BY <1>1, <3>2
      <4>2. (\E k \in 1..m : at[k] = i) <=> \E k \in DOMAIN kept2 : at2[k] = i
        <5>1. ASSUME NEW k \in 1..m, at[k] = i PROVE k \in DOMAIN kept2 /\ at2[k] = i
          BY <5>1, <1>2, <2>2, <2>3
        <5>2. ASSUME NEW k \in DOMAIN kept2, at2[k] = i PROVE k \in 1..m /\ at[k] = i
          BY <5>2, <3>2, <1>2, <2>2, <2>3
        <5> QED
          BY <5>1, <5>2
      <4> QED
        BY <4>1, <4>2, <1>3, <1>4
    <3> QED
      BY <3>1, <3>2
  <2> QED
    BY <2>1, <2>5, <2>6, <2>7, <2>8 DEF FirstCalls, g
<1> QED
  BY <1>6, <1>7

-----------------------------------------------------------------------------
(* What the handler writes                                                 *)
LEMMA SayStep ==
  ASSUME Speaking, ~done, firstText \in BOOLEAN,
         NEW kind \in {"text", "reasoning"}, NEW text \in Text, text # "",
         EmitContent(kind, text)
  PROVE  /\ wire' \in Seq(ContentChunk) /\ Roles(wire') /\ wire' # <<>> /\ ~firstText'
         /\ Said' = Append(Said, [kind |-> kind, text |-> text])
         /\ StreamOutcome = Open /\ StreamOutcome' = Open
<1> DEFINE c == [kind |-> kind, text |-> text, role |-> firstText]
<1>1. /\ wire \in Seq(ContentChunk) /\ Roles(wire) /\ (firstText <=> wire = <<>>)
  BY DEF Speaking
<1>2. c \in ContentChunk
  BY DEF ContentChunk
<1>3. wire' = Append(wire, c) /\ firstText' = FALSE
  BY DEF EmitContent
<1>4. c.role = firstText /\ [kind |-> c.kind, text |-> c.text] = [kind |-> kind, text |-> text]
  OBVIOUS
<1> HIDE DEF c
<1>5. wire' \in Seq(ContentChunk) /\ Bare(wire') = Append(Bare(wire), [kind |-> kind, text |-> text])
  BY <1>1, <1>2, <1>3, <1>4, ContentAdded
<1>6. SaidIn(wire) = Bare(wire) /\ SaidIn(wire') = Bare(wire')
      /\ OutcomeIn(wire) = Open /\ OutcomeIn(wire') = Open
  BY <1>1, <1>5, ContentOnly
<1>7. Roles(wire') /\ wire' # <<>>
  BY <1>1, <1>2, <1>3, <1>4, RolesAdded
<1> QED
  BY <1>3, <1>5, <1>6, <1>7, WireFunctions

LEMMA FailStep ==
  ASSUME Speaking, ~done,
         NEW code \in {"upstream_stream_error", "upstream_stream_incomplete"}, FailStream(code)
  PROVE  /\ done' = TRUE
         /\ wire' \in Seq(Chunks) /\ Roles(wire') /\ OnWire("done")' = {Len(wire')}
         /\ ~Committed'
         /\ Said' = Said
         /\ StreamOutcome = Open /\ StreamOutcome' = Failed
<1> DEFINE e == [kind |-> "error", code |-> code]
<1>1. wire \in Seq(ContentChunk) /\ Roles(wire)
  BY DEF Speaking
<1>2. e \in ErrorChunks
  BY DEF ErrorChunks
<1>3. wire' = wire \o <<e, DoneChunk>> /\ done' = TRUE
  BY DEF FailStream
<1> HIDE DEF e
<1>4. /\ wire' \in Seq(Chunks) /\ OutcomeIn(wire') = Failed /\ At(wire', "finish") = {}
      /\ At(wire', "done") = {Len(wire')} /\ SaidIn(wire') = SaidIn(wire) /\ Roles(wire')
  BY <1>1, <1>2, <1>3, FailedWire
<1>5. OutcomeIn(wire) = Open
  BY <1>1, ContentOnly
<1>6. Committed' <=> At(wire', "finish") # {}
  BY DEF Committed, OnWire, At
<1> QED
  BY <1>1, <1>3, <1>4, <1>5, <1>6, WireFunctions

LEMMA ResolveType ==
  ASSUME NEW reason \in Reasons, NEW calls \in BOOLEAN, NEW truncated \in BOOLEAN
  PROVE  ResolveFinishReason(reason, calls, truncated) \in Reasons
BY DEF ResolveFinishReason, Reasons

LEMMA CallChunksType ==
  ASSUME NEW calls \in Seq(Calls), firstText \in BOOLEAN
  PROVE  /\ CallChunks(calls) \in Seq(CallChunk) /\ Len(CallChunks(calls)) = Len(calls)
         /\ \A k \in 1..Len(calls) : CallChunks(calls)[k].role = (firstText /\ k = 1)
         /\ [k \in DOMAIN CallChunks(calls) |-> CallChunks(calls)[k].call] = calls
<1> DEFINE cs == CallChunks(calls)
<1>1. Len(calls) \in Nat /\ DOMAIN calls = 1..Len(calls)
      /\ calls = [k \in 1..Len(calls) |-> calls[k]]
      /\ \A k \in 1..Len(calls) : calls[k] \in Calls /\ k - 1 \in Nat
  OBVIOUS
<1>2. cs = [k \in 1..Len(calls) |->
              [kind |-> "call", index |-> k - 1, call |-> calls[k], role |-> firstText /\ k = 1]]
  BY <1>1 DEF CallChunks
<1> HIDE DEF cs
<1>3. \A k \in 1..Len(calls) : cs[k] \in CallChunk /\ cs[k].role = (firstText /\ k = 1)
                               /\ cs[k].call = calls[k]
  BY <1>1, <1>2 DEF CallChunk
<1>4. cs \in [1..Len(calls) -> CallChunk]
  BY <1>2, <1>3
<1>5. cs \in Seq(CallChunk) /\ Len(cs) = Len(calls) /\ DOMAIN cs = 1..Len(calls)
  BY <1>1, <1>4, FunctionIsSeq
<1>6. [k \in DOMAIN cs |-> cs[k].call] = calls
  BY <1>1, <1>3, <1>5
<1> QED
  BY <1>3, <1>5, <1>6 DEF cs

LEMMA CommitStep ==
  ASSUME Speaking, ~done, firstText \in BOOLEAN, includeUsage \in BOOLEAN,
         NEW t, t.calls \in Seq(Calls), t.reason \in Reasons, t.truncated \in BOOLEAN,
         t.usage \in UsageReports, FinishStream(t), includeUsage' = includeUsage
  PROVE  /\ done' = TRUE
         /\ wire' \in Seq(Chunks) /\ Roles(wire') /\ OnWire("done")' = {Len(wire')}
         /\ firstText' \in BOOLEAN
         /\ Committed'
         /\ Said' = Said
         /\ StreamOutcome = Open
         /\ StreamOutcome' = Announced(t.calls, t.reason, t.truncated)
         /\ \A i \in OnWire("usage")' : wire'[i].usage = t.usage
         /\ includeUsage' <=> OnWire("usage")' # {}
<1> DEFINE cs == CallChunks(t.calls)
           r == ResolveFinishReason(t.reason, t.calls # <<>>, t.truncated)
           f == [kind |-> "finish", reason |-> r]
           us == IF includeUsage THEN <<[kind |-> "usage", usage |-> t.usage]>> ELSE <<>>
<1>1. wire \in Seq(ContentChunk) /\ Roles(wire) /\ (firstText <=> wire = <<>>)
  BY DEF Speaking
<1>2. wire' = wire \o cs \o <<f>> \o us \o <<DoneChunk>> /\ done' = TRUE
      /\ firstText' = (firstText /\ t.calls = <<>>)
  BY DEF FinishStream
<1>3. /\ cs \in Seq(CallChunk) /\ Len(cs) = Len(t.calls)
      /\ \A k \in 1..Len(t.calls) : cs[k].role = (firstText /\ k = 1)
      /\ [k \in DOMAIN cs |-> cs[k].call] = t.calls
  BY CallChunksType
<1>4. r \in Reasons
  <2>1. (t.calls # <<>>) \in BOOLEAN
    OBVIOUS
  <2> QED
    BY <2>1, ResolveType
<1> HIDE DEF r, cs
<1>5. f \in FinishChunks /\ f.reason = r
  BY <1>4 DEF FinishChunks
<1>6. /\ us \in Seq(UsageChunks) /\ (us # <<>> <=> includeUsage)
      /\ \A k \in 1..Len(us) : us[k].usage = t.usage
  <2> DEFINE c == [kind |-> "usage", usage |-> t.usage]
  <2>1. c \in UsageChunks /\ c.usage = t.usage
    BY DEF UsageChunks
  <2>2. us = IF includeUsage THEN <<c>> ELSE <<>>
    OBVIOUS
  <2> HIDE DEF c, us
  <2>3. CASE includeUsage
    <3>1. us = <<c>>
      BY <2>2, <2>3
    <3>2. <<c>> \in Seq(UsageChunks) /\ <<c>> # <<>> /\ Len(<<c>>) = 1 /\ <<c>>[1] = c
      BY <2>1
    <3> QED
      BY <3>1, <3>2, <2>1, <2>3
  <2>4. CASE ~includeUsage
    <3>1. us = <<>>
      BY <2>2, <2>4
    <3>2. <<>> \in Seq(UsageChunks) /\ Len(<<>>) = 0
      OBVIOUS
    <3> QED
      BY <3>1, <3>2, <2>4
  <2> QED
    BY <2>3, <2>4
<1> HIDE DEF f, us
<1>7. wire \in Seq(Chunks) /\ cs \in Seq(Chunks) /\ f \in Chunks /\ us \in Seq(Chunks)
  BY <1>1, <1>3, <1>5, <1>6, ChunkKinds
<1>8. wire' \in Seq(Chunks) /\ Layout(wire', wire, cs, f, us)
  BY <1>2, <1>7, CommitLayout
<1>9. /\ At(wire', "error") = {}
      /\ At(wire', "finish") # {} /\ \A i \in At(wire', "finish") : wire'[i] = f
      /\ At(wire', "done") = {Len(wire')}
      /\ At(wire', "usage") # {} <=> us # <<>>
      /\ \A i \in At(wire', "usage") : \E k \in 1..Len(us) : wire'[i] = us[k]
      /\ SaidIn(wire') = SaidIn(wire)
      /\ Among(wire', CallChunk) = cs
  BY <1>1, <1>3, <1>5, <1>6, <1>8, CommittedWire
<1>10. Roles(wire')
  <2>1. \A k \in 1..Len(cs) : cs[k].role <=> wire = <<>> /\ k = 1
    BY <1>1, <1>3
  <2> QED
    BY <1>1, <1>3, <1>5, <1>6, <1>8, <2>1, CommittedRoles
<1>11. CallsIn(wire') = t.calls
  BY <1>3, <1>9 DEF CallsIn
<1>12. OutcomeIn(wire') = Announced(t.calls, t.reason, t.truncated)
  <2>1. wire'[CHOOSE i \in At(wire', "finish") : TRUE] = f
    BY <1>9
  <2>2. OutcomeIn(wire') = [calls |-> t.calls, reason |-> r]
    BY <1>5, <1>9, <1>11, <2>1 DEF OutcomeIn
  <2> QED
    BY <2>2 DEF Announced, r
<1>13. OutcomeIn(wire) = Open
  BY <1>1, ContentOnly
<1>14. Committed' <=> At(wire', "finish") # {}
  BY DEF Committed, OnWire, At
<1>15. /\ \A i \in At(wire', "usage") : wire'[i].usage = t.usage
       /\ includeUsage' <=> At(wire', "usage") # {}
  BY <1>6, <1>9
<1>16. OnWire("usage")' = At(wire', "usage") /\ OnWire("done")' = At(wire', "done")
       /\ Said' = SaidIn(wire') /\ Said = SaidIn(wire)
       /\ StreamOutcome = OutcomeIn(wire) /\ StreamOutcome' = OutcomeIn(wire')
  BY WireFunctions
<1>17. firstText' \in BOOLEAN
  BY <1>2
<1> QED
  BY <1>2, <1>8, <1>9, <1>10, <1>12, <1>13, <1>14, <1>15, <1>16, <1>17

-----------------------------------------------------------------------------
(* One event                                                               *)

(* The steps of Completion, for the stream and for the collected response. *)
StreamMoves == [Stream!Next]_(Stream!vars)
WholeMoves == [Whole!Next]_(Whole!vars)

LEMMA QuietMoves ==
  /\ UNCHANGED <<heard, Said, StreamOutcome>> => StreamMoves
  /\ UNCHANGED <<heard, content, WholeOutcome>> => WholeMoves
BY DEF StreamMoves, WholeMoves, Stream!vars, Whole!vars

LEMMA HearMoves ==
  ASSUME NEW call \in Calls, heard' = Append(heard, call)
  PROVE  /\ UNCHANGED <<Said, StreamOutcome>> => StreamMoves
         /\ UNCHANGED <<content, WholeOutcome>> => WholeMoves
BY DEF StreamMoves, WholeMoves, Stream!vars, Whole!vars, Stream!Next, Whole!Next, Stream!Hear,
       Whole!Hear

LEMMA SayMoves ==
  ASSUME NEW piece \in Pieces, heard' = heard
  PROVE  /\ Said' = Append(Said, piece) /\ StreamOutcome = Open /\ StreamOutcome' = Open
              => StreamMoves
         /\ content' = Append(content, piece) /\ WholeOutcome = Open /\ WholeOutcome' = Open
              => WholeMoves
BY DEF StreamMoves, WholeMoves, Stream!vars, Whole!vars, Stream!Next, Whole!Next, Stream!Say,
       Whole!Say

LEMMA FailMoves ==
  ASSUME heard' = heard
  PROVE  /\ Said' = Said /\ StreamOutcome = Open /\ StreamOutcome' = Failed => StreamMoves
         /\ content' = content /\ WholeOutcome = Open /\ WholeOutcome' = Failed => WholeMoves
BY DEF StreamMoves, WholeMoves, Stream!vars, Whole!vars, Stream!Next, Whole!Next, Stream!Fail,
       Whole!Fail

(* A commit to the first calls heard, unless it asks for calls there are   *)
(* none of.                                                                *)
LEMMA AnnouncedFacts ==
  ASSUME NEW calls \in Seq(Calls), NEW reason \in Reasons, NEW truncated, NEW how,
         truncated = (reason = "length"), ~(reason = "tool_calls" /\ calls = <<>>),
         EndedAs(how, reason)
  PROVE  LET a == Announced(calls, reason, truncated) IN
         /\ a.calls = calls
         /\ Stream!Honest(a.calls, a.reason, how)
         /\ Whole!Honest(a.calls, a.reason, how)
         /\ a \notin {Open, Failed}
         /\ a = [calls |-> a.calls, reason |-> a.reason]
<1> DEFINE a == Announced(calls, reason, truncated)
<1>1. a = [calls |-> calls, reason |-> ResolveFinishReason(reason, calls # <<>>, truncated)]
  BY DEF Announced
<1>2. a.calls = calls /\ a.reason = ResolveFinishReason(reason, calls # <<>>, truncated)
  BY <1>1
<1>3. a.reason \in Reasons
  <2>1. (calls # <<>>) \in BOOLEAN /\ truncated \in BOOLEAN
    OBVIOUS
  <2> QED
    BY <1>2, <2>1, ResolveType
<1>4. a = [calls |-> a.calls, reason |-> a.reason]
  BY <1>1, <1>2
<1> HIDE DEF a
<1>5. a \in [calls: Seq(Calls), reason: Reasons]
  BY <1>2, <1>3, <1>4
<1>6. a \notin {Open, Failed}
  BY <1>5, OutcomeAssumption
<1>7. Stream!Honest(a.calls, a.reason, how)
  BY <1>2 DEF ResolveFinishReason, EndedAs, Stream!Honest
<1>8. Whole!Honest(a.calls, a.reason, how)
  BY <1>7 DEF Stream!Honest, Whole!Honest
<1> QED
  BY <1>2, <1>4, <1>6, <1>7, <1>8 DEF a

LEMMA CommitMoves ==
  ASSUME NEW calls \in Seq(Calls), NEW reason \in Reasons, NEW truncated,
         truncated = (reason = "length"), ~(reason = "tool_calls" /\ calls = <<>>),
         EndedAs(ending', reason), FirstCalls(heard, calls), heard' = heard
  PROVE  /\ Said' = Said /\ StreamOutcome = Open
              /\ StreamOutcome' = Announced(calls, reason, truncated) => StreamMoves
         /\ content' = content /\ WholeOutcome = Open
              /\ WholeOutcome' = Announced(calls, reason, truncated) => WholeMoves
<1> DEFINE a == Announced(calls, reason, truncated)
<1>1. /\ a.calls = calls
      /\ Stream!Honest(a.calls, a.reason, ending') /\ Whole!Honest(a.calls, a.reason, ending')
      /\ a \notin {Open, Failed}
      /\ a = [calls |-> a.calls, reason |-> a.reason]
  BY AnnouncedFacts
<1>2. Stream!FirstHeard(a.calls) /\ Whole!FirstHeard(a.calls)
  BY <1>1, FirstHeardIs
<1> HIDE DEF a
<1>3. ASSUME Said' = Said, StreamOutcome = Open, StreamOutcome' = a PROVE StreamMoves
  <2>1. Stream!Commit(a.calls, a.reason)
    BY <1>1, <1>2, <1>3 DEF Stream!Commit
  <2>2. Stream!Commit(StreamOutcome'.calls, StreamOutcome'.reason)
    BY <1>3, <2>1
  <2>3. Stream!Next
    BY <1>1, <1>3, <2>2 DEF Stream!Next
  <2> QED
    BY <2>3 DEF StreamMoves
<1>4. ASSUME content' = content, WholeOutcome = Open, WholeOutcome' = a PROVE WholeMoves
  <2>1. Whole!Commit(a.calls, a.reason)
    BY <1>1, <1>2, <1>4 DEF Whole!Commit
  <2>2. Whole!Commit(WholeOutcome'.calls, WholeOutcome'.reason)
    BY <1>4, <2>1
  <2>3. Whole!Next
    BY <1>1, <1>4, <2>2 DEF Whole!Next
  <2> QED
    BY <2>3 DEF WholeMoves
<1> QED
  BY <1>3, <1>4 DEF a

-----------------------------------------------------------------------------
(* What one step does to the invariant                                     *)
LEMMA WireSame ==
  ASSUME wire' = wire
  PROVE  /\ Said' = Said /\ StreamOutcome' = StreamOutcome
         /\ Committed' = Committed
         /\ OnWire("done")' = OnWire("done") /\ OnWire("usage")' = OnWire("usage")
BY DEF Said, StreamOutcome, Committed, OnWire, CallsSent, ReasonSent

LEMMA RefuseFacts ==
  ASSUME reply = NoReply, NEW code \in Codes, Refuse(code)
  PROVE  /\ reply' \in Replies /\ reply' # NoReply /\ reply'.status = 502
         /\ UNCHANGED <<content, turn, billed>>
         /\ WholeOutcome = Open /\ WholeOutcome' = Failed
<1>1. reply' = [status |-> 502, code |-> code] /\ UNCHANGED <<content, turn, billed>>
  BY DEF Refuse
<1>2. reply' \in Replies /\ reply'.status = 502
  BY <1>1 DEF Replies
<1>3. reply' # NoReply
  BY <1>2, ReplyAssumption
<1> QED
  BY <1>1, <1>2, <1>3 DEF WholeOutcome

(* The turn the client knows of stays as it is.                            *)
LEMMA DecidedKept ==
  ASSUME Decided, UNCHANGED <<wire, turn, includeUsage, told>>,
         ~reading' => charged' = Reported', Begins(Said, content'),
         ~late' => late' = late /\ content' = content
  PROVE  Decided'
<1>1. Reported' = Reported
  BY DEF Reported
<1>2. /\ Said' = Said /\ StreamOutcome' = StreamOutcome /\ Committed' = Committed
      /\ OnWire("usage")' = OnWire("usage")
  BY WireSame
<1>3. Committed' /\ HollowTurn' = HollowTurn
  BY <1>2 DEF Decided, HollowTurn
<1>4. StreamOutcome' = Announced(turn.calls, turn.reason, turn.truncated)'
  BY <1>2 DEF Decided
<1>5. \A i \in OnWire("usage")' : wire'[i].usage = Reported'
  BY <1>1, <1>2 DEF Decided
<1>6. Begins(Said, content)' /\ (~late' => Said' = content')
  BY <1>2 DEF Decided
<1>7. includeUsage' <=> OnWire("usage")' # {}
  BY <1>2 DEF Decided
<1> QED
  BY <1>3, <1>4, <1>5, <1>6, <1>7 DEF Decided

LEMMA BeginsFacts ==
  ASSUME NEW s \in Seq(Pieces)
  PROVE  /\ Begins(s, s)
         /\ \A t \in Seq(Pieces), x \in Pieces : Begins(s, t) => Begins(s, Append(t, x))
         /\ \A t \in Seq(Pieces) : Begins(s, t) => IsPrefix(s, t)
<1>1. Begins(s, s)
  BY DEF Begins
<1>2. ASSUME NEW t \in Seq(Pieces), NEW x \in Pieces, Begins(s, t)
      PROVE  Begins(s, Append(t, x))
  <2>1. /\ Len(t) \in Nat /\ Len(Append(t, x)) = Len(t) + 1
        /\ \A i \in 1..Len(t) : Append(t, x)[i] = t[i]
    OBVIOUS
  <2>2. Len(s) \in Nat /\ Len(s) <= Len(t) /\ \A i \in 1..Len(s) : s[i] = t[i]
    BY <1>2 DEF Begins
  <2> QED
    BY <2>1, <2>2 DEF Begins
<1>3. ASSUME NEW t \in Seq(Pieces), Begins(s, t)
      PROVE  IsPrefix(s, t)
  <2>1. Len(s) \in Nat /\ Len(t) \in Nat /\ Len(s) <= Len(t)
        /\ \A i \in 1..Len(s) : s[i] = t[i]
    BY <1>3 DEF Begins
  <2> DEFINE a == SubSeq(s, 1, Len(s))
             b == SubSeq(t, 1, Len(s))
  <2>2. a \in Seq(Pieces) /\ Len(a) = Len(s) /\ \A i \in 1..Len(s) : a[i] = s[i]
    BY <2>1
  <2>3. b \in Seq(Pieces) /\ Len(b) = Len(s) /\ \A i \in 1..Len(s) : b[i] = t[i]
    BY <2>1
  <2> HIDE DEF a, b
  <2>4. a = b
    BY <2>1, <2>2, <2>3
  <2> QED
    BY <2>1, <2>4 DEF IsPrefix, a, b
<1> QED
  BY <1>1, <1>2, <1>3

LEMMA SaidType == wire \in Seq(Chunks) => Said \in Seq(Pieces)
<1> SUFFICES ASSUME wire \in Seq(Chunks) PROVE Said \in Seq(Pieces)
  OBVIOUS
<1>1. Among(wire, ContentChunk) \in Seq(ContentChunk)
  BY AmongType
<1>2. Bare(Among(wire, ContentChunk)) \in Seq(Pieces)
  BY <1>1, BareType
<1> QED
  BY <1>2, WireFunctions DEF SaidIn

(* Both handlers fail before the commit.                                   *)
LEMMA BothFail ==
  ASSUME IInv, reading, ~done,
         NEW code \in {"upstream_stream_error", "upstream_stream_incomplete"}, FailStream(code),
         NEW refusal \in Codes, Refuse(refusal),
         reading' = FALSE, norm' \in Normalizers, charged' \in UsageReports,
         wnorm' \in Normalizers, UNCHANGED <<includeUsage, firstText, heard>>,
         closed' \in BOOLEAN, late' \in BOOLEAN, late' => closed', told' \in Usage \cup {NoUsage}
  PROVE  IInv' /\ StreamMoves /\ WholeMoves
<1>1. Speaking /\ TypeOK /\ reply = NoReply /\ billed = NoUsage
  BY DEF IInv, Together, Answered
<1>2. /\ done' = TRUE
      /\ wire' \in Seq(Chunks) /\ Roles(wire') /\ OnWire("done")' = {Len(wire')}
      /\ ~Committed'
      /\ Said' = Said
      /\ StreamOutcome = Open /\ StreamOutcome' = Failed
  BY <1>1, FailStep
<1>3. /\ reply' \in Replies /\ reply' # NoReply /\ reply'.status = 502
      /\ UNCHANGED <<content, turn, billed>>
      /\ WholeOutcome = Open /\ WholeOutcome' = Failed
  BY <1>1, RefuseFacts
<1>4. TypeOK'
  BY <1>1, <1>2, <1>3 DEF TypeOK, StreamTypeOK, WholeTypeOK, UsageReports
<1>5. Together' /\ Phases' /\ Speaking' /\ Alone' /\ Spoken'
  BY <1>2, <1>3 DEF Together, Phases, Speaking, Alone, Spoken
<1>6. Decision' /\ Metered'
  BY <1>3 DEF Decision, Metered, IInv
<1>8. Said = content
  BY <1>1 DEF Speaking
<1>9. Answered'
  BY <1>1, <1>2, <1>3, <1>8 DEF Answered, ModesAgree
<1>10. StreamMoves /\ WholeMoves
  BY <1>2, <1>3, FailMoves
<1> QED
  BY <1>4, <1>5, <1>6, <1>9, <1>10 DEF IInv

(* The answer goes wrong after the commit: the stream is not affected.     *)
LEMMA FailAfterCommit ==
  ASSUME IInv, reading, done, NEW refusal \in Codes, Refuse(refusal),
         reading' = FALSE, norm' \in Normalizers, charged' = norm.usage, wnorm' \in Normalizers,
         UNCHANGED <<includeUsage, firstText, heard, wire, done, told, closed>>, late' = TRUE
  PROVE  IInv' /\ StreamMoves /\ WholeMoves
<1>1. /\ TypeOK /\ reply = NoReply /\ billed = NoUsage /\ norm = wnorm /\ closed
      /\ Decided /\ OnWire("done") = {Len(wire)} /\ Roles(wire) /\ wnorm.usage = Reported
  BY DEF IInv, Together, Answered, Phases, Spoken, Metered
<1>2. /\ reply' \in Replies /\ reply' # NoReply /\ reply'.status = 502
      /\ UNCHANGED <<content, turn, billed>>
      /\ WholeOutcome = Open /\ WholeOutcome' = Failed
  BY <1>1, RefuseFacts
<1>3. TypeOK'
  BY <1>1, <1>2 DEF TypeOK, StreamTypeOK, WholeTypeOK, Normalizers
<1>4. Together' /\ Phases' /\ Speaking' /\ Alone'
  BY <1>1, <1>2 DEF Together, Phases, Speaking, Alone
<1>5. Decision' /\ Metered'
  BY <1>2 DEF Decision, Metered, IInv
<1>6. charged' = Reported'
  BY <1>1 DEF Reported
<1>7. Begins(Said, content')
  BY <1>1, <1>2 DEF Decided
<1>8. Decided'
  BY <1>1, <1>2, <1>6, <1>7, DecidedKept
<1>9. Spoken'
  BY <1>1, <1>8, WireSame DEF Spoken
<1>10. Answered'
  BY <1>1, <1>2 DEF Answered, ModesAgree
<1>11. StreamMoves
  BY WireSame, QuietMoves
<1>12. WholeMoves
  BY <1>2, FailMoves
<1> QED
  BY <1>3, <1>4, <1>5, <1>9, <1>10, <1>11, <1>12 DEF IInv

(* The collecting handler, reading on alone, refuses.                      *)
LEMMA RefuseAlone ==
  ASSUME IInv, ~reading, reply = NoReply, NEW refusal \in Codes, Refuse(refusal),
         UNCHANGED streamVars, wnorm' \in Normalizers, UNCHANGED <<heard, told, closed>>,
         late' \in BOOLEAN, late' => closed
  PROVE  IInv' /\ StreamMoves /\ WholeMoves
<1>1. /\ TypeOK /\ billed = NoUsage /\ closed /\ StreamOutcome = Failed /\ HollowTurn
      /\ done /\ OnWire("done") = {Len(wire)} /\ Roles(wire) /\ ~Committed
  BY DEF IInv, Answered, Phases, Spoken, Alone, Decided
<1>2. /\ reply' \in Replies /\ reply' # NoReply /\ reply'.status = 502
      /\ UNCHANGED <<content, turn, billed>>
      /\ WholeOutcome = Open /\ WholeOutcome' = Failed
  BY RefuseFacts
<1>3. UNCHANGED <<norm, includeUsage, firstText, done, wire, reading, charged>>
  BY DEF streamVars
<1>4. /\ Said' = Said /\ StreamOutcome' = StreamOutcome /\ Committed' = Committed
      /\ OnWire("done")' = OnWire("done")
  BY <1>3, WireSame
<1>5. TypeOK'
  BY <1>1, <1>2, <1>3 DEF TypeOK, StreamTypeOK, WholeTypeOK
<1>6. Together' /\ Phases' /\ Speaking' /\ Alone' /\ Spoken'
  BY <1>1, <1>2, <1>3, <1>4 DEF Together, Phases, Speaking, Alone, Spoken
<1>7. Decision' /\ Metered'
  BY <1>2 DEF Decision, Metered, IInv
<1>8. Answered'
  BY <1>1, <1>2, <1>4 DEF Answered, ModesAgree
<1>9. StreamMoves
  BY <1>4, QuietMoves
<1>10. WholeMoves
  BY <1>2, FailMoves
<1> QED
  BY <1>5, <1>6, <1>7, <1>8, <1>9, <1>10 DEF IInv

(* The answer ends in order after the commit.                              *)
LEMMA AnswerFacts ==
  ASSUME WholeTypeOK, reply = NoReply, turn.reason \in Reasons, Answer(turn.calls)
  PROVE  /\ reply' \in Replies /\ reply' # NoReply /\ reply'.status = 200
         /\ reply'.usage = wnorm.usage /\ billed' = wnorm.usage
         /\ UNCHANGED <<content, turn>>
         /\ WholeOutcome = Open
         /\ WholeOutcome' = Announced(turn.calls, turn.reason, turn.truncated)
<1> DEFINE a == Announced(turn.calls, turn.reason, turn.truncated)
           r == [status |-> 200, content |-> content, calls |-> a.calls, reason |-> a.reason,
                 usage |-> wnorm.usage]
<1>1. /\ turn.calls \in Seq(Calls) /\ turn.truncated \in BOOLEAN
      /\ content \in Contents /\ wnorm.usage \in UsageReports
  BY DEF WholeTypeOK, Turns, Normalizers, UsageReports
<1>2. /\ a.calls = turn.calls
      /\ a.reason = ResolveFinishReason(turn.reason, turn.calls # <<>>, turn.truncated)
      /\ a = [calls |-> a.calls, reason |-> a.reason]
  BY DEF Announced
<1>3. a.reason \in Reasons
  <2>1. (turn.calls # <<>>) \in BOOLEAN
    OBVIOUS
  <2> QED
    BY <1>1, <1>2, <2>1, ResolveType
<1>4. reply' = r /\ billed' = wnorm.usage /\ UNCHANGED <<content, turn>>
  BY <1>2 DEF Answer
<1> HIDE DEF a
<1>5. r \in Replies
  BY <1>1, <1>2, <1>3 DEF Replies, UsageReports
<1>6. r.status = 200 /\ r.usage = wnorm.usage /\ r.calls = a.calls /\ r.reason = a.reason
  OBVIOUS
<1> HIDE DEF r
<1>7. r # NoReply
  BY <1>5, ReplyAssumption
<1>8. WholeOutcome = Open
  BY DEF WholeOutcome
<1>9. WholeOutcome' = a
  BY <1>2, <1>4, <1>6, <1>7 DEF WholeOutcome
<1> QED
  BY <1>4, <1>5, <1>6, <1>7, <1>8, <1>9 DEF a

LEMMA AnswerAfterCommit ==
  ASSUME IInv, reading, done, Answer(turn.calls),
         reading' = FALSE, charged' = norm.usage,
         UNCHANGED <<norm, wnorm, includeUsage, firstText, heard, wire, done, told, closed, ending,
                     late>>
  PROVE  IInv' /\ StreamMoves /\ WholeMoves
<1>1. /\ TypeOK /\ WholeTypeOK /\ reply = NoReply /\ norm = wnorm /\ closed
      /\ Decided /\ OnWire("done") = {Len(wire)} /\ Roles(wire) /\ wnorm.usage = Reported
  BY DEF IInv, Together, Phases, Spoken, Metered, TypeOK
<1>2. /\ FirstCalls(heard, turn.calls) /\ turn.reason \in Reasons
      /\ turn.truncated = (turn.reason = "length")
      /\ turn.calls \in Seq(Calls) /\ ~(turn.reason = "tool_calls" /\ turn.calls = <<>>)
      /\ EndedAs(ending, turn.reason)
      /\ closed \in BOOLEAN /\ late \in BOOLEAN
  BY <1>1 DEF IInv, Decision, Phases, Decided, HollowTurn, WholeTypeOK, Turns
<1>3. /\ reply' \in Replies /\ reply' # NoReply /\ reply'.status = 200
      /\ reply'.usage = wnorm.usage /\ billed' = wnorm.usage
      /\ UNCHANGED <<content, turn>>
      /\ WholeOutcome = Open
      /\ WholeOutcome' = Announced(turn.calls, turn.reason, turn.truncated)
  BY <1>1, <1>2, AnswerFacts
<1>4. wnorm.usage \in UsageReports
  BY <1>1 DEF WholeTypeOK, Normalizers, UsageReports
<1>5. TypeOK'
  BY <1>1, <1>3, <1>4 DEF TypeOK, StreamTypeOK, WholeTypeOK, UsageReports
<1>6. Together' /\ Phases' /\ Speaking' /\ Alone'
  BY <1>1, <1>2, <1>3 DEF Together, Phases, Speaking, Alone
<1>7. Decision' /\ Metered'
  BY <1>3 DEF Decision, Metered, IInv
<1>8. Reported' = Reported
  BY DEF Reported
<1>9. Begins(Said, content') /\ (~late' => late' = late /\ content' = content)
      /\ charged' = Reported'
  BY <1>1, <1>3, <1>8 DEF Decided
<1>10. Decided'
  BY <1>1, <1>3, <1>9, DecidedKept
<1>11. Spoken'
  BY <1>1, <1>10, WireSame DEF Spoken
<1>12. Said' = Said /\ StreamOutcome' = StreamOutcome
  BY WireSame
<1>13. IsPrefix(Said, content)
  <2>1. Said \in Seq(Pieces) /\ content \in Seq(Pieces)
    BY <1>1, SaidType DEF TypeOK, StreamTypeOK, WholeTypeOK, Contents, Pieces
  <2> QED
    BY <1>1, <2>1, BeginsFacts DEF Decided
<1>14. ModesAgree'
  <2>1. StreamOutcome' = WholeOutcome' /\ charged' = billed'
    BY <1>1, <1>3, <1>12 DEF Decided
  <2>2. IsPrefix(Said', content') /\ (~late' => Said' = content')
    BY <1>1, <1>3, <1>12, <1>13 DEF Decided
  <2> QED
    BY <2>1, <2>2 DEF ModesAgree
<1>15. Answered'
  BY <1>1, <1>3, <1>8, <1>14 DEF Answered
<1>16. StreamMoves
  BY <1>12, QuietMoves
<1>17. WholeMoves
  BY <1>2, <1>3, CommitMoves
<1> QED
  BY <1>5, <1>6, <1>7, <1>11, <1>15, <1>16, <1>17 DEF IInv

-----------------------------------------------------------------------------
(* The steps                                                               *)
LEMMA EndStep ==
  ASSUME IInv, End
  PROVE  IInv' /\ StreamMoves /\ WholeMoves
<1>1. TypeOK /\ Phases /\ Together /\ Alone /\ Spoken
  BY DEF IInv
<1>2. UNCHANGED <<closed, ending, late, heard, told>>
  BY DEF End, historyVars, closed
<1>3. /\ norm \in Normalizers /\ wnorm \in Normalizers /\ norm.usage \in UsageReports
      /\ closed \in BOOLEAN /\ late \in BOOLEAN /\ (late => closed) /\ told \in Usage \cup {NoUsage}
  BY <1>1 DEF TypeOK, StreamTypeOK, WholeTypeOK, Normalizers, UsageReports, Phases, IInv, Metered
<1>4. CASE reading /\ done
  <2>1. reply = NoReply /\ closed /\ wnorm.finished /\ ~HollowTurn
    BY <1>1, <1>4 DEF Together, Phases, Spoken, Decided
  <2>2. StreamEnd /\ WholeEnd
    BY <1>4, <2>1 DEF End, InStream, InWhole
  <2>3. Answer(turn.calls) /\ wnorm' = wnorm
    BY <2>1, <2>2 DEF WholeEnd, HollowTurn
  <2>4. UNCHANGED <<wire, done, includeUsage, firstText>> /\ norm' = norm /\ reading' = FALSE
        /\ charged' = norm.usage
    BY <1>4, <2>2 DEF StreamEnd, Stop
  <2> QED
    BY <1>2, <1>4, <2>3, <2>4, AnswerAfterCommit
<1>5. CASE reading /\ ~done
  <2>1. reply = NoReply /\ ~closed /\ ~wnorm.finished
    BY <1>1, <1>5 DEF Together, Phases
  <2>2. StreamEnd /\ WholeEnd
    BY <1>5, <2>1 DEF End, InStream, InWhole
  <2>3. Refuse("upstream_stream_incomplete") /\ wnorm' = wnorm
    BY <2>1, <2>2 DEF WholeEnd
  <2>4. FailStream("upstream_stream_incomplete") /\ UNCHANGED <<includeUsage, firstText>>
        /\ norm' = norm /\ reading' = FALSE /\ charged' = norm.usage
    BY <1>5, <2>2 DEF StreamEnd, Stop
  <2>5. "upstream_stream_incomplete" \in Codes
    BY DEF Codes
  <2> QED
    BY <1>2, <1>3, <1>5, <2>3, <2>4, <2>5, BothFail
<1>6. CASE ~reading
  <2>1. reply = NoReply
    BY <1>6 DEF End
  <2>2. closed /\ wnorm.finished /\ HollowTurn
    BY <1>1, <1>6, <2>1 DEF Phases, Alone
  <2>3. UNCHANGED streamVars /\ WholeEnd
    BY <1>6, <2>1 DEF End, InStream, InWhole
  <2>4. Refuse("invalid_tool_call") /\ wnorm' = wnorm
    BY <2>2, <2>3 DEF WholeEnd, HollowTurn
  <2>5. "invalid_tool_call" \in Codes
    BY DEF Codes
  <2> QED
    BY <1>2, <1>3, <1>6, <2>1, <2>3, <2>4, <2>5, RefuseAlone
<1> QED
  BY <1>4, <1>5, <1>6

LEMMA BreakStep ==
  ASSUME IInv, Break
  PROVE  IInv' /\ StreamMoves /\ WholeMoves
<1>1. TypeOK /\ Phases /\ Together /\ Alone /\ Spoken
  BY DEF IInv
<1>2. UNCHANGED <<closed, heard, told>> /\ late' = closed
  BY DEF Break, closed
<1>3. /\ norm \in Normalizers /\ wnorm \in Normalizers /\ norm.usage \in UsageReports
      /\ closed \in BOOLEAN /\ told \in Usage \cup {NoUsage}
  BY <1>1 DEF TypeOK, StreamTypeOK, WholeTypeOK, Normalizers, UsageReports, Phases, IInv, Metered
<1>4. reply = NoReply
  BY <1>1 DEF Break, Together
<1>5. Refuse("upstream_stream_error") /\ wnorm' = wnorm
  BY <1>4 DEF Break, InWhole, WholeBreak
<1>6. "upstream_stream_error" \in Codes
  BY DEF Codes
<1>7. CASE reading
  <2>1. FailStream("upstream_stream_error") /\ UNCHANGED <<includeUsage, firstText>>
        /\ norm' = norm /\ reading' = FALSE /\ charged' = norm.usage
    BY <1>7 DEF Break, InStream, StreamBreak, StopWithError, Stop
  <2>2. CASE done
    <3>1. UNCHANGED <<wire, done>> /\ late' = TRUE
      BY <1>1, <1>2, <1>7, <2>1, <2>2 DEF FailStream, Phases
    <3> QED
      BY <1>2, <1>3, <1>5, <1>6, <1>7, <2>1, <2>2, <3>1, FailAfterCommit
  <2>3. CASE ~done
    BY <1>2, <1>3, <1>5, <1>6, <1>7, <2>1, <2>3, BothFail
  <2> QED
    BY <2>2, <2>3
<1>8. CASE ~reading
  <2>1. UNCHANGED streamVars
    BY <1>8 DEF Break, InStream
  <2> QED
    BY <1>2, <1>3, <1>4, <1>5, <1>6, <1>8, <2>1, RefuseAlone
<1> QED
  BY <1>7, <1>8

(* What the handlers and the history make of an event that changes their   *)
(* normalizers to m and passes out on.                                     *)
WholeTakes(m, out) ==
  /\ wnorm' = m
  /\ IF out.kind = "error" THEN Refuse("upstream_stream_error")
     ELSE /\ UNCHANGED <<reply, billed>>
          /\ content' = IF out.kind \in {"text", "reasoning"} /\ out.text # ""
                          THEN Append(content, out) ELSE content
          /\ turn' = IF out.kind = "finish"
                       THEN [calls |-> out.calls, reason |-> out.reason,
                             truncated |-> out.truncated]
                       ELSE turn

IsHollow(out) == out.kind = "finish" /\ out.reason = "tool_calls" /\ out.calls = <<>>

StreamTakes(m, out) ==
  IF out.kind = "error" \/ IsHollow(out) THEN StopWithError(m)
  ELSE /\ norm' = m
       /\ UNCHANGED <<includeUsage, reading, charged>>
       /\ IF out.kind = "finish" THEN FinishStream(out)
          ELSE /\ UNCHANGED done
               /\ IF out.kind = "nothing" THEN UNCHANGED <<wire, firstText>>
                  ELSE EmitContent(out.kind, out.text)

Hears(m, out) ==
  /\ late' = closed
  /\ told' \in Usage \cup {NoUsage}
  /\ heard' \in Seq(Calls)
  /\ closed => UNCHANGED <<heard, told, closed>> /\ out.kind # "finish"
  /\ ~closed => FirstCalls(heard', m.kept)
  /\ out.kind # "error" => m.usage = Reported'
  /\ out.kind = "finish" => /\ closed' = TRUE /\ FirstCalls(heard', out.calls)
                            /\ EndedAs(ending', out.reason)
  /\ out.kind = "error" => closed' \in BOOLEAN
  /\ out.kind \notin {"finish", "error"} => UNCHANGED <<closed, ending>>
  /\ heard' = heard \/ (out.kind = "nothing" /\ \E call \in Calls : heard' = Append(heard, call))

LEMMA EventHears ==
  ASSUME IInv, reply = NoReply, NEW ev \in Events, Event(ev), NEW m, NEW out,
         Does(wnorm, ev, m, out)
  PROVE  Hears(m, out)
<1> DEFINE call == [id |-> ev.id, args |-> ev.args]
<1>1. /\ closed \in BOOLEAN /\ (closed <=> wnorm.finished) /\ heard \in Seq(Calls)
      /\ told \in Usage \cup {NoUsage} /\ wnorm.usage = Reported
      /\ ~closed => FirstCalls(heard, wnorm.kept)
      /\ wnorm.kept \in Seq(Calls)
  BY DEF IInv, Phases, Decision, Metered, TypeOK, WholeTypeOK, Normalizers
<1>2. /\ closed' = (closed \/ ev.type = "finish")
      /\ ending' = IF ~closed /\ ev.type = "finish" THEN Ending(ev) ELSE ending
      /\ late' = closed
      /\ heard' = IF ~closed /\ Authoritative(ev) THEN Append(heard, call) ELSE heard
      /\ told' = IF ~closed /\ Reports(ev) THEN ev.usage ELSE told
  <2>1. Ending(ev) # "none"
    BY DEF Ending
  <2> QED
    BY <2>1 DEF Event, closed
<1>3. Authoritative(ev) => call \in Calls
  BY DEF Authoritative, Events, DeltaEvents, CallEvents, InputEvents, StepEvents, FinishEvents,
         PlainEvents, Calls
<1>4. Reports(ev) => ev.usage \in Usage
  BY DEF Reports, Events, DeltaEvents, CallEvents, InputEvents, StepEvents, FinishEvents,
         PlainEvents
<1> HIDE DEF call
<1>5. told' \in Usage \cup {NoUsage}
  BY <1>1, <1>2, <1>4
<1>6. heard' \in Seq(Calls)
  BY <1>1, <1>2, <1>3
<1>7. m.kept = IF Authoritative(ev) THEN AddCall(wnorm.kept, call) ELSE wnorm.kept
  BY DEF Does, call
<1>8. ~closed => FirstCalls(heard', m.kept)
  <2>1. CASE ~closed /\ Authoritative(ev)
    <3>1. FirstCalls(Append(heard, call), AddCall(wnorm.kept, call))
      BY <1>1, <1>3, <2>1, FirstCallsAdd
    <3> QED
      BY <3>1, <2>1, <1>2, <1>7
  <2>2. CASE ~closed /\ ~Authoritative(ev)
    BY <1>1, <1>2, <1>7, <2>2
  <2> QED
    BY <2>1, <2>2
<1>9. /\ out.kind = "finish" => ev.type = "finish" /\ ~wnorm.finished
      /\ ev.type = "finish" /\ ~wnorm.finished => out.kind \in {"finish", "error"}
      /\ Authoritative(ev) => out.kind = "nothing"
      /\ m.usage = IF ~wnorm.finished /\ Reports(ev) /\ out.kind # "error" THEN Stored(ev.usage)
                                                                      ELSE wnorm.usage
  BY DEF Does, Released
<1>10. out.kind # "error" => m.usage = Reported'
  <2>1. CASE ~closed /\ Reports(ev)
    <3>1. told' = ev.usage /\ told' # NoUsage
      BY <1>2, <2>1 DEF Reports
    <3>2. ev.usage \in [tokens: Nat, cached: Nat \cup {NoDetails}]
      BY <1>4, <2>1, NormalizerAssumption
    <3>3. Stored(ev.usage) = [ev.usage EXCEPT !.cached = IF @ = NoDetails THEN 0 ELSE @]
      BY <3>2 DEF Stored
    <3>4. Reported' = Stored(ev.usage)
      BY <3>1, <3>3 DEF Reported
    <3> QED
      BY <3>4, <2>1, <1>1, <1>9
  <2>2. CASE ~(~closed /\ Reports(ev))
    <3>1. told' = told
      BY <1>2, <2>2
    <3>2. Reported' = Reported
      BY <3>1 DEF Reported
    <3> QED
      BY <3>2, <2>2, <1>1, <1>9
  <2> QED
    BY <2>1, <2>2
<1>11. heard' = heard \/ (out.kind = "nothing" /\ \E c \in Calls : heard' = Append(heard, c))
  BY <1>2, <1>3, <1>9
<1>12. closed => UNCHANGED <<heard, told, closed>> /\ out.kind # "finish"
  BY <1>1, <1>2, <1>9
<1>13. /\ out.kind = "finish" => /\ closed' = TRUE /\ FirstCalls(heard', out.calls)
                                 /\ EndedAs(ending', out.reason)
       /\ closed' \in BOOLEAN
       /\ out.kind \notin {"finish", "error"} => UNCHANGED <<closed, ending>>
  <2>1. out.kind = "finish" => /\ out.calls = wnorm.kept /\ heard' = heard /\ ~closed
                               /\ EndedAs(Ending(ev), out.reason)
    BY <1>1, <1>2, <1>9 DEF Does, Released
  <2> QED
    BY <1>1, <1>2, <1>9, <2>1
<1> QED
  BY <1>2, <1>5, <1>6, <1>8, <1>10, <1>11, <1>12, <1>13 DEF Hears

LEMMA EventTakes ==
  ASSUME IInv, NEW ev \in Events, Event(ev)
  PROVE  /\ reply = NoReply
         /\ \E m, out : /\ Does(wnorm, ev, m, out) /\ Hears(m, out) /\ WholeTakes(m, out)
                        /\ reading => StreamTakes(m, out)
                        /\ ~reading => UNCHANGED streamVars
<1>1. reply = NoReply
  BY DEF Event, IInv, Together
<1> DEFINE m == Consume(wnorm, ev).n
           out == Consume(wnorm, ev).out
<1>2. wnorm \in Normalizers
  BY DEF IInv, TypeOK, WholeTypeOK
<1>3. Does(wnorm, ev, m, out)
  BY <1>2, ConsumeFacts
<1>4. WholeTakes(m, out)
  <2>1. WholeEvent(ev)
    BY <1>1 DEF Event, InWhole
  <2> QED
    BY <2>1 DEF WholeEvent, WholeTakes
<1>5. ASSUME reading PROVE StreamTakes(m, out)
  <2>1. norm = wnorm
    BY <1>5 DEF IInv, Together
  <2>2. StreamEvent(ev)
    BY <1>5 DEF Event, InStream
  <2> QED
    BY <2>1, <2>2 DEF StreamEvent, StreamTakes, IsHollow
<1>6. ~reading => UNCHANGED streamVars
  BY DEF Event, InStream
<1> HIDE DEF m, out
<1>7. Hears(m, out)
  BY <1>1, <1>3, EventHears
<1> QED
  BY <1>1, <1>3, <1>4, <1>5, <1>6, <1>7

(* An error of the stream.                                                 *)
LEMMA ErrorEvent ==
  ASSUME IInv, reply = NoReply, NEW ev \in Events, NEW m, NEW out,
         Does(wnorm, ev, m, out), Hears(m, out), WholeTakes(m, out),
         reading => StreamTakes(m, out), ~reading => UNCHANGED streamVars, out.kind = "error"
  PROVE  IInv' /\ StreamMoves /\ WholeMoves
<1>1. TypeOK /\ Phases /\ Together /\ m \in Normalizers /\ m = wnorm
  BY DEF IInv, Does
<1>2. m.usage \in UsageReports
  BY <1>1 DEF Normalizers, UsageReports
<1>3. Refuse("upstream_stream_error") /\ wnorm' = m /\ "upstream_stream_error" \in Codes
  BY DEF WholeTakes, Codes
<1>4. /\ heard' = heard /\ late' = closed /\ closed' \in BOOLEAN /\ told' \in Usage \cup {NoUsage}
      /\ closed => UNCHANGED <<told, closed>>
      /\ closed \in BOOLEAN
  BY <1>1 DEF Hears, Phases
<1>5. late' \in BOOLEAN /\ (late' => closed')
  BY <1>4
<1>6. CASE reading
  <2>1. StopWithError(m)
    BY <1>6 DEF StreamTakes
  <2>2. FailStream("upstream_stream_error") /\ UNCHANGED <<includeUsage, firstText>>
        /\ norm' = m /\ reading' = FALSE /\ charged' = m.usage
    BY <2>1 DEF StopWithError, Stop
  <2>3. CASE done
    <3>1. UNCHANGED <<wire, done>> /\ closed = TRUE /\ norm = m
      BY <1>1, <1>4, <1>6, <2>2, <2>3 DEF FailStream, Phases, Together
    <3>2. UNCHANGED <<told, closed>> /\ late' = TRUE /\ charged' = norm.usage
      BY <1>4, <2>2, <3>1
    <3> QED
      BY <1>1, <1>3, <1>4, <1>6, <2>2, <2>3, <3>1, <3>2, FailAfterCommit
  <2>4. CASE ~done
    BY <1>1, <1>2, <1>3, <1>4, <1>5, <1>6, <2>2, <2>4, BothFail
  <2> QED
    BY <2>3, <2>4
<1>7. CASE ~reading
  <2>1. closed
    BY <1>1, <1>7 DEF Phases
  <2> QED
    BY <1>1, <1>3, <1>4, <1>5, <1>7, <2>1, RefuseAlone
<1> QED
  BY <1>6, <1>7

(* The finish event that asks for calls there are none of.                 *)
LEMMA HollowEvent ==
  ASSUME IInv, reading, NEW ev \in Events, NEW m, NEW out,
         Does(wnorm, ev, m, out), Hears(m, out), WholeTakes(m, out), StreamTakes(m, out),
         IsHollow(out)
  PROVE  IInv' /\ StreamMoves /\ WholeMoves
<1> DEFINE t == [calls |-> out.calls, reason |-> out.reason, truncated |-> out.truncated]
<1>1. out.kind = "finish" /\ out.reason = "tool_calls" /\ out.calls = <<>>
  BY DEF IsHollow
<1>2. /\ TypeOK /\ reply = NoReply /\ billed = NoUsage /\ ~closed /\ ~done /\ Speaking
      /\ closed \in BOOLEAN
  BY <1>1 DEF IInv, Together, Phases, Answered, Hears
<1>3. /\ m \in Normalizers /\ m.finished /\ m.usage \in UsageReports /\ out.calls \in Seq(Calls)
      /\ out.reason \in Reasons /\ out.truncated = (out.reason = "length")
  BY <1>1 DEF Does, Released
<1>4. /\ wnorm' = m /\ reply' = NoReply /\ billed' = NoUsage /\ content' = content /\ turn' = t
  BY <1>1, <1>2 DEF WholeTakes
<1>5. /\ norm' = m /\ reading' = FALSE /\ charged' = m.usage
      /\ FailStream("upstream_stream_error") /\ UNCHANGED <<includeUsage, firstText>>
  BY DEF StreamTakes, StopWithError, Stop
<1>6. /\ done' = TRUE
      /\ wire' \in Seq(Chunks) /\ Roles(wire') /\ OnWire("done")' = {Len(wire')}
      /\ ~Committed'
      /\ Said' = Said
      /\ StreamOutcome = Open /\ StreamOutcome' = Failed
  BY <1>2, <1>5, FailStep
<1>7. /\ heard' = heard /\ heard' \in Seq(Calls) /\ late' = FALSE /\ closed' = TRUE
      /\ told' \in Usage \cup {NoUsage} /\ m.usage = Reported' /\ FirstCalls(heard', out.calls)
      /\ EndedAs(ending', out.reason)
  BY <1>1, <1>2 DEF Hears
<1>8. t \in Turns /\ t.calls = out.calls /\ t.reason = out.reason /\ t.truncated = out.truncated
  BY <1>3 DEF Turns
<1> HIDE DEF t
<1>9. TypeOK'
  BY <1>2, <1>3, <1>4, <1>5, <1>6, <1>8 DEF TypeOK, StreamTypeOK, WholeTypeOK, UsageReports
<1>10. Together' /\ Phases' /\ Speaking' /\ Spoken' /\ Answered'
  BY <1>3, <1>4, <1>5, <1>6, <1>7 DEF Together, Phases, Speaking, Spoken, Answered
<1>11. Decision' /\ Metered' /\ Alone'
  BY <1>1, <1>3, <1>4, <1>6, <1>7, <1>8 DEF Decision, Metered, Alone, HollowTurn
<1>12. StreamMoves
  BY <1>6, <1>7, FailMoves
<1>13. WholeMoves
  BY <1>2, <1>4, <1>7, QuietMoves DEF WholeOutcome
<1> QED
  BY <1>9, <1>10, <1>11, <1>12, <1>13 DEF IInv

(* The finish event that commits the turn.                                 *)
LEMMA CommitEvent ==
  ASSUME IInv, reading, NEW ev \in Events, NEW m, NEW out,
         Does(wnorm, ev, m, out), Hears(m, out), WholeTakes(m, out), StreamTakes(m, out),
         out.kind = "finish", ~IsHollow(out)
  PROVE  IInv' /\ StreamMoves /\ WholeMoves
<1> DEFINE t == [calls |-> out.calls, reason |-> out.reason, truncated |-> out.truncated]
<1>1. /\ TypeOK /\ reply = NoReply /\ billed = NoUsage /\ ~closed /\ ~done /\ Speaking
      /\ closed \in BOOLEAN
  BY DEF IInv, Together, Phases, Answered, Hears
<1>2. /\ m \in Normalizers /\ m.finished /\ out.usage = m.usage /\ m.usage \in UsageReports
      /\ out.calls \in Seq(Calls) /\ out.reason \in Reasons
      /\ out.truncated = (out.reason = "length") /\ out.truncated \in BOOLEAN
  BY DEF Does, Released
<1>3. /\ wnorm' = m /\ reply' = NoReply /\ billed' = NoUsage /\ content' = content /\ turn' = t
  BY <1>1 DEF WholeTakes
<1>4. norm' = m /\ UNCHANGED <<includeUsage, reading, charged>> /\ FinishStream(out)
  BY DEF StreamTakes
<1>5. firstText \in BOOLEAN /\ includeUsage \in BOOLEAN
  BY <1>1 DEF TypeOK, StreamTypeOK
<1>6. /\ done' = TRUE
      /\ wire' \in Seq(Chunks) /\ Roles(wire') /\ OnWire("done")' = {Len(wire')}
      /\ firstText' \in BOOLEAN
      /\ Committed'
      /\ Said' = Said
      /\ StreamOutcome = Open
      /\ StreamOutcome' = Announced(out.calls, out.reason, out.truncated)
      /\ \A i \in OnWire("usage")' : wire'[i].usage = out.usage
      /\ includeUsage' <=> OnWire("usage")' # {}
  BY <1>1, <1>2, <1>4, <1>5, CommitStep
<1>7. /\ heard' = heard /\ heard' \in Seq(Calls) /\ late' = FALSE /\ closed' = TRUE
      /\ told' \in Usage \cup {NoUsage} /\ m.usage = Reported' /\ FirstCalls(heard', out.calls)
      /\ EndedAs(ending', out.reason)
  BY <1>1 DEF Hears
<1>8. t \in Turns /\ t.calls = out.calls /\ t.reason = out.reason /\ t.truncated = out.truncated
  BY <1>2 DEF Turns
<1> HIDE DEF t
<1>9. TypeOK'
  BY <1>1, <1>2, <1>3, <1>4, <1>6, <1>8 DEF TypeOK, StreamTypeOK, WholeTypeOK
<1>10. Together' /\ Phases' /\ Speaking' /\ Alone' /\ Answered'
  BY <1>2, <1>3, <1>4, <1>6, <1>7 DEF Together, Phases, Speaking, Alone, Answered
<1>11. Decision' /\ Metered'
  BY <1>2, <1>3, <1>7, <1>8 DEF Decision, Metered
<1>12. Said' = content' /\ Begins(Said', content')
  <2>1. Said = content /\ Said \in Seq(Pieces)
    BY <1>1, SaidType DEF Speaking, TypeOK, StreamTypeOK
  <2> QED
    BY <1>3, <1>6, <2>1, BeginsFacts
<1>13. Decided'
  <2>1. ~HollowTurn'
    BY <1>3, <1>8 DEF HollowTurn, IsHollow
  <2>2. StreamOutcome' = Announced(turn'.calls, turn'.reason, turn'.truncated)
    BY <1>3, <1>6, <1>8
  <2>3. \A i \in OnWire("usage")' : wire'[i].usage = Reported'
    BY <1>2, <1>6, <1>7
  <2>4. reading'
    BY <1>4
  <2> QED
    BY <1>6, <1>12, <2>1, <2>2, <2>3, <2>4 DEF Decided
<1>14. Spoken'
  BY <1>6, <1>13 DEF Spoken
<1>15. StreamMoves
  <2>1. FirstCalls(heard, out.calls) /\ ~(out.reason = "tool_calls" /\ out.calls = <<>>)
    BY <1>7 DEF IsHollow
  <2> QED
    BY <1>2, <1>6, <1>7, <2>1, CommitMoves
<1>16. WholeMoves
  BY <1>1, <1>3, <1>7, QuietMoves DEF WholeOutcome
<1> QED
  BY <1>9, <1>10, <1>11, <1>14, <1>15, <1>16 DEF IInv

(* Any other event: the collecting handler reads on.                       *)
LEMMA WholeReadsOn ==
  ASSUME IInv, reply = NoReply, NEW ev \in Events, NEW m, NEW out,
         Does(wnorm, ev, m, out), Hears(m, out), WholeTakes(m, out),
         out.kind \notin {"finish", "error"}
  PROVE  /\ Decision' /\ Metered' /\ Answered' /\ WholeTypeOK'
         /\ reply' = NoReply /\ turn' = turn /\ closed' = closed /\ wnorm' = m
         /\ m \in Normalizers /\ m.finished = wnorm.finished
         /\ WholeOutcome = Open /\ WholeOutcome' = Open
         /\ content \in Seq(Pieces)
<1>1. /\ WholeTypeOK /\ Decision /\ Metered /\ Answered /\ (closed <=> wnorm.finished)
      /\ content \in Seq(Pieces)
  BY DEF IInv, TypeOK, Phases, WholeTypeOK, Contents, Pieces
<1>2. /\ wnorm' = m /\ reply' = NoReply /\ billed' = billed /\ turn' = turn
      /\ content' = IF out.kind \in {"text", "reasoning"} /\ out.text # ""
                      THEN Append(content, out) ELSE content
  BY DEF WholeTakes
<1>3. /\ m \in Normalizers /\ m.finished = wnorm.finished
      /\ out.kind \in {"text", "reasoning"} => out \in Pieces
  BY <1>1 DEF Does, WholeTypeOK, Normalizers
<1>4. content' \in Seq(Pieces)
  <2>1. CASE out.kind \in {"text", "reasoning"} /\ out.text # ""
    <3>1. content' = Append(content, out) /\ out \in Pieces
      BY <1>2, <1>3, <2>1
    <3> QED
      BY <1>1, <3>1
  <2>2. CASE ~(out.kind \in {"text", "reasoning"} /\ out.text # "")
    <3>1. content' = content
      BY <1>2, <2>2
    <3> QED
      BY <1>1, <3>1
  <2> QED
    BY <2>1, <2>2
<1>5. WholeTypeOK'
  BY <1>1, <1>2, <1>3, <1>4 DEF WholeTypeOK, Contents, Pieces
<1>6. closed' = closed
  BY DEF Hears
<1>7. Metered'
  BY <1>2 DEF Hears, Metered
<1>8. Decision'
  BY <1>1, <1>2, <1>6 DEF Hears, Decision
<1>9. Answered'
  BY <1>1, <1>2 DEF Answered
<1> QED
  BY <1>1, <1>2, <1>3, <1>5, <1>6, <1>7, <1>8, <1>9 DEF WholeOutcome

(* An event that says nothing.                                             *)
LEMMA SilentEvent ==
  ASSUME IInv, reading, NEW ev \in Events, NEW m, NEW out,
         Does(wnorm, ev, m, out), Hears(m, out), WholeTakes(m, out),
         out.kind \notin {"finish", "error"}, content' = content,
         norm' = m, UNCHANGED <<includeUsage, reading, charged, done, wire, firstText>>
  PROVE  IInv' /\ StreamMoves /\ WholeMoves
<1>1. /\ TypeOK /\ reply = NoReply /\ Phases /\ Speaking /\ Spoken
  BY DEF IInv, Together
<1>2. /\ Decision' /\ Metered' /\ Answered' /\ WholeTypeOK'
      /\ reply' = NoReply /\ turn' = turn /\ closed' = closed /\ wnorm' = m
      /\ m \in Normalizers /\ m.finished = wnorm.finished
      /\ WholeOutcome = Open /\ WholeOutcome' = Open
      /\ content \in Seq(Pieces)
  BY <1>1, WholeReadsOn
<1>3. late' = closed /\ (closed => UNCHANGED <<heard, told>>)
  BY DEF Hears
<1>4. /\ Said' = Said /\ StreamOutcome' = StreamOutcome /\ Committed' = Committed
      /\ OnWire("done")' = OnWire("done")
  BY WireSame
<1>5. TypeOK'
  BY <1>1, <1>2 DEF TypeOK, StreamTypeOK
<1>6. Together' /\ Phases' /\ Alone'
  BY <1>1, <1>2, <1>3 DEF Together, Phases, Alone
<1>7. Speaking'
  BY <1>1, <1>4 DEF Speaking
<1>8. Spoken'
  <2>1. CASE done
    <3>1. Decided /\ closed = TRUE
      BY <1>1, <2>1 DEF Spoken, Phases
    <3>2. Begins(Said, content') /\ late' = TRUE /\ UNCHANGED <<wire, turn, includeUsage, told>>
      BY <1>2, <1>3, <3>1 DEF Decided
    <3>3. Decided'
      BY <3>1, <3>2, DecidedKept
    <3> QED
      BY <1>1, <1>4, <2>1, <3>3 DEF Spoken
  <2>2. CASE ~done
    BY <2>2 DEF Spoken
  <2> QED
    BY <2>1, <2>2
<1>9. StreamMoves /\ WholeMoves
  <2>1. CASE heard' = heard
    BY <1>2, <1>4, <2>1, QuietMoves
  <2>2. CASE heard' # heard
    <3>1. PICK call \in Calls : heard' = Append(heard, call)
      BY <2>2 DEF Hears
    <3> QED
      BY <1>2, <1>4, <3>1, HearMoves
  <2> QED
    BY <2>1, <2>2
<1> QED
  BY <1>2, <1>5, <1>6, <1>7, <1>8, <1>9 DEF IInv

(* Text or reasoning, before the commit and after it.                      *)
LEMMA ContentEvent ==
  ASSUME IInv, reading, NEW ev \in Events, NEW m, NEW out,
         Does(wnorm, ev, m, out), Hears(m, out), WholeTakes(m, out), StreamTakes(m, out),
         out.kind \in {"text", "reasoning"}, out.text # ""
  PROVE  IInv' /\ StreamMoves /\ WholeMoves
<1>1. /\ TypeOK /\ reply = NoReply /\ Phases /\ Speaking /\ Spoken
  BY DEF IInv, Together
<1>2. /\ Decision' /\ Metered' /\ Answered' /\ WholeTypeOK'
      /\ reply' = NoReply /\ turn' = turn /\ closed' = closed /\ wnorm' = m
      /\ m \in Normalizers /\ m.finished = wnorm.finished
      /\ WholeOutcome = Open /\ WholeOutcome' = Open
      /\ content \in Seq(Pieces)
  BY <1>1, WholeReadsOn
<1>3. late' = closed /\ heard' = heard /\ (closed => UNCHANGED told)
  BY DEF Hears
<1>4. /\ out \in Pieces /\ out = [kind |-> out.kind, text |-> out.text] /\ out.text \in Text
  BY DEF Does, Pieces
<1>5. content' = Append(content, out)
  BY DEF WholeTakes
<1>6. /\ norm' = m /\ UNCHANGED <<includeUsage, reading, charged, done>>
      /\ EmitContent(out.kind, out.text)
  BY DEF StreamTakes, IsHollow
<1>7. Together' /\ Phases' /\ Alone'
  BY <1>1, <1>2, <1>3, <1>6 DEF Together, Phases, Alone
<1>8. WholeMoves
  BY <1>2, <1>3, <1>4, <1>5, SayMoves
<1>9. CASE done
  <2>1. UNCHANGED <<wire, firstText>>
    BY <1>6, <1>9 DEF EmitContent
  <2>2. Decided /\ closed = TRUE
    BY <1>1, <1>9 DEF Spoken, Phases
  <2>3. Said \in Seq(Pieces)
    BY <1>1, SaidType DEF TypeOK, StreamTypeOK
  <2>4. Begins(Said, content') /\ late' = TRUE /\ UNCHANGED <<wire, turn, includeUsage, told>>
    BY <1>2, <1>3, <1>4, <1>5, <1>6, <2>1, <2>2, <2>3, BeginsFacts DEF Decided
  <2>5. Decided'
    BY <1>6, <2>2, <2>4, DecidedKept
  <2>6. Said' = Said /\ StreamOutcome' = StreamOutcome /\ OnWire("done")' = OnWire("done")
    BY <2>1, WireSame
  <2>7. Spoken' /\ Speaking'
    BY <1>1, <1>6, <1>9, <2>1, <2>5, <2>6 DEF Spoken, Speaking
  <2>8. TypeOK'
    BY <1>1, <1>2, <1>6, <2>1 DEF TypeOK, StreamTypeOK
  <2>9. StreamMoves
    BY <1>3, <2>6, QuietMoves
  <2> QED
    BY <1>2, <1>7, <1>8, <2>7, <2>8, <2>9 DEF IInv
<1>10. CASE ~done
  <2>1. firstText \in BOOLEAN
    BY <1>1 DEF TypeOK, StreamTypeOK
  <2>2. /\ wire' \in Seq(ContentChunk) /\ Roles(wire') /\ wire' # <<>> /\ ~firstText'
        /\ Said' = Append(Said, [kind |-> out.kind, text |-> out.text])
        /\ StreamOutcome = Open /\ StreamOutcome' = Open
    BY <1>1, <1>4, <1>6, <1>10, <2>1, SayStep
  <2>3. Said = content
    BY <1>1, <1>10 DEF Speaking
  <2>4. Said' = Append(Said, out) /\ Said' = content'
    BY <1>4, <1>5, <2>2, <2>3
  <2>5. wire' \in Seq(Chunks) /\ firstText' = FALSE
    <3>1. firstText' = FALSE
      BY <1>6, <1>10 DEF EmitContent
    <3>2. wire' \in Seq(Chunks)
      BY <2>2, ContentIsChunks
    <3> QED
      BY <3>1, <3>2
  <2>6. TypeOK'
    BY <1>1, <1>2, <1>6, <2>5 DEF TypeOK, StreamTypeOK
  <2>7. Spoken' /\ Speaking'
    BY <1>6, <1>10, <2>2, <2>4 DEF Spoken, Speaking
  <2>8. StreamMoves
    BY <1>3, <1>4, <2>2, <2>4, SayMoves
  <2> QED
    BY <1>2, <1>7, <1>8, <2>6, <2>7, <2>8 DEF IInv
<1> QED
  BY <1>9, <1>10

(* The collecting handler reads on alone.                                  *)
LEMMA AloneEvent ==
  ASSUME IInv, ~reading, reply = NoReply, NEW ev \in Events, NEW m, NEW out,
         Does(wnorm, ev, m, out), Hears(m, out), WholeTakes(m, out), UNCHANGED streamVars,
         out.kind # "error"
  PROVE  IInv' /\ StreamMoves /\ WholeMoves
<1>1. /\ TypeOK /\ Phases /\ Speaking /\ Spoken /\ Alone /\ closed /\ done
      /\ HollowTurn /\ StreamOutcome = Failed
  BY DEF IInv, Alone, Phases
<1>2. out.kind # "finish" /\ heard' = heard /\ late' = closed /\ closed \in BOOLEAN
  BY <1>1 DEF Hears, Phases
<1>3. /\ Decision' /\ Metered' /\ Answered' /\ WholeTypeOK'
      /\ reply' = NoReply /\ turn' = turn /\ closed' = closed /\ wnorm' = m
      /\ m \in Normalizers /\ m.finished = wnorm.finished
      /\ WholeOutcome = Open /\ WholeOutcome' = Open
      /\ content \in Seq(Pieces)
  BY <1>2, WholeReadsOn
<1>4. UNCHANGED <<norm, includeUsage, firstText, done, wire, reading, charged>>
  BY DEF streamVars
<1>5. /\ Said' = Said /\ StreamOutcome' = StreamOutcome /\ Committed' = Committed
      /\ OnWire("done")' = OnWire("done")
  BY <1>4, WireSame
<1>6. TypeOK'
  BY <1>1, <1>3, <1>4 DEF TypeOK, StreamTypeOK
<1>7. Together' /\ Phases' /\ Speaking'
  BY <1>1, <1>2, <1>3, <1>4 DEF Together, Phases, Speaking
<1>8. Spoken' /\ Alone'
  BY <1>1, <1>3, <1>4, <1>5 DEF Spoken, Alone, Decided, HollowTurn
<1>9. StreamMoves
  BY <1>2, <1>5, QuietMoves
<1>10. WholeMoves
  <2>1. CASE out.kind \in {"text", "reasoning"} /\ out.text # ""
    <3>1. out \in Pieces /\ content' = Append(content, out)
      BY <2>1 DEF Does, WholeTakes
    <3> QED
      BY <1>2, <1>3, <3>1, SayMoves
  <2>2. CASE ~(out.kind \in {"text", "reasoning"} /\ out.text # "")
    <3>1. content' = content
      BY <2>2 DEF WholeTakes
    <3> QED
      BY <1>2, <1>3, <3>1, QuietMoves
  <2> QED
    BY <2>1, <2>2
<1> QED
  BY <1>3, <1>6, <1>7, <1>8, <1>9, <1>10 DEF IInv

LEMMA EventStep ==
  ASSUME IInv, NEW ev \in Events, Event(ev)
  PROVE  IInv' /\ StreamMoves /\ WholeMoves
<1>1. reply = NoReply
  BY EventTakes
<1>2. PICK m, out : /\ Does(wnorm, ev, m, out) /\ Hears(m, out) /\ WholeTakes(m, out)
                    /\ reading => StreamTakes(m, out)
                    /\ ~reading => UNCHANGED streamVars
  BY EventTakes
<1>3. CASE out.kind = "error"
  BY <1>1, <1>2, <1>3, ErrorEvent
<1>4. CASE ~reading /\ out.kind # "error"
  BY <1>1, <1>2, <1>4, AloneEvent
<1>5. CASE reading /\ out.kind = "finish"
  BY <1>2, <1>5, HollowEvent, CommitEvent
<1>6. CASE reading /\ out.kind \in {"text", "reasoning"} /\ out.text # ""
  BY <1>2, <1>6, ContentEvent
<1>7. CASE reading /\ out.kind \in {"text", "reasoning"} /\ out.text = ""
  <2>1. StreamTakes(m, out)
    BY <1>2, <1>7
  <2>2. norm' = m /\ UNCHANGED <<includeUsage, reading, charged, done, wire, firstText>>
    BY <1>7, <2>1 DEF StreamTakes, IsHollow, EmitContent
  <2>3. content' = content
    BY <1>2, <1>7 DEF WholeTakes
  <2> QED
    BY <1>2, <1>7, <2>2, <2>3, SilentEvent
<1>8. CASE reading /\ out.kind = "nothing"
  <2>1. StreamTakes(m, out)
    BY <1>2, <1>8
  <2>2. norm' = m /\ UNCHANGED <<includeUsage, reading, charged, done, wire, firstText>>
    BY <1>8, <2>1 DEF StreamTakes, IsHollow
  <2>3. content' = content
    BY <1>2, <1>8 DEF WholeTakes
  <2> QED
    BY <1>2, <1>8, <2>2, <2>3, SilentEvent
<1>9. out.kind \in Kinds
  BY <1>2 DEF Does
<1> QED
  BY <1>3, <1>4, <1>5, <1>6, <1>7, <1>8, <1>9 DEF Kinds

-----------------------------------------------------------------------------
(* The invariant and what follows from it                                  *)
LEMMA InitIInv == Init => IInv
<1> SUFFICES ASSUME Init PROVE IInv
  OBVIOUS
<1> USE DEF Init, StreamInit, WholeInit, closed
<1>1. /\ <<>> \in Seq(CallId) /\ <<>> \in Seq(Calls) /\ <<>> \in Seq(Chunks)
      /\ <<>> \in Seq(Pieces) /\ <<>> \in Seq(ContentChunk)
  OBVIOUS
<1>2. NewNormalizer \in Normalizers /\ NewNormalizer.kept = <<>> /\ NewNormalizer.finished = FALSE
      /\ NewNormalizer.usage = [tokens |-> 0, cached |-> 0]
  BY <1>1 DEF NewNormalizer, Normalizers
<1>3. StreamTypeOK
  BY <1>1, <1>2 DEF StreamTypeOK
<1>4. NoTurn \in Turns
  BY <1>1 DEF NoTurn, Turns
<1>5. WholeTypeOK
  BY <1>1, <1>2, <1>4 DEF WholeTypeOK, Contents, Pieces
<1>6. Together /\ Phases /\ Alone /\ Spoken /\ Answered
  BY <1>2 DEF Together, Phases, Alone, Spoken, Answered
<1>7. Decision
  BY <1>1, <1>2, FirstCallsNone DEF Decision
<1>8. Metered
  BY <1>2 DEF Metered, Reported
<1>9. Speaking
  <2>1. Roles(<<>>)
    <3>1. DOMAIN <<>> = {}
      OBVIOUS
    <3> QED
      BY <3>1 DEF Roles
  <2>2. Said = <<>>
    <3>1. Said = Bare(wire)
      BY <1>1, ContentOnly, WireFunctions
    <3>2. Bare(wire) \in Seq(Pieces) /\ Len(Bare(wire)) = Len(wire) /\ Len(wire) = 0
      BY <1>1, BareType
    <3>3. \A q \in Seq(Pieces) : Len(q) = 0 => q = <<>>
      OBVIOUS
    <3> QED
      BY <3>1, <3>2, <3>3
  <2> QED
    BY <1>1, <2>1, <2>2 DEF Speaking
<1> QED
  BY <1>3, <1>5, <1>6, <1>7, <1>8, <1>9 DEF IInv, TypeOK

LEMMA SameIInv ==
  ASSUME IInv, UNCHANGED vars
  PROVE  IInv' /\ StreamMoves /\ WholeMoves
<1> USE DEF vars, closed
<1>1. /\ Said' = Said /\ StreamOutcome' = StreamOutcome /\ Committed' = Committed
      /\ OnWire("done")' = OnWire("done") /\ OnWire("usage")' = OnWire("usage")
  BY WireSame
<1>2. Reported' = Reported /\ WholeOutcome' = WholeOutcome /\ HollowTurn' = HollowTurn
  BY DEF Reported, WholeOutcome, HollowTurn
<1>3. TypeOK' = TypeOK
  BY DEF TypeOK, StreamTypeOK, WholeTypeOK
<1>4. Together' = Together /\ Phases' = Phases /\ Decision' = Decision
  BY DEF Together, Phases, Decision
<1>5. Metered' = Metered /\ Speaking' = Speaking /\ Alone' = Alone
  BY <1>1, <1>2 DEF Metered, Speaking, Alone
<1>6. Decided' = Decided
  BY <1>1, <1>2 DEF Decided
<1>7. Spoken' = Spoken
  BY <1>1, <1>6 DEF Spoken
<1>8. ModesAgree' = ModesAgree
  BY <1>1, <1>2 DEF ModesAgree
<1>9. Answered' = Answered
  BY <1>2, <1>8 DEF Answered
<1>10. StreamMoves /\ WholeMoves
  BY <1>1, <1>2, QuietMoves
<1> QED
  BY <1>3, <1>4, <1>5, <1>7, <1>9, <1>10 DEF IInv

LEMMA StepIInv == IInv /\ [Next]_vars => IInv' /\ StreamMoves /\ WholeMoves
<1> SUFFICES ASSUME IInv, [Next]_vars PROVE IInv' /\ StreamMoves /\ WholeMoves
  OBVIOUS
<1>1. ASSUME NEW ev \in Events, Event(ev) PROVE IInv' /\ StreamMoves /\ WholeMoves
  BY <1>1, EventStep
<1>2. CASE End
  BY <1>2, EndStep
<1>3. CASE Break
  BY <1>3, BreakStep
<1>4. CASE UNCHANGED vars
  BY <1>4, SameIInv
<1> QED
  BY <1>1, <1>2, <1>3, <1>4 DEF Next

LEMMA Invariance == Spec => []IInv
<1>1. IInv /\ [Next]_vars => IInv'
  BY StepIInv
<1> QED
  BY InitIInv, <1>1, PTL DEF Spec

(* Every variable of the two handlers keeps its type, whatever the         *)
(* upstream sends.                                                         *)
THEOREM TypeCorrect == Spec => []TypeOK
<1>1. IInv => TypeOK
  BY DEF IInv
<1> QED
  BY <1>1, Invariance, PTL

(* handler.go: the stream ends with its only [DONE], and is never left     *)
(* without one.                                                            *)
THEOREM ClosedOnceHolds == Spec => []ClosedOnce
<1>1. IInv => ClosedOnce
  <2> SUFFICES ASSUME IInv PROVE ClosedOnce
    OBVIOUS
  <2>1. Speaking /\ Spoken /\ Phases
    BY DEF IInv
  <2>2. CASE done
    BY <2>1, <2>2 DEF Spoken, ClosedOnce
  <2>3. CASE ~done
    <3>1. OnWire("done") = {}
      BY <2>1, <2>3, ContentOnly, WireFunctions DEF Speaking
    <3> QED
      BY <2>1, <2>3, <3>1 DEF ClosedOnce, Phases
  <2> QED
    BY <2>2, <2>3
<1> QED
  BY <1>1, Invariance, PTL

(* The role is sent once, in the first chunk that says anything.           *)
THEOREM RoleOnceHolds == Spec => []RoleOnce
<1>1. IInv => RoleOnce
  BY DEF IInv, Speaking, Spoken, Roles, RoleOnce
<1> QED
  BY <1>1, Invariance, PTL

(* The account and the key are charged what the client is told: the last   *)
(* report up to the finish.                                                *)
THEOREM ChargedAsToldHolds == Spec => []ChargedAsTold
<1>1. IInv => ChargedAsTold
  <2> SUFFICES ASSUME IInv PROVE ChargedAsTold
    OBVIOUS
  <2>1. Spoken /\ Phases /\ Answered
    BY DEF IInv
  <2>2. ASSUME ~reading, Committed
        PROVE  /\ charged = Reported
               /\ \A i \in OnWire("usage") : wire[i].usage = Reported
               /\ includeUsage <=> OnWire("usage") # {}
    BY <2>1, <2>2 DEF Spoken, Phases, Decided
  <2>3. ASSUME reply # NoReply
        PROVE  /\ billed = IF reply.status = 200 THEN reply.usage ELSE NoUsage
               /\ reply.status = 200 => billed = Reported
    BY <2>1, <2>3 DEF Answered
  <2> QED
    BY <2>2, <2>3 DEF ChargedAsTold
<1> QED
  BY <1>1, Invariance, PTL

(* Streaming is not another answer: what the collected response commits to *)
(* the stream has committed to as well, and if nothing follows the finish  *)
(* event the two say the same.                                             *)
THEOREM ModesAgreeHolds == Spec => []ModesAgree
<1>1. IInv => ModesAgree
  BY DEF IInv, Answered, ModesAgree
<1> QED
  BY <1>1, Invariance, PTL

(* The chunk stream implements Completion: no call before the commit or    *)
(* without it, every call once and first come first kept, nothing after    *)
(* the end.                                                                *)
THEOREM StreamKeepsPromiseHolds == Spec => StreamKeepsPromise
<1>1. Init => Stream!Init
  <2> SUFFICES ASSUME Init PROVE Stream!Init
    OBVIOUS
  <2>1. Speaking /\ content = <<>> /\ heard = <<>> /\ ~done
    BY InitIInv DEF IInv, Init, StreamInit, WholeInit
  <2>2. Said = <<>> /\ StreamOutcome = Open
    BY <2>1, ContentOnly, WireFunctions DEF Speaking
  <2> QED
    BY <2>1, <2>2 DEF Stream!Init
<1>2. IInv /\ [Next]_vars => [Stream!Next]_(Stream!vars)
  BY StepIInv DEF StreamMoves
<1> QED
  BY <1>1, <1>2, Invariance, PTL DEF Spec, StreamKeepsPromise, Stream!Spec

(* So does the collected response, whose calls and reason the events after *)
(* the finish do not change.                                               *)
THEOREM WholeKeepsPromiseHolds == Spec => WholeKeepsPromise
<1>1. Init => Whole!Init
  BY DEF Init, WholeInit, Whole!Init, WholeOutcome
<1>2. IInv /\ [Next]_vars => [Whole!Next]_(Whole!vars)
  BY StepIInv DEF WholeMoves
<1> QED
  BY <1>1, <1>2, Invariance, PTL DEF Spec, WholeKeepsPromise, Whole!Spec

=============================================================================
