---------------------------- MODULE MCBackground ----------------------------
(***************************************************************************)
(* What goes on behind the console's back: the log it polls and the quotas *)
(* it shows.  The two share no variable, so each behaviour runs one.       *)
(***************************************************************************)
EXTENDS LogRing, QuotaRefresh

VARIABLE side

vars == <<logVars, quotaVars, side>>

Init == side \in {"log", "quota"} /\ LogInit /\ QuotaInit

OnLog(A) == side = "log" /\ A /\ UNCHANGED <<quotaVars, side>>
OnQuota(A) == side = "quota" /\ A /\ UNCHANGED <<logVars, side>>

Next == OnLog(LogNext) \/ OnQuota(QuotaNext)

(* The console's timer keeps polling and the server answers; a poll may    *)
(* fail, but not every one forever.                                        *)
LogFairness ==
  /\ WF_vars(OnLog(\E p \in Poll : AskLogs(p)))
  /\ SF_vars(OnLog(\E p \in Poll : Serve(p)))
  /\ SF_vars(OnLog(\E p \in Poll : Receive(p)))

(* The ticker keeps firing and what has begun goes on (a query ends after  *)
(* quotaRequestTimeout); every refresh of the sweep gets a slot in turn,   *)
(* and no credential is refused forever.                                   *)
QuotaFairness ==
  /\ WF_vars(OnQuota(Sweep)) /\ WF_vars(OnQuota(Drop))
  /\ WF_vars(OnQuota(\E j \in Job : Proceed(j)))
  /\ \A a \in Account :
       /\ SF_vars(OnQuota(Begin(<<a, "sweep">>)))
       /\ SF_vars(OnQuota(\E r \in Answers : Usable(r) /\ Fetch(<<a, "sweep">>, r)))

Spec == Init /\ [][Next]_vars /\ LogFairness /\ QuotaFairness

(* One key rejected, one upstream in trouble, one answer in part.          *)
SomeAnswers ==
  {[whoami |-> "rejected", credits |-> "ok", subscriptions |-> "ok", usage |-> "ok"],
   [whoami |-> "failed", credits |-> "planned", subscriptions |-> "failed", usage |-> "failed"]}

=============================================================================
