---------------------------- MODULE MCFrontDoor ----------------------------
(***************************************************************************)
(* The machines between the gateway's socket and its core, one at a time:  *)
(* they share no variable, so each behaviour picks one of them and leaves  *)
(* the others in their initial states.                                     *)
(***************************************************************************)
EXTENDS LoginLimiter, OAuthFlow, SSEFraming, RequestConversion, ModelExposure

VARIABLE side

limiterIdle    == UNCHANGED limiterVars
oauthIdle      == UNCHANGED oauthVars
framingIdle    == UNCHANGED framingVars
conversionIdle == UNCHANGED conversionVars
exposureIdle   == UNCHANGED exposureVars

vars == <<limiterVars, oauthVars, framingVars, conversionVars, exposureVars, side>>

(* The inputs of the machines that do not run are fixed.                   *)
Init ==
    /\ side \in {"limiter", "oauth", "framing", "conversion", "exposure"}
    /\ LimiterInit /\ OAuthInit /\ ExposureInit
    /\ FramingInit /\ (side # "framing" => refuseAt = CHOOSE n \in RefuseAts : TRUE)
    /\ IF side = "conversion" THEN ConversionInit
       ELSE /\ request = <<>> /\ limit = <<0, 0>>
            /\ position = 1 /\ toolNames = <<>> /\ out = <<>> /\ system = <<>>
            /\ budget = 0 /\ verdict = "converting"

LimiterSide ==
    /\ side = "limiter" /\ LimiterNext
    /\ oauthIdle /\ framingIdle /\ conversionIdle /\ exposureIdle

OAuthSide ==
    /\ side = "oauth" /\ OAuthNext
    /\ limiterIdle /\ framingIdle /\ conversionIdle /\ exposureIdle

FramingSide ==
    /\ side = "framing" /\ FramingNext
    /\ limiterIdle /\ oauthIdle /\ conversionIdle /\ exposureIdle

ConversionSide ==
    /\ side = "conversion" /\ ConversionNext
    /\ limiterIdle /\ oauthIdle /\ framingIdle /\ exposureIdle

ExposureSide ==
    /\ side = "exposure" /\ ExposureNext
    /\ limiterIdle /\ oauthIdle /\ framingIdle /\ conversionIdle

Next ==
    /\ LimiterSide \/ OAuthSide \/ FramingSide \/ ConversionSide \/ ExposureSide
    /\ UNCHANGED side

(* Only the login flow has goroutines and timers that must run.            *)
FlowRuns(f) ==
    /\ side = "oauth" /\ Wait(f)
    /\ limiterIdle /\ framingIdle /\ conversionIdle /\ exposureIdle /\ UNCHANGED side

Spec == Init /\ [][Next]_vars /\ \A f \in Flow : WF_vars(FlowRuns(f))

FrontDoorTypeOK ==
    /\ side = "limiter" => LimiterTypeOK
    /\ side = "oauth" => OAuthTypeOK
    /\ side = "framing" => FramingTypeOK
    /\ side = "conversion" => ConversionTypeOK
    /\ side = "exposure" => ExposureTypeOK

-----------------------------------------------------------------------------
Plain(role, parts) ==
    [role |-> role, parts |-> parts, reasoning |-> FALSE, calls |-> <<>>,
     callId |-> None, name |-> None]

Call(id, name) == [id |-> id, name |-> name, object |-> TRUE]

Calling(role, calls) == [Plain(role, <<"empty">>) EXCEPT !.calls = calls]

Result(id, name) == [Plain("tool", <<"text">>) EXCEPT !.callId = id, !.name = name]

(* One message of every shape that conversion treats in its own way.       *)
SomeMessages ==
    {Plain("system", <<"text">>), Plain("developer", <<"empty">>),
     Plain("user", <<"text", "image">>), Plain("user", <<"badimage">>),
     [Calling("assistant", <<Call("1", "read")>>) EXCEPT !.reasoning = TRUE],
     Calling("assistant", <<Call("1", "write")>>),
     Calling("assistant", <<Call("2", "read"), Call("1", "list")>>),
     Calling("user", <<Call("1", "write")>>),
     Calling("assistant", <<Call(None, "read")>>),
     Calling("assistant", <<[Call("2", "read") EXCEPT !.object = FALSE]>>),
     Result("1", None), Result("2", None), Result("1", "other"), Result(None, "read"),
     [Result("1", None) EXCEPT !.parts = <<"image">>]}

SomeLimits == {<<0, 0>>, <<0, 1>>, <<4, 1>>}

(* Three models, one a longer version of another, and a vendor prefix.     *)
SomeModels  == {"openai/gpt-5", "openai/gpt-5-mini", "x/other"}
SomeEntries == SomeModels \cup {"gpt-", "claude-"}

BaseName(m) ==
    CASE m = "openai/gpt-5" -> "gpt-5" [] m = "openai/gpt-5-mini" -> "gpt-5-mini"
      [] OTHER -> "other"

SomeStarts ==
    {<<n, n>> : n \in SomeModels \cup {"gpt-5", "gpt-5-mini", "other"}} \cup
    {<<"openai/gpt-5-mini", "openai/gpt-5">>, <<"gpt-5-mini", "gpt-5">>,
     <<"gpt-5", "gpt-">>, <<"gpt-5-mini", "gpt-">>}
=============================================================================
