---------------------------- MODULE UbxCommands ----------------------------
(* The ubx command line (cmd/ubx/main.go) and the survey-in state machine    *)
(* it runs (internal/gps/surveyin.go). A command is the list of the steps    *)
(* still to do; its first error ends it, after the rollback when a survey    *)
(* has armed one. Printing, flags and usage errors are left out.             *)
EXTENDS UbxExchange

CONSTANT Scenarios  \* what is tried: a command's name and options, the receiver's
                    \* generation and time mode, the requests that an earlier
                    \* command left in the queue, and the budget of faults

\* The commands that main's switch knows, and which of them have the flags
\* --save and --ephemeral; anything else is a usage error.
Names == {"version", "tmode show", "fixed show", "tmode set", "save", "configure-stationary",
          "configure-pps", "fixed from-svin", "fixed set", "survey-in", "deploy"}

ASSUME ScenarioAssumption ==
  \A s \in Scenarios :
    /\ s.name \in Names
    /\ s.budget \in [faults : Nat, errors : BOOLEAN, others : Nat, signals : Nat]
    /\ s.queue \in Seq({s.queue[i] : i \in DOMAIN s.queue})
    /\ "save" \in s.opts => s.name \in {"configure-stationary", "configure-pps", "fixed from-svin",
                                        "fixed set", "deploy"}
    /\ "ephemeral" \in s.opts => s.name = "survey-in"
    /\ "json" \in s.opts => s.name = "tmode show"

VARIABLES cmd,     \* the command: its name and options
          stage,   \* "start", "dialing", "running" or "done"
          todo,    \* the steps still to do
          survey,  \* SurveyIn: the cached TMODE, rollback armed, the streak, the result
          err,     \* "none", "deadline" (ErrSurveyInTimeout) or "other"
          code     \* the exit code

cmdVars == <<cmd, stage, todo, survey, err, code>>
vars    == <<clientVars, linkVars, ctxVars, ex, cmdVars>>

Has(option) == option \in cmd.opts

-----------------------------------------------------------------------------
(* What each command does, in order.                                         *)

Save == IF Has("save") THEN <<"save">> ELSE <<>>

\* gps.SurveyIn: read before write, configure, poll until converged.
SurveyIn == <<"cache", "config", "poll">>

runVersion             == <<"version">>
runTmodeShow           == <<"version", "tmode">>
runFixedShow           == <<"version", "tmode">>
runTmodeSet            == <<"version", "set">>
runSave                == <<"save">>
runConfigureStationary == <<"nav5">> \o Save
runConfigurePPS        == <<"tp5">> \o Save
runFixedFromSVIN       == <<"version", "svin", "fix">> \o Save
runFixedSet            == <<"version", "set">> \o Save
runSurveyIn            == <<"version">> \o SurveyIn
runDeploy              == <<"version", "nav5", "tp5", "tmode">> \o SurveyIn \o <<"svin", "fix">> \o Save

\* main's switch.
Steps == CASE cmd.name = "version"              -> runVersion
           [] cmd.name = "tmode show"           -> runTmodeShow
           [] cmd.name = "fixed show"           -> runFixedShow
           [] cmd.name = "tmode set"            -> runTmodeSet
           [] cmd.name = "save"                 -> runSave
           [] cmd.name = "configure-stationary" -> runConfigureStationary
           [] cmd.name = "configure-pps"        -> runConfigurePPS
           [] cmd.name = "fixed from-svin"      -> runFixedFromSVIN
           [] cmd.name = "fixed set"            -> runFixedSet
           [] cmd.name = "survey-in"            -> runSurveyIn
           [] cmd.name = "deploy"               -> runDeploy

\* survey-in and deploy take SIGINT and have no deadline, the others the reverse.
TakesSignals == cmd.name \in {"survey-in", "deploy"}
InSurvey     == survey.called /\ ~survey.returned

\* The payload of "tmode set" and "fixed set".
SetFrame == FixedModeFrame("given")

NoTMODE  == [mode |-> 0, svin |-> "zero", pos |-> "zero"]
NoSurvey == [called |-> FALSE, returned |-> FALSE, armed |-> FALSE, cached |-> NoTMODE,
             short |-> FALSE, converged |-> FALSE, RolledBack |-> FALSE, RollbackFailed |-> FALSE]

-----------------------------------------------------------------------------
(* Opening gpsd (openClientAndDevice).                                       *)

\* A device named by --device must be listed; else there must be only one.
DeviceFound == IF Has("device") THEN Path \in devices ELSE devices = {Path}

Start ==
  /\ stage = "start" /\ Dial
  /\ stage' = "dialing" /\ gpsd' = "connected"
  /\ UNCHANGED <<requests, receiver, budget, ctxVars, ex, cmd, todo, survey, err, code>>

Refuse == Close /\ stage' = "done" /\ err' = "other" /\ code' = 1 /\ UNCHANGED <<cmd, todo, survey>>

Open ==
  /\ stage = "dialing"
  /\ \/ /\ DialSucceeds /\ DeviceFound
        /\ Subscribe
        /\ stage' = "running" /\ todo' = Steps
        /\ UNCHANGED <<cmd, survey, err, code>>
     \/ DialSucceeds /\ ~DeviceFound /\ Refuse
     \/ (DialFails \/ cancelled \/ expired) /\ Refuse
  /\ UNCHANGED <<linkVars, ctxVars, ex>>

-----------------------------------------------------------------------------
(* Steps. An exchange begins, and its result moves the command on.           *)

RestoreFrame == survey.cached

Asks(step) ==
  CASE step = "version"            -> Poll("MON-VER", TRUE)
    [] step \in {"tmode", "cache"} -> Poll("TMODE", TRUE)
    [] step = "nav5"               -> WriteNAV5DynModel
    [] step = "tp5"                -> WriteTP5_1HzUTC
    [] step = "config"             -> WriteTMODE(SurveyInFrame, TRUE, FALSE)
    [] step = "poll"               -> PollSVIN(TRUE)
    [] step = "svin"               -> PollSVIN(FALSE)
    [] step = "fix"                -> WriteTMODE(FixedModeFrame("surveyed"), FALSE, FALSE)
    [] step = "set"                -> WriteTMODE(SetFrame, FALSE, FALSE)
    [] step = "save"               -> SaveConfig
    [] step = "rollback"           -> WriteTMODE(RestoreFrame, TRUE, TRUE)

\* The survey's ticker: between two polls the context is looked at.
Stopped == InSurvey /\ Head(todo) = "poll" /\ (cancelled \/ expired)

Unrestorable == Head(todo) = "rollback" /\ survey.short

Begin ==
  /\ stage = "running" /\ ex.stage = "idle" /\ todo # <<>>
  /\ ~Stopped /\ ~Unrestorable
  /\ ex' = Asks(Head(todo))
  /\ survey' = IF Head(todo) = "cache" THEN [survey EXCEPT !.called = TRUE] ELSE survey
  /\ UNCHANGED <<clientVars, linkVars, ctxVars, cmd, stage, todo, err, code>>

\* Mutant: an error ends the command at once.
FailNoRollback(cause) ==
  /\ err' = cause /\ todo' = <<>>
  /\ survey' = [survey EXCEPT !.returned = survey.called]
  /\ UNCHANGED <<cmd, stage, code>>

\* An error ends the command, by way of the rollback when one is armed.
Fail(cause) ==
  /\ err' = cause
  /\ todo' = IF survey.armed THEN <<"rollback">> ELSE <<>>
  /\ survey' = IF survey.armed THEN survey ELSE [survey EXCEPT !.returned = survey.called]
  /\ UNCHANGED <<cmd, stage, code>>

\* SurveyIn's deadline is reported as such unless a signal came too.
Cause == IF InSurvey /\ expired /\ ~cancelled THEN "deadline" ELSE "other"

Stop ==
  /\ stage = "running" /\ ex.stage = "idle" /\ todo # <<>>
  /\ Stopped /\ Fail(Cause)
  /\ UNCHANGED <<clientVars, linkVars, ctxVars, ex>>

\* The result of the exchange is consumed.
Ends(result) ==
  /\ stage = "running" /\ ex.stage \in Results /\ (ex.stage = "ok") = (result = "ok")
  /\ ex' = Idle
  /\ UNCHANGED <<clientVars, linkVars, cancelled>>
Ended(result) == Ends(result) /\ UNCHANGED expired

Advance(s) == todo' = Tail(todo) /\ survey' = s /\ UNCHANGED <<cmd, stage, err, code>>

Generation ==
  /\ Head(todo) = "version" /\ Ended("ok")
  /\ IF DetectGeneration = "short" \/ (DetectGeneration = "unknown" /\ cmd.name # "version")
     THEN Fail("other") ELSE Advance(survey)

\* A verified write or a save is done.
Written ==
  /\ Head(todo) \in {"nav5", "tp5", "config", "fix", "set", "save"} /\ Ended("ok")
  /\ Advance(survey)

\* Mutant: the mode is not looked at.
TmodeReadAnyMode ==
  /\ Head(todo) = "tmode" /\ Ended("ok")
  /\ IF cmd.name = "deploy" /\ Has("skip")
     THEN todo' = Save /\ UNCHANGED <<cmd, stage, survey, err, code>>
     ELSE Advance(survey)

\* What a show command prints is not there; with --json what is there is printed.
Unprintable(length) ==
  \/ cmd.name = "tmode show" /\ ex.short /\ ~Has("json")
  \/ cmd.name = "fixed show" /\ TMODEMode(length) = 2 /\ ~HasPosition(length)

\* The show commands print; deploy skips the survey of a receiver that is fixed.
TmodeRead ==
  /\ Head(todo) = "tmode" /\ Ended("ok")
  /\ \E length \in Lengths :
       IF cmd.name = "deploy" /\ Has("skip") /\ TMODEMode(length) = 2
       THEN todo' = Save /\ UNCHANGED <<cmd, stage, survey, err, code>>
       ELSE IF Unprintable(length) THEN Fail("other") ELSE Advance(survey)

Cached ==
  /\ Head(todo) = "cache" /\ Ended("ok")
  /\ Advance([survey EXCEPT !.armed = TRUE, !.cached = ex.val, !.short = ex.short])

\* Two consecutive polls must report the survey valid and no longer active.
Polled ==
  /\ Head(todo) = "poll" /\ Ends("ok")
  /\ LET converged == ParseSVIN = "valid" IN
     CASE ~(converged /\ survey.converged) ->
            /\ survey' = [survey EXCEPT !.converged = converged]
            /\ UNCHANGED <<expired, cmd, stage, todo, err, code>>
       [] converged /\ survey.converged /\ Has("ephemeral") ->
            todo' = <<"rollback">> /\ UNCHANGED <<expired, cmd, stage, survey, err, code>>
       [] converged /\ survey.converged /\ ~Has("ephemeral") ->
            \* The survey's deadline is no longer the command's.
            expired' = FALSE /\ Advance([survey EXCEPT !.armed = FALSE, !.returned = TRUE])

\* A poll that times out alone breaks the streak, nothing more.
PollMissed ==
  /\ Head(todo) = "poll" /\ ex.stage = "late" /\ ~(cancelled \/ expired) /\ Ended("late")
  /\ survey' = [survey EXCEPT !.converged = FALSE]
  /\ UNCHANGED <<cmd, stage, todo, err, code>>

\* fixed from-svin and deploy take the position of a converged survey only.
Surveyed ==
  /\ Head(todo) = "svin" /\ Ended("ok")
  /\ IF ParseSVIN # "valid" THEN Fail("other") ELSE Advance(survey)

Broken ==
  /\ todo # <<>> /\ Head(todo) # "rollback" /\ Ended("broken")
  /\ ~(Head(todo) = "poll" /\ ex.stage = "late" /\ ~(cancelled \/ expired))
  /\ Fail(IF Head(todo) = "poll" /\ ex.stage = "late" THEN Cause ELSE "other")

\* Mutant: the error of the rollback's write is swallowed.
RolledBackAnyway ==
  /\ todo # <<>> /\ Head(todo) = "rollback"
  /\ Ended("ok") \/ Ended("broken")
  /\ survey' = [survey EXCEPT !.RolledBack = TRUE, !.returned = TRUE, !.armed = FALSE]
  /\ todo' = <<>> /\ UNCHANGED <<cmd, stage, err, code>>

\* The deferred rollback: its failure becomes the command's.
RolledBack ==
  /\ todo # <<>> /\ Head(todo) = "rollback"
  /\ \/ Ended("ok") /\ UNCHANGED err
        /\ survey' = [survey EXCEPT !.RolledBack = TRUE, !.returned = TRUE, !.armed = FALSE]
     \/ /\ \/ Ended("broken")
           \/ Unrestorable /\ ex.stage = "idle" /\ UNCHANGED <<clientVars, linkVars, ctxVars, ex>>
        /\ survey' = [survey EXCEPT !.RollbackFailed = TRUE, !.returned = TRUE, !.armed = FALSE]
        /\ err' = IF err = "none" THEN "other" ELSE err
  /\ todo' = <<>> /\ UNCHANGED <<cmd, stage, code>>

Step == \/ Begin \/ Stop \/ Broken \/ RolledBack
        \/ todo # <<>> /\ (Generation \/ Written \/ TmodeRead \/ Cached \/ Polled \/ PollMissed \/ Surveyed)

-----------------------------------------------------------------------------
(* The end: the exit code, and the deferred Close.                           *)

\* runSurveyIn's switch after SurveyIn returned, and main's exit.
ExitCode ==
  LET surveyed == cmd.name = "survey-in" /\ survey.returned /\ ~survey.RollbackFailed IN
  CASE surveyed /\ cancelled                      -> 130
    [] surveyed /\ ~cancelled /\ err = "deadline" -> 2
    [] OTHER -> IF survey.RollbackFailed \/ err # "none" THEN 1 ELSE 0

Finish ==
  /\ stage = "running" /\ todo = <<>> /\ ex.stage = "idle"
  /\ Close /\ stage' = "done" /\ code' = ExitCode
  /\ UNCHANGED <<linkVars, ctxVars, ex, cmd, todo, survey, err>>

Interrupt ==
  /\ TakesSignals /\ ~cancelled /\ stage \in {"dialing", "running"}
  /\ budget.signals > 0 /\ budget' = [budget EXCEPT !.signals = @ - 1]
  /\ cancelled' = TRUE
  /\ UNCHANGED <<clientVars, requests, receiver, gpsd, ex, expired, cmdVars>>

\* The deadline of the command, or of the survey.
Expire ==
  /\ ~expired /\ (InSurvey \/ (~TakesSignals /\ stage \in {"dialing", "running"}))
  /\ expired' = TRUE
  /\ UNCHANGED <<clientVars, linkVars, ex, cancelled, cmdVars>>
-----------------------------------------------------------------------------
(* The specification. Between the calls nothing but the clock and the other  *)
(* processes move, so each process and each timer is fair by itself; faults, *)
(* gpsd's greeting and the user are not. A receiver that is silent for ever  *)
(* is one that loses what it is asked, so what it is asked leaves its queue. *)

Payloads == [mode : 0..2, svin : {"zero", "old", "asked"}, pos : {"zero", "old", "given", "surveyed"}]

Init ==
  /\ ClientInit /\ gpsd = "listening" /\ ex = Idle
  /\ cancelled = FALSE /\ expired = FALSE /\ todo = <<>>
  /\ \E s \in Scenarios :
       LET cfg == [TMODE |-> [mode |-> s.mode, svin |-> "old", pos |-> "old"],
                   NAV5 |-> "portable", TP5 |-> "factory"]
       IN /\ receiver = [gen |-> s.gen, cfg |-> cfg, flash |-> cfg,
                         svin |-> IF s.mode = 1 THEN "active" ELSE "none"]
          /\ requests = s.queue /\ budget = s.budget
          /\ cmd = [name |-> s.name, opts |-> s.opts]
  /\ stage = "start" /\ survey = NoSurvey
  /\ err = "none" /\ code = 0

World   == (ReadLoop /\ UNCHANGED <<linkVars, ex, ctxVars, cmdVars>>)
             \/ (Environment /\ UNCHANGED cmdVars)
Command_ == (Exchange /\ UNCHANGED cmdVars) \/ Start \/ Open \/ Step \/ Finish

Next == stage # "done" /\ (World \/ Command_ \/ Interrupt \/ Expire)

Fairness == /\ WF_vars(stage # "done" /\ ReadLoop /\ UNCHANGED <<linkVars, ex, ctxVars, cmdVars>>)
            /\ WF_vars(stage # "done" /\ Serve /\ UNCHANGED cmdVars)
            /\ WF_vars(stage # "done" /\ Command_)
            /\ WF_vars(stage # "done" /\ Expire)

Spec == Init /\ [][Next]_vars /\ Fairness

-----------------------------------------------------------------------------
(* Properties.                                                               *)

TypeOK ==
  /\ ClientTypeOK
  /\ receiver.cfg.TMODE \in Payloads /\ receiver.flash.TMODE \in Payloads
  /\ receiver.svin \in {"none", "active", "valid"}
  /\ ex.stage \in {"idle", "send", "wait"} \cup Results
  /\ stage \in {"start", "dialing", "running", "done"}
  /\ err \in {"none", "deadline", "other"} /\ code \in {0, 1, 2, 130}

\* A write that WriteAndVerify reports done is in force, whatever
\* acknowledgements and answers to earlier or other polls were in the way
\* (surveyin.go, WriteAndVerify).
VerifiedInForce ==
  [][ex.op = "write" /\ ex'.stage = "ok" => Agrees(ex.item, receiver'.cfg[ex.item], ex.want)]_vars

\* SurveyIn gives up its rollback only for a survey that has converged under
\* the configuration it asked for, or for a cached TMODE that is back in
\* force, or says that the rollback failed.
DisarmedInForce ==
  [][survey.armed /\ ~survey'.armed =>
       \/ survey'.RollbackFailed
       \/ survey'.RolledBack /\ compareTMODEByMode(receiver.cfg.TMODE, survey.cached)
       \/ receiver.svin = "valid" /\ compareTMODEByMode(receiver.cfg.TMODE, SurveyInFrame)]_vars

\* A command never ends with a rollback owed: the exit code of a survey that
\* did not succeed is not 0, and the receiver is as it was or the user is told.
NoRollbackOwed ==
  stage = "done" =>
    /\ ~survey.armed
    /\ survey.RollbackFailed => code = 1
    /\ survey.called /\ code = 0 /\ ~survey.RolledBack => survey.converged

\* Exit code 0 of a command that configures the receiver means that the
\* receiver is configured, and saved when that was asked.
Configured ==
  LET cfg == receiver.cfg
      saved == Has("save") => receiver.flash = cfg
  IN CASE cmd.name = "deploy" ->
            cfg.NAV5 = "stationary" /\ cfg.TP5 = "1HzUTC" /\ cfg.TMODE.mode = 2 /\ saved
       [] cmd.name = "survey-in" /\ ~Has("ephemeral") ->
            receiver.svin = "valid" /\ compareTMODEByMode(cfg.TMODE, SurveyInFrame)
       [] cmd.name = "fixed from-svin" -> cfg.TMODE.mode = 2 /\ cfg.TMODE.pos = "surveyed" /\ saved
       [] cmd.name \in {"fixed set", "tmode set"} -> compareTMODEByMode(cfg.TMODE, SetFrame) /\ saved
       [] cmd.name = "configure-stationary" -> cfg.NAV5 = "stationary" /\ saved
       [] cmd.name = "configure-pps" -> cfg.TP5 = "1HzUTC" /\ saved
       [] cmd.name = "save" -> receiver.flash = cfg
       [] OTHER -> TRUE
ExitZeroIsDone == stage = "done" /\ code = 0 => Configured

\* A command ends that has a deadline, was interrupted, or whose connection
\* is lost: no wait outlives the reader (client.go, readLoop's deferred close).
\* A survey has a deadline of its own.
CommandEnds ==
  /\ (stage \in {"dialing", "running"} /\ (cancelled \/ ~TakesSignals \/ gpsd = "gone"))
       ~> stage = "done"
  /\ InSurvey ~> survey.returned
=============================================================================
