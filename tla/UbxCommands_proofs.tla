------------------------- MODULE UbxCommands_proofs -------------------------
(***************************************************************************)
(* For every command, receiver and sequence of faults: no command ends     *)
(* with a rollback owed, whatever other programs ask of the receiver. And  *)
(* when none does, a verified write is in force, a survey gives up its     *)
(* rollback only in force of what it asked for or of what it restored, and *)
(* a command that exits with 0 has done what it is for.                    *)
(***************************************************************************)
EXTENDS UbxCommands, SequenceTheorems, TLAPS

(* A plan of steps. A survey caches, configures and polls in that order,   *)
(* nothing else configures or polls, and a rollback is the last step.      *)
Guarded == {"config", "poll", "rollback"}
Plain   == {"version", "tmode", "nav5", "tp5", "svin", "fix", "set", "save"}
StepNames == Plain \cup {"cache"} \cup Guarded

Plan(s) ==
  /\ s \in Seq(StepNames)
  /\ \A i \in 1..Len(s) :
       /\ s[i] = "cache"    => i < Len(s) /\ s[i + 1] = "config"
       /\ s[i] = "config"   => i < Len(s) /\ s[i + 1] = "poll"
       /\ s[i] = "rollback" => i = 1 /\ Len(s) = 1
       /\ i > 1 /\ s[i] = "config" => s[i - 1] = "cache"
       /\ i > 1 /\ s[i] = "poll"   => s[i - 1] = "config"

(* A plan that a command starts with: no step of it needs a survey begun.  *)
Fresh(s) == Plan(s) /\ (s # <<>> => Head(s) \notin Guarded)

LEMMA PlanTail ==
  ASSUME NEW s, Plan(s), s # <<>>
  PROVE  /\ Plan(Tail(s))
         /\ Tail(s) # <<>> => (Head(Tail(s)) = "config" <=> Head(s) = "cache")
         /\ Tail(s) # <<>> => (Head(Tail(s)) = "poll" <=> Head(s) = "config")
         /\ Tail(s) # <<>> => Head(Tail(s)) # "rollback"
         /\ Head(s) \in {"cache", "config"} => Tail(s) # <<>>
<1>1. s \in Seq(StepNames) /\ Len(s) \in Nat \ {0} /\ Head(s) = s[1]
  BY DEF Plan
<1>2. Tail(s) \in Seq(StepNames) /\ Len(Tail(s)) = Len(s) - 1
      /\ \A i \in 1..Len(Tail(s)) : Tail(s)[i] = s[i + 1]
  BY <1>1, HeadTailProperties
<1>3. \A i \in 1..Len(s) :
        /\ s[i] = "cache"    => i < Len(s) /\ s[i + 1] = "config"
        /\ s[i] = "config"   => i < Len(s) /\ s[i + 1] = "poll"
        /\ s[i] = "rollback" => i = 1 /\ Len(s) = 1
        /\ i > 1 /\ s[i] = "config" => s[i - 1] = "cache"
        /\ i > 1 /\ s[i] = "poll"   => s[i - 1] = "config"
  BY DEF Plan
<1>4. Plan(Tail(s))
  <2>1. SUFFICES ASSUME NEW i \in 1..Len(Tail(s))
        PROVE  /\ Tail(s)[i] = "cache"    => i < Len(Tail(s)) /\ Tail(s)[i + 1] = "config"
               /\ Tail(s)[i] = "config"   => i < Len(Tail(s)) /\ Tail(s)[i + 1] = "poll"
               /\ Tail(s)[i] = "rollback" => i = 1 /\ Len(Tail(s)) = 1
               /\ i > 1 /\ Tail(s)[i] = "config" => Tail(s)[i - 1] = "cache"
               /\ i > 1 /\ Tail(s)[i] = "poll"   => Tail(s)[i - 1] = "config"
    BY <1>2 DEF Plan
  <2>2. i \in Int /\ i + 1 \in 1..Len(s) /\ (i + 1) - 1 = i /\ Tail(s)[i] = s[i + 1]
    BY <1>1, <1>2
  <2>3. i < Len(Tail(s)) <=> i + 1 < Len(s)
    BY <1>1, <1>2
  <2>4. i < Len(Tail(s)) => Tail(s)[i + 1] = s[(i + 1) + 1]
    BY <1>1, <1>2
  <2>5. i > 1 => Tail(s)[i - 1] = s[i]
    BY <1>1, <1>2
  <2>6. s[i + 1] # "rollback"
    BY <1>3, <2>2
  <2> QED
    BY <1>3, <2>2, <2>3, <2>4, <2>5, <2>6
<1>5. Tail(s) # <<>> => Head(Tail(s)) = s[2] /\ 2 \in 1..Len(s)
  BY <1>1, <1>2
<1>6. Tail(s) = <<>> <=> Len(s) = 1
  BY <1>1, <1>2
<1> QED
  BY <1>1, <1>3, <1>4, <1>5, <1>6

LEMMA PlanConcat ==
  ASSUME NEW s, NEW t, Fresh(s), Fresh(t),
         \A i \in 1..Len(s) : s[i] # "rollback",
         \A i \in 1..Len(t) : t[i] # "rollback"
  PROVE  /\ Fresh(s \o t)
         /\ \A i \in 1..Len(s \o t) : (s \o t)[i] # "rollback"
<1> DEFINE u == s \o t
<1>1. s \in Seq(StepNames) /\ t \in Seq(StepNames) /\ Len(s) \in Nat /\ Len(t) \in Nat
  BY DEF Fresh, Plan
<1>2. u \in Seq(StepNames) /\ Len(u) = Len(s) + Len(t)
      /\ \A i \in 1..(Len(s) + Len(t)) : u[i] = IF i <= Len(s) THEN s[i] ELSE t[i - Len(s)]
  BY <1>1, ConcatProperties
<1> HIDE DEF u
<1>3. \A i \in 1..Len(u) : u[i] # "rollback"
  <2>1. SUFFICES ASSUME NEW i \in 1..Len(u) PROVE u[i] # "rollback"
    OBVIOUS
  <2>2. i <= Len(s) => i \in 1..Len(s)
    BY <1>1
  <2>3. ~(i <= Len(s)) => i - Len(s) \in 1..Len(t)
    BY <1>1, <1>2
  <2> QED
    BY <1>2, <2>2, <2>3
<1>4. \A i \in 1..Len(t) : i = 1 => t[i] \notin Guarded
  BY <1>1 DEF Fresh
<1>5. Plan(u)
  <2>1. SUFFICES ASSUME NEW i \in 1..Len(u)
        PROVE  /\ u[i] = "cache"    => i < Len(u) /\ u[i + 1] = "config"
               /\ u[i] = "config"   => i < Len(u) /\ u[i + 1] = "poll"
               /\ i > 1 /\ u[i] = "config" => u[i - 1] = "cache"
               /\ i > 1 /\ u[i] = "poll"   => u[i - 1] = "config"
    BY <1>2, <1>3 DEF Plan
  <2>2. CASE i <= Len(s)
    <3>1. i \in 1..Len(s) /\ u[i] = s[i]
      BY <1>1, <1>2, <2>2
    <3>2. i < Len(s) => u[i + 1] = s[i + 1]
      BY <1>1, <1>2
    <3>3. i > 1 => u[i - 1] = s[i - 1]
      BY <1>1, <1>2, <2>2
    <3>4. i < Len(s) => i < Len(u)
      BY <1>1, <1>2
    <3> QED
      BY <3>1, <3>2, <3>3, <3>4 DEF Fresh, Plan
  <2>3. CASE ~(i <= Len(s))
    <3> DEFINE j == i - Len(s)
    <3>1. j \in 1..Len(t) /\ u[i] = t[j]
      BY <1>1, <1>2, <2>3
    <3>2. j < Len(t) => i < Len(u) /\ u[i + 1] = t[j + 1]
      BY <1>1, <1>2, <2>3
    <3>3. j > 1 => i > 1 /\ u[i - 1] = t[j - 1]
      BY <1>1, <1>2, <2>3
    <3>4. j > 1 \/ j = 1
      BY <3>1
    <3>5. j = 1 => t[j] \notin Guarded
      BY <1>4, <3>1
    <3> HIDE DEF j
    <3> QED
      BY <3>1, <3>2, <3>3, <3>4, <3>5 DEF Fresh, Plan, Guarded
  <2> QED
    BY <2>2, <2>3
<1>6. u # <<>> => Head(u) \notin Guarded
  <2>1. SUFFICES ASSUME u # <<>> PROVE Head(u) \notin Guarded
    OBVIOUS
  <2>2. Head(u) = u[1] /\ 1 \in 1..Len(u)
    BY <1>2, <2>1
  <2>3. CASE Len(s) = 0
    <3>1. u[1] = t[1] /\ 1 \in 1..Len(t)
      BY <1>1, <1>2, <2>2, <2>3
    <3> QED
      BY <1>4, <2>2, <3>1
  <2>4. CASE Len(s) # 0
    <3>1. u[1] = s[1]
      BY <1>1, <1>2, <2>2, <2>4
    <3>2. s # <<>> /\ Head(s) = s[1]
      BY <1>1, <2>4
    <3> QED
      BY <2>2, <3>1, <3>2 DEF Fresh
  <2> QED
    BY <2>3, <2>4
<1> QED
  BY <1>3, <1>5, <1>6 DEF u, Fresh

(* A command without a rollback in it, and every command is one.           *)
Program(s) == Fresh(s) /\ \A i \in 1..Len(s) : s[i] # "rollback"

LEMMA PlainIsProgram ==
  ASSUME NEW s \in Seq(Plain)
  PROVE  Program(s)
<1>1. \A i \in 1..Len(s) : s[i] \in Plain
  OBVIOUS
<1>2. Plain \subseteq StepNames
  BY DEF StepNames
<1>3. s \in Seq(StepNames) /\ (s # <<>> => Head(s) = s[1] /\ 1 \in 1..Len(s))
  BY <1>2
<1> QED
  BY <1>1, <1>3 DEF Program, Fresh, Plan, Plain, Guarded

LEMMA SurveyIsAPlan == Plan(SurveyIn) /\ Head(SurveyIn) = "cache" /\ Program(SurveyIn)
<1>1. /\ SurveyIn \in Seq(StepNames) /\ Len(SurveyIn) = 3 /\ SurveyIn # <<>> /\ Head(SurveyIn) = "cache"
      /\ SurveyIn[1] = "cache" /\ SurveyIn[2] = "config" /\ SurveyIn[3] = "poll"
  BY DEF SurveyIn, StepNames, Guarded
<1>2. \A i \in 1..3 : i = 1 \/ i = 2 \/ i = 3
  OBVIOUS
<1> QED
  BY <1>1, <1>2 DEF Program, Fresh, Plan, Guarded

LEMMA StepsAreFresh ==
  ASSUME cmd.name \in Names
  PROVE  Fresh(Steps) /\ Fresh(Save)
<1>1. /\ <<>> \in Seq(Plain) /\ <<"save">> \in Seq(Plain) /\ <<"version">> \in Seq(Plain)
      /\ <<"nav5">> \in Seq(Plain) /\ <<"tp5">> \in Seq(Plain) /\ <<"svin", "fix">> \in Seq(Plain)
      /\ <<"version", "tmode">> \in Seq(Plain) /\ <<"version", "set">> \in Seq(Plain)
      /\ <<"version", "svin", "fix">> \in Seq(Plain)
      /\ <<"version", "nav5", "tp5", "tmode">> \in Seq(Plain)
  BY DEF Plain
<1>2. \A s \in Seq(Plain) : Program(s)
  BY PlainIsProgram
<1>3. Save \in Seq(Plain) /\ Program(Save)
  BY <1>1, <1>2 DEF Save
<1>4. \A s, t : Program(s) /\ Program(t) => Program(s \o t)
  BY PlanConcat DEF Program
<1>5. /\ Program(runVersion) /\ Program(runTmodeShow) /\ Program(runFixedShow)
      /\ Program(runTmodeSet) /\ Program(runSave) /\ Program(runFixedSet)
  BY <1>1, <1>2, <1>3, <1>4, Zenon
     DEF runVersion, runTmodeShow, runFixedShow, runTmodeSet, runSave, runFixedSet
<1>6. Program(runConfigureStationary) /\ Program(runConfigurePPS) /\ Program(runFixedFromSVIN)
  BY <1>1, <1>2, <1>3, <1>4, Zenon DEF runConfigureStationary, runConfigurePPS, runFixedFromSVIN
<1>7. Program(runSurveyIn)
  BY <1>1, <1>2, <1>4, SurveyIsAPlan, Zenon DEF runSurveyIn
<1>8. Program(runDeploy)
  <2>1. Program(<<"version", "nav5", "tp5", "tmode">> \o SurveyIn)
    BY <1>1, <1>2, <1>4, SurveyIsAPlan, Zenon
  <2>2. Program(<<"version", "nav5", "tp5", "tmode">> \o SurveyIn \o <<"svin", "fix">>)
    BY <1>1, <1>2, <1>4, <2>1, Zenon
  <2> QED
    BY <1>3, <1>4, <2>2, Zenon DEF runDeploy
<1>9. Program(Steps)
  BY <1>5, <1>6, <1>7, <1>8, Zenon DEF Steps, Names
<1> QED
  BY <1>3, <1>9 DEF Program
-----------------------------------------------------------------------------
(* The rollback is armed exactly while the next step is one of the survey's  *)
(* after the cache, or the rollback itself: so a command that has no step    *)
(* left owes none. A survey that was begun and gave up its rollback without  *)
(* an error has converged, or rolled back.                                   *)

Flags == {"called", "returned", "armed", "cached", "short", "converged", "RolledBack", "RollbackFailed"}

SurveyFlags(s) ==
  /\ DOMAIN s = Flags
  /\ s.called \in BOOLEAN /\ s.armed \in BOOLEAN /\ s.converged \in BOOLEAN
  /\ s.RolledBack \in BOOLEAN /\ s.RollbackFailed \in BOOLEAN

RollbackInv ==
  /\ cmd.name \in Names
  /\ stage \in {"start", "dialing"} => todo = <<>> /\ survey = NoSurvey /\ err = "none"
  /\ SurveyFlags(survey)
  /\ Plan(todo)
  /\ survey.armed <=> todo # <<>> /\ Head(todo) \in Guarded
  /\ survey.called /\ err = "none" /\ ~survey.armed =>
       survey.converged \/ survey.RolledBack \/ (todo # <<>> /\ Head(todo) = "cache")
  /\ survey.RollbackFailed => err # "none"
  /\ NoRollbackOwed

LEMMA NoSurveyFlags ==
  /\ SurveyFlags(NoSurvey)
  /\ ~NoSurvey.called /\ ~NoSurvey.armed /\ ~NoSurvey.RollbackFailed
  BY DEF SurveyFlags, NoSurvey, Flags

LEMMA EmptyPlan == Plan(<<>>) /\ Plan(<<"rollback">>) /\ Head(<<"rollback">>) = "rollback"
<1>1. <<>> \in Seq(StepNames) /\ <<"rollback">> \in Seq(StepNames)
  BY DEF StepNames, Guarded
<1> QED
  BY <1>1 DEF Plan

LEMMA RollbackInit == Init => RollbackInv
<1>1. SUFFICES ASSUME Init PROVE RollbackInv
  OBVIOUS
<1>2. PICK s \in Scenarios : cmd = [name |-> s.name, opts |-> s.opts]
  BY <1>1 DEF Init
<1>3. cmd.name \in Names
  BY <1>2, ScenarioAssumption
<1>4. todo = <<>> /\ survey = NoSurvey /\ err = "none" /\ stage = "start"
  BY <1>1 DEF Init
<1> QED
  BY <1>3, <1>4, NoSurveyFlags, EmptyPlan DEF RollbackInv, NoRollbackOwed

(* An error ends the command, by way of the rollback when one is armed.      *)
LEMMA FailKeepsRollback ==
  ASSUME RollbackInv, stage = "running", NEW cause, cause # "none", Fail(cause)
  PROVE  RollbackInv'
<1>1. /\ err' = cause /\ cmd' = cmd /\ stage' = stage
      /\ todo' = IF survey.armed THEN <<"rollback">> ELSE <<>>
      /\ survey' = IF survey.armed THEN survey ELSE [survey EXCEPT !.returned = survey.called]
  BY DEF Fail
<1>2. SurveyFlags(survey') /\ survey'.armed = survey.armed
  BY <1>1 DEF RollbackInv, SurveyFlags, Flags
<1> QED
  BY <1>1, <1>2, EmptyPlan DEF RollbackInv, NoRollbackOwed, Guarded

(* The command moves on to the next step.                                    *)
LEMMA AdvanceKeepsRollback ==
  ASSUME RollbackInv, stage = "running", todo # <<>>, NEW s, Advance(s), SurveyFlags(s),
         s.armed <=> Head(todo) \in {"cache", "config"},
         s.RollbackFailed = survey.RollbackFailed,
         s.called /\ err = "none" /\ ~s.armed => s.converged \/ s.RolledBack
  PROVE  RollbackInv'
<1>1. todo' = Tail(todo) /\ survey' = s /\ cmd' = cmd /\ stage' = stage /\ err' = err
  BY DEF Advance
<1>2. /\ Plan(Tail(todo))
      /\ Tail(todo) # <<>> => (Head(Tail(todo)) = "config" <=> Head(todo) = "cache")
      /\ Tail(todo) # <<>> => (Head(Tail(todo)) = "poll" <=> Head(todo) = "config")
      /\ Tail(todo) # <<>> => Head(Tail(todo)) # "rollback"
      /\ Head(todo) \in {"cache", "config"} => Tail(todo) # <<>>
  BY PlanTail DEF RollbackInv
<1> QED
  BY <1>1, <1>2 DEF RollbackInv, NoRollbackOwed, Guarded
(* The results of the exchanges, one by one.                                 *)
LEMMA StepKeepsRollback ==
  ASSUME RollbackInv, stage = "running", todo # <<>>,
         Generation \/ Written \/ TmodeRead \/ Cached \/ Polled \/ PollMissed \/ Surveyed
  PROVE  RollbackInv'
<1>1. /\ SurveyFlags(survey) /\ Plan(todo)
      /\ survey.armed <=> Head(todo) \in Guarded
      /\ survey.called /\ err = "none" /\ ~survey.armed =>
           survey.converged \/ survey.RolledBack \/ Head(todo) = "cache"
  BY DEF RollbackInv
<1>2. ASSUME Advance(survey), Head(todo) \notin {"cache", "poll", "rollback"}
      PROVE  RollbackInv'
  <2>1. survey.armed <=> Head(todo) \in {"cache", "config"}
    BY <1>1, <1>2 DEF Guarded
  <2>2. survey.called /\ err = "none" /\ ~survey.armed => survey.converged \/ survey.RolledBack
    BY <1>1, <1>2
  <2> QED
    BY <1>1, <1>2, <2>1, <2>2, AdvanceKeepsRollback
<1>3. CASE Generation
  <2>1. Head(todo) = "version" /\ (Fail("other") \/ Advance(survey))
    BY <1>3 DEF Generation
  <2> QED
    BY <1>2, <2>1, FailKeepsRollback
<1>4. CASE Written
  <2>1. Head(todo) \in {"nav5", "tp5", "config", "fix", "set", "save"} /\ Advance(survey)
    BY <1>4 DEF Written
  <2> QED
    BY <1>2, <2>1
<1>5. CASE TmodeRead
  <2>1. Head(todo) = "tmode"
    BY <1>5 DEF TmodeRead
  <2>2. CASE Advance(survey) \/ Fail("other")
    BY <1>2, <2>1, <2>2, FailKeepsRollback
  <2>3. CASE todo' = Save /\ UNCHANGED <<cmd, stage, survey, err, code>>
    <3>1. Plan(Save) /\ (Save # <<>> => Head(Save) \notin Guarded)
      BY StepsAreFresh DEF RollbackInv, Fresh
    <3> QED
      BY <1>1, <2>1, <2>3, <3>1 DEF RollbackInv, NoRollbackOwed, Guarded
  <2> QED
    BY <1>5, <2>2, <2>3 DEF TmodeRead
<1>6. CASE Cached
  <2> DEFINE s == [survey EXCEPT !.armed = TRUE, !.cached = ex.val, !.short = ex.short]
  <2>1. Head(todo) = "cache" /\ Advance(s)
    BY <1>6 DEF Cached
  <2>2. SurveyFlags(s) /\ s.armed /\ s.RollbackFailed = survey.RollbackFailed
    BY <1>1 DEF SurveyFlags, Flags
  <2> HIDE DEF s
  <2> QED
    BY <2>1, <2>2, AdvanceKeepsRollback
<1>7. CASE Polled
  <2> DEFINE converged == ParseSVIN = "valid"
             s == [survey EXCEPT !.armed = FALSE, !.returned = TRUE]
  <2>1. Head(todo) = "poll" /\ survey.armed
    BY <1>1, <1>7 DEF Polled, Guarded
  <2>2. CASE survey' = [survey EXCEPT !.converged = converged] /\ UNCHANGED <<cmd, stage, todo, err, code>>
    <3>1. /\ SurveyFlags(survey') /\ survey'.armed = survey.armed
          /\ survey'.RollbackFailed = survey.RollbackFailed
      BY <1>1, <2>2 DEF SurveyFlags, Flags
    <3> QED
      BY <2>1, <2>2, <3>1 DEF RollbackInv, NoRollbackOwed
  <2>3. CASE todo' = <<"rollback">> /\ UNCHANGED <<cmd, stage, survey, err, code>>
    BY <2>1, <2>3, EmptyPlan DEF RollbackInv, NoRollbackOwed, Guarded
  <2>4. CASE survey.converged /\ Advance(s)
    <3>1. /\ SurveyFlags(s) /\ ~s.armed /\ s.RollbackFailed = survey.RollbackFailed
          /\ s.converged = survey.converged
      BY <1>1 DEF SurveyFlags, Flags
    <3> HIDE DEF s
    <3> QED
      BY <2>1, <2>4, <3>1, AdvanceKeepsRollback
  <2> QED
    BY <1>7, <2>2, <2>3, <2>4 DEF Polled
<1>8. CASE PollMissed
  <2>1. /\ Head(todo) = "poll" /\ survey' = [survey EXCEPT !.converged = FALSE]
        /\ UNCHANGED <<cmd, stage, todo, err, code>>
    BY <1>8 DEF PollMissed
  <2>2. SurveyFlags(survey') /\ survey'.armed = survey.armed /\ survey'.RollbackFailed = survey.RollbackFailed
    BY <1>1, <2>1 DEF SurveyFlags, Flags
  <2>3. survey.armed
    BY <1>1, <2>1 DEF Guarded
  <2> QED
    BY <2>1, <2>2, <2>3 DEF RollbackInv, NoRollbackOwed
<1>9. CASE Surveyed
  <2>1. Head(todo) = "svin" /\ (Fail("other") \/ Advance(survey))
    BY <1>9 DEF Surveyed
  <2> QED
    BY <1>2, <2>1, FailKeepsRollback
<1> QED
  BY <1>3, <1>4, <1>5, <1>6, <1>7, <1>8, <1>9

LEMMA CommandKeepsRollback ==
  ASSUME RollbackInv, Start \/ Open \/ Step \/ Finish
  PROVE  RollbackInv'
<1>1. CASE Start
  BY <1>1 DEF Start, RollbackInv, NoRollbackOwed
<1>2. CASE Open
  <2>1. todo = <<>> /\ survey = NoSurvey /\ stage = "dialing" /\ err = "none"
    BY <1>2 DEF Open, RollbackInv
  <2>2. CASE stage' = "running" /\ todo' = Steps /\ UNCHANGED <<cmd, survey, err, code>>
    <3>1. Plan(Steps) /\ (Steps # <<>> => Head(Steps) \notin Guarded)
      BY StepsAreFresh DEF RollbackInv, Fresh
    <3> QED
      BY <2>1, <2>2, <3>1, NoSurveyFlags DEF RollbackInv, NoRollbackOwed
  <2>3. CASE Refuse
    BY <2>1, <2>3, NoSurveyFlags DEF RollbackInv, NoRollbackOwed, Refuse
  <2> QED
    BY <1>2, <2>2, <2>3 DEF Open
<1>3. CASE Begin
  <2>1. /\ UNCHANGED <<cmd, stage, todo, err, code>> /\ todo # <<>> /\ stage = "running"
        /\ survey' = IF Head(todo) = "cache" THEN [survey EXCEPT !.called = TRUE] ELSE survey
    BY <1>3 DEF Begin
  <2>2. /\ SurveyFlags(survey') /\ survey'.armed = survey.armed
        /\ survey'.RollbackFailed = survey.RollbackFailed
        /\ Head(todo) # "cache" => survey' = survey
    BY <2>1 DEF RollbackInv, SurveyFlags, Flags
  <2> QED
    BY <2>1, <2>2 DEF RollbackInv, NoRollbackOwed
<1>4. Cause # "none"
  BY DEF Cause
<1>5. CASE Stop
  BY <1>4, <1>5, FailKeepsRollback DEF Stop
<1>6. CASE Broken
  <2>1. stage = "running"
    BY <1>6 DEF Broken, Ended, Ends
  <2> QED
    BY <1>4, <1>6, <2>1, FailKeepsRollback DEF Broken
<1>7. CASE RolledBack
  <2>1. /\ todo' = <<>> /\ UNCHANGED <<cmd, stage, code>> /\ todo # <<>> /\ survey.armed
    BY <1>7 DEF RolledBack, RollbackInv, Guarded
  <2>2. CASE /\ UNCHANGED err
             /\ survey' = [survey EXCEPT !.RolledBack = TRUE, !.returned = TRUE, !.armed = FALSE]
    <3>1. SurveyFlags(survey') /\ ~survey'.armed /\ survey'.RolledBack
          /\ survey'.RollbackFailed = survey.RollbackFailed
      BY <2>2 DEF RollbackInv, SurveyFlags, Flags
    <3> QED
      BY <2>1, <2>2, <3>1, EmptyPlan DEF RollbackInv, NoRollbackOwed
  <2>3. CASE /\ survey' = [survey EXCEPT !.RollbackFailed = TRUE, !.returned = TRUE, !.armed = FALSE]
             /\ err' = IF err = "none" THEN "other" ELSE err
    <3>1. SurveyFlags(survey') /\ ~survey'.armed
      BY <2>3 DEF RollbackInv, SurveyFlags, Flags
    <3>2. err' # "none"
      BY <2>3
    <3> QED
      BY <2>1, <3>1, <3>2, EmptyPlan DEF RollbackInv, NoRollbackOwed
  <2> QED
    BY <1>7, <2>2, <2>3 DEF RolledBack
<1>8. CASE todo # <<>> /\ (Generation \/ Written \/ TmodeRead \/ Cached \/ Polled \/ PollMissed \/ Surveyed)
  <2>1. stage = "running"
    BY <1>8 DEF Generation, Written, TmodeRead, Cached, Polled, PollMissed, Surveyed, Ended, Ends
  <2> QED
    BY <1>8, <2>1, StepKeepsRollback
<1>9. CASE Finish
  <2>1. todo = <<>> /\ stage = "running" /\ stage' = "done" /\ code' = ExitCode
        /\ UNCHANGED <<cmd, todo, survey, err>>
    BY <1>9 DEF Finish
  <2>2. survey.RollbackFailed => ExitCode = 1
    BY DEF ExitCode
  <2>3. ExitCode = 0 => err = "none"
    BY DEF ExitCode
  <2> QED
    BY <2>1, <2>2, <2>3 DEF RollbackInv, NoRollbackOwed
<1> QED
  BY <1>1, <1>2, <1>3, <1>5, <1>6, <1>7, <1>8, <1>9 DEF Step

LEMMA RollbackStep == RollbackInv /\ [Next]_vars => RollbackInv'
<1>1. SUFFICES ASSUME RollbackInv, [Next]_vars PROVE RollbackInv'
  OBVIOUS
<1>2. CASE UNCHANGED cmdVars
  BY <1>1, <1>2 DEF cmdVars, RollbackInv, NoRollbackOwed
<1>3. CASE Start \/ Open \/ Step \/ Finish
  BY <1>1, <1>3, CommandKeepsRollback
<1> QED
  BY <1>1, <1>2, <1>3 DEF Next, World, Command_, Interrupt, Expire, vars

(* Whatever becomes of the connection, the receiver and the user, a command  *)
(* ends only when no rollback is owed (surveyin.go, SurveyIn's deferred      *)
(* rollback; main.go, the exit codes of runSurveyIn).                        *)
THEOREM NoCommandOwesRollback == Spec => []NoRollbackOwed
<1>1. RollbackInv => NoRollbackOwed
  BY DEF RollbackInv
<1> QED
  BY <1>1, RollbackInit, RollbackStep, PTL DEF Spec
-----------------------------------------------------------------------------
(* Sequences of anything.                                                    *)

AnySeq(s) == \E S : s \in Seq(S)

LEMMA AnyEmpty == AnySeq(<<>>)
  BY DEF AnySeq

LEMMA AnyTail ==
  ASSUME NEW s, AnySeq(s), s # <<>>
  PROVE  /\ AnySeq(Tail(s)) /\ Len(s) \in Nat \ {0} /\ Head(s) = s[1]
         /\ Len(Tail(s)) = Len(s) - 1
         /\ \A i \in 1..Len(Tail(s)) : i + 1 \in 1..Len(s) /\ Tail(s)[i] = s[i + 1]
<1>1. PICK S : s \in Seq(S)
  BY DEF AnySeq
<1>2. Len(s) \in Nat \ {0} /\ Head(s) = s[1]
  BY <1>1
<1>3. Tail(s) \in Seq(S) /\ Len(Tail(s)) = Len(s) - 1 /\ \A i \in 1..Len(Tail(s)) : Tail(s)[i] = s[i + 1]
  BY <1>1, HeadTailProperties
<1> QED
  BY <1>2, <1>3 DEF AnySeq

LEMMA AnyAppend ==
  ASSUME NEW s, AnySeq(s), NEW e
  PROVE  /\ AnySeq(Append(s, e)) /\ Len(s) \in Nat /\ Len(Append(s, e)) = Len(s) + 1
         /\ \A i \in 1..Len(s) : Append(s, e)[i] = s[i]
         /\ Append(s, e)[Len(s) + 1] = e
<1>1. PICK S : s \in Seq(S)
  BY DEF AnySeq
<1> DEFINE T == S \cup {e}
<1>2. s \in Seq(T) /\ e \in T /\ Len(s) \in Nat
  BY <1>1, SeqMonotonic
<1> HIDE DEF T
<1>3. /\ Append(s, e) \in Seq(T) /\ Len(Append(s, e)) = Len(s) + 1
      /\ \A i \in 1..Len(s) : Append(s, e)[i] = s[i]
      /\ Append(s, e)[Len(s) + 1] = e
  BY <1>2, AppendProperties
<1> QED
  BY <1>2, <1>3 DEF AnySeq

LEMMA AnyConcat ==
  ASSUME NEW s, NEW t, AnySeq(s), AnySeq(t)
  PROVE  /\ AnySeq(s \o t) /\ Len(s) \in Nat /\ Len(t) \in Nat /\ Len(s \o t) = Len(s) + Len(t)
         /\ \A i \in 1..Len(s) : (s \o t)[i] = s[i]
         /\ \A i \in 1..Len(t) : (s \o t)[Len(s) + i] = t[i]
<1>1. PICK S : s \in Seq(S)
  BY DEF AnySeq
<1>2. PICK T : t \in Seq(T)
  BY DEF AnySeq
<1> DEFINE U == S \cup T
<1>3. s \in Seq(U) /\ t \in Seq(U) /\ Len(s) \in Nat /\ Len(t) \in Nat
  BY <1>1, <1>2, SeqMonotonic
<1> HIDE DEF U
<1>4. /\ s \o t \in Seq(U) /\ Len(s \o t) = Len(s) + Len(t)
      /\ \A i \in 1..Len(s) + Len(t) : (s \o t)[i] = IF i <= Len(s) THEN s[i] ELSE t[i - Len(s)]
  BY <1>3, ConcatProperties
<1>5. \A i \in 1..Len(s) : (s \o t)[i] = s[i]
  BY <1>3, <1>4
<1>6. ASSUME NEW i \in 1..Len(t) PROVE (s \o t)[Len(s) + i] = t[i]
  <2>1. /\ Len(s) + i \in 1..Len(s) + Len(t) /\ ~(Len(s) + i <= Len(s)) /\ (Len(s) + i) - Len(s) = i
    BY <1>3
  <2> QED
    BY <1>4, <2>1
<1> QED
  BY <1>3, <1>4, <1>5, <1>6 DEF AnySeq

-----------------------------------------------------------------------------
(* What is outstanding for an item: the data frames on their way to the      *)
(* caller and the polls the receiver has still to serve. UBX numbers no      *)
(* request, so all that the proofs can count on is how many there are, and   *)
(* how many are stale: of a time before the writes still to be served, or of *)
(* a configuration that is not in force any more.                            *)

IsData(f, item) == f.class \in {"RAW", "bare"} /\ f.kind = "data" /\ f.item = item
IsPoll(r, item) == r.kind = "poll" /\ r.item = item

SetsAt(item)     == {q \in 1..Len(requests) : requests[q].kind = "set" /\ requests[q].item = item}
StaleVal(item, v) == SetsAt(item) # {} \/ v # receiver.cfg[item]

\* The places of the frames in a channel, and of the polls; all, or the stale ones.
Held(s, item, which) ==
  {i \in 1..Len(s) : IsData(s[i], item) /\ (which = "all" \/ StaleVal(item, s[i].val))}
PollsAt(item, which) ==
  {p \in 1..Len(requests) : IsPoll(requests[p], item)
                              /\ (which = "all" \/ \E q \in SetsAt(item) : q > p)}

NoneIn(A, B, C) == A = {} /\ B = {} /\ C = {}
FewIn(A, B, C) ==
  /\ \A i, j \in A : i = j
  /\ \A i, j \in B : i = j
  /\ \A i, j \in C : i = j
  /\ A = {} \/ B = {}
  /\ A = {} \/ C = {}
  /\ B = {} \/ C = {}

NoneLeft(item, which) == NoneIn(Held(incoming, item, which), Held(stream, item, which), PollsAt(item, which))
Few(item, which)      == FewIn(Held(incoming, item, which), Held(stream, item, which), PollsAt(item, which))

\* A write that is in force and that nothing on its way can undo.
Confirmed(item, want) == SetsAt(item) = {} /\ Agrees(item, receiver.cfg[item], want)

(* What is dropped or only moves up its queue leaves no more than there was. *)
LEMMA FewerKeepsFew ==
  ASSUME NEW A, NEW B, NEW C, NEW A1 \in SUBSET Nat, NEW B1 \in SUBSET Nat, NEW C1 \in SUBSET Nat,
         NEW a \in Nat, NEW b \in Nat, NEW c \in Nat,
         \A i \in A1 : i + a \in A,
         \A i \in B1 : i + b \in B,
         \A i \in C1 : i + c \in C
  PROVE  (FewIn(A, B, C) => FewIn(A1, B1, C1)) /\ (NoneIn(A, B, C) => NoneIn(A1, B1, C1))
<1>1. ASSUME NEW S, NEW S1 \in SUBSET Nat, NEW d \in Nat, \A i \in S1 : i + d \in S,
             \A i, j \in S : i = j
      PROVE  \A i, j \in S1 : i = j
  <2>1. SUFFICES ASSUME NEW i \in S1, NEW j \in S1 PROVE i = j
    OBVIOUS
  <2>2. i + d = j + d
    BY <1>1
  <2> QED
    BY <2>2
<1>2. (A = {} => A1 = {}) /\ (B = {} => B1 = {}) /\ (C = {} => C1 = {})
  OBVIOUS
<1>3. FewIn(A, B, C) => /\ \A i, j \in A1 : i = j
                        /\ \A i, j \in B1 : i = j
                        /\ \A i, j \in C1 : i = j
  BY <1>1 DEF FewIn
<1> QED
  BY <1>2, <1>3 DEF FewIn, NoneIn

(* The first of the second place goes to the end of the first.               *)
LEMMA MoveKeepsFew ==
  ASSUME NEW A, NEW B \in SUBSET Nat, NEW C, NEW A1 \in SUBSET Nat, NEW B1 \in SUBSET Nat,
         NEW n \in Nat,
         \A i \in A : i <= n,
         \A i \in A1 : i \in A \/ (i = n + 1 /\ 1 \in B),
         \A i \in B1 : i # 0 /\ i + 1 \in B
  PROVE  (FewIn(A, B, C) => FewIn(A1, B1, C)) /\ (NoneIn(A, B, C) => NoneIn(A1, B1, C))
<1>1. NoneIn(A, B, C) => NoneIn(A1, B1, C)
  BY DEF NoneIn
<1>2. SUFFICES ASSUME FewIn(A, B, C) PROVE FewIn(A1, B1, C)
  BY <1>1
<1>3. \A i, j \in A1 : i = j
  BY <1>2 DEF FewIn
<1>4. ASSUME NEW i \in B1, NEW j \in B1 PROVE i = j
  <2>1. i + 1 = j + 1
    BY <1>2 DEF FewIn
  <2> QED
    BY <2>1
<1>5. A1 = {} \/ B1 = {}
  <2>1. ASSUME NEW i \in A1, NEW j \in B1 PROVE FALSE
    <3>1. j + 1 \in B /\ j # 0 /\ j \in Nat
      OBVIOUS
    <3>2. A = {}
      BY <1>2, <3>1 DEF FewIn
    <3>3. 1 \in B
      BY <3>2
    <3>4. j + 1 = 1
      BY <1>2, <3>1, <3>3 DEF FewIn
    <3> QED
      BY <3>1, <3>4
  <2> QED
    BY <2>1
<1>6. (A1 # {} => A # {} \/ B # {}) /\ (B1 # {} => B # {})
  OBVIOUS
<1> QED
  BY <1>2, <1>3, <1>4, <1>5, <1>6 DEF FewIn

(* What is taken from one of few leaves none.                                *)
LEMMA TakeLeavesNone ==
  ASSUME NEW A, NEW B, NEW C, NEW A1 \in SUBSET Nat, FewIn(A, B, C), 1 \in A,
         \A i \in A1 : i # 0 /\ i + 1 \in A
  PROVE  NoneIn(A1, B, C)
<1>1. ASSUME NEW i \in A1 PROVE FALSE
  <2>1. i + 1 = 1 /\ i \in Nat /\ i # 0
    BY DEF FewIn
  <2> QED
    BY <2>1
<1> QED
  BY <1>1 DEF FewIn, NoneIn
-----------------------------------------------------------------------------
(* When no other program polls, and what an earlier command left unserved    *)
(* asks for no data, every data frame answers a poll of this command.        *)
Alone ==
  \A s \in Scenarios :
    s.budget.others = 0 /\ \A i \in 1..Len(s.queue) : s.queue[i].kind # "poll"

PipeTypes ==
  /\ AnySeq(incoming) /\ AnySeq(stream) /\ AnySeq(requests)
  /\ \A i \in 1..Len(incoming) : incoming[i].class \in {"RAW", "bare"}
  /\ DOMAIN receiver = {"gen", "cfg", "flash", "svin"} /\ DOMAIN receiver.cfg = ConfigItems
  /\ budget \in [faults : Nat, errors : BOOLEAN, others : {0}, signals : Nat]

(* What every step does that asks for nothing: no more is outstanding than   *)
(* before, and a write that is confirmed stays in force.                     *)
Keeps(item, which) ==
  /\ Few(item, which) => Few(item, which)'
  /\ NoneLeft(item, which) => NoneLeft(item, which)'
Holds(item) == SetsAt(item) = {} => SetsAt(item)' = {} /\ receiver'.cfg[item] = receiver.cfg[item]

Told(item, which) == item \in ConfigItems \/ which = "all"
KeepsAll ==
  /\ \A item, which : Told(item, which) => Keeps(item, which)
  /\ \A item \in ConfigItems : Holds(item)

LEMMA Places ==
  ASSUME NEW s, NEW item, NEW which
  PROVE  Held(s, item, which) \in SUBSET Nat /\ PollsAt(item, which) \in SUBSET Nat
         /\ \A i \in Held(s, item, which) : i # 0
  BY DEF Held, PollsAt

LEMMA Unmoved ==
  ASSUME NEW S \in SUBSET Nat
  PROVE  \A i \in S : i + 0 \in S
<1>1. \A i \in S : i \in Nat /\ i + 0 = i
  OBVIOUS
<1> QED
  BY <1>1

LEMMA HeldTail ==
  ASSUME NEW s, AnySeq(s), s # <<>>, NEW item, NEW which
  PROVE  \A i \in Held(Tail(s), item, which) : i # 0 /\ i + 1 \in Held(s, item, which)
  BY AnyTail DEF Held

LEMMA HeldEmpty == \A item, which : Held(<<>>, item, which) = {}
  BY DEF Held

LEMMA HeldAppend ==
  ASSUME NEW s, AnySeq(s), NEW f, NEW item, NEW which
  PROVE  \A i \in Held(Append(s, f), item, which) :
           i \in Held(s, item, which)
             \/ (i = Len(s) + 1 /\ IsData(f, item) /\ (which = "all" \/ StaleVal(item, f.val)))
<1>1. SUFFICES ASSUME NEW i \in Held(Append(s, f), item, which)
      PROVE  i \in Held(s, item, which)
               \/ (i = Len(s) + 1 /\ IsData(f, item) /\ (which = "all" \/ StaleVal(item, f.val)))
  OBVIOUS
<1>2. /\ Len(s) \in Nat /\ Len(Append(s, f)) = Len(s) + 1
      /\ \A j \in 1..Len(s) : Append(s, f)[j] = s[j]
      /\ Append(s, f)[Len(s) + 1] = f
  BY AnyAppend
<1>3. i \in 1..(Len(s) + 1)
  BY <1>1, <1>2 DEF Held
<1>4. i \in 1..Len(s) \/ i = Len(s) + 1
  BY <1>2, <1>3
<1> QED
  BY <1>1, <1>2, <1>4 DEF Held

LEMMA SameRequests ==
  ASSUME requests' = requests, receiver' = receiver
  PROVE  /\ \A item, which : /\ Held(incoming, item, which)' = Held(incoming', item, which)
                             /\ Held(stream, item, which)' = Held(stream', item, which)
                             /\ PollsAt(item, which)' = PollsAt(item, which)
         /\ \A item \in ConfigItems : Holds(item)
  BY DEF Held, PollsAt, SetsAt, StaleVal, Holds

(* What leaves the requests alone and only takes from the channels.          *)
LEMMA TakingKeeps ==
  ASSUME PipeTypes, requests' = requests, receiver' = receiver, budget' = budget,
         \/ incoming' = incoming
         \/ incoming' = <<>>
         \/ incoming # <<>> /\ incoming' = Tail(incoming),
         \/ stream' = stream
         \/ stream' = <<>>
         \/ stream # <<>> /\ stream' = Tail(stream)
  PROVE  PipeTypes' /\ KeepsAll
<1>1. AnySeq(incoming) /\ AnySeq(stream)
  BY DEF PipeTypes
<1>2. PipeTypes'
  <2>1. AnySeq(stream')
    BY <1>1, AnyTail, AnyEmpty
  <2>2. AnySeq(incoming') /\ \A i \in 1..Len(incoming') : incoming'[i].class \in {"RAW", "bare"}
    <3>1. CASE incoming' = incoming
      BY <3>1 DEF PipeTypes
    <3>2. CASE incoming' = <<>>
      BY <3>2, AnyEmpty
    <3>3. CASE incoming # <<>> /\ incoming' = Tail(incoming)
      BY <1>1, <3>3, AnyTail DEF PipeTypes
    <3> QED
      BY <3>1, <3>2, <3>3
  <2> QED
    BY <2>1, <2>2 DEF PipeTypes
<1>3. ASSUME NEW item, NEW which PROVE Keeps(item, which)
  <2>1. /\ Held(incoming, item, which)' = Held(incoming', item, which)
        /\ Held(stream, item, which)' = Held(stream', item, which)
        /\ PollsAt(item, which)' = PollsAt(item, which)
    BY SameRequests
  <2>2. PICK a \in Nat : \A i \in Held(incoming', item, which) : i + a \in Held(incoming, item, which)
    <3>1. CASE incoming' = incoming
      <4>1. \A i \in Held(incoming', item, which) : i + 0 \in Held(incoming, item, which)
        BY <3>1, Places, Unmoved
      <4> QED
        BY <4>1
    <3>2. CASE incoming' = <<>>
      BY <3>2, HeldEmpty
    <3>3. CASE incoming # <<>> /\ incoming' = Tail(incoming)
      <4>1. \A i \in Held(incoming', item, which) : i + 1 \in Held(incoming, item, which)
        BY <1>1, <3>3, HeldTail
      <4> QED
        BY <4>1
    <3> QED
      BY <3>1, <3>2, <3>3
  <2>3. PICK b \in Nat : \A i \in Held(stream', item, which) : i + b \in Held(stream, item, which)
    <3>1. CASE stream' = stream
      <4>1. \A i \in Held(stream', item, which) : i + 0 \in Held(stream, item, which)
        BY <3>1, Places, Unmoved
      <4> QED
        BY <4>1
    <3>2. CASE stream' = <<>>
      BY <3>2, HeldEmpty
    <3>3. CASE stream # <<>> /\ stream' = Tail(stream)
      <4>1. \A i \in Held(stream', item, which) : i + 1 \in Held(stream, item, which)
        BY <1>1, <3>3, HeldTail
      <4> QED
        BY <4>1
    <3> QED
      BY <3>1, <3>2, <3>3
  <2>4. \A i \in PollsAt(item, which) : i + 0 \in PollsAt(item, which)
    BY Places, Unmoved
  <2>5. /\ Held(incoming', item, which) \in SUBSET Nat
        /\ Held(stream', item, which) \in SUBSET Nat
        /\ PollsAt(item, which) \in SUBSET Nat
    BY Places
  <2>6. /\ FewIn(Held(incoming, item, which), Held(stream, item, which), PollsAt(item, which)) =>
             FewIn(Held(incoming', item, which), Held(stream', item, which), PollsAt(item, which))
        /\ NoneIn(Held(incoming, item, which), Held(stream, item, which), PollsAt(item, which)) =>
             NoneIn(Held(incoming', item, which), Held(stream', item, which), PollsAt(item, which))
    BY <2>2, <2>3, <2>4, <2>5, FewerKeepsFew
  <2> QED
    BY <2>1, <2>6 DEF Keeps, Few, NoneLeft
<1> QED
  BY <1>2, <1>3, SameRequests DEF KeepsAll

(* The reader hands a frame to the subscription.                             *)
LEMMA HandingKeeps ==
  ASSUME PipeTypes, requests' = requests, receiver' = receiver, budget' = budget,
         stream # <<>>, stream' = Tail(stream), Head(stream).class \in {"RAW", "bare"},
         incoming' = Append(incoming, Head(stream))
  PROVE  PipeTypes' /\ KeepsAll
<1>1. AnySeq(incoming) /\ AnySeq(stream)
  BY DEF PipeTypes
<1>2. /\ AnySeq(incoming') /\ Len(incoming) \in Nat /\ Len(incoming') = Len(incoming) + 1
      /\ \A i \in 1..Len(incoming) : incoming'[i] = incoming[i]
      /\ incoming'[Len(incoming) + 1] = Head(stream)
  BY <1>1, AnyAppend
<1>3. AnySeq(stream') /\ Len(stream) \in Nat \ {0} /\ Head(stream) = stream[1]
  BY <1>1, AnyTail
<1>4. \A i \in 1..Len(incoming') : incoming'[i].class \in {"RAW", "bare"}
  <2>1. \A i \in 1..Len(incoming') : i \in 1..Len(incoming) \/ i = Len(incoming) + 1
    BY <1>2
  <2> QED
    BY <1>2, <2>1 DEF PipeTypes
<1>5. ASSUME NEW item, NEW which PROVE Keeps(item, which)
  <2> DEFINE A  == Held(incoming, item, which)
             B  == Held(stream, item, which)
             C  == PollsAt(item, which)
             A1 == Held(incoming', item, which)
             B1 == Held(stream', item, which)
  <2>1. A1 = Held(incoming, item, which)' /\ B1 = Held(stream, item, which)' /\ PollsAt(item, which)' = C
    BY SameRequests
  <2>2. \A i \in A : i <= Len(incoming)
    BY <1>2 DEF Held
  <2>3. \A i \in A1 : i \in A \/ (i = Len(incoming) + 1 /\ 1 \in B)
    <3>1. IsData(Head(stream), item) /\ (which = "all" \/ StaleVal(item, Head(stream).val)) => 1 \in B
      BY <1>3 DEF Held
    <3>2. \A i \in A1 : i \in A \/ (i = Len(incoming) + 1 /\ IsData(Head(stream), item)
                                     /\ (which = "all" \/ StaleVal(item, Head(stream).val)))
      BY <1>1, HeldAppend
    <3> HIDE DEF A, B, A1
    <3> QED
      BY <3>1, <3>2
  <2>4. \A i \in B1 : i # 0 /\ i + 1 \in B
    BY <1>1, HeldTail
  <2>5. A1 \in SUBSET Nat /\ B \in SUBSET Nat /\ B1 \in SUBSET Nat
    BY Places
  <2>6. (FewIn(A, B, C) => FewIn(A1, B1, C)) /\ (NoneIn(A, B, C) => NoneIn(A1, B1, C))
    <3> HIDE DEF A, B, C, A1, B1
    <3> QED
      BY <1>2, <2>2, <2>3, <2>4, <2>5, MoveKeepsFew
  <2> QED
    BY <2>1, <2>6 DEF Keeps, Few, NoneLeft
<1>6. PipeTypes'
  BY <1>2, <1>3, <1>4 DEF PipeTypes
<1> QED
  BY <1>5, <1>6, SameRequests DEF KeepsAll

LEMMA ReaderKeeps ==
  ASSUME PipeTypes, ReadLoop, UNCHANGED linkVars
  PROVE  PipeTypes' /\ KeepsAll
<1>1. requests' = requests /\ receiver' = receiver /\ budget' = budget
  BY DEF linkVars
<1>2. CASE ReadRaw \/ ReadBareHex
  <2>1. /\ stream # <<>> /\ stream' = Tail(stream) /\ Head(stream).class \in {"RAW", "bare"}
        /\ incoming' = incoming \/ incoming' = Append(incoming, Head(stream))
    BY <1>2 DEF ReadRaw, ReadBareHex, Reads, Dispatch
  <2>2. CASE incoming' = incoming
    BY <1>1, <2>1, <2>2, TakingKeeps
  <2>3. CASE incoming' = Append(incoming, Head(stream))
    BY <1>1, <2>1, <2>3, HandingKeeps
  <2> QED
    BY <2>1, <2>2, <2>3
<1>3. CASE ReadDevices \/ ReadDevice \/ ReadReport \/ ReadError \/ LeaveLoop \/ CloseSubs \/ ReleaseDial \/ CloseConn
  <2>1. /\ incoming' = incoming
        /\ \/ stream' = stream \/ stream' = <<>> \/ (stream # <<>> /\ stream' = Tail(stream))
    <3>1. CASE ReadDevices \/ ReadDevice \/ ReadReport \/ ReadError
      BY <3>1 DEF ReadDevices, ReadDevice, ReadReport, ReadError, Reads
    <3>2. CASE LeaveLoop \/ CloseSubs \/ ReleaseDial \/ CloseConn
      BY <3>2 DEF LeaveLoop, CloseSubs, ReleaseDial, CloseConn
    <3> QED
      BY <1>3, <3>1, <3>2
  <2> QED
    BY <1>1, <2>1, TakingKeeps
<1> QED
  BY <1>2, <1>3 DEF ReadLoop
(* gpsd passes on what it was given; only the first of what answers a poll   *)
(* is data, of the item asked for and with the value in force.               *)
LEMMA HeldConcat ==
  ASSUME NEW s, NEW t, AnySeq(s), AnySeq(t), NEW item, NEW which
  PROVE  \A i \in Held(s \o t, item, which) :
           i \in Held(s, item, which)
             \/ \E j \in 1..Len(t) : i = Len(s) + j /\ IsData(t[j], item)
                                       /\ (which = "all" \/ StaleVal(item, t[j].val))
<1>1. /\ Len(s) \in Nat /\ Len(t) \in Nat /\ Len(s \o t) = Len(s) + Len(t)
      /\ \A i \in 1..Len(s) : (s \o t)[i] = s[i]
      /\ \A i \in 1..Len(t) : (s \o t)[Len(s) + i] = t[i]
  BY AnyConcat
<1>2. SUFFICES ASSUME NEW i \in Held(s \o t, item, which), i \notin Held(s, item, which)
      PROVE  \E j \in 1..Len(t) : i = Len(s) + j /\ IsData(t[j], item)
                                    /\ (which = "all" \/ StaleVal(item, t[j].val))
  OBVIOUS
<1>3. i \in 1..(Len(s) + Len(t))
  BY <1>1 DEF Held
<1>4. i \notin 1..Len(s)
  BY <1>1, <1>2 DEF Held
<1>5. PICK j \in 1..Len(t) : i = Len(s) + j
  <2>1. i - Len(s) \in 1..Len(t) /\ i = Len(s) + (i - Len(s))
    BY <1>1, <1>3, <1>4
  <2> QED
    BY <2>1
<1>6. (s \o t)[i] = t[j]
  BY <1>1, <1>5
<1> QED
  BY <1>5, <1>6 DEF Held

LEMMA Sent ==
  ASSUME NEW frames, AnySeq(frames), Send(frames),
         \A i \in 1..Len(frames) : {"class", "kind", "item", "val"} \subseteq DOMAIN frames[i]
  PROVE  /\ incoming' = incoming
         /\ \E msgs :
              /\ AnySeq(msgs) /\ stream' = stream \o msgs
              /\ \A i \in 1..Len(msgs) :
                   /\ i \in 1..Len(frames) /\ msgs[i].kind = frames[i].kind
                   /\ msgs[i].item = frames[i].item /\ msgs[i].val = frames[i].val
<1>1. PICK form \in Forms :
        GpsdSends(IF gpsd = "greeted"
                  THEN [i \in DOMAIN frames |-> [frames[i] EXCEPT !.class = form]]
                  ELSE <<>>)
  BY DEF Send
<1>2. incoming' = incoming
  BY <1>1 DEF GpsdSends
<1> DEFINE m == [i \in DOMAIN frames |-> [frames[i] EXCEPT !.class = form]]
           T == {[frames[i] EXCEPT !.class = form] : i \in DOMAIN frames}
<1>3. PICK n \in Nat : DOMAIN frames = 1..n /\ Len(frames) = n
  BY SeqDef DEF AnySeq
<1>4. m \in [1..n -> T]
  BY <1>3
<1>5. m \in Seq(T) /\ Len(m) = n
  BY <1>3, <1>4, SeqDef
<1>6. \A i \in 1..n : /\ m[i].kind = frames[i].kind /\ m[i].item = frames[i].item
                      /\ m[i].val = frames[i].val
  BY <1>3
<1>7. stream' = stream \o m \/ stream' = stream \o <<>>
  BY <1>1 DEF GpsdSends
<1> HIDE DEF m, T
<1>8. CASE stream' = stream \o m
  <2>1. AnySeq(m)
    BY <1>5 DEF AnySeq
  <2>2. \A i \in 1..Len(m) : /\ i \in 1..Len(frames) /\ m[i].kind = frames[i].kind
                             /\ m[i].item = frames[i].item /\ m[i].val = frames[i].val
    BY <1>3, <1>5, <1>6
  <2> QED
    BY <1>2, <1>8, <2>1, <2>2
<1>9. CASE stream' = stream \o <<>>
  <2>1. AnySeq(<<>>) /\ 1..Len(<<>>) = {}
    BY AnyEmpty
  <2> QED
    BY <1>2, <1>9, <2>1
<1> QED
  BY <1>7, <1>8, <1>9

\* "done": the request was carried out, when it is none for data.
OneDatum(frames, req, done) ==
  /\ AnySeq(frames)
  /\ \A i \in 1..Len(frames) :
       /\ {"class", "kind", "item", "val"} \subseteq DOMAIN frames[i]
       /\ frames[i].kind = "ack" => frames[i].item = req.item /\ (req.kind = "poll" \/ done)
       /\ frames[i].kind = "data" =>
            i = 1 /\ req.kind = "poll" /\ frames[i].item = req.item /\ frames[i].val = Setting(req.item)

LEMMA OneFrame ==
  ASSUME NEW req, NEW done, NEW kind, NEW item, NEW val, NEW short,
         kind = "data" => req.kind = "poll" /\ item = req.item /\ val = Setting(req.item),
         kind = "ack" => item = req.item /\ (req.kind = "poll" \/ done)
  PROVE  OneDatum(<<Frame(Path, kind, item, val, short)>>, req, done)
<1> DEFINE f == Frame(Path, kind, item, val, short)
<1>1. /\ {"class", "kind", "item", "val"} \subseteq DOMAIN f
      /\ f.kind = kind /\ f.item = item /\ f.val = val
  BY DEF Frame
<1> HIDE DEF f
<1>2. <<f>> \in Seq({f}) /\ Len(<<f>>) = 1 /\ <<f>>[1] = f
  OBVIOUS
<1>3. \A i \in 1..1 : i = 1
  OBVIOUS
<1> QED
  BY <1>1, <1>2, <1>3 DEF OneDatum, AnySeq, f

LEMMA AnswerIsOneDatum ==
  ASSUME NEW req, NEW done, NEW short, req.kind = "poll" \/ done
  PROVE  OneDatum(Answer(req, short), req, done)
<1> DEFINE ack  == Frame(Path, "ack", req.item, NoValue, FALSE)
           data == Frame(Path, "data", req.item, Setting(req.item), short)
<1>1. CASE Answer(req, short) = <<ack>>
  BY <1>1, OneFrame
<1>2. CASE req.kind = "poll" /\ Answer(req, short) = <<data>>
  BY <1>2, OneFrame
<1>3. CASE req.kind = "poll" /\ Answer(req, short) = <<data, ack>>
  <2>1. /\ {"class", "kind", "item", "val"} \subseteq DOMAIN data
        /\ {"class", "kind", "item", "val"} \subseteq DOMAIN ack
        /\ ack.kind = "ack" /\ ack.item = req.item
        /\ data.kind = "data" /\ data.item = req.item /\ data.val = Setting(req.item)
    BY DEF Frame
  <2> HIDE DEF ack, data
  <2>2. <<data, ack>> \in Seq({data, ack}) /\ Len(<<data, ack>>) = 2
        /\ <<data, ack>>[1] = data /\ <<data, ack>>[2] = ack
    OBVIOUS
  <2>3. \A i \in 1..2 : i = 1 \/ i = 2
    OBVIOUS
  <2> QED
    BY <1>3, <2>1, <2>2, <2>3 DEF OneDatum, AnySeq
<1> QED
  BY <1>1, <1>2, <1>3, Zenon DEF Answer

LEMMA NothingIsOneDatum == ASSUME NEW req, NEW done PROVE OneDatum(<<>>, req, done)
  BY AnyEmpty DEF OneDatum
(* The receiver serves a request: its item's configuration may change, no    *)
(* other's, and only a write changes it.                                     *)
Served(msgs) ==
  /\ requests # <<>> /\ requests' = Tail(requests)
  /\ receiver' = receiver \/ receiver' = Applied(Head(requests))
  /\ incoming' = incoming /\ stream' = stream \o msgs /\ AnySeq(msgs)
  /\ \A i \in 1..Len(msgs) :
       msgs[i].kind = "data" => /\ i = 1 /\ Head(requests).kind = "poll"
                                /\ msgs[i].item = Head(requests).item
                                /\ msgs[i].val = Setting(Head(requests).item)
  /\ \A i \in 1..Len(msgs) :
       msgs[i].kind = "ack" => /\ msgs[i].item = Head(requests).item
                               /\ Head(requests).kind = "poll" \/ receiver' = Applied(Head(requests))

LEMMA SentIsServed ==
  ASSUME NEW frames, NEW done, OneDatum(frames, Head(requests), done), Send(frames), requests # <<>>,
         requests' = Tail(requests), receiver' = receiver \/ receiver' = Applied(Head(requests)),
         done => receiver' = Applied(Head(requests))
  PROVE  \E msgs : Served(msgs)
<1>1. AnySeq(frames) /\ \A i \in 1..Len(frames) : {"class", "kind", "item", "val"} \subseteq DOMAIN frames[i]
  BY DEF OneDatum
<1>2. /\ incoming' = incoming
      /\ \E msgs :
           /\ AnySeq(msgs) /\ stream' = stream \o msgs
           /\ \A i \in 1..Len(msgs) :
                /\ i \in 1..Len(frames) /\ msgs[i].kind = frames[i].kind
                /\ msgs[i].item = frames[i].item /\ msgs[i].val = frames[i].val
  BY <1>1, Sent
<1>3. PICK msgs : /\ AnySeq(msgs) /\ stream' = stream \o msgs
                  /\ \A i \in 1..Len(msgs) :
                       /\ i \in 1..Len(frames) /\ msgs[i].kind = frames[i].kind
                       /\ msgs[i].item = frames[i].item /\ msgs[i].val = frames[i].val
  BY <1>2
<1>4. Served(msgs)
  BY <1>2, <1>3 DEF Served, OneDatum
<1> QED
  BY <1>4

LEMMA ServeIsServed == (Serve \/ Misserve) => \E msgs : Served(msgs)
<1>1. SUFFICES ASSUME Serve \/ Misserve PROVE \E msgs : Served(msgs)
  OBVIOUS
<1> DEFINE req == Head(requests)
<1>2. requests # <<>> /\ requests' = Tail(requests)
  BY <1>1 DEF Serve, Misserve
<1>3. \/ receiver' = Applied(req) /\ Send(Answer(req, FALSE))
      \/ (receiver' = receiver \/ receiver' = Applied(req)) /\ Send(<<>>)
      \/ receiver' = receiver /\ Send(<<Frame(Path, "nak", req.item, NoValue, FALSE)>>)
      \/ receiver' = receiver /\ req.kind = "poll" /\ Send(Answer(req, TRUE))
  BY <1>1 DEF Serve, Misserve
<1> HIDE DEF req
<1>4. CASE receiver' = Applied(req) /\ Send(Answer(req, FALSE))
  <2>1. OneDatum(Answer(req, FALSE), req, TRUE)
    BY AnswerIsOneDatum
  <2> QED
    BY <1>2, <1>4, <2>1, SentIsServed DEF req
<1>5. CASE (receiver' = receiver \/ receiver' = Applied(req)) /\ Send(<<>>)
  <2>1. OneDatum(<<>>, req, FALSE)
    BY NothingIsOneDatum
  <2> QED
    BY <1>2, <1>5, <2>1, SentIsServed DEF req
<1>6. CASE receiver' = receiver /\ Send(<<Frame(Path, "nak", req.item, NoValue, FALSE)>>)
  <2>1. OneDatum(<<Frame(Path, "nak", req.item, NoValue, FALSE)>>, req, FALSE)
    BY OneFrame
  <2> QED
    BY <1>2, <1>6, <2>1, SentIsServed DEF req
<1>7. CASE receiver' = receiver /\ req.kind = "poll" /\ Send(Answer(req, TRUE))
  <2>1. OneDatum(Answer(req, TRUE), req, FALSE)
    BY <1>7, AnswerIsOneDatum
  <2> QED
    BY <1>2, <1>7, <2>1, SentIsServed DEF req
<1> QED
  BY <1>3, <1>4, <1>5, <1>6, <1>7

LEMMA AppliedChanges ==
  ASSUME PipeTypes, NEW req, receiver' = receiver \/ receiver' = Applied(req)
  PROVE  /\ DOMAIN receiver' = DOMAIN receiver /\ DOMAIN receiver'.cfg = DOMAIN receiver.cfg
         /\ \A item \in ConfigItems :
              ~(req.kind = "set" /\ req.item = item) => receiver'.cfg[item] = receiver.cfg[item]
<1>1. DOMAIN receiver = {"gen", "cfg", "flash", "svin"} /\ DOMAIN receiver.cfg = ConfigItems
  BY DEF PipeTypes
<1>2. CASE receiver' = receiver
  BY <1>2
<1>3. CASE req.kind = "save" /\ receiver' = [receiver EXCEPT !.flash = receiver.cfg]
  BY <1>1, <1>3
<1>4. CASE /\ req.kind = "set" /\ req.item = "TMODE"
           /\ receiver' = [receiver EXCEPT !.cfg.TMODE = Stored(@, req.val),
                                           !.svin = IF req.val.mode = 1 THEN "active" ELSE "none"]
  <2> DEFINE new == Stored(receiver.cfg.TMODE, req.val)
  <2>1. DOMAIN receiver' = DOMAIN receiver /\ receiver'.cfg = [receiver.cfg EXCEPT !["TMODE"] = new]
    BY <1>1, <1>4
  <2> HIDE DEF new
  <2>2. DOMAIN receiver'.cfg = DOMAIN receiver.cfg
    BY <2>1
  <2>3. \A item \in ConfigItems : item # "TMODE" => receiver'.cfg[item] = receiver.cfg[item]
    BY <1>1, <2>1
  <2> QED
    BY <1>4, <2>1, <2>2, <2>3
<1>5. CASE receiver' = [receiver EXCEPT !.cfg[req.item] = req.val] /\ req.kind = "set"
  <2>1. DOMAIN receiver' = DOMAIN receiver /\ receiver'.cfg = [receiver.cfg EXCEPT ![req.item] = req.val]
    BY <1>1, <1>5
  <2> QED
    BY <1>5, <2>1
<1> QED
  BY <1>2, <1>3, <1>4, <1>5, Zenon DEF Applied

LEMMA ServedKeeps ==
  ASSUME PipeTypes, NEW msgs, Served(msgs)
  PROVE  KeepsAll /\ AnySeq(requests') /\ AnySeq(stream')
<1> DEFINE req == Head(requests)
<1>1. AnySeq(requests) /\ AnySeq(stream) /\ AnySeq(incoming) /\ AnySeq(msgs) /\ Len(stream) \in Nat
  BY AnyConcat DEF PipeTypes, Served
<1>2. /\ AnySeq(requests') /\ Len(requests) \in Nat \ {0} /\ req = requests[1]
      /\ \A p \in 1..Len(requests') : p + 1 \in 1..Len(requests) /\ requests'[p] = requests[p + 1]
  BY <1>1, AnyTail DEF Served
<1>3. AnySeq(stream')
  BY <1>1, AnyConcat DEF Served
<1>4. \A item \in ConfigItems :
        ~(req.kind = "set" /\ req.item = item) => receiver'.cfg[item] = receiver.cfg[item]
  BY AppliedChanges DEF Served
<1>5. \A item : \A q \in SetsAt(item)' : q \in Nat /\ q # 0 /\ q + 1 \in SetsAt(item)
  BY <1>2 DEF SetsAt
<1>6. \A item : req.kind = "set" /\ req.item = item => 1 \in SetsAt(item)
  BY <1>2 DEF SetsAt
<1> HIDE DEF req
<1>7. \A item \in ConfigItems : Holds(item)
  BY <1>4, <1>5, <1>6 DEF Holds
<1>8. \A item \in ConfigItems : \A v : StaleVal(item, v)' => StaleVal(item, v)
  BY <1>4, <1>5, <1>6 DEF StaleVal
<1>9. ASSUME NEW item, NEW which, Told(item, which) PROVE Keeps(item, which)
  <2> DEFINE A  == Held(incoming, item, which)
             B  == Held(stream, item, which)
             C  == PollsAt(item, which)
             A1 == Held(incoming, item, which)'
             B1 == Held(stream, item, which)'
             C1 == PollsAt(item, which)'
             Old(v) == which = "all" \/ StaleVal(item, v)
             New(v) == which = "all" \/ StaleVal(item, v)'
  <2>1. \A v : New(v) => Old(v)
    BY <1>8, <1>9 DEF Told
  <2>2. \A i \in A1 : i \in A
    BY <2>1 DEF Held, Served
  <2>3. \A p \in C1 : p # 0 /\ p + 1 \in C
    <3>1. SUFFICES ASSUME NEW p \in C1 PROVE p # 0 /\ p + 1 \in C
      OBVIOUS
    <3>2. p \in 1..Len(requests') /\ p + 1 \in 1..Len(requests) /\ IsPoll(requests[p + 1], item) /\ p # 0
      BY <1>2 DEF PollsAt
    <3>3. which = "all" \/ \E q \in SetsAt(item)' : q > p
      BY DEF PollsAt
    <3>4. which = "all" \/ \E q \in SetsAt(item) : q > p + 1
      BY <1>5, <3>2, <3>3
    <3> QED
      BY <3>2, <3>4 DEF PollsAt
  <2>4. \A i \in B1 : \/ i \in B
                      \/ \E j \in 1..Len(msgs) : /\ i = Len(stream) + j /\ IsData(msgs[j], item)
                                                 /\ New(msgs[j].val)
    <3>1. \A v : StaleVal(item, v)' => StaleVal(item, v) \/ which = "all"
      BY <2>1
    <3>2. SUFFICES ASSUME NEW i \in B1, i \notin B
          PROVE  \E j \in 1..Len(msgs) : i = Len(stream) + j /\ IsData(msgs[j], item) /\ New(msgs[j].val)
      OBVIOUS
    <3>3. PICK v : /\ i \in 1..Len(stream \o msgs) /\ IsData((stream \o msgs)[i], item)
                   /\ v = (stream \o msgs)[i].val /\ New(v)
      BY <3>2 DEF Held, Served
    <3>4. i \in Held(stream \o msgs, item, "all")
      BY <3>3 DEF Held
    <3>5. i \notin Held(stream, item, "all")
      <4>1. SUFFICES ASSUME i \in Held(stream, item, "all") PROVE FALSE
        OBVIOUS
      <4>2. i \in 1..Len(stream) /\ IsData(stream[i], item) /\ (stream \o msgs)[i] = stream[i]
        BY <1>1, <4>1, AnyConcat DEF Held
      <4>3. Old(stream[i].val)
        BY <2>1, <3>3, <4>2
      <4> QED
        BY <3>2, <4>2, <4>3 DEF Held
    <3>6. PICK j \in 1..Len(msgs) : i = Len(stream) + j /\ IsData(msgs[j], item)
      BY <1>1, <3>4, <3>5, HeldConcat
    <3>7. (stream \o msgs)[i] = msgs[j]
      BY <1>1, <3>6, AnyConcat
    <3> QED
      BY <3>3, <3>6, <3>7
  <2>5. ASSUME NEW j \in 1..Len(msgs), IsData(msgs[j], item), New(msgs[j].val)
        PROVE  j = 1 /\ 1 \in C
    <3>1. j = 1 /\ req.kind = "poll" /\ req.item = item /\ msgs[j].val = Setting(item)
      BY <2>5 DEF Served, IsData, req
    <3>2. 1 \in 1..Len(requests) /\ IsPoll(requests[1], item)
      BY <1>2, <3>1 DEF IsPoll
    <3>3. CASE which = "all"
      BY <3>1, <3>2, <3>3 DEF PollsAt
    <3>4. CASE which # "all"
      <4>1. item \in ConfigItems /\ StaleVal(item, msgs[j].val)'
        BY <1>9, <2>5, <3>4 DEF Told
      <4>2. msgs[j].val = receiver.cfg[item]
        BY <3>1, <4>1 DEF Setting, ConfigItems
      <4>3. receiver'.cfg[item] = receiver.cfg[item]
        BY <1>4, <3>1, <4>1
      <4>4. PICK q \in SetsAt(item)' : TRUE
        BY <4>1, <4>2, <4>3 DEF StaleVal
      <4>5. q + 1 \in SetsAt(item) /\ q + 1 > 1
        BY <1>5, <4>4
      <4> QED
        BY <3>1, <3>2, <4>5 DEF PollsAt
    <3> QED
      BY <3>3, <3>4
  <2>6. \A i \in B1 : i \in B \/ (i = Len(stream) + 1 /\ 1 \in C)
    BY <2>4, <2>5
  <2>7. \A i \in B : i <= Len(stream)
    BY <1>1 DEF Held
  <2>8. /\ A \in SUBSET Nat /\ B \in SUBSET Nat /\ C \in SUBSET Nat
        /\ A1 \in SUBSET Nat /\ B1 \in SUBSET Nat /\ C1 \in SUBSET Nat
    BY DEF Held, PollsAt
  <2> HIDE DEF A, B, C, A1, B1, C1
  <2>9. (FewIn(B, C, A) => FewIn(B1, C1, A)) /\ (NoneIn(B, C, A) => NoneIn(B1, C1, A))
    BY <1>1, <2>3, <2>6, <2>7, <2>8, MoveKeepsFew
  <2>10. (FewIn(B1, C1, A) => FewIn(A1, B1, C1)) /\ (NoneIn(B1, C1, A) => NoneIn(A1, B1, C1))
    BY <2>2 DEF FewIn, NoneIn
  <2>11. (FewIn(A, B, C) => FewIn(B, C, A)) /\ (NoneIn(A, B, C) => NoneIn(B, C, A))
    BY DEF FewIn, NoneIn
  <2> QED
    BY <2>9, <2>10, <2>11 DEF Keeps, Few, NoneLeft, A, B, C, A1, B1, C1
<1> QED
  BY <1>2, <1>3, <1>7, <1>9 DEF KeepsAll
LEMMA SameCfgKeeps ==
  ASSUME requests' = requests, incoming' = incoming, stream' = stream, receiver'.cfg = receiver.cfg
  PROVE  KeepsAll
<1>1. ASSUME NEW item, NEW which PROVE Keeps(item, which)
  <2>1. /\ Held(incoming, item, which)' = Held(incoming, item, which)
        /\ Held(stream, item, which)' = Held(stream, item, which)
        /\ PollsAt(item, which)' = PollsAt(item, which)
    BY DEF Held, PollsAt, SetsAt, StaleVal
  <2> QED
    BY <2>1 DEF Keeps, Few, NoneLeft
<1>2. \A item \in ConfigItems : Holds(item)
  BY DEF Holds, SetsAt
<1> QED
  BY <1>1, <1>2 DEF KeepsAll

(* What gpsd says of itself.                                                 *)
LEMMA NoticeKeeps ==
  ASSUME PipeTypes, requests' = requests, receiver' = receiver, incoming' = incoming,
         NEW m, m.class \notin {"RAW", "bare"}, stream' = stream \o <<m>>
  PROVE  KeepsAll /\ AnySeq(stream')
<1>1. AnySeq(stream) /\ AnySeq(<<m>>) /\ Len(<<m>>) = 1 /\ <<m>>[1] = m /\ Len(stream) \in Nat
  <2>1. <<m>> \in Seq({m}) /\ Len(<<m>>) = 1 /\ <<m>>[1] = m
    OBVIOUS
  <2> QED
    BY <2>1, AnyConcat DEF AnySeq, PipeTypes
<1>2. AnySeq(stream')
  BY <1>1, AnyConcat
<1>3. ASSUME NEW item, NEW which PROVE Keeps(item, which)
  <2>1. /\ Held(incoming, item, which)' = Held(incoming, item, which)
        /\ Held(stream, item, which)' = Held(stream', item, which)
        /\ PollsAt(item, which)' = PollsAt(item, which)
    BY SameRequests
  <2>2. \A i \in Held(stream', item, which) : i \in Held(stream, item, which)
    <3>1. \A i \in 1..1 : i = 1
      OBVIOUS
    <3>2. \A j \in 1..Len(<<m>>) : ~IsData(<<m>>[j], item)
      BY <1>1, <3>1 DEF IsData
    <3> QED
      BY <1>1, <3>2, HeldConcat
  <2> QED
    BY <2>1, <2>2 DEF Keeps, Few, NoneLeft, FewIn, NoneIn
<1> QED
  BY <1>2, <1>3, SameRequests DEF KeepsAll

LEMMA SpendTypes ==
  ASSUME PipeTypes, Spend \/ UNCHANGED budget
  PROVE  budget' \in [faults : Nat, errors : BOOLEAN, others : {0}, signals : Nat]
<1>1. budget.faults \in Nat
  BY DEF PipeTypes
<1>2. Spend => budget.faults - 1 \in Nat
  BY <1>1 DEF Spend
<1> QED
  BY <1>2 DEF PipeTypes, Spend

LEMMA NoticeSent ==
  ASSUME Greet \/ Complain \/ Drop
  PROVE  \E m : m.class \notin {"RAW", "bare"} /\ GpsdSends(<<m>>)
<1>1. CASE Greet
  <2>1. PICK list \in SUBSET Paths : GpsdSends(<<[class |-> "DEVICES", paths |-> list]>>)
    BY <1>1 DEF Greet
  <2>2. [class |-> "DEVICES", paths |-> list].class = "DEVICES"
    OBVIOUS
  <2> QED
    BY <2>1, <2>2
<1>2. CASE Complain
  <2>1. PICK m \in {[class |-> "ERROR"], [class |-> "DEVICE", path |-> Path]} : GpsdSends(<<m>>)
    BY <1>2 DEF Complain
  <2>2. m.class \notin {"RAW", "bare"}
    BY <2>1
  <2> QED
    BY <2>1, <2>2
<1>3. CASE Drop
  <2>1. GpsdSends(<<[class |-> "EOF"]>>) /\ [class |-> "EOF"].class = "EOF"
    BY <1>3 DEF Drop
  <2> QED
    BY <2>1
<1> QED
  BY <1>1, <1>2, <1>3

LEMMA EnvironmentKeeps ==
  ASSUME PipeTypes, Environment
  PROVE  PipeTypes' /\ KeepsAll
<1>1. CASE Serve \/ Misserve
  <2>1. PICK msgs : Served(msgs)
    BY <1>1, ServeIsServed
  <2>2. KeepsAll /\ AnySeq(requests') /\ AnySeq(stream')
    BY <2>1, ServedKeeps
  <2>3. DOMAIN receiver' = DOMAIN receiver /\ DOMAIN receiver'.cfg = DOMAIN receiver.cfg
    BY <2>1, AppliedChanges DEF Served
  <2>4. budget' \in [faults : Nat, errors : BOOLEAN, others : {0}, signals : Nat]
    BY <1>1, SpendTypes DEF Serve, Misserve
  <2>5. incoming' = incoming
    BY <2>1 DEF Served
  <2> QED
    BY <2>2, <2>3, <2>4, <2>5 DEF PipeTypes
<1>2. CASE Converge
  <2>1. /\ requests' = requests /\ incoming' = incoming /\ stream' = stream /\ budget' = budget
        /\ receiver' = [receiver EXCEPT !.svin = "valid"]
    BY <1>2 DEF Converge, clientVars
  <2>2. receiver'.cfg = receiver.cfg /\ DOMAIN receiver' = DOMAIN receiver
    BY <2>1 DEF PipeTypes
  <2> QED
    BY <2>1, <2>2, SameCfgKeeps DEF PipeTypes
<1>3. ~OtherPolls /\ ~OtherReceiver
  BY DEF PipeTypes, OtherPolls, OtherReceiver
<1>4. CASE Greet \/ Complain \/ Drop
  <2>1. /\ requests' = requests /\ receiver' = receiver /\ (Spend \/ UNCHANGED budget)
    BY <1>4 DEF Greet, Complain, Drop
  <2>2. PICK m : m.class \notin {"RAW", "bare"} /\ GpsdSends(<<m>>)
    BY <1>4, NoticeSent
  <2>3. incoming' = incoming /\ stream' = stream \o <<m>>
    BY <2>2 DEF GpsdSends
  <2>4. KeepsAll /\ AnySeq(stream')
    BY <2>1, <2>2, <2>3, NoticeKeeps
  <2>5. budget' \in [faults : Nat, errors : BOOLEAN, others : {0}, signals : Nat]
    BY <2>1, SpendTypes
  <2> QED
    BY <2>1, <2>3, <2>4, <2>5 DEF PipeTypes
<1> QED
  BY <1>1, <1>2, <1>3, <1>4 DEF Environment

-----------------------------------------------------------------------------
(* Asking, and taking an answer.                                             *)

LEMMA NoneIsFew == \A item, which : NoneLeft(item, which) => Few(item, which)
  BY DEF NoneLeft, Few, NoneIn, FewIn

LEMMA AllCoversStale ==
  \A item : /\ Few(item, "all") => Few(item, "stale")
            /\ NoneLeft(item, "all") => NoneLeft(item, "stale")
<1>1. SUFFICES ASSUME NEW item
      PROVE  /\ Few(item, "all") => Few(item, "stale")
             /\ NoneLeft(item, "all") => NoneLeft(item, "stale")
  OBVIOUS
<1>2. /\ Held(incoming, item, "stale") \subseteq Held(incoming, item, "all")
      /\ Held(stream, item, "stale") \subseteq Held(stream, item, "all")
      /\ PollsAt(item, "stale") \subseteq PollsAt(item, "all")
  BY DEF Held, PollsAt
<1> QED
  BY <1>2 DEF Few, NoneLeft, FewIn, NoneIn

LEMMA AllCoversStaleNext ==
  \A item : Few(item, "all")' => Few(item, "stale")'
<1>1. SUFFICES ASSUME NEW item, Few(item, "all")' PROVE Few(item, "stale")'
  OBVIOUS
<1>2. /\ Held(incoming, item, "stale")' \subseteq Held(incoming, item, "all")'
      /\ Held(stream, item, "stale")' \subseteq Held(stream, item, "all")'
      /\ PollsAt(item, "stale")' \subseteq PollsAt(item, "all")'
  BY DEF Held, PollsAt
<1> QED
  BY <1>1, <1>2 DEF Few, FewIn

(* A request goes to the end of the queue: a poll is not stale there, and a  *)
(* write makes stale what is before it.                                      *)
LEMMA AskingKeeps ==
  ASSUME PipeTypes, NEW r, requests' = Append(requests, r), incoming' = <<>>, stream' = stream,
         receiver' = receiver, budget' = budget
  PROVE  /\ PipeTypes'
         /\ \A item : NoneLeft(item, "all") => Few(item, "all")'
         /\ \A item : ~IsPoll(r, item) => Keeps(item, "all")
         /\ \A item : ~(r.kind = "set" /\ r.item = item) => Keeps(item, "stale") /\ SetsAt(item)' = SetsAt(item)
<1>1. /\ AnySeq(requests') /\ Len(requests) \in Nat /\ Len(requests') = Len(requests) + 1
      /\ \A i \in 1..Len(requests) : requests'[i] = requests[i]
      /\ requests'[Len(requests) + 1] = r
  BY AnyAppend DEF PipeTypes
<1>2. \A i \in 1..Len(requests') : i \in 1..Len(requests) \/ i = Len(requests) + 1
  BY <1>1
<1>3. PipeTypes'
  BY <1>1, AnyEmpty DEF PipeTypes
<1>4. ASSUME NEW item PROVE /\ Held(incoming, item, "all")' = {} /\ Held(incoming, item, "stale")' = {}
                            /\ Held(stream, item, "all")' = Held(stream, item, "all")
  BY DEF Held
<1>5. ASSUME NEW item
      PROVE  \A p \in PollsAt(item, "all")' :
               p \in PollsAt(item, "all") \/ (p = Len(requests) + 1 /\ IsPoll(r, item))
  BY <1>1, <1>2 DEF PollsAt
<1>6. ASSUME NEW item, ~IsPoll(r, item) PROVE Keeps(item, "all")
  BY <1>4, <1>5, <1>6 DEF Keeps, Few, NoneLeft, FewIn, NoneIn
<1>7. ASSUME NEW item, NoneLeft(item, "all") PROVE Few(item, "all")'
  <2>1. Held(stream, item, "all") = {} /\ PollsAt(item, "all") = {}
    BY <1>7 DEF NoneLeft, NoneIn
  <2>2. \A p \in PollsAt(item, "all")' : p = Len(requests) + 1
    BY <1>5, <2>1
  <2> QED
    BY <1>4, <2>1, <2>2 DEF Few, FewIn
<1>8. ASSUME NEW item, ~(r.kind = "set" /\ r.item = item)
      PROVE  Keeps(item, "stale") /\ SetsAt(item)' = SetsAt(item)
  <2>1. SetsAt(item)' = SetsAt(item)
    <3>1. \A q \in SetsAt(item)' : q \in SetsAt(item)
      BY <1>1, <1>2, <1>8 DEF SetsAt
    <3>2. \A q \in SetsAt(item) : q \in 1..Len(requests') /\ q \in SetsAt(item)'
      BY <1>1 DEF SetsAt
    <3> QED
      BY <3>1, <3>2
  <2>2. Held(stream, item, "stale")' = Held(stream, item, "stale")
    BY <2>1 DEF Held, StaleVal
  <2>3. \A p \in PollsAt(item, "stale")' : p \in PollsAt(item, "stale")
    <3>1. SUFFICES ASSUME NEW p \in PollsAt(item, "stale")' PROVE p \in PollsAt(item, "stale")
      OBVIOUS
    <3>2. PICK q \in SetsAt(item) : q > p
      BY <2>1 DEF PollsAt
    <3>3. q \in 1..Len(requests) /\ p \in 1..Len(requests') /\ IsPoll(requests'[p], item)
      BY DEF SetsAt, PollsAt
    <3>4. p \in 1..Len(requests)
      BY <1>1, <3>2, <3>3
    <3> QED
      BY <1>1, <3>2, <3>3, <3>4 DEF PollsAt
  <2> QED
    BY <1>4, <2>1, <2>2, <2>3 DEF Keeps, Few, NoneLeft, FewIn, NoneIn
<1> QED
  BY <1>3, <1>6, <1>7, <1>8

(* An answer: of few, none is left; and either it was the stale one, or what *)
(* it says is in force.                                                      *)
LEMMA AnswerTaken ==
  ASSUME PipeTypes, incoming # <<>>, incoming' = Tail(incoming), stream' = stream,
         requests' = requests, receiver' = receiver,
         NEW item, IsData(Head(incoming), item)
  PROVE  /\ Few(item, "all") => NoneLeft(item, "all")'
         /\ Few(item, "stale") =>
              NoneLeft(item, "stale")' \/ (SetsAt(item)' = {} /\ receiver'.cfg[item] = Head(incoming).val)
         /\ NoneLeft(item, "stale") => SetsAt(item)' = {} /\ receiver'.cfg[item] = Head(incoming).val
<1>1. AnySeq(incoming) /\ Len(incoming) \in Nat \ {0} /\ Head(incoming) = incoming[1]
  BY AnyTail DEF PipeTypes
<1>2. ASSUME NEW which, Few(item, which), 1 \in Held(incoming, item, which)
      PROVE  NoneLeft(item, which)'
  <2>1. /\ Held(incoming, item, which)' = Held(Tail(incoming), item, which)
        /\ Held(stream, item, which)' = Held(stream, item, which)
        /\ PollsAt(item, which)' = PollsAt(item, which)
    BY SameRequests
  <2>2. \A i \in Held(Tail(incoming), item, which) : i # 0 /\ i + 1 \in Held(incoming, item, which)
    BY <1>1, HeldTail
  <2>3. Held(Tail(incoming), item, which) \in SUBSET Nat
    BY Places
  <2>4. NoneIn(Held(Tail(incoming), item, which), Held(stream, item, which), PollsAt(item, which))
    BY <1>2, <2>2, <2>3, TakeLeavesNone DEF Few
  <2> QED
    BY <2>1, <2>4 DEF NoneLeft
<1>3. 1 \in Held(incoming, item, "all")
  BY <1>1 DEF Held
<1>4. 1 \in Held(incoming, item, "stale") \/ (SetsAt(item) = {} /\ receiver.cfg[item] = Head(incoming).val)
  BY <1>1 DEF Held, StaleVal
<1>5. SetsAt(item)' = SetsAt(item)
  BY DEF SetsAt
<1>6. NoneLeft(item, "stale") => 1 \notin Held(incoming, item, "stale")
  BY DEF NoneLeft, NoneIn
<1> QED
  BY <1>2, <1>3, <1>4, <1>5, <1>6
-----------------------------------------------------------------------------
(* The exchange in progress is the one its step asks for. Of a step's item   *)
(* nothing is outstanding but what the exchange waits for; only the rollback *)
(* may begin with an answer to the write it undoes still on its way. So at   *)
(* most one answer is stale when a write is verified: of the two that must   *)
(* agree, one is of after the write.                                         *)

Linked ==
  /\ DOMAIN ex = {"op", "item", "want", "slot", "stage", "own", "shield", "val", "short"}
  /\ ex.stage \in {"idle", "send", "wait"} \cup Results
  /\ ex.stage = "idle" => ex = Idle
  /\ ex.stage # "idle" =>
       /\ todo # <<>>
       /\ ex.op = Asks(Head(todo)).op /\ ex.item = Asks(Head(todo)).item
       /\ ex.want = Asks(Head(todo)).want
       /\ ex.op = "poll"  => ex.slot = "poll"
       /\ ex.op = "save"  => ex.slot = "ack"
       /\ ex.op = "write" => ex.slot \in {"ack", "v0", "r0", "v1", "r1"}

Quiet(item) ==
  \/ NoneLeft(item, "all")
  \/ Few(item, "all") /\ ex.item = item /\ ex.slot # "ack" /\ ex.stage \in {"wait", "late", "gone"}

Writing ==
  ex.op = "write" =>
    /\ ex.slot = "ack" /\ ex.stage = "send" => Few(ex.item, "all")
    /\ ex.slot = "ack" /\ ex.stage = "wait" => Few(ex.item, "stale")
    /\ ex.slot \in {"v0", "r0"} /\ ex.stage \in {"send", "wait"} => Few(ex.item, "stale")
    /\ ex.slot \in {"v1", "r1"} /\ ex.stage \in {"send", "wait"} =>
         NoneLeft(ex.item, "stale") \/ Confirmed(ex.item, ex.want)
    /\ ex.stage = "ok" => Confirmed(ex.item, ex.want)

VerifyInv ==
  /\ PipeTypes /\ Linked /\ Writing
  /\ stage \in {"start", "dialing"} => ex = Idle /\ \A item : NoneLeft(item, "all")
  /\ todo # <<>> /\ Head(todo) # "rollback" => \A item \in ConfigItems : Quiet(item)
  /\ todo # <<>> /\ Head(todo) = "rollback" /\ ex.stage = "idle" => Few("TMODE", "all")
Verbs(e) ==
  /\ DOMAIN e = {"op", "item", "want", "slot", "stage", "own", "shield", "val", "short"}
  /\ e.op = "poll"  => e.slot = "poll"
  /\ e.op = "save"  => e.slot = "ack"
  /\ e.op = "write" => e.slot = "ack" /\ e.item \in ConfigItems
  /\ e.op \in {"poll", "save", "write"} /\ e.stage = "send"

LEMMA AsksShape ==
  ASSUME NEW step \in StepNames
  PROVE  /\ Verbs(Asks(step))
         /\ step = "rollback" => Asks(step).op = "write" /\ Asks(step).item = "TMODE"
                                   /\ Asks(step).want = survey.cached
         /\ step = "poll" => Asks(step).op = "poll" /\ Asks(step).item = "SVIN"
<1>1. DOMAIN Idle = {"op", "item", "want", "slot", "stage", "own", "shield", "val", "short"}
  BY DEF Idle
<1>2. ASSUME NEW item, NEW own
      PROVE  Verbs(Poll(item, own)) /\ Poll(item, own).op = "poll" /\ Poll(item, own).item = item
  BY <1>1 DEF Verbs, Poll
<1>3. ASSUME NEW item PROVE Verbs(Command(item))
  BY <1>1 DEF Verbs, Command
<1>4. ASSUME NEW item \in ConfigItems, NEW want, NEW own, NEW shield
      PROVE  /\ Verbs(WriteAndVerify(item, want, own, shield))
             /\ WriteAndVerify(item, want, own, shield).op = "write"
             /\ WriteAndVerify(item, want, own, shield).item = item
             /\ WriteAndVerify(item, want, own, shield).want = want
  BY <1>1 DEF Verbs, WriteAndVerify
<1>5. /\ "TMODE" \in ConfigItems /\ "NAV5" \in ConfigItems /\ "TP5" \in ConfigItems
  BY DEF ConfigItems
<1>6. CASE step \in {"version", "tmode", "cache", "poll", "svin"}
  <2>1. \/ Asks(step) = Poll("MON-VER", TRUE) /\ step # "poll"
        \/ Asks(step) = Poll("TMODE", TRUE) /\ step # "poll"
        \/ Asks(step) = Poll("SVIN", TRUE)
        \/ Asks(step) = Poll("SVIN", FALSE)
    BY <1>6, Zenon DEF Asks, PollSVIN
  <2>2. PICK item, own : Asks(step) = Poll(item, own) /\ (step = "poll" => item = "SVIN")
    BY <2>1, Zenon
  <2>3. Verbs(Poll(item, own)) /\ Poll(item, own).op = "poll" /\ Poll(item, own).item = item
    BY <1>2
  <2>4. step # "rollback"
    BY <1>6
  <2> QED
    BY <2>2, <2>3, <2>4, Zenon
<1>7. CASE step \in {"nav5", "tp5", "config", "fix", "set", "rollback"}
  <2>1. \/ Asks(step) = WriteAndVerify("NAV5", "stationary", FALSE, FALSE) /\ step # "rollback"
        \/ Asks(step) = WriteAndVerify("TP5", "1HzUTC", FALSE, FALSE) /\ step # "rollback"
        \/ Asks(step) = WriteAndVerify("TMODE", SurveyInFrame, TRUE, FALSE) /\ step # "rollback"
        \/ Asks(step) = WriteAndVerify("TMODE", FixedModeFrame("surveyed"), FALSE, FALSE) /\ step # "rollback"
        \/ Asks(step) = WriteAndVerify("TMODE", SetFrame, FALSE, FALSE) /\ step # "rollback"
        \/ Asks(step) = WriteAndVerify("TMODE", survey.cached, TRUE, TRUE)
    BY <1>7, Zenon DEF Asks, WriteNAV5DynModel, WriteTP5_1HzUTC, WriteTMODE, RestoreFrame
  <2>2. PICK item, want, own, shield :
          /\ Asks(step) = WriteAndVerify(item, want, own, shield) /\ item \in ConfigItems
          /\ step = "rollback" => item = "TMODE" /\ want = survey.cached
    BY <1>5, <2>1, Zenon
  <2> DEFINE W == WriteAndVerify(item, want, own, shield)
  <2>3. Verbs(W) /\ W.op = "write" /\ W.item = item /\ W.want = want
    BY <1>4, <2>2
  <2>4. step # "poll"
    BY <1>7
  <2> HIDE DEF W
  <2>5. Asks(step) = W
    BY <2>2 DEF W
  <2> QED
    BY <2>2, <2>3, <2>4, <2>5
<1>8. CASE step = "save"
  <2>1. Asks(step) = Command("CFG")
    BY <1>8, Zenon DEF Asks, SaveConfig
  <2> QED
    BY <1>3, <1>8, <2>1
<1> QED
  BY <1>6, <1>7, <1>8 DEF StepNames, Plain, Guarded

LEMMA HeadIsStep ==
  ASSUME RollbackInv, todo # <<>>
  PROVE  Head(todo) \in StepNames
<1>1. todo \in Seq(StepNames)
  BY DEF RollbackInv, Plan
<1> QED
  BY <1>1, HeadTailProperties

(* Steps of the others, of the clock and of the user.                        *)
LEMMA OthersKeepVerify ==
  ASSUME VerifyInv, RollbackInv, PipeTypes', KeepsAll, UNCHANGED <<ex, cmd, stage, todo, survey>>
  PROVE  VerifyInv'
<1>1. Linked'
  BY DEF VerifyInv, Linked, Asks, RestoreFrame, SetFrame
<1>2. ASSUME NEW item, NEW which, Told(item, which)
      PROVE  /\ Few(item, which) => Few(item, which)'
             /\ NoneLeft(item, which) => NoneLeft(item, which)'
  BY <1>2 DEF KeepsAll, Keeps
<1>3. ASSUME NEW item \in ConfigItems, NEW want, Confirmed(item, want) PROVE Confirmed(item, want)'
  BY <1>3 DEF KeepsAll, Holds, Confirmed, Agrees
<1>4. ex.op = "write" => ex.item \in ConfigItems
  <2>1. ex.op = "write" => ex # Idle
    BY DEF Idle
  <2> QED
    BY <2>1, AsksShape, HeadIsStep DEF VerifyInv, Linked, Verbs
<1>5. Writing'
  BY <1>2, <1>3, <1>4 DEF VerifyInv, Writing, Told
<1>6. \A item : Told(item, "all")
  BY DEF Told
<1>7. \A item \in ConfigItems : Quiet(item) => Quiet(item)'
  BY <1>2, <1>6 DEF Quiet
<1>8. "TMODE" \in ConfigItems
  BY DEF ConfigItems
<1> QED
  BY <1>1, <1>2, <1>5, <1>6, <1>7, <1>8 DEF VerifyInv
(* An exchange that is in progress, and what it may become.                  *)
InProgress ==
  /\ ex.stage # "idle" /\ todo # <<>> /\ stage \notin {"start", "dialing"}
  /\ ex.op \in {"poll", "save", "write"}
  /\ ex.op = "write" => ex.item \in ConfigItems /\ ex.slot \in {"ack", "v0", "r0", "v1", "r1"}
  /\ ex.op = "poll" => ex.slot = "poll"
  /\ ex.op = "save" => ex.slot = "ack"

LEMMA Exchanging == VerifyInv /\ RollbackInv /\ ex.stage # "idle" => InProgress
<1>1. SUFFICES ASSUME VerifyInv, RollbackInv, ex.stage # "idle" PROVE InProgress
  OBVIOUS
<1>2. Idle.stage = "idle"
  BY DEF Idle
<1>3. todo # <<>> /\ stage \notin {"start", "dialing"}
  BY <1>1, <1>2 DEF VerifyInv, Linked
<1>4. Verbs(Asks(Head(todo)))
  BY <1>1, <1>3, AsksShape, HeadIsStep
<1> QED
  BY <1>1, <1>3, <1>4 DEF InProgress, VerifyInv, Linked, Verbs

Moved(slot, st) ==
  /\ DOMAIN ex' = DOMAIN ex /\ ex'.op = ex.op /\ ex'.item = ex.item /\ ex'.want = ex.want
  /\ ex'.slot = slot /\ ex'.stage = st /\ st \in {"send", "wait"} \cup Results

LEMMA MovedKeepsVerify ==
  ASSUME VerifyInv, RollbackInv, UNCHANGED cmdVars, InProgress, PipeTypes', NEW slot, NEW st, Moved(slot, st),
         ex.op = "poll" => slot = "poll",
         ex.op = "save" => slot = "ack",
         ex.op = "write" => slot \in {"ack", "v0", "r0", "v1", "r1"},
         \A item \in ConfigItems : Quiet(item) => Quiet(item)',
         Writing'
  PROVE  VerifyInv'
<1>1. ex'.stage # "idle"
  BY DEF Moved, Results
<1>2. Linked'
  BY <1>1 DEF Linked, VerifyInv, Moved, InProgress, Asks, RestoreFrame, SetFrame, cmdVars
<1> QED
  BY <1>1, <1>2 DEF VerifyInv, InProgress, cmdVars

LEMMA SendKeepsVerify ==
  ASSUME VerifyInv, RollbackInv, UNCHANGED cmdVars, SendUBX
  PROVE  VerifyInv'
<1>1. InProgress /\ ex.stage = "send"
  BY Exchanging DEF SendUBX
<1>2. PipeTypes /\ Linked /\ Writing
  BY DEF VerifyInv
<1>3. \A item \in ConfigItems : Quiet(item) => NoneLeft(item, "all")
  BY <1>1 DEF Quiet
<1>4. CASE /\ incoming' = <<>> /\ stream' = stream /\ ex' = [ex EXCEPT !.stage = "wait"]
           /\ requests' = Append(requests, Request) /\ receiver' = receiver /\ budget' = budget
  <2>1. Moved(ex.slot, "wait")
    BY <1>2, <1>4 DEF Moved, Linked
  <2>2. /\ PipeTypes'
        /\ \A item : NoneLeft(item, "all") => Few(item, "all")'
        /\ \A item : ~IsPoll(Request, item) => Keeps(item, "all")
        /\ \A item : ~(Request.kind = "set" /\ Request.item = item) =>
                       Keeps(item, "stale") /\ SetsAt(item)' = SetsAt(item)
    BY <1>2, <1>4, AskingKeeps
  <2>3. /\ ex.slot = "ack" => Request.kind # "poll"
        /\ ex.slot # "ack" => Request.kind = "poll" /\ Request.item = ex.item
    BY DEF Request
  <2>4. \A item \in ConfigItems : Quiet(item) => Quiet(item)'
    <3>1. SUFFICES ASSUME NEW item \in ConfigItems, NoneLeft(item, "all") PROVE Quiet(item)'
      BY <1>3
    <3>2. CASE ex.slot # "ack" /\ item = ex.item
      BY <2>1, <2>2, <3>1, <3>2 DEF Quiet, Moved
    <3>3. CASE ~(ex.slot # "ack" /\ item = ex.item)
      <4>1. ~IsPoll(Request, item)
        BY <2>3, <3>3 DEF IsPoll
      <4> QED
        BY <2>2, <3>1, <4>1 DEF Keeps, Quiet
    <3> QED
      BY <3>2, <3>3
  <2>5. Writing'
    <3>1. SUFFICES ASSUME ex.op = "write" PROVE Writing'
      BY <2>1 DEF Writing, Moved
    <3>2. PICK I : I = ex.item
      OBVIOUS
    <3>3. PICK w : w = ex.want
      OBVIOUS
    <3>4. ex'.item = I /\ ex'.want = w /\ ex'.slot = ex.slot /\ ex'.stage = "wait"
      BY <2>1, <3>2, <3>3 DEF Moved
    <3>5. CASE ex.slot = "ack"
      <4>1. Few(I, "all")
        BY <1>1, <1>2, <3>1, <3>2, <3>5 DEF Writing
      <4>2. ~IsPoll(Request, I)
        BY <2>3, <3>5 DEF IsPoll
      <4>3. Few(I, "all")'
        BY <2>2, <4>1, <4>2 DEF Keeps
      <4>4. Few(I, "stale")'
        BY <4>3, AllCoversStaleNext
      <4> QED
        BY <3>4, <3>5, <4>4 DEF Writing
    <3>6. CASE ex.slot # "ack"
      <4>1. ~(Request.kind = "set" /\ Request.item = I)
        BY <2>3, <3>6
      <4>2. Keeps(I, "stale") /\ SetsAt(I)' = SetsAt(I)
        BY <2>2, <4>1
      <4>3. Confirmed(I, w) => Confirmed(I, w)'
        BY <1>4, <4>2 DEF Confirmed, Agrees
      <4>4. /\ ex.slot \in {"v0", "r0"} => Few(I, "stale")
            /\ ex.slot \in {"v1", "r1"} => NoneLeft(I, "stale") \/ Confirmed(I, w)
        BY <1>1, <1>2, <3>1, <3>2, <3>3 DEF Writing
      <4>5. /\ ex.slot \in {"v0", "r0"} => Few(I, "stale")'
            /\ ex.slot \in {"v1", "r1"} => NoneLeft(I, "stale")' \/ Confirmed(I, w)'
        BY <4>2, <4>3, <4>4 DEF Keeps
      <4> QED
        BY <3>4, <3>6, <4>5 DEF Writing
    <3> QED
      BY <3>5, <3>6
  <2> QED
    BY <1>1, <2>1, <2>2, <2>4, <2>5, MovedKeepsVerify DEF InProgress
<1>5. CASE /\ incoming' = <<>> /\ stream' = stream /\ ex' = [ex EXCEPT !.stage = "wait"]
           /\ requests' = requests /\ receiver' = receiver /\ budget' = budget
  <2>1. Moved(ex.slot, "wait")
    BY <1>2, <1>5 DEF Moved, Linked
  <2>2. PipeTypes' /\ KeepsAll
    BY <1>2, <1>5, TakingKeeps
  <2>3. \A item \in ConfigItems : Quiet(item) => Quiet(item)'
    BY <1>3, <2>2 DEF KeepsAll, Keeps, Told, Quiet
  <2>4. Writing'
    <3>1. SUFFICES ASSUME ex.op = "write" PROVE Writing'
      BY <2>1 DEF Writing, Moved
    <3>2. Keeps(ex.item, "stale") /\ Keeps(ex.item, "all") /\ Holds(ex.item)
      BY <1>1, <2>2, <3>1 DEF KeepsAll, Told, InProgress
    <3>3. Confirmed(ex.item, ex.want) => Confirmed(ex.item, ex.want)'
      BY <2>1, <3>2 DEF Confirmed, Moved, Agrees, Holds
    <3> QED
      BY <1>1, <1>2, <2>1, <3>1, <3>2, <3>3, AllCoversStale DEF Writing, Moved, Keeps, InProgress
  <2> QED
    BY <1>1, <2>1, <2>2, <2>3, <2>4, MovedKeepsVerify DEF InProgress
<1>6. CASE /\ ex' = [ex EXCEPT !.stage = "gone"]
           /\ UNCHANGED <<clientVars, requests>> /\ receiver' = receiver /\ budget' = budget
  <2>1. Moved(ex.slot, "gone")
    BY <1>2, <1>6 DEF Moved, Linked, Results
  <2>2. PipeTypes' /\ KeepsAll
    BY <1>2, <1>6, TakingKeeps DEF clientVars
  <2>3. \A item \in ConfigItems : Quiet(item) => Quiet(item)'
    BY <1>3, <2>2 DEF KeepsAll, Keeps, Told, Quiet
  <2>4. Writing'
    BY <2>1 DEF Writing, Moved
  <2> QED
    BY <1>1, <2>1, <2>2, <2>3, <2>4, MovedKeepsVerify DEF InProgress
<1> QED
  BY <1>4, <1>5, <1>6 DEF SendUBX, DrainAndSend
(* What a frame that the exchange waits for makes of it.                     *)
Outcome(f, slot, st) ==
  \/ ex.op = "poll"  /\ slot = "poll" /\ st = "ok"
  \/ ex.op = "save"  /\ slot = "ack" /\ st \in {"ok", "nak"}
  \/ ex.op = "write" /\ slot = ex.slot /\ st \in {"nak", "mismatch"}
  \/ ex.op = "write" /\ ex.slot = "ack" /\ slot = "v0" /\ st = "send"
  \/ ex.op = "write" /\ ex.slot = "v0" /\ slot = "r0" /\ st = "send"
  \/ ex.op = "write" /\ ex.slot = "v1" /\ slot = "r1" /\ st = "send"
  \/ ex.op = "write" /\ ex.slot \in {"v0", "r0"} /\ slot = "v1" /\ st = "send"
       /\ Agrees(ex.item, f.val, ex.want)
  \/ ex.op = "write" /\ ex.slot \in {"v1", "r1"} /\ slot = ex.slot /\ st = "ok"
       /\ Agrees(ex.item, f.val, ex.want)

LEMMA VerifiedMoves ==
  ASSUME Linked, ex.op = "write", ex.slot \in {"v0", "r0", "v1", "r1"}, NEW f, ex' = Verified(f)
  PROVE  \E slot, st : Moved(slot, st) /\ Outcome(f, slot, st)
<1>1. ASSUME NEW slot, NEW st \in {"send"} \cup Results,
             ex' = [ex EXCEPT !.slot = slot, !.stage = st] \/ (ex' = [ex EXCEPT !.stage = st] /\ slot = ex.slot)
      PROVE  Moved(slot, st)
  BY <1>1 DEF Moved, Linked
<1>2. {"ok", "mismatch"} \subseteq Results
  BY DEF Results
<1> DEFINE agrees == ~f.short /\ Agrees(ex.item, f.val, ex.want)
<1>3. CASE agrees /\ ex.slot \in {"v0", "r0"}
  <2>1. ex' = [ex EXCEPT !.slot = "v1", !.stage = "send"]
    BY <1>3, Zenon DEF Verified
  <2> QED
    BY <1>1, <1>3, <2>1 DEF Outcome
<1>4. CASE agrees /\ ex.slot \in {"v1", "r1"}
  <2>1. ex' = [ex EXCEPT !.stage = "ok"]
    BY <1>4, Zenon DEF Verified
  <2> QED
    BY <1>1, <1>2, <1>4, <2>1 DEF Outcome
<1>5. CASE ~agrees /\ ex.slot = "v0"
  <2>1. ex' = [ex EXCEPT !.slot = "r0", !.stage = "send"]
    BY <1>5, Zenon DEF Verified
  <2> QED
    BY <1>1, <1>5, <2>1 DEF Outcome
<1>6. CASE ~agrees /\ ex.slot = "v1"
  <2>1. ex' = [ex EXCEPT !.slot = "r1", !.stage = "send"]
    BY <1>6, Zenon DEF Verified
  <2> QED
    BY <1>1, <1>6, <2>1 DEF Outcome
<1>7. CASE ~agrees /\ ex.slot \in {"r0", "r1"}
  <2>1. ex' = [ex EXCEPT !.stage = "mismatch"]
    BY <1>7, Zenon DEF Verified
  <2> QED
    BY <1>1, <1>2, <1>7, <2>1 DEF Outcome
<1> QED
  BY <1>3, <1>4, <1>5, <1>6, <1>7

LEMMA ReceivedMoves ==
  ASSUME Linked, InProgress, NEW f, Wanted(f), ex' = Received(f)
  PROVE  \E slot, st : Moved(slot, st) /\ Outcome(f, slot, st)
<1>1. ASSUME NEW slot, NEW st, st \in {"ok", "nak", "send"},
             \/ ex' = [ex EXCEPT !.slot = slot, !.stage = st]
             \/ ex' = [ex EXCEPT !.stage = st] /\ slot = ex.slot
             \/ ex' = [ex EXCEPT !.stage = st, !.val = f.val, !.short = f.short] /\ slot = ex.slot
      PROVE  Moved(slot, st)
  BY <1>1 DEF Moved, Linked, Results
<1>2. IF ex.slot = "ack" THEN f.kind \in {"ack", "nak"} ELSE f.kind = "data"
  BY DEF Wanted
<1>3. CASE f.kind = "nak"
  <2>1. ex' = [ex EXCEPT !.stage = "nak"]
    BY <1>3, Zenon DEF Received
  <2> QED
    BY <1>1, <1>2, <1>3, <2>1 DEF Outcome, InProgress
<1>4. CASE f.kind = "ack" /\ ex.op = "save"
  <2>1. ex' = [ex EXCEPT !.stage = "ok"]
    BY <1>4, Zenon DEF Received
  <2> QED
    BY <1>1, <1>2, <1>4, <2>1 DEF Outcome, InProgress
<1>5. CASE f.kind = "ack" /\ ex.op = "write"
  <2>1. ex' = [ex EXCEPT !.slot = "v0", !.stage = "send"]
    BY <1>5, Zenon DEF Received
  <2> QED
    BY <1>1, <1>2, <1>5, <2>1 DEF Outcome, InProgress
<1>6. CASE f.kind = "data" /\ ex.op = "poll"
  <2>1. ex' = [ex EXCEPT !.stage = "ok", !.val = f.val, !.short = f.short]
    BY <1>6, Zenon DEF Received
  <2> QED
    BY <1>1, <1>2, <1>6, <2>1 DEF Outcome, InProgress
<1>7. CASE f.kind = "data" /\ ex.op = "write"
  <2>1. ex' = Verified(f)
    BY <1>7, Zenon DEF Received
  <2> QED
    BY <1>2, <1>7, <2>1, VerifiedMoves DEF InProgress
<1> QED
  BY <1>2, <1>3, <1>4, <1>5, <1>6, <1>7 DEF InProgress

LEMMA FrameKeepsVerify ==
  ASSUME VerifyInv, RollbackInv, UNCHANGED cmdVars, WaitFrame
  PROVE  VerifyInv'
<1>1. InProgress /\ ex.stage = "wait"
  BY Exchanging DEF WaitFrame
<1>2. PipeTypes /\ Linked /\ Writing
  BY DEF VerifyInv
<1>3. /\ incoming # <<>> /\ incoming' = Tail(incoming) /\ stream' = stream
      /\ requests' = requests /\ receiver' = receiver /\ budget' = budget
  BY DEF WaitFrame, TakeFrame, linkVars
<1>4. PipeTypes' /\ KeepsAll
  BY <1>2, <1>3, TakingKeeps
<1> DEFINE f == Head(incoming)
<1>5. CASE ~Wanted(f)
  <2>1. ex' = ex
    BY <1>5 DEF WaitFrame
  <2> QED
    BY <1>4, <2>1, OthersKeepVerify DEF cmdVars
<1>6. CASE Wanted(f)
  <2>1. ex' = Received(f)
    BY <1>6 DEF WaitFrame
  <2>2. PICK slot, st : Moved(slot, st) /\ Outcome(f, slot, st)
    BY <1>1, <1>2, <1>6, <2>1, ReceivedMoves
  <2>3. PICK I : I = ex.item
    OBVIOUS
  <2>4. PICK w : w = ex.want
    OBVIOUS
  <2>5. ex.slot # "ack" => IsData(f, I)
    <3>1. incoming # <<>> /\ AnySeq(incoming) /\ \A i \in 1..Len(incoming) : incoming[i].class \in {"RAW", "bare"}
      BY <1>2, <1>3 DEF PipeTypes
    <3>2. f = incoming[1] /\ 1 \in 1..Len(incoming)
      BY <3>1, AnyTail
    <3> QED
      BY <1>6, <2>3, <3>1, <3>2 DEF Wanted, IsData
  <2>6. /\ IsData(f, I) /\ Few(I, "all") => NoneLeft(I, "all")'
        /\ IsData(f, I) /\ Few(I, "stale") =>
             NoneLeft(I, "stale")' \/ (SetsAt(I)' = {} /\ receiver'.cfg[I] = f.val)
        /\ IsData(f, I) /\ NoneLeft(I, "stale") => SetsAt(I)' = {} /\ receiver'.cfg[I] = f.val
    BY <1>2, <1>3, AnswerTaken
  <2>7. \A item \in ConfigItems : Quiet(item) => Quiet(item)'
    <3>1. SUFFICES ASSUME NEW item \in ConfigItems, Quiet(item) PROVE NoneLeft(item, "all")'
      BY DEF Quiet
    <3>2. CASE NoneLeft(item, "all")
      BY <1>4, <3>2 DEF KeepsAll, Told, Keeps
    <3>3. CASE Few(item, "all") /\ item = I /\ ex.slot # "ack"
      BY <2>5, <2>6, <3>3
    <3> QED
      BY <2>3, <3>1, <3>2, <3>3 DEF Quiet
  <2>8. Writing'
    <3>1. SUFFICES ASSUME ex.op = "write" PROVE Writing'
      BY <2>2 DEF Writing, Moved
    <3>2. ex'.item = I /\ ex'.want = w /\ ex'.slot = slot /\ ex'.stage = st
      BY <2>2, <2>3, <2>4 DEF Moved
    <3>3. Keeps(I, "stale") /\ Holds(I)
      BY <1>1, <1>4, <2>3, <3>1 DEF KeepsAll, Told, InProgress
    <3>4. Confirmed(I, w) => Confirmed(I, w)'
      BY <3>3 DEF Holds, Confirmed, Agrees
    <3>5. SetsAt(I)' = {} /\ receiver'.cfg[I] = f.val /\ Agrees(I, f.val, w) => Confirmed(I, w)'
      BY DEF Confirmed, Agrees
    <3>6. /\ ex.slot = "ack" \/ ex.slot \in {"v0", "r0"} => Few(I, "stale")
          /\ ex.slot \in {"v1", "r1"} => NoneLeft(I, "stale") \/ Confirmed(I, w)
      BY <1>1, <1>2, <2>3, <2>4, <3>1 DEF Writing
    <3> HIDE DEF f
    <3>7. Outcome(f, slot, st)
      BY <2>2
    <3>8. CASE slot = ex.slot /\ st \in {"nak", "mismatch"}
      BY <3>2, <3>8 DEF Writing
    <3>9. CASE slot \in {"v0", "r0"} /\ ex.slot \in {"ack", "v0"} /\ st = "send"
      <4>1. Few(I, "stale")'
        BY <3>3, <3>6, <3>9 DEF Keeps
      <4> QED
        BY <3>2, <3>9, <4>1 DEF Writing
    <3>10. CASE ex.slot = "v1" /\ slot = "r1" /\ st = "send"
      <4>1. NoneLeft(I, "stale")' \/ Confirmed(I, w)'
        BY <3>3, <3>4, <3>6, <3>10 DEF Keeps
      <4> QED
        BY <3>2, <3>10, <4>1 DEF Writing
    <3>11. CASE /\ ex.slot \in {"v0", "r0"} /\ slot = "v1" /\ st = "send"
                /\ Agrees(I, f.val, w)
      <4>1. NoneLeft(I, "stale")' \/ Confirmed(I, w)'
        BY <2>5, <2>6, <3>5, <3>6, <3>11
      <4> QED
        BY <3>2, <3>11, <4>1 DEF Writing
    <3>12. CASE ex.slot \in {"v1", "r1"} /\ slot = ex.slot /\ st = "ok" /\ Agrees(I, f.val, w)
      <4>1. Confirmed(I, w)'
        BY <2>5, <2>6, <3>4, <3>5, <3>6, <3>12
      <4> QED
        BY <3>2, <3>12, <4>1 DEF Writing
    <3> QED
      BY <2>3, <2>4, <3>1, <3>7, <3>8, <3>9, <3>10, <3>11, <3>12 DEF Outcome
  <2>9. /\ ex.op = "poll" => slot = "poll"
        /\ ex.op = "save" => slot = "ack"
        /\ ex.op = "write" => slot \in {"ack", "v0", "r0", "v1", "r1"}
    BY <1>1, <2>2 DEF Outcome, InProgress
  <2> QED
    BY <1>1, <1>4, <2>2, <2>7, <2>8, <2>9, MovedKeepsVerify
<1> QED
  BY <1>5, <1>6

(* The ends of a wait that are no answer.                                    *)
LEMMA GivingUpKeepsVerify ==
  ASSUME VerifyInv, RollbackInv, UNCHANGED cmdVars, WaitClosed \/ WaitContext \/ WaitDeadline
  PROVE  VerifyInv'
<1>1. InProgress /\ ex.stage = "wait"
  BY Exchanging DEF WaitClosed, WaitContext, WaitDeadline
<1>2. PipeTypes /\ Linked
  BY DEF VerifyInv
<1>3. /\ UNCHANGED clientVars /\ requests' = requests /\ receiver' = receiver
      /\ Spend \/ UNCHANGED budget
  BY DEF WaitClosed, WaitContext, WaitDeadline, linkVars
<1>4. KeepsAll
  BY <1>3, SameCfgKeeps DEF clientVars
<1>5. PipeTypes'
  <2>1. budget' \in [faults : Nat, errors : BOOLEAN, others : {0}, signals : Nat]
    BY <1>2, <1>3, SpendTypes
  <2> QED
    BY <1>2, <1>3, <2>1 DEF PipeTypes, clientVars
<1>6. PICK st \in {"gone", "late"} : ex' = [ex EXCEPT !.stage = st]
  BY DEF WaitClosed, WaitContext, WaitDeadline
<1>7. Moved(ex.slot, st)
  BY <1>2, <1>6 DEF Moved, Linked, Results
<1>8. \A item \in ConfigItems : Quiet(item) => Quiet(item)'
  <2>1. \A item : /\ Few(item, "all") => Few(item, "all")'
                  /\ NoneLeft(item, "all") => NoneLeft(item, "all")'
    BY <1>4 DEF KeepsAll, Keeps, Told
  <2> QED
    BY <1>7, <2>1 DEF Quiet, Moved
<1>9. Writing'
  BY <1>7 DEF Writing, Moved
<1> QED
  BY <1>1, <1>5, <1>7, <1>8, <1>9, MovedKeepsVerify DEF InProgress

LEMMA ExchangeKeepsVerify ==
  ASSUME VerifyInv, RollbackInv, Exchange, UNCHANGED cmdVars
  PROVE  VerifyInv'
  BY SendKeepsVerify, FrameKeepsVerify, GivingUpKeepsVerify DEF Exchange
-----------------------------------------------------------------------------
(* Between the exchanges.                                                    *)

LEMMA IdleVerify ==
  ASSUME PipeTypes', ex' = Idle,
         stage' \in {"start", "dialing"} => \A item : NoneLeft(item, "all")',
         todo' # <<>> /\ Head(todo') # "rollback" => \A item \in ConfigItems : NoneLeft(item, "all")',
         todo' # <<>> /\ Head(todo') = "rollback" => Few("TMODE", "all")'
  PROVE  VerifyInv'
<1>1. /\ DOMAIN Idle = {"op", "item", "want", "slot", "stage", "own", "shield", "val", "short"}
      /\ Idle.stage = "idle" /\ Idle.op = "none"
  BY DEF Idle
<1>2. Linked'
  BY <1>1 DEF Linked
<1>3. Writing'
  BY <1>1 DEF Writing
<1> QED
  BY <1>1, <1>2, <1>3 DEF VerifyInv, Quiet

LEMMA NoneIsFewNext == \A item, which : NoneLeft(item, which)' => Few(item, which)'
  BY DEF NoneLeft, Few, NoneIn, FewIn

(* Nothing moves on the line when a command moves on.                        *)
Still == UNCHANGED <<incoming, stream, requests, receiver, budget>>

LEMMA StillKeeps ==
  ASSUME PipeTypes, Still
  PROVE  /\ PipeTypes'
         /\ \A item, which : NoneLeft(item, which) => NoneLeft(item, which)'
         /\ \A item, which : Few(item, which) => Few(item, which)'
<1>1. PipeTypes'
  BY DEF PipeTypes, Still
<1>2. ASSUME NEW item, NEW which
      PROVE  /\ Held(incoming, item, which)' = Held(incoming, item, which)
             /\ Held(stream, item, which)' = Held(stream, item, which)
             /\ PollsAt(item, which)' = PollsAt(item, which)
  BY DEF Held, PollsAt, SetsAt, StaleVal, Still
<1> QED
  BY <1>1, <1>2 DEF NoneLeft, Few

(* A result consumed, or a wait between two polls broken off.                *)
LEMMA EndingKeepsVerify ==
  ASSUME VerifyInv, stage = "running", stage' = stage, todo # <<>>, Head(todo) # "rollback",
         Still, ex' = Idle,
         \/ todo' \in {<<>>, <<"rollback">>}
         \/ ex.stage \in {"idle", "ok"}
         \/ ex.stage = "late" /\ Head(todo) = "poll"
  PROVE  VerifyInv'
<1>1. PipeTypes /\ Linked /\ \A item \in ConfigItems : Quiet(item)
  BY DEF VerifyInv
<1>2. /\ PipeTypes'
      /\ \A item : NoneLeft(item, "all") => NoneLeft(item, "all")'
      /\ \A item : Few(item, "all") => Few(item, "all")'
  BY <1>1, StillKeeps
<1>3. Few("TMODE", "all")'
  <2>1. Few("TMODE", "all")
    BY <1>1, NoneIsFew DEF Quiet, ConfigItems
  <2> QED
    BY <1>2, <2>1
<1>4. CASE todo' \in {<<>>, <<"rollback">>}
  <2>1. todo' # <<>> => Head(todo') = "rollback"
    BY <1>4
  <2> QED
    BY <1>2, <1>3, <2>1, IdleVerify
<1>5. CASE ex.stage \in {"idle", "ok"} \/ (ex.stage = "late" /\ Head(todo) = "poll")
  <2>1. ASSUME NEW item \in ConfigItems PROVE NoneLeft(item, "all")
    <3>1. CASE ex.stage \in {"idle", "ok"}
      BY <1>1, <3>1 DEF Quiet
    <3>2. CASE ex.stage = "late" /\ Head(todo) = "poll"
      <4>1. ex.item = Asks("poll").item
        BY <1>1, <3>2 DEF Linked
      <4>2. Asks("poll").item = "SVIN"
        BY AsksShape DEF StepNames, Guarded
      <4> QED
        BY <1>1, <4>1, <4>2 DEF Quiet, ConfigItems
    <3> QED
      BY <1>5, <3>1, <3>2
  <2>2. \A item \in ConfigItems : NoneLeft(item, "all")'
    BY <1>2, <2>1
  <2> QED
    BY <1>2, <1>3, <2>2, IdleVerify
<1> QED
  BY <1>4, <1>5

LEMMA BeginKeepsVerify ==
  ASSUME VerifyInv, RollbackInv, Begin
  PROVE  VerifyInv'
<1> DEFINE step == Head(todo)
<1>1. /\ stage = "running" /\ stage' = stage /\ ex.stage = "idle" /\ todo # <<>> /\ todo' = todo
      /\ ex' = Asks(step) /\ survey'.cached = survey.cached /\ cmd' = cmd /\ Still
  <2>1. survey' = IF step = "cache" THEN [survey EXCEPT !.called = TRUE] ELSE survey
    BY DEF Begin
  <2> QED
    BY <2>1 DEF Begin, clientVars, linkVars, Still, RollbackInv, SurveyFlags, Flags
<1>2. PipeTypes /\ Linked
  BY DEF VerifyInv
<1>3. step \in StepNames
  BY <1>1, HeadIsStep
<1> HIDE DEF step
<1>4. Verbs(Asks(step)) /\ (step = "rollback" => Asks(step).op = "write" /\ Asks(step).item = "TMODE")
  BY <1>3, AsksShape
<1>5. /\ PipeTypes'
      /\ \A item : NoneLeft(item, "all") => NoneLeft(item, "all")'
      /\ \A item : Few(item, "all") => Few(item, "all")'
  BY <1>1, <1>2, StillKeeps
<1>6. step # "rollback" => \A item \in ConfigItems : NoneLeft(item, "all")
  BY <1>1 DEF VerifyInv, Quiet, step
<1>7. step = "rollback" => Few("TMODE", "all")
  BY <1>1 DEF VerifyInv, step
<1>8. Linked'
  <2>1. Asks(Head(todo))' = Asks(step)
    BY <1>1 DEF step, Asks, RestoreFrame, SetFrame
  <2>2. /\ DOMAIN ex' = {"op", "item", "want", "slot", "stage", "own", "shield", "val", "short"}
        /\ ex'.stage = "send"
        /\ ex'.op = "poll" => ex'.slot = "poll"
        /\ ex'.op = "save" => ex'.slot = "ack"
        /\ ex'.op = "write" => ex'.slot = "ack"
    BY <1>1, <1>4 DEF Verbs
  <2> QED
    BY <1>1, <2>1, <2>2 DEF Linked
<1>9. Writing'
  <2>1. PICK I : I = ex'.item
    OBVIOUS
  <2>2. SUFFICES ASSUME ex'.op = "write" PROVE Writing'
    BY DEF Writing
  <2>3. I \in ConfigItems /\ ex'.slot = "ack" /\ ex'.stage = "send" /\ (step = "rollback" => I = "TMODE")
    BY <1>1, <1>4, <2>1, <2>2 DEF Verbs
  <2>4. Few(I, "all")'
    BY <1>5, <1>6, <1>7, <2>3, NoneIsFew
  <2> QED
    BY <2>1, <2>3, <2>4 DEF Writing
<1>10. todo' # <<>> /\ Head(todo') # "rollback" => \A item \in ConfigItems : Quiet(item)'
  BY <1>1, <1>5, <1>6 DEF Quiet, step
<1>11. ex'.stage = "send"
  BY <1>1, <1>4 DEF Verbs
<1> QED
  BY <1>1, <1>5, <1>8, <1>9, <1>10, <1>11 DEF VerifyInv

LEMMA CommandKeepsVerify ==
  ASSUME VerifyInv, RollbackInv, Start \/ Open \/ Step \/ Finish
  PROVE  VerifyInv'
<1>1. PipeTypes /\ Linked
  BY DEF VerifyInv
<1>2. ex.stage = "idle" => ex = Idle
  BY <1>1 DEF Linked
<1>3. CASE Start
  <2>1. /\ stage = "start" /\ ex' = ex /\ stream' = <<>> /\ incoming' = <<>>
        /\ requests' = requests /\ receiver' = receiver /\ budget' = budget
    BY <1>3 DEF Start, Dial
  <2>2. ex = Idle /\ \A item : NoneLeft(item, "all")
    BY <2>1 DEF VerifyInv
  <2>3. PipeTypes' /\ KeepsAll
    BY <1>1, <2>1, TakingKeeps
  <2>4. \A item : NoneLeft(item, "all")'
    BY <2>2, <2>3 DEF KeepsAll, Keeps, Told
  <2> QED
    BY <2>1, <2>2, <2>3, <2>4, IdleVerify, NoneIsFewNext
<1>4. CASE Open
  <2>1. stage = "dialing" /\ ex' = ex /\ Still
    BY <1>4 DEF Open, Subscribe, Refuse, Close, linkVars, Still
  <2>2. ex = Idle /\ \A item : NoneLeft(item, "all")
    BY <2>1 DEF VerifyInv
  <2>3. PipeTypes' /\ \A item : NoneLeft(item, "all")'
    BY <1>1, <2>1, <2>2, StillKeeps
  <2> QED
    BY <2>1, <2>2, <2>3, IdleVerify, NoneIsFewNext
<1>5. CASE Finish
  <2>1. ex' = ex /\ ex.stage = "idle" /\ todo' = <<>> /\ stage' = "done" /\ Still
    BY <1>5 DEF Finish, Close, linkVars, Still
  <2>2. PipeTypes'
    BY <1>1, <2>1, StillKeeps
  <2> QED
    BY <1>2, <2>1, <2>2, IdleVerify
<1>6. CASE Begin
  BY <1>6, BeginKeepsVerify
<1>7. CASE Stop
  <2>1. /\ stage = "running" /\ stage' = stage /\ ex.stage = "idle" /\ todo # <<>> /\ Head(todo) = "poll"
        /\ ex' = ex /\ todo' \in {<<>>, <<"rollback">>} /\ Still
    BY <1>7 DEF Stop, Stopped, Fail, clientVars, linkVars, Still
  <2> QED
    BY <1>2, <2>1, EndingKeepsVerify
<1>8. CASE RolledBack
  <2>1. /\ todo' = <<>> /\ stage' = stage /\ Still
        /\ ex' = Idle \/ (ex' = ex /\ ex.stage = "idle")
    BY <1>8 DEF RolledBack, Ended, Ends, clientVars, linkVars, Still
  <2>2. stage \notin {"start", "dialing"}
    BY <1>8 DEF RolledBack, RollbackInv
  <2>3. PipeTypes'
    BY <1>1, <2>1, StillKeeps
  <2> QED
    BY <1>2, <2>1, <2>2, <2>3, IdleVerify
<1>9. CASE Broken
  <2>1. /\ stage = "running" /\ stage' = stage /\ todo # <<>> /\ Head(todo) # "rollback"
        /\ ex' = Idle /\ todo' \in {<<>>, <<"rollback">>} /\ Still
    BY <1>9 DEF Broken, Ended, Ends, Fail, clientVars, linkVars, Still
  <2> QED
    BY <2>1, EndingKeepsVerify
<1>10. CASE todo # <<>> /\ (Generation \/ Written \/ TmodeRead \/ Cached \/ Polled \/ PollMissed \/ Surveyed)
  <2>1. Head(todo) # "rollback"
    BY <1>10 DEF Generation, Written, TmodeRead, Cached, Polled, PollMissed, Surveyed
  <2>2. /\ stage = "running" /\ ex' = Idle /\ Still
        /\ ex.stage = "ok" \/ (ex.stage = "late" /\ Head(todo) = "poll")
    BY <1>10 DEF Generation, Written, TmodeRead, Cached, Polled, PollMissed, Surveyed, Ended, Ends,
                 clientVars, linkVars, Still
  <2>3. stage' = stage
    <3>1. CASE Polled
      BY <3>1, Zenon DEF Polled, Advance
    <3>2. CASE Generation \/ Written \/ TmodeRead \/ Cached \/ PollMissed \/ Surveyed
      BY <3>2 DEF Generation, Written, TmodeRead, Cached, PollMissed, Surveyed, Advance, Fail
    <3> QED
      BY <1>10, <3>1, <3>2
  <2> QED
    BY <1>10, <2>1, <2>2, <2>3, EndingKeepsVerify
<1> QED
  BY <1>3, <1>4, <1>5, <1>6, <1>7, <1>8, <1>9, <1>10 DEF Step

LEMMA VerifyInit ==
  ASSUME Alone, Init
  PROVE  VerifyInv
<1>1. PICK s \in Scenarios :
        LET cfg == [TMODE |-> [mode |-> s.mode, svin |-> "old", pos |-> "old"],
                    NAV5 |-> "portable", TP5 |-> "factory"]
        IN /\ receiver = [gen |-> s.gen, cfg |-> cfg, flash |-> cfg,
                          svin |-> IF s.mode = 1 THEN "active" ELSE "none"]
           /\ requests = s.queue /\ budget = s.budget
  BY DEF Init
<1>2. /\ incoming = <<>> /\ stream = <<>> /\ todo = <<>> /\ ex = Idle
  BY DEF Init, ClientInit
<1>3. PipeTypes
  <2>1. DOMAIN receiver = {"gen", "cfg", "flash", "svin"} /\ DOMAIN receiver.cfg = ConfigItems
    BY <1>1 DEF ConfigItems
  <2>2. AnySeq(requests)
    BY <1>1, ScenarioAssumption DEF AnySeq
  <2>3. budget \in [faults : Nat, errors : BOOLEAN, others : {0}, signals : Nat]
    BY <1>1, ScenarioAssumption DEF Alone
  <2> QED
    BY <1>2, <2>1, <2>2, <2>3, AnyEmpty DEF PipeTypes
<1>4. ASSUME NEW item PROVE NoneLeft(item, "all")
  <2>1. \A i \in 1..Len(requests) : requests[i].kind # "poll"
    BY <1>1 DEF Alone
  <2>2. PollsAt(item, "all") = {}
    BY <2>1 DEF PollsAt, IsPoll
  <2> QED
    BY <1>2, <2>2, HeldEmpty DEF NoneLeft, NoneIn
<1>5. /\ DOMAIN Idle = {"op", "item", "want", "slot", "stage", "own", "shield", "val", "short"}
      /\ Idle.stage = "idle" /\ Idle.op = "none"
  BY DEF Idle
<1>6. Linked /\ Writing
  BY <1>2, <1>5 DEF Linked, Writing
<1> QED
  BY <1>2, <1>3, <1>4, <1>6 DEF VerifyInv

LEMMA VerifyStep ==
  ASSUME VerifyInv, RollbackInv, [Next]_vars
  PROVE  VerifyInv'
<1>1. PipeTypes
  BY DEF VerifyInv
<1>2. CASE Start \/ Open \/ Step \/ Finish
  BY <1>2, CommandKeepsVerify
<1>3. CASE Exchange /\ UNCHANGED cmdVars
  BY <1>3, ExchangeKeepsVerify
<1>4. CASE ReadLoop /\ UNCHANGED <<linkVars, ex, ctxVars, cmdVars>>
  BY <1>1, <1>4, ReaderKeeps, OthersKeepVerify DEF cmdVars
<1>5. CASE Environment /\ UNCHANGED cmdVars
  <2>1. ex' = ex
    BY <1>5 DEF Environment, Serve, Misserve, Converge, OtherPolls, OtherReceiver, Greet, Complain, Drop
  <2> QED
    BY <1>1, <1>5, <2>1, EnvironmentKeeps, OthersKeepVerify DEF cmdVars
<1>6. CASE Interrupt \/ Expire \/ UNCHANGED vars
  <2>1. /\ requests' = requests /\ incoming' = incoming /\ stream' = stream /\ receiver' = receiver
        /\ UNCHANGED <<ex, cmdVars>>
    BY <1>6 DEF Interrupt, Expire, clientVars, linkVars, vars
  <2>2. budget' = budget \/ (budget.signals > 0 /\ budget' = [budget EXCEPT !.signals = @ - 1])
    BY <1>6 DEF Interrupt, Expire, linkVars, vars
  <2>3. budget' \in [faults : Nat, errors : BOOLEAN, others : {0}, signals : Nat]
    BY <1>1, <2>2 DEF PipeTypes
  <2>4. PipeTypes'
    BY <1>1, <2>1, <2>3 DEF PipeTypes
  <2> QED
    BY <2>1, <2>4, SameCfgKeeps, OthersKeepVerify DEF cmdVars
<1> QED
  BY <1>2, <1>3, <1>4, <1>5, <1>6 DEF Next, World, Command_

(* A verified write is in force, when no other program polls and nothing of  *)
(* an earlier command's is left to answer: not for any loss, late answer or  *)
(* other fault, of which there may be any number (surveyin.go,               *)
(* WriteAndVerify). The runs check it with other programs' polls, too, in    *)
(* small numbers.                                                            *)
THEOREM WritesAreVerified ==
  ASSUME Alone
  PROVE  Spec => VerifiedInForce
<1>1. ASSUME VerifyInv, RollbackInv, Exchange, UNCHANGED cmdVars, ex.op = "write", ex'.stage = "ok"
      PROVE  ex'.op = ex.op /\ ex'.item = ex.item /\ ex'.want = ex.want
  <2>1. ex.stage # "idle"
    BY <1>1 DEF Exchange, SendUBX, WaitFrame, WaitClosed, WaitContext, WaitDeadline
  <2>2. Linked /\ InProgress
    BY <1>1, <2>1, Exchanging DEF VerifyInv
  <2>3. CASE WaitFrame /\ Wanted(Head(incoming))
    BY <2>2, <2>3, ReceivedMoves DEF WaitFrame, Moved
  <2>4. CASE WaitFrame /\ ~Wanted(Head(incoming))
    BY <2>4 DEF WaitFrame
  <2>5. CASE SendUBX \/ WaitClosed \/ WaitContext \/ WaitDeadline
    BY <2>2, <2>5 DEF Linked, SendUBX, WaitClosed, WaitContext, WaitDeadline
  <2> QED
    BY <1>1, <2>3, <2>4, <2>5 DEF Exchange
<1>2. ASSUME VerifyInv, RollbackInv, Start \/ Open \/ Step \/ Finish, ex.op = "write", ex'.stage = "ok"
      PROVE  ex' = ex
  <2>1. Idle.stage # "ok"
    BY DEF Idle
  <2>2. CASE Begin
    <3>1. ex' = Asks(Head(todo)) /\ Head(todo) \in StepNames
      BY <1>2, <2>2, HeadIsStep DEF Begin
    <3> QED
      BY <1>2, <3>1, AsksShape DEF Verbs
  <2>3. CASE Start \/ Open \/ Finish
    BY <2>3 DEF Start, Open, Finish
  <2>4. CASE Step /\ ~Begin
    BY <1>2, <2>1, <2>4 DEF Step, Stop, Broken, RolledBack, Generation, Written, TmodeRead, Cached,
                            Polled, PollMissed, Surveyed, Ended, Ends
  <2> QED
    BY <1>2, <2>2, <2>3, <2>4
<1>3. ASSUME [Next]_vars, ~(Start \/ Open \/ Step \/ Finish), ~Exchange
      PROVE  ex' = ex
  BY <1>3 DEF Next, World, Command_, Interrupt, Expire, vars, Environment, Serve, Misserve, Converge,
              OtherPolls, OtherReceiver, Greet, Complain, Drop
<1>4. ASSUME VerifyInv, RollbackInv, [Next]_vars, ex.op = "write", ex'.stage = "ok"
      PROVE  Agrees(ex.item, receiver'.cfg[ex.item], ex.want)
  <2>1. ex'.op = ex.op /\ ex'.item = ex.item /\ ex'.want = ex.want
    <3>1. CASE Exchange /\ UNCHANGED cmdVars
      BY <1>1, <1>4, <3>1
    <3>2. CASE Start \/ Open \/ Step \/ Finish
      BY <1>2, <1>4, <3>2
    <3>3. CASE ~Exchange /\ ~(Start \/ Open \/ Step \/ Finish)
      BY <1>3, <1>4, <3>3
    <3>4. CASE Exchange /\ ~UNCHANGED cmdVars /\ ~(Start \/ Open \/ Step \/ Finish)
      <4>1. (ReadLoop /\ UNCHANGED ex) \/ Environment \/ Interrupt \/ Expire
        BY <1>4, <3>4 DEF Next, World, Command_, vars, cmdVars
      <4>2. ex' = ex
        BY <4>1 DEF Interrupt, Expire, Environment, Serve, Misserve, Converge, OtherPolls, OtherReceiver,
                    Greet, Complain, Drop
      <4> QED
        BY <4>2
    <3> QED
      BY <3>1, <3>2, <3>3, <3>4
  <2>2. VerifyInv'
    BY <1>4, VerifyStep
  <2>3. Agrees(ex.item, receiver.cfg[ex.item], ex.want)'
    BY <1>4, <2>1, <2>2 DEF VerifyInv, Writing, Confirmed
  <2> QED
    BY <2>1, <2>3 DEF Agrees
<1>5. VerifyInv /\ RollbackInv /\ [Next]_vars =>
        [ex.op = "write" /\ ex'.stage = "ok" => Agrees(ex.item, receiver'.cfg[ex.item], ex.want)]_vars
  BY <1>4
<1>6. Init => VerifyInv /\ RollbackInv
  BY VerifyInit, RollbackInit
<1>7. VerifyInv /\ RollbackInv /\ [Next]_vars => VerifyInv' /\ RollbackInv'
  BY VerifyStep, RollbackStep
<1> QED
  BY <1>5, <1>6, <1>7, PTL DEF Spec, VerifiedInForce
-----------------------------------------------------------------------------
(* The order of the steps: every command has its steps in this one.          *)
Place == [version |-> 1, nav5 |-> 2, tp5 |-> 3, tmode |-> 4, cache |-> 5, config |-> 6, poll |-> 7,
          svin |-> 8, fix |-> 9, set |-> 10, save |-> 11, rollback |-> 12]

InOrder(s) ==
  /\ s \in Seq(StepNames)
  /\ \A i, j \in 1..Len(s) : i < j => Place[s[i]] < Place[s[j]]
Within(s, lo, hi) == InOrder(s) /\ \A i \in 1..Len(s) : lo <= Place[s[i]] /\ Place[s[i]] <= hi

LEMMA PlaceIsNat == \A x \in StepNames : Place[x] \in 1..12
  BY DEF Place, StepNames, Plain, Guarded

LEMMA WithinConcat ==
  ASSUME NEW s, NEW t, NEW a \in Nat, NEW b \in Nat, NEW c \in Nat, NEW d \in Nat,
         Within(s, a, b), Within(t, c, d), a <= c, b < c, b <= d
  PROVE  Within(s \o t, a, d)
<1> DEFINE u == s \o t
<1>1. s \in Seq(StepNames) /\ t \in Seq(StepNames) /\ Len(s) \in Nat /\ Len(t) \in Nat
  BY DEF Within, InOrder
<1>2. u \in Seq(StepNames) /\ Len(u) = Len(s) + Len(t)
      /\ \A i \in 1..(Len(s) + Len(t)) : u[i] = IF i <= Len(s) THEN s[i] ELSE t[i - Len(s)]
  BY <1>1, ConcatProperties
<1> HIDE DEF u
<1>3. \A i \in 1..Len(u) : \/ i \in 1..Len(s) /\ u[i] = s[i]
                           \/ i - Len(s) \in 1..Len(t) /\ u[i] = t[i - Len(s)] /\ i > Len(s)
  BY <1>1, <1>2
<1>4. /\ \A i \in 1..Len(s) : Place[s[i]] \in Nat /\ a <= Place[s[i]] /\ Place[s[i]] <= b
      /\ \A i \in 1..Len(t) : Place[t[i]] \in Nat /\ c <= Place[t[i]] /\ Place[t[i]] <= d
  <2>1. (\A i \in 1..Len(s) : s[i] \in StepNames) /\ \A i \in 1..Len(t) : t[i] \in StepNames
    BY <1>1
  <2>2. \A x \in StepNames : Place[x] \in Nat
    BY PlaceIsNat
  <2>3. /\ \A i \in 1..Len(s) : a <= Place[s[i]] /\ Place[s[i]] <= b
        /\ \A i \in 1..Len(t) : c <= Place[t[i]] /\ Place[t[i]] <= d
    BY DEF Within
  <2> QED
    BY <2>1, <2>2, <2>3
<1>5. \A i \in 1..Len(u) : a <= Place[u[i]] /\ Place[u[i]] <= d
  <2>1. SUFFICES ASSUME NEW i \in 1..Len(u) PROVE a <= Place[u[i]] /\ Place[u[i]] <= d
    OBVIOUS
  <2>2. CASE i \in 1..Len(s) /\ u[i] = s[i]
    <3>1. a <= Place[s[i]] /\ Place[s[i]] <= b /\ Place[s[i]] \in Nat
      BY <1>4, <2>2
    <3> QED
      BY <2>2, <3>1
  <2>3. CASE i - Len(s) \in 1..Len(t) /\ u[i] = t[i - Len(s)]
    <3>1. c <= Place[t[i - Len(s)]] /\ Place[t[i - Len(s)]] <= d /\ Place[t[i - Len(s)]] \in Nat
      BY <1>4, <2>3
    <3> QED
      BY <2>3, <3>1
  <2> QED
    BY <1>3, <2>2, <2>3
<1>6. ASSUME NEW i \in 1..Len(u), NEW j \in 1..Len(u), i < j
      PROVE  Place[u[i]] < Place[u[j]]
  <2>1. CASE i \in 1..Len(s) /\ j \in 1..Len(s) /\ u[i] = s[i] /\ u[j] = s[j]
    BY <1>6, <2>1 DEF Within, InOrder
  <2>2. CASE i \in 1..Len(s) /\ u[i] = s[i] /\ j - Len(s) \in 1..Len(t) /\ u[j] = t[j - Len(s)]
    <3>1. Place[u[i]] \in Nat /\ Place[u[i]] <= b
      BY <1>4, <2>2
    <3>2. Place[u[j]] \in Nat /\ c <= Place[u[j]]
      BY <1>4, <2>2
    <3> QED
      BY <3>1, <3>2
  <2>3. CASE /\ i - Len(s) \in 1..Len(t) /\ u[i] = t[i - Len(s)]
             /\ j - Len(s) \in 1..Len(t) /\ u[j] = t[j - Len(s)]
    <3>1. i - Len(s) < j - Len(s)
      BY <1>1, <1>6, <2>3
    <3> QED
      BY <2>3, <3>1 DEF Within, InOrder
  <2> QED
    BY <1>1, <1>3, <1>6, <2>1, <2>2, <2>3
<1> QED
  BY <1>2, <1>5, <1>6 DEF Within, InOrder, u

LEMMA OrderTail ==
  ASSUME NEW s, InOrder(s), s # <<>>
  PROVE  InOrder(Tail(s)) /\ \A i \in 1..Len(Tail(s)) : i + 1 \in 2..Len(s) /\ Tail(s)[i] = s[i + 1]
<1>1. /\ Len(s) \in Nat \ {0} /\ Tail(s) \in Seq(StepNames) /\ Len(Tail(s)) = Len(s) - 1
      /\ \A i \in 1..Len(Tail(s)) : Tail(s)[i] = s[i + 1]
  BY HeadTailProperties DEF InOrder
<1>2. \A i \in 1..Len(Tail(s)) : i + 1 \in 2..Len(s) /\ i + 1 \in 1..Len(s)
  BY <1>1
<1>3. ASSUME NEW i \in 1..Len(Tail(s)), NEW j \in 1..Len(Tail(s)), i < j
      PROVE  Place[Tail(s)[i]] < Place[Tail(s)[j]]
  <2>1. i + 1 < j + 1
    BY <1>3
  <2> QED
    BY <1>1, <1>2, <2>1 DEF InOrder
<1> QED
  BY <1>1, <1>2, <1>3 DEF InOrder

LEMMA StepsInOrder ==
  ASSUME cmd.name \in Names
  PROVE  InOrder(Steps) /\ InOrder(Save) /\ InOrder(<<>>) /\ InOrder(<<"rollback">>)
<1>1. StepNames = DOMAIN Place
  BY DEF StepNames, Plain, Guarded, Place
<1>2. \A i \in 1..4 : i = 1 \/ i = 2 \/ i = 3 \/ i = 4
  OBVIOUS
<1>3. ASSUME NEW x \in StepNames PROVE Within(<<x>>, Place[x], Place[x])
  <2>1. <<x>> \in Seq(StepNames) /\ Len(<<x>>) = 1 /\ <<x>>[1] = x /\ Place[x] \in Nat
    BY PlaceIsNat
  <2> QED
    BY <2>1 DEF Within, InOrder
<1>4. ASSUME NEW x \in StepNames, NEW y \in StepNames, Place[x] < Place[y]
      PROVE  Within(<<x, y>>, Place[x], Place[y])
  <2> DEFINE s == <<x, y>>
  <2>1. s \in Seq(StepNames) /\ Len(s) = 2 /\ s[1] = x /\ s[2] = y
    OBVIOUS
  <2>2. Place[x] \in Nat /\ Place[y] \in Nat
    BY PlaceIsNat
  <2>3. \A i \in 1..2 : i = 1 \/ i = 2
    OBVIOUS
  <2> HIDE DEF s
  <2>4. Within(s, Place[x], Place[y])
    BY <1>4, <2>1, <2>2, <2>3 DEF Within, InOrder
  <2> QED
    BY <2>4 DEF s
<1>5. /\ {"version", "nav5", "tp5", "tmode", "cache", "config", "poll", "svin", "fix", "set", "save", "rollback"}
           \subseteq StepNames
      /\ Place["version"] = 1 /\ Place["nav5"] = 2 /\ Place["tp5"] = 3 /\ Place["tmode"] = 4
      /\ Place["cache"] = 5 /\ Place["config"] = 6 /\ Place["poll"] = 7 /\ Place["svin"] = 8
      /\ Place["fix"] = 9 /\ Place["set"] = 10 /\ Place["save"] = 11 /\ Place["rollback"] = 12
  BY <1>1 DEF Place
<1>6. /\ Within(<<"version">>, 1, 1) /\ Within(<<"nav5">>, 2, 2) /\ Within(<<"tp5">>, 3, 3)
      /\ Within(<<"save">>, 11, 11) /\ Within(<<"rollback">>, 12, 12)
  BY <1>3, <1>5
<1>7. /\ Within(<<"version", "tmode">>, 1, 4) /\ Within(<<"version", "set">>, 1, 10)
      /\ Within(<<"svin", "fix">>, 8, 9)
  BY <1>4, <1>5
<1>8. \A lo, hi : Within(<<>>, lo, hi)
  BY DEF Within, InOrder
<1>9. Within(Save, 11, 11)
  BY <1>6, <1>8 DEF Save
<1>10. Within(SurveyIn, 5, 7)
  <2>1. /\ SurveyIn \in Seq(StepNames) /\ Len(SurveyIn) = 3
        /\ SurveyIn[1] = "cache" /\ SurveyIn[2] = "config" /\ SurveyIn[3] = "poll"
    BY <1>5 DEF SurveyIn
  <2>2. \A i \in 1..3 : i = 1 \/ i = 2 \/ i = 3
    OBVIOUS
  <2> QED
    BY <1>5, <2>1, <2>2 DEF Within, InOrder
<1>11. Within(<<"version", "nav5", "tp5", "tmode">>, 1, 4)
  <2> DEFINE s == <<"version", "nav5", "tp5", "tmode">>
  <2>1. s \in Seq(StepNames) /\ Len(s) = 4 /\ s[1] = "version" /\ s[2] = "nav5" /\ s[3] = "tp5" /\ s[4] = "tmode"
    BY <1>5
  <2> HIDE DEF s
  <2>2. Within(s, 1, 4)
    BY <1>2, <1>5, <2>1 DEF Within, InOrder
  <2> QED
    BY <2>2 DEF s
<1>12. Within(<<"version", "svin", "fix">>, 1, 9)
  <2> DEFINE s == <<"version", "svin", "fix">>
  <2>1. s \in Seq(StepNames) /\ Len(s) = 3 /\ s[1] = "version" /\ s[2] = "svin" /\ s[3] = "fix"
    BY <1>5
  <2>2. \A i \in 1..3 : i = 1 \/ i = 2 \/ i = 3
    OBVIOUS
  <2> HIDE DEF s
  <2>3. Within(s, 1, 9)
    BY <1>5, <2>1, <2>2 DEF Within, InOrder
  <2> QED
    BY <2>3 DEF s
<1>13. /\ Within(runVersion, 1, 1) /\ Within(runTmodeShow, 1, 4) /\ Within(runFixedShow, 1, 4)
       /\ Within(runTmodeSet, 1, 10) /\ Within(runSave, 11, 11)
  BY <1>6, <1>7 DEF runVersion, runTmodeShow, runFixedShow, runTmodeSet, runSave
<1>14. /\ Within(runConfigureStationary, 2, 11) /\ Within(runConfigurePPS, 3, 11)
       /\ Within(runFixedFromSVIN, 1, 11) /\ Within(runFixedSet, 1, 11)
  BY <1>6, <1>7, <1>9, <1>12, WithinConcat
     DEF runConfigureStationary, runConfigurePPS, runFixedFromSVIN, runFixedSet
<1>15. Within(runSurveyIn, 1, 7)
  BY <1>6, <1>10, WithinConcat DEF runSurveyIn
<1>16. Within(runDeploy, 1, 11)
  <2>1. Within(<<"version", "nav5", "tp5", "tmode">> \o SurveyIn, 1, 7)
    BY <1>10, <1>11, WithinConcat
  <2>2. Within(<<"version", "nav5", "tp5", "tmode">> \o SurveyIn \o <<"svin", "fix">>, 1, 9)
    BY <1>7, <2>1, WithinConcat
  <2> QED
    BY <1>9, <2>2, WithinConcat DEF runDeploy
<1>17. InOrder(Steps)
  BY <1>13, <1>14, <1>15, <1>16, Zenon DEF Steps, Names, Within
<1> QED
  BY <1>6, <1>8, <1>9, <1>17 DEF Within
-----------------------------------------------------------------------------
(* Only a request adds to what is outstanding.                               *)

LEMMA CommandIsStill == Open \/ Step \/ Finish => Still
<1>1. Open => Still
  BY DEF Open, Subscribe, Refuse, Close, linkVars, Still
<1>2. Finish \/ Begin \/ Stop => Still
  BY DEF Finish, Begin, Stop, Close, clientVars, linkVars, Still
<1>3. RolledBack \/ Broken => Still
  BY DEF RolledBack, Broken, Ended, Ends, clientVars, linkVars, Still
<1>4. Generation \/ Written \/ TmodeRead \/ Cached \/ Polled \/ PollMissed \/ Surveyed => Still
  BY DEF Generation, Written, TmodeRead, Cached, Polled, PollMissed, Surveyed, Ended, Ends,
         clientVars, linkVars, Still
<1> QED
  BY <1>1, <1>2, <1>3, <1>4 DEF Step

LEMMA AllButSending ==
  ASSUME VerifyInv, RollbackInv, [Next]_vars, ~SendUBX
  PROVE  KeepsAll
<1>1. PipeTypes
  BY DEF VerifyInv
<1>2. CASE Still
  BY <1>2, SameCfgKeeps DEF Still
<1>3. CASE Start
  BY <1>1, <1>3, TakingKeeps DEF Start, Dial
<1>4. CASE Open \/ Step \/ Finish
  BY <1>2, <1>4, CommandIsStill
<1>5. CASE WaitFrame
  BY <1>1, <1>5, TakingKeeps DEF WaitFrame, TakeFrame, linkVars
<1>6. CASE WaitClosed \/ WaitContext \/ WaitDeadline
  BY <1>6, SameCfgKeeps DEF WaitClosed, WaitContext, WaitDeadline, clientVars, linkVars
<1>7. CASE ReadLoop /\ UNCHANGED <<linkVars, ex, ctxVars, cmdVars>>
  BY <1>1, <1>7, ReaderKeeps
<1>8. CASE Environment
  BY <1>1, <1>8, EnvironmentKeeps
<1>9. CASE Interrupt \/ Expire \/ UNCHANGED vars
  BY <1>9, SameCfgKeeps DEF Interrupt, Expire, clientVars, linkVars, vars
<1> QED
  BY <1>3, <1>4, <1>5, <1>6, <1>7, <1>8, <1>9 DEF Next, World, Command_, Exchange

(* The frames that are on their way, and what may be added to them.          *)
Elements(s) == {s[i] : i \in 1..Len(s)}
Frames == {f \in Elements(incoming) \cup Elements(stream) : f.class \in {"RAW", "bare"}}

LEMMA ElementsOf ==
  ASSUME NEW s, AnySeq(s)
  PROVE  /\ s # <<>> => Elements(Tail(s)) \subseteq Elements(s) /\ Head(s) \in Elements(s)
         /\ Elements(<<>>) = {}
         /\ \A f : Elements(Append(s, f)) \subseteq Elements(s) \cup {f}
         /\ \A t : AnySeq(t) => Elements(s \o t) \subseteq Elements(s) \cup Elements(t)
<1>1. s # <<>> => Elements(Tail(s)) \subseteq Elements(s) /\ Head(s) \in Elements(s)
  BY AnyTail DEF Elements
<1>2. Elements(<<>>) = {}
  BY DEF Elements
<1>3. ASSUME NEW f PROVE Elements(Append(s, f)) \subseteq Elements(s) \cup {f}
  <2>1. /\ Len(s) \in Nat /\ Len(Append(s, f)) = Len(s) + 1
        /\ \A j \in 1..Len(s) : Append(s, f)[j] = s[j]
        /\ Append(s, f)[Len(s) + 1] = f
    BY AnyAppend
  <2>2. \A i \in 1..Len(Append(s, f)) : i \in 1..Len(s) \/ i = Len(s) + 1
    BY <2>1
  <2> QED
    BY <2>1, <2>2 DEF Elements
<1>4. ASSUME NEW t, AnySeq(t) PROVE Elements(s \o t) \subseteq Elements(s) \cup Elements(t)
  <2>1. /\ Len(s) \in Nat /\ Len(t) \in Nat /\ Len(s \o t) = Len(s) + Len(t)
        /\ \A i \in 1..Len(s) : (s \o t)[i] = s[i]
        /\ \A i \in 1..Len(t) : (s \o t)[Len(s) + i] = t[i]
    BY <1>4, AnyConcat
  <2>2. \A i \in 1..Len(s \o t) : i \in 1..Len(s) \/ \E j \in 1..Len(t) : i = Len(s) + j
    <3>1. SUFFICES ASSUME NEW i \in 1..Len(s \o t), i \notin 1..Len(s)
          PROVE  \E j \in 1..Len(t) : i = Len(s) + j
      OBVIOUS
    <3>2. i - Len(s) \in 1..Len(t) /\ i = Len(s) + (i - Len(s))
      BY <2>1, <3>1
    <3> QED
      BY <3>2
  <2>3. \A i \in 1..Len(s \o t) : (s \o t)[i] \in Elements(s) \cup Elements(t)
    BY <2>1, <2>2 DEF Elements
  <2> QED
    BY <2>3 DEF Elements
<1> QED
  BY <1>1, <1>2, <1>3, <1>4

(* Every step serves a request, or adds no frame and changes the receiver    *)
(* only by the convergence of its survey.                                    *)
NoNews ==
  /\ Frames' \subseteq Frames
  /\ receiver' = receiver \/ (Converge /\ receiver' = [receiver EXCEPT !.svin = "valid"])
  /\ requests' = requests \/ (SendUBX /\ requests' = Append(requests, Request))

LEMMA NewsIsServed ==
  ASSUME VerifyInv, RollbackInv, [Next]_vars
  PROVE  NoNews \/ Serve \/ Misserve
<1>1. PipeTypes
  BY DEF VerifyInv
<1>2. AnySeq(incoming) /\ AnySeq(stream)
  BY <1>1 DEF PipeTypes
<1>3. CASE Still
  BY <1>3 DEF Still, NoNews, Frames
<1>4. CASE Start
  BY <1>2, <1>4, ElementsOf DEF Start, Dial, NoNews, Frames
<1>5. CASE Open \/ Step \/ Finish
  BY <1>3, <1>5, CommandIsStill
<1>6. CASE SendUBX
  <2>1. /\ incoming' = <<>> \/ incoming' = incoming
        /\ stream' = stream /\ receiver' = receiver
        /\ requests' = requests \/ requests' = Append(requests, Request)
    BY <1>6 DEF SendUBX, DrainAndSend, clientVars
  <2> QED
    BY <1>2, <1>6, <2>1, ElementsOf DEF NoNews, Frames
<1>7. CASE WaitFrame
  <2>1. /\ incoming # <<>> /\ incoming' = Tail(incoming) /\ stream' = stream
        /\ receiver' = receiver /\ requests' = requests
    BY <1>7 DEF WaitFrame, TakeFrame, linkVars
  <2> QED
    BY <1>2, <2>1, ElementsOf DEF NoNews, Frames
<1>8. CASE WaitClosed \/ WaitContext \/ WaitDeadline
  BY <1>8 DEF WaitClosed, WaitContext, WaitDeadline, clientVars, linkVars, NoNews, Frames
<1>9. CASE ReadLoop /\ UNCHANGED <<linkVars, ex, ctxVars, cmdVars>>
  <2>1. receiver' = receiver /\ requests' = requests
    BY <1>9 DEF linkVars
  <2>2. CASE ReadRaw \/ ReadBareHex
    <3>1. /\ stream # <<>> /\ stream' = Tail(stream)
          /\ incoming' = incoming \/ incoming' = Append(incoming, Head(stream))
      BY <2>2 DEF ReadRaw, ReadBareHex, Reads, Dispatch
    <3>2. Elements(stream') \subseteq Elements(stream) /\ Head(stream) \in Elements(stream)
      BY <1>2, <3>1, ElementsOf
    <3>3. Elements(incoming') \subseteq Elements(incoming) \cup {Head(stream)}
      BY <1>2, <3>1, ElementsOf
    <3> QED
      BY <2>1, <3>2, <3>3 DEF NoNews, Frames
  <2>3. CASE ReadDevices \/ ReadDevice \/ ReadReport \/ ReadError \/ LeaveLoop \/ CloseSubs \/ ReleaseDial \/ CloseConn
    <3>1. /\ incoming' = incoming
          /\ \/ stream' = stream \/ stream' = <<>> \/ (stream # <<>> /\ stream' = Tail(stream))
      <4>1. CASE ReadDevices \/ ReadDevice \/ ReadReport \/ ReadError
        BY <4>1 DEF ReadDevices, ReadDevice, ReadReport, ReadError, Reads
      <4>2. CASE LeaveLoop \/ CloseSubs \/ ReleaseDial \/ CloseConn
        BY <4>2 DEF LeaveLoop, CloseSubs, ReleaseDial, CloseConn
      <4> QED
        BY <2>3, <4>1, <4>2
    <3>2. Elements(stream') \subseteq Elements(stream)
      BY <1>2, <3>1, ElementsOf
    <3> QED
      BY <2>1, <3>1, <3>2 DEF NoNews, Frames
  <2> QED
    BY <1>9, <2>2, <2>3 DEF ReadLoop
<1>10. CASE Converge
  <2>1. incoming' = incoming /\ stream' = stream /\ requests' = requests
    BY <1>10 DEF Converge, clientVars
  <2> QED
    BY <1>10, <2>1 DEF Converge, NoNews, Frames
<1>11. CASE Greet \/ Complain \/ Drop
  <2>1. requests' = requests /\ receiver' = receiver
    BY <1>11 DEF Greet, Complain, Drop
  <2>2. PICK m : m.class \notin {"RAW", "bare"} /\ GpsdSends(<<m>>)
    BY <1>11, NoticeSent
  <2>3. incoming' = incoming /\ stream' = stream \o <<m>>
    BY <2>2 DEF GpsdSends
  <2>4. Elements(stream') \subseteq Elements(stream) \cup {m}
    <3> DEFINE t == <<m>>
    <3>1. t \in Seq({m}) /\ Len(t) = 1 /\ t[1] = m /\ \A i \in 1..1 : i = 1
      OBVIOUS
    <3>2. stream' = stream \o t
      BY <2>3
    <3> HIDE DEF t
    <3>3. AnySeq(t) /\ Elements(t) \subseteq {m}
      BY <3>1 DEF AnySeq, Elements
    <3>4. Elements(stream \o t) \subseteq Elements(stream) \cup Elements(t)
      BY <1>2, <3>3, ElementsOf
    <3> QED
      BY <3>2, <3>3, <3>4
  <2> QED
    BY <2>1, <2>2, <2>3, <2>4 DEF NoNews, Frames
<1>12. ~OtherPolls /\ ~OtherReceiver
  BY <1>1 DEF PipeTypes, OtherPolls, OtherReceiver
<1>13. CASE Interrupt \/ Expire \/ UNCHANGED vars
  BY <1>13 DEF Interrupt, Expire, clientVars, linkVars, vars, NoNews, Frames
<1> QED
  BY <1>4, <1>5, <1>6, <1>7, <1>8, <1>9, <1>10, <1>11, <1>12, <1>13
     DEF Next, World, Command_, Exchange, Environment
(* What the receiver's answers say.                                          *)
LEMMA ServedFrames ==
  ASSUME PipeTypes, Serve \/ Misserve
  PROVE  /\ requests # <<>> /\ requests' = Tail(requests)
         /\ receiver' = receiver \/ receiver' = Applied(Head(requests))
         /\ \A f \in Frames' : f \notin Frames =>
              /\ f.kind = "data" => /\ Head(requests).kind = "poll" /\ f.item = Head(requests).item
                                    /\ f.val = Setting(f.item)
              /\ f.kind = "ack" => /\ f.item = Head(requests).item
                                   /\ Head(requests).kind = "poll" \/ receiver' = Applied(Head(requests))
<1>1. PICK msgs : Served(msgs)
  BY ServeIsServed
<1>2. AnySeq(stream) /\ AnySeq(msgs)
  BY <1>1 DEF PipeTypes, Served
<1>3. Elements(stream') \subseteq Elements(stream) \cup Elements(msgs) /\ incoming' = incoming
  BY <1>1, <1>2, ElementsOf DEF Served
<1>4. ASSUME NEW f \in Frames', f \notin Frames PROVE \E i \in 1..Len(msgs) : f = msgs[i]
  BY <1>3, <1>4 DEF Frames, Elements
<1> QED
  BY <1>1, <1>4 DEF Served
-----------------------------------------------------------------------------
(* The survey. Until it is polled nobody asked for its state, so what is     *)
(* then answered is of the configuration that was written and verified; and  *)
(* a survey that was valid under it stays so.                                *)

PollComing == \E i \in 2..Len(todo) : todo[i] = "poll"

SvinTold ==
  /\ \A f \in Frames : f.kind = "data" /\ f.item = "SVIN" /\ f.val = "valid" => receiver.svin = "valid"
  /\ ex.op = "poll" /\ ex.stage = "ok" /\ ex.val = "valid" => receiver.svin = "valid"

SurveyInv ==
  /\ InOrder(todo)
  /\ PollComing => NoneLeft("SVIN", "all")
  /\ todo # <<>> /\ Head(todo) = "poll" => Confirmed("TMODE", SurveyInFrame) /\ SvinTold

\* What becomes of the steps to do.
TodoMoves ==
  \/ todo' = todo /\ ex' = ex
  \/ todo' = todo /\ ex.stage = "idle" /\ ex' = Asks(Head(todo))
  \/ todo' = todo /\ todo # <<>> /\ Head(todo) = "poll" /\ ex' = Idle
  \/ /\ todo # <<>> /\ todo' = Tail(todo) /\ stage = "running" /\ ex.stage = "ok" /\ ex' = Idle
     /\ Head(todo) # "rollback"
     /\ Head(todo) = "poll" => ex.val = "valid"
  \/ /\ todo # <<>> /\ Head(todo) = "tmode" /\ ex.stage = "ok" /\ ex' = Idle
     /\ cmd.name = "deploy" /\ ex.val.mode = 2 /\ todo' = Save
  \/ /\ todo' \in {<<>>, <<"rollback">>}
     /\ err' # "none" \/ (todo # <<>> /\ Head(todo) = "rollback") \/ (Has("ephemeral") /\ todo' = <<"rollback">>)
  \/ stage = "dialing" /\ todo' = Steps

LEMMA CommandMoves ==
  ASSUME Start \/ Open \/ Step \/ Finish
  PROVE  TodoMoves
<1>1. CASE Start \/ Finish \/ Begin
  BY <1>1 DEF Start, Finish, Begin, TodoMoves
<1>2. CASE Open
  <2>1. todo' = todo \/ (stage = "dialing" /\ todo' = Steps)
    BY <1>2 DEF Open, Refuse
  <2> QED
    BY <1>2, <2>1 DEF Open, TodoMoves
<1>3. ASSUME NEW cause, cause # "none", Fail(cause) PROVE TodoMoves
  BY <1>3 DEF Fail, TodoMoves
<1>4. Cause # "none"
  BY DEF Cause
<1>5. CASE Stop \/ Broken \/ RolledBack
  <2>1. CASE Stop
    BY <1>3, <1>4, <2>1 DEF Stop
  <2>2. CASE Broken
    <3>1. PICK cause : cause \in {Cause, "other"} /\ Fail(cause)
      BY <2>2 DEF Broken
    <3> QED
      BY <1>3, <1>4, <3>1
  <2>3. CASE RolledBack
    BY <2>3 DEF RolledBack, TodoMoves
  <2> QED
    BY <1>5, <2>1, <2>2, <2>3
<1>6. ASSUME todo # <<>>, NEW s, Advance(s), Ended("ok"), Head(todo) \notin {"poll", "rollback"}
      PROVE  TodoMoves
  BY <1>6 DEF Advance, Ended, Ends, TodoMoves
<1>7. CASE todo # <<>> /\ (Generation \/ Surveyed)
  <2>1. Head(todo) \notin {"poll", "rollback"} /\ Ended("ok")
    BY <1>7 DEF Generation, Surveyed
  <2>2. Fail("other") \/ Advance(survey)
    BY <1>7 DEF Generation, Surveyed
  <2> QED
    BY <1>3, <1>6, <1>7, <2>1, <2>2
<1>8. CASE todo # <<>> /\ (Written \/ Cached)
  <2>1. Head(todo) \notin {"poll", "rollback"} /\ Ended("ok") /\ \E s : Advance(s)
    BY <1>8 DEF Written, Cached
  <2> QED
    BY <1>6, <1>8, <2>1
<1>9. CASE todo # <<>> /\ TmodeRead
  <2>1. Head(todo) = "tmode" /\ Ended("ok")
    BY <1>9 DEF TmodeRead
  <2>2. CASE Advance(survey) \/ Fail("other")
    BY <1>3, <1>6, <1>9, <2>1, <2>2
  <2>3. CASE ~Advance(survey) /\ ~Fail("other")
    <3>1. cmd.name = "deploy" /\ ex.val.mode = 2 /\ todo' = Save
      <4>1. \A length : TMODEMode(length) = 2 => ex.val.mode = 2
        BY DEF TMODEMode
      <4> QED
        BY <1>9, <2>3, <4>1 DEF TmodeRead
    <3>2. ex.stage = "ok" /\ ex' = Idle
      BY <2>1 DEF Ended, Ends
    <3> QED
      BY <1>9, <2>1, <3>1, <3>2 DEF TodoMoves
  <2> QED
    BY <2>2, <2>3
<1>10. CASE todo # <<>> /\ Polled
  <2>1. stage = "running" /\ ex.stage = "ok" /\ ex' = Idle /\ Head(todo) = "poll"
    BY <1>10 DEF Polled, Ends
  <2>2. \/ todo' = todo \/ (todo' = <<"rollback">> /\ Has("ephemeral"))
        \/ todo' = Tail(todo) /\ ParseSVIN = "valid"
    BY <1>10 DEF Polled, Advance
  <2>3. ParseSVIN = "valid" => ex.val = "valid"
    BY DEF ParseSVIN
  <2> QED
    BY <1>10, <2>1, <2>2, <2>3 DEF TodoMoves
<1>11. CASE todo # <<>> /\ PollMissed
  BY <1>11 DEF PollMissed, Ended, Ends, TodoMoves
<1> QED
  BY <1>1, <1>2, <1>5, <1>7, <1>8, <1>9, <1>10, <1>11 DEF Step

LEMMA AppliedSvin ==
  ASSUME PipeTypes, NEW req, ~(req.kind = "set" /\ req.item = "TMODE"), receiver' = Applied(req)
  PROVE  receiver'.svin = receiver.svin
<1>1. DOMAIN receiver = {"gen", "cfg", "flash", "svin"} /\ DOMAIN receiver.cfg = ConfigItems
  BY DEF PipeTypes
<1>2. CASE req.kind = "save"
  <2>1. receiver' = [receiver EXCEPT !.flash = receiver.cfg]
    BY <1>2, Zenon DEF Applied
  <2> QED
    BY <1>1, <2>1
<1>3. CASE req.kind = "set" /\ req.item # "TMODE"
  <2>1. receiver' = [receiver EXCEPT !.cfg[req.item] = req.val]
    BY <1>3, Zenon DEF Applied
  <2> QED
    BY <1>1, <2>1
<1>4. CASE req.kind \notin {"save", "set"}
  <2>1. receiver' = receiver
    BY <1>4, Zenon DEF Applied
  <2> QED
    BY <2>1
<1> QED
  BY <1>2, <1>3, <1>4

LEMMA SvinKept ==
  ASSUME VerifyInv, RollbackInv, [Next]_vars, SetsAt("TMODE") = {}, receiver.svin = "valid"
  PROVE  receiver'.svin = "valid"
<1>1. PipeTypes
  BY DEF VerifyInv
<1>2. CASE NoNews
  BY <1>1, <1>2 DEF NoNews, PipeTypes
<1>3. CASE Serve \/ Misserve
  <2>1. /\ requests # <<>>
        /\ receiver' = receiver \/ receiver' = Applied(Head(requests))
    BY <1>1, <1>3, ServedFrames
  <2>2. ~(Head(requests).kind = "set" /\ Head(requests).item = "TMODE")
    <3>1. AnySeq(requests)
      BY <1>1 DEF PipeTypes
    <3>2. Head(requests) = requests[1] /\ 1 \in 1..Len(requests)
      BY <2>1, <3>1, AnyTail
    <3> QED
      BY <3>2 DEF SetsAt
  <2> QED
    BY <1>1, <2>1, <2>2, AppliedSvin
<1> QED
  BY <1>2, <1>3, NewsIsServed

\* New frames of the survey's state are of now.
LEMMA FramesTold ==
  ASSUME VerifyInv, RollbackInv, [Next]_vars, Confirmed("TMODE", SurveyInFrame), SvinTold
  PROVE  \A f \in Frames' : f.kind = "data" /\ f.item = "SVIN" /\ f.val = "valid" => receiver'.svin = "valid"
<1>1. PipeTypes /\ SetsAt("TMODE") = {}
  BY DEF VerifyInv, Confirmed
<1>2. SUFFICES ASSUME NEW f \in Frames', f.kind = "data", f.item = "SVIN", f.val = "valid"
      PROVE  receiver.svin = "valid"
  BY <1>1, SvinKept
<1>3. CASE f \in Frames
  BY <1>2, <1>3 DEF SvinTold
<1>4. CASE f \notin Frames
  <2>1. Serve \/ Misserve
    BY <1>2, <1>4, NewsIsServed DEF NoNews
  <2>2. f.val = Setting("SVIN")
    BY <1>1, <1>2, <1>4, <2>1, ServedFrames
  <2> QED
    BY <1>2, <2>2 DEF Setting
<1> QED
  BY <1>3, <1>4

LEMMA SendEffects ==
  ASSUME PipeTypes, SendUBX
  PROVE  \/ KeepsAll
         \/ /\ requests' = Append(requests, Request) /\ incoming' = <<>> /\ stream' = stream
            /\ receiver' = receiver /\ budget' = budget
<1>1. CASE DrainAndSend /\ gpsd = "gone"
  <2>1. incoming' = <<>> /\ stream' = stream /\ requests' = requests /\ receiver' = receiver /\ budget' = budget
    BY <1>1 DEF SendUBX, DrainAndSend, clientVars
  <2> QED
    BY <2>1, TakingKeeps
<1>2. CASE DrainAndSend /\ gpsd # "gone"
  BY <1>2 DEF SendUBX, DrainAndSend
<1>3. CASE ~DrainAndSend
  BY <1>3, SameCfgKeeps DEF SendUBX, clientVars
<1> QED
  BY <1>1, <1>2, <1>3

LEMMA OrderOf ==
  ASSUME InOrder(todo), todo # <<>>, NEW i \in 2..Len(todo)
  PROVE  Head(todo) \in StepNames /\ todo[i] \in StepNames /\ Place[Head(todo)] < Place[todo[i]]
<1>1. todo \in Seq(StepNames) /\ Len(todo) \in Nat /\ Head(todo) = todo[1] /\ 1 \in 1..Len(todo) /\ i \in 1..Len(todo)
  BY DEF InOrder
<1> QED
  BY <1>1 DEF InOrder

\* Which steps ask for what.
LEMMA AsksOf ==
  /\ Asks("version").op = "poll" /\ Asks("version").item = "MON-VER"
  /\ Asks("tmode").op = "poll" /\ Asks("tmode").item = "TMODE"
  /\ Asks("cache").op = "poll" /\ Asks("cache").item = "TMODE"
  /\ Asks("poll").op = "poll" /\ Asks("poll").item = "SVIN"
  /\ Asks("svin").op = "poll" /\ Asks("svin").item = "SVIN"
  /\ Asks("save").op = "save" /\ Asks("save").item = "CFG"
  /\ Asks("nav5").op = "write" /\ Asks("nav5").item = "NAV5" /\ Asks("nav5").want = "stationary"
  /\ Asks("tp5").op = "write" /\ Asks("tp5").item = "TP5" /\ Asks("tp5").want = "1HzUTC"
  /\ Asks("config").op = "write" /\ Asks("config").item = "TMODE" /\ Asks("config").want = SurveyInFrame
  /\ Asks("fix").op = "write" /\ Asks("fix").item = "TMODE" /\ Asks("fix").want = FixedModeFrame("surveyed")
  /\ Asks("set").op = "write" /\ Asks("set").item = "TMODE" /\ Asks("set").want = SetFrame
  /\ Asks("rollback").op = "write" /\ Asks("rollback").item = "TMODE"
<1>1. /\ Asks("version") = Poll("MON-VER", TRUE) /\ Asks("tmode") = Poll("TMODE", TRUE)
      /\ Asks("cache") = Poll("TMODE", TRUE) /\ Asks("nav5") = WriteNAV5DynModel
      /\ Asks("tp5") = WriteTP5_1HzUTC /\ Asks("config") = WriteTMODE(SurveyInFrame, TRUE, FALSE)
      /\ Asks("poll") = PollSVIN(TRUE) /\ Asks("svin") = PollSVIN(FALSE)
      /\ Asks("fix") = WriteTMODE(FixedModeFrame("surveyed"), FALSE, FALSE)
      /\ Asks("set") = WriteTMODE(SetFrame, FALSE, FALSE)
      /\ Asks("save") = SaveConfig /\ Asks("rollback") = WriteTMODE(RestoreFrame, TRUE, TRUE)
  BY Zenon DEF Asks
<1>2. DOMAIN Idle = {"op", "item", "want", "slot", "stage", "own", "shield", "val", "short"}
  BY DEF Idle
<1>3. Poll("MON-VER", TRUE).op = "poll" /\ Poll("MON-VER", TRUE).item = "MON-VER"
  BY <1>2 DEF Poll
<1>4. Poll("TMODE", TRUE).op = "poll" /\ Poll("TMODE", TRUE).item = "TMODE"
  BY <1>2 DEF Poll
<1>5. PollSVIN(TRUE).op = "poll" /\ PollSVIN(TRUE).item = "SVIN"
  BY <1>2 DEF PollSVIN, Poll
<1>6. PollSVIN(FALSE).op = "poll" /\ PollSVIN(FALSE).item = "SVIN"
  BY <1>2 DEF PollSVIN, Poll
<1>7. SaveConfig.op = "save" /\ SaveConfig.item = "CFG"
  BY <1>2 DEF SaveConfig, Command
<1>8. WriteNAV5DynModel.op = "write" /\ WriteNAV5DynModel.item = "NAV5" /\ WriteNAV5DynModel.want = "stationary"
  BY <1>2 DEF WriteNAV5DynModel, WriteAndVerify
<1>9. WriteTP5_1HzUTC.op = "write" /\ WriteTP5_1HzUTC.item = "TP5" /\ WriteTP5_1HzUTC.want = "1HzUTC"
  BY <1>2 DEF WriteTP5_1HzUTC, WriteAndVerify
<1>10. LET e == WriteTMODE(SurveyInFrame, TRUE, FALSE)
       IN e.op = "write" /\ e.item = "TMODE" /\ e.want = SurveyInFrame
  BY <1>2 DEF WriteTMODE, WriteAndVerify
<1>11. LET e == WriteTMODE(FixedModeFrame("surveyed"), FALSE, FALSE)
       IN e.op = "write" /\ e.item = "TMODE" /\ e.want = FixedModeFrame("surveyed")
  BY <1>2 DEF WriteTMODE, WriteAndVerify
<1>12. LET e == WriteTMODE(SetFrame, FALSE, FALSE) IN e.op = "write" /\ e.item = "TMODE" /\ e.want = SetFrame
  BY <1>2 DEF WriteTMODE, WriteAndVerify
<1>13. LET e == WriteTMODE(RestoreFrame, TRUE, TRUE) IN e.op = "write" /\ e.item = "TMODE"
  BY <1>2 DEF WriteTMODE, WriteAndVerify
<1>14. /\ Asks("version").op = "poll" /\ Asks("version").item = "MON-VER"
       /\ Asks("tmode").op = "poll" /\ Asks("tmode").item = "TMODE"
       /\ Asks("cache").op = "poll" /\ Asks("cache").item = "TMODE"
       /\ Asks("poll").op = "poll" /\ Asks("poll").item = "SVIN"
       /\ Asks("svin").op = "poll" /\ Asks("svin").item = "SVIN"
  BY <1>1, <1>3, <1>4, <1>5, <1>6
<1>15. /\ Asks("save").op = "save" /\ Asks("save").item = "CFG"
       /\ Asks("nav5").op = "write" /\ Asks("nav5").item = "NAV5" /\ Asks("nav5").want = "stationary"
       /\ Asks("tp5").op = "write" /\ Asks("tp5").item = "TP5" /\ Asks("tp5").want = "1HzUTC"
  BY <1>1, <1>7, <1>8, <1>9
<1>16. /\ Asks("config").op = "write" /\ Asks("config").item = "TMODE" /\ Asks("config").want = SurveyInFrame
       /\ Asks("fix").op = "write" /\ Asks("fix").item = "TMODE" /\ Asks("fix").want = FixedModeFrame("surveyed")
  BY <1>1, <1>10, <1>11
<1>17. /\ Asks("set").op = "write" /\ Asks("set").item = "TMODE" /\ Asks("set").want = SetFrame
       /\ Asks("rollback").op = "write" /\ Asks("rollback").item = "TMODE"
  BY <1>1, <1>12, <1>13
<1> QED
  BY <1>14, <1>15, <1>16, <1>17, Zenon

LEMMA AsksItems ==
  /\ \A step \in StepNames \ {"poll", "svin"} : Asks(step).item # "SVIN"
  /\ \A step \in StepNames \ {"save"} : Asks(step).item # "CFG" /\ Asks(step).op # "save"
<1>1. \A step \in StepNames : \/ step \in {"version", "tmode", "cache", "poll", "svin", "save"}
                              \/ step \in {"nav5", "tp5", "config", "fix", "set", "rollback"}
  BY DEF StepNames, Plain, Guarded
<1>2. \A step \in {"version", "tmode", "cache", "poll", "svin", "save"} :
        /\ step \notin {"poll", "svin"} => Asks(step).item # "SVIN"
        /\ step # "save" => Asks(step).item # "CFG" /\ Asks(step).op # "save"
  BY AsksOf
<1>3. \A step \in {"nav5", "tp5", "config", "fix", "set", "rollback"} :
        Asks(step).item \notin {"SVIN", "CFG"} /\ Asks(step).op # "save"
  BY AsksOf
<1> QED
  BY <1>1, <1>2, <1>3

\* How an answer to a poll is received.
LEMMA PollAnswered ==
  ASSUME VerifyInv, RollbackInv, [Next]_vars, ex'.op = "poll", ex'.stage = "ok"
  PROVE  \/ ex' = ex
         \/ /\ WaitFrame /\ incoming # <<>> /\ ex.op = "poll" /\ ex.stage = "wait"
            /\ Head(incoming).kind = "data" /\ Head(incoming).item = ex.item
            /\ ex' = [ex EXCEPT !.stage = "ok", !.val = Head(incoming).val, !.short = Head(incoming).short]
<1>1. SUFFICES ASSUME ex' # ex
      PROVE  /\ WaitFrame /\ incoming # <<>> /\ ex.op = "poll" /\ ex.stage = "wait"
             /\ Head(incoming).kind = "data" /\ Head(incoming).item = ex.item
             /\ ex' = [ex EXCEPT !.stage = "ok", !.val = Head(incoming).val, !.short = Head(incoming).short]
  OBVIOUS
<1>2. Linked
  BY DEF VerifyInv
<1>3. Exchange
  <2>1. CASE Begin
    <3>1. ex' = Asks(Head(todo)) /\ Head(todo) \in StepNames
      BY <2>1, HeadIsStep DEF Begin
    <3> QED
      BY <3>1, AsksShape DEF Verbs
  <2>2. CASE Start \/ Open \/ Finish \/ (Step /\ ~Begin)
    <3>1. Idle.stage # "ok"
      BY DEF Idle
    <3>2. CASE Start \/ Open \/ Finish
      BY <1>1, <3>2 DEF Start, Open, Finish
    <3>3. CASE Step /\ ~Begin
      BY <1>1, <3>1, <3>3 DEF Step, Stop, Broken, RolledBack, Generation, Written, TmodeRead, Cached,
                              Polled, PollMissed, Surveyed, Ended, Ends
    <3> QED
      BY <2>2, <3>2, <3>3
  <2>3. CASE ~(Start \/ Open \/ Step \/ Finish) /\ ~Exchange
    BY <1>1, <2>3 DEF Next, World, Command_, Interrupt, Expire, vars, Environment, Serve, Misserve, Converge,
                      OtherPolls, OtherReceiver, Greet, Complain, Drop
  <2> QED
    BY <2>1, <2>2, <2>3
<1>4. InProgress
  <2>1. ex.stage # "idle"
    BY <1>3 DEF Exchange, SendUBX, WaitFrame, WaitClosed, WaitContext, WaitDeadline
  <2> QED
    BY <2>1, Exchanging
<1>5. WaitFrame /\ Wanted(Head(incoming))
  <2>1. CASE SendUBX \/ WaitClosed \/ WaitContext \/ WaitDeadline
    BY <1>2, <2>1 DEF Linked, SendUBX, WaitClosed, WaitContext, WaitDeadline
  <2>2. CASE WaitFrame /\ ~Wanted(Head(incoming))
    BY <1>1, <2>2 DEF WaitFrame
  <2> QED
    BY <1>3, <2>1, <2>2 DEF Exchange
<1>6. ex' = Received(Head(incoming)) /\ incoming # <<>> /\ ex.stage = "wait"
  BY <1>5 DEF WaitFrame, TakeFrame
<1>7. ex.op = "poll"
  BY <1>2, <1>4, <1>5, <1>6, ReceivedMoves DEF Moved
<1>8. Head(incoming).kind = "data" /\ Head(incoming).item = ex.item
  BY <1>4, <1>5, <1>7 DEF InProgress, Wanted
<1>9. ex' = [ex EXCEPT !.stage = "ok", !.val = Head(incoming).val, !.short = Head(incoming).short]
  BY <1>6, <1>7, <1>8, Zenon DEF Received
<1> QED
  BY <1>5, <1>6, <1>7, <1>8, <1>9

LEMMA HeadIsElement ==
  ASSUME PipeTypes, incoming # <<>>
  PROVE  Head(incoming) \in Frames
<1>1. AnySeq(incoming) /\ Head(incoming) = incoming[1] /\ 1 \in 1..Len(incoming)
  BY AnyTail DEF PipeTypes
<1> QED
  BY <1>1 DEF PipeTypes, Frames, Elements

LEMMA NoneInFrames == \A item : NoneLeft(item, "all")' => \A f \in Frames' : ~(f.kind = "data" /\ f.item = item)
  BY DEF NoneLeft, NoneIn, Held, Frames, Elements, IsData

LEMMA SvinStaysTold ==
  ASSUME VerifyInv, RollbackInv, [Next]_vars, Confirmed("TMODE", SurveyInFrame), SvinTold,
         todo # <<>>, Head(todo) = "poll"
  PROVE  SvinTold'
<1>1. PipeTypes /\ Linked /\ SetsAt("TMODE") = {}
  BY DEF VerifyInv, Confirmed
<1>2. \A f \in Frames' : f.kind = "data" /\ f.item = "SVIN" /\ f.val = "valid" => receiver'.svin = "valid"
  BY FramesTold
<1>3. receiver.svin = "valid" => receiver'.svin = "valid"
  BY <1>1, SvinKept
<1>4. SUFFICES ASSUME ex'.op = "poll", ex'.stage = "ok", ex'.val = "valid" PROVE receiver.svin = "valid"
  BY <1>2, <1>3 DEF SvinTold
<1>5. CASE ex' = ex
  BY <1>4, <1>5 DEF SvinTold
<1>6. CASE ex' # ex
  <2>1. /\ incoming # <<>> /\ ex.stage = "wait"
        /\ Head(incoming).kind = "data" /\ Head(incoming).item = ex.item
        /\ ex' = [ex EXCEPT !.stage = "ok", !.val = Head(incoming).val, !.short = Head(incoming).short]
    BY <1>4, <1>6, PollAnswered
  <2>2. Head(incoming).val = "valid"
    BY <1>1, <1>4, <2>1 DEF Linked
  <2>3. ex.item = "SVIN"
    BY <1>1, <2>1, AsksShape, HeadIsStep DEF Linked
  <2> QED
    BY <1>1, <2>1, <2>2, <2>3, HeadIsElement DEF SvinTold
<1> QED
  BY <1>5, <1>6
\* The line: a step keeps what is outstanding, or sends the request of the first step.
LEMMA LineMoves ==
  ASSUME VerifyInv, RollbackInv, [Next]_vars
  PROVE  \/ KeepsAll
         \/ /\ ex.stage = "send" /\ todo' = todo /\ requests' = Append(requests, Request)
            /\ incoming' = <<>> /\ stream' = stream /\ receiver' = receiver /\ budget' = budget
<1>1. PipeTypes
  BY DEF VerifyInv
<1>2. CASE ~SendUBX
  BY <1>2, AllButSending
<1>3. CASE SendUBX /\ UNCHANGED cmdVars
  BY <1>1, <1>3, SendEffects DEF SendUBX, cmdVars
<1>4. CASE SendUBX /\ ~UNCHANGED cmdVars
  <2>1. Start \/ Open \/ Step \/ Finish
    <3>1. Start \/ Open \/ Step \/ Finish \/ Interrupt \/ Expire \/ UNCHANGED vars
      BY <1>4 DEF Next, World, Command_, cmdVars
    <3>2. Interrupt \/ Expire \/ UNCHANGED vars => UNCHANGED cmdVars
      BY DEF Interrupt, Expire, vars
    <3> QED
      BY <1>4, <3>1, <3>2
  <2>2. CASE Start
    BY <1>1, <2>2, TakingKeeps DEF Start, Dial
  <2>3. CASE Open \/ Step \/ Finish
    BY <2>3, CommandIsStill, SameCfgKeeps DEF Still
  <2> QED
    BY <2>1, <2>2, <2>3
<1> QED
  BY <1>2, <1>3, <1>4

LEMMA SameStepsKeepSurvey ==
  ASSUME VerifyInv, RollbackInv, SurveyInv, [Next]_vars, todo' = todo
  PROVE  SurveyInv'
<1>1. PipeTypes /\ Linked
  BY DEF VerifyInv
<1>2. ASSUME PollComing PROVE NoneLeft("SVIN", "all")'
  <2>1. NoneLeft("SVIN", "all")
    BY <1>2 DEF SurveyInv
  <2>2. CASE KeepsAll
    BY <2>1, <2>2 DEF KeepsAll, Keeps, Told
  <2>3. CASE /\ ex.stage = "send" /\ requests' = Append(requests, Request)
             /\ incoming' = <<>> /\ stream' = stream /\ receiver' = receiver /\ budget' = budget
    <3>1. todo # <<>> /\ ex.item = Asks(Head(todo)).item
      BY <1>1, <2>3 DEF Linked
    <3>2. PICK i \in 2..Len(todo) : todo[i] = "poll"
      BY <1>2 DEF PollComing
    <3>3. Head(todo) \in StepNames /\ Place[Head(todo)] < Place["poll"]
      BY <3>1, <3>2, OrderOf DEF SurveyInv
    <3>4. Head(todo) \notin {"poll", "svin"}
      BY <3>3 DEF Place
    <3>5. ex.item # "SVIN"
      BY <3>1, <3>3, <3>4, AsksItems
    <3>6. ~IsPoll(Request, "SVIN")
      BY <3>5 DEF IsPoll, Request
    <3> QED
      BY <1>1, <2>1, <2>3, <3>6, AskingKeeps DEF Keeps
  <2> QED
    BY <2>2, <2>3, LineMoves
<1>3. ASSUME todo # <<>>, Head(todo) = "poll" PROVE Confirmed("TMODE", SurveyInFrame)' /\ SvinTold'
  <2>1. Confirmed("TMODE", SurveyInFrame) /\ SvinTold
    BY <1>3 DEF SurveyInv
  <2>2. Holds("TMODE")
    <3>1. CASE KeepsAll
      BY <3>1 DEF KeepsAll, ConfigItems
    <3>2. CASE /\ ex.stage = "send" /\ requests' = Append(requests, Request)
               /\ incoming' = <<>> /\ stream' = stream /\ receiver' = receiver /\ budget' = budget
      <4>1. Head(todo) = "poll" /\ ex.op = Asks("poll").op
        BY <1>1, <1>3, <3>2 DEF Linked
      <4>2. ex.slot = "poll"
        BY <1>1, <4>1, <3>2, AsksShape, HeadIsStep, <1>3 DEF Linked
      <4>3. Request.kind = "poll"
        BY <4>2 DEF Request
      <4>4. SetsAt("TMODE")' = SetsAt("TMODE")
        BY <1>1, <3>2, <4>3, AskingKeeps
      <4> QED
        BY <3>2, <4>4 DEF Holds
    <3> QED
      BY <3>1, <3>2, LineMoves
  <2>3. Confirmed("TMODE", SurveyInFrame)'
    BY <2>1, <2>2 DEF Confirmed, Holds, Agrees, compareTMODEByMode, SurveyInFrame
  <2> QED
    BY <1>3, <2>1, <2>3, SvinStaysTold
<1>4. PollComing' = PollComing
  BY DEF PollComing
<1> QED
  BY <1>2, <1>3, <1>4 DEF SurveyInv

LEMMA NoPollKeepsSurvey ==
  ASSUME InOrder(todo'), ~PollComing', todo' # <<>> => Head(todo') # "poll"
  PROVE  SurveyInv'
  BY DEF SurveyInv

LEMMA SurveyStep ==
  ASSUME VerifyInv, RollbackInv, SurveyInv, [Next]_vars
  PROVE  SurveyInv'
<1>1. PipeTypes /\ Linked /\ cmd.name \in Names
  BY DEF VerifyInv, RollbackInv
<1>2. CASE todo' = todo
  BY <1>2, SameStepsKeepSurvey
<1>3. ASSUME todo' # todo PROVE Start \/ Open \/ Step \/ Finish
  <2>1. Start \/ Open \/ Step \/ Finish \/ UNCHANGED cmdVars
    BY DEF Next, World, Command_, Interrupt, Expire, vars
  <2> QED
    BY <1>3, <2>1 DEF cmdVars
<1>4. todo' # todo => KeepsAll
  BY LineMoves
<1>5. CASE /\ todo' # todo /\ todo # <<>> /\ todo' = Tail(todo) /\ ex.stage = "ok" /\ ex' = Idle
  <2>1. InOrder(todo) /\ Plan(todo)
    BY DEF SurveyInv, RollbackInv
  <2>2. InOrder(todo') /\ \A i \in 1..Len(todo') : i + 1 \in 2..Len(todo) /\ todo'[i] = todo[i + 1]
    BY <1>5, <2>1, OrderTail
  <2>3. PollComing' \/ (todo' # <<>> /\ Head(todo') = "poll") => PollComing
    <3>1. ASSUME todo' # <<>> PROVE Head(todo') = todo'[1] /\ 1 \in 1..Len(todo')
      BY <2>2, <3>1 DEF InOrder
    <3>2. \A i \in 2..Len(todo') : i \in 1..Len(todo')
      BY <2>2 DEF InOrder
    <3> QED
      BY <2>2, <3>1, <3>2 DEF PollComing
  <2>4. PollComing => NoneLeft("SVIN", "all")'
    BY <1>4, <1>5 DEF SurveyInv, KeepsAll, Keeps, Told
  <2>5. ASSUME todo' # <<>>, Head(todo') = "poll"
        PROVE  Confirmed("TMODE", SurveyInFrame)' /\ SvinTold'
    <3>1. Head(todo) = "config"
      BY <1>5, <2>1, <2>5, PlanTail
    <3>2. ex.op = "write" /\ ex.item = "TMODE" /\ ex.want = SurveyInFrame
      BY <1>1, <1>5, <3>1, AsksOf DEF Linked
    <3>3. Confirmed("TMODE", SurveyInFrame)
      BY <1>5, <3>2 DEF VerifyInv, Writing
    <3>4. Holds("TMODE")
      BY <1>4, <1>5 DEF KeepsAll, ConfigItems
    <3>5. Confirmed("TMODE", SurveyInFrame)'
      BY <3>3, <3>4 DEF Confirmed, Holds, Agrees, compareTMODEByMode, SurveyInFrame
    <3>6. SvinTold'
      <4>1. Idle.op # "poll"
        BY DEF Idle
      <4> QED
        BY <1>5, <2>3, <2>4, <2>5, <4>1, NoneInFrames DEF SvinTold
    <3> QED
      BY <3>5, <3>6
  <2> QED
    BY <2>2, <2>3, <2>4, <2>5 DEF SurveyInv
<1>6. CASE todo' \in {<<>>, <<"rollback">>, Save}
  <2>1. InOrder(todo')
    BY <1>1, <1>6, StepsInOrder
  <2>2. todo' \in {<<>>, <<"rollback">>, <<"save">>}
    BY <1>6 DEF Save
  <2>3. ~PollComing' /\ (todo' # <<>> => Head(todo') # "poll")
    BY <2>2 DEF PollComing
  <2> QED
    BY <2>1, <2>3, NoPollKeepsSurvey
<1>7. CASE todo' # todo /\ stage = "dialing" /\ todo' = Steps
  <2>1. InOrder(todo')
    BY <1>1, <1>7, StepsInOrder
  <2>2. todo' # <<>> => Head(todo') # "poll"
    BY <1>1, <1>7, StepsAreFresh DEF Fresh, Guarded
  <2>3. NoneLeft("SVIN", "all")'
    BY <1>4, <1>7 DEF VerifyInv, KeepsAll, Keeps, Told
  <2> QED
    BY <2>1, <2>2, <2>3 DEF SurveyInv
<1> QED
  BY <1>2, <1>3, <1>5, <1>6, <1>7, CommandMoves DEF TodoMoves

LEMMA SurveyInit == Init => SurveyInv
<1>1. SUFFICES ASSUME Init PROVE SurveyInv
  OBVIOUS
<1>2. todo = <<>>
  BY <1>1 DEF Init
<1> QED
  BY <1>2 DEF SurveyInv, PollComing, InOrder
(* A survey gives up its rollback only when it is valid under the TMODE it   *)
(* asked for, when the cached TMODE is back in force, or when it says that   *)
(* the rollback failed: for any loss, late answer, interrupt or other fault, *)
(* under the assumption of WritesAreVerified (surveyin.go, SurveyIn and its  *)
(* deferred rollback).                                                       *)
THEOREM SurveysAreDisarmedInForce ==
  ASSUME Alone
  PROVE  Spec => DisarmedInForce
<1> DEFINE Justified == \/ survey'.RollbackFailed
                        \/ survey'.RolledBack /\ compareTMODEByMode(receiver.cfg.TMODE, survey.cached)
                        \/ receiver.svin = "valid" /\ compareTMODEByMode(receiver.cfg.TMODE, SurveyInFrame)
<1>1. ASSUME VerifyInv, RollbackInv, SurveyInv, [Next]_vars, survey.armed, ~survey'.armed
      PROVE  Justified
  <2>1. /\ PipeTypes /\ Linked /\ DOMAIN survey = Flags
        /\ todo # <<>> /\ Head(todo) \in Guarded
    BY <1>1 DEF VerifyInv, RollbackInv, SurveyFlags
  <2>2. ASSUME NEW want, Confirmed("TMODE", want) PROVE compareTMODEByMode(receiver.cfg.TMODE, want)
    BY <2>2 DEF Confirmed, Agrees
  <2>3. CASE RolledBack
    <3>1. CASE Ended("ok") /\ survey' = [survey EXCEPT !.RolledBack = TRUE, !.returned = TRUE, !.armed = FALSE]
      <4>1. Head(todo) = "rollback" /\ ex.stage = "ok"
        BY <2>3, <3>1 DEF RolledBack, Ended, Ends, Results
      <4>2. ex.op = "write" /\ ex.item = "TMODE" /\ ex.want = survey.cached
        BY <2>1, <4>1, AsksShape DEF Linked, Guarded, StepNames
      <4>3. Confirmed("TMODE", survey.cached)
        BY <1>1, <4>1, <4>2 DEF VerifyInv, Writing
      <4>4. survey'.RolledBack
        BY <2>1, <3>1 DEF Flags
      <4> QED
        BY <2>2, <4>3, <4>4
    <3>2. CASE survey' = [survey EXCEPT !.RollbackFailed = TRUE, !.returned = TRUE, !.armed = FALSE]
      BY <2>1, <3>2 DEF Flags
    <3> QED
      BY <2>3, <3>1, <3>2 DEF RolledBack
  <2>4. CASE Polled
    <3>1. Head(todo) = "poll" /\ ex.stage = "ok"
      BY <2>4 DEF Polled, Ends
    <3>2. ParseSVIN = "valid"
      <4>1. SUFFICES ASSUME ParseSVIN # "valid" PROVE FALSE
        OBVIOUS
      <4>2. survey' = [survey EXCEPT !.converged = FALSE]
        BY <2>4, <4>1 DEF Polled
      <4> QED
        BY <1>1, <2>1, <4>2 DEF Flags
    <3>3. ex.op = "poll" /\ ex.val = "valid"
      <4>1. ex.op = "poll"
        BY <2>1, <3>1, AsksShape DEF Linked, Guarded, StepNames
      <4>2. ex.val = "valid"
        BY <3>2 DEF ParseSVIN
      <4> QED
        BY <4>1, <4>2
    <3>4. Confirmed("TMODE", SurveyInFrame) /\ SvinTold
      BY <1>1, <2>1, <3>1 DEF SurveyInv
    <3> QED
      BY <2>2, <3>1, <3>3, <3>4 DEF SvinTold
  <2>5. CASE Begin
    <3>1. survey' = IF Head(todo) = "cache" THEN [survey EXCEPT !.called = TRUE] ELSE survey
      BY <2>5 DEF Begin
    <3> QED
      BY <1>1, <2>1, <3>1 DEF Flags
  <2>6. CASE Stop \/ Broken \/ Generation \/ TmodeRead \/ Surveyed
    <3>1. survey' = survey
      BY <1>1, <2>6 DEF Stop, Broken, Generation, TmodeRead, Surveyed, Fail, Advance
    <3> QED
      BY <1>1, <3>1
  <2>7. CASE Written
    BY <1>1, <2>7 DEF Written, Advance
  <2>8. CASE Cached \/ PollMissed
    <3>1. Head(todo) # "cache"
      BY <2>1 DEF Guarded
    <3>2. survey' = [survey EXCEPT !.converged = FALSE]
      BY <2>8, <3>1 DEF Cached, PollMissed
    <3> QED
      BY <1>1, <2>1, <3>2 DEF Flags
  <2>9. CASE ~Step
    <3>1. Start \/ Open \/ Finish \/ UNCHANGED cmdVars
      BY <1>1, <2>9 DEF Next, World, Command_, Interrupt, Expire, vars
    <3>2. survey' = survey
      BY <3>1 DEF Start, Open, Refuse, Finish, cmdVars
    <3> QED
      BY <1>1, <3>2
  <2> QED
    BY <2>3, <2>4, <2>5, <2>6, <2>7, <2>8, <2>9 DEF Step
<1>2. VerifyInv /\ RollbackInv /\ SurveyInv /\ [Next]_vars =>
        [survey.armed /\ ~survey'.armed => Justified]_vars
  BY <1>1
<1>3. Init => VerifyInv /\ RollbackInv /\ SurveyInv
  BY VerifyInit, RollbackInit, SurveyInit
<1>4. VerifyInv /\ RollbackInv /\ SurveyInv /\ [Next]_vars => VerifyInv' /\ RollbackInv' /\ SurveyInv'
  BY VerifyStep, RollbackStep, SurveyStep
<1> QED
  BY <1>2, <1>3, <1>4, PTL DEF Spec, DisarmedInForce, Justified
-----------------------------------------------------------------------------
(* What a command has done when it ends without an error. An answer to a     *)
(* poll of a setting is of the configuration in force; an acknowledged save  *)
(* was of the configuration in force; and a step that is done stays done,    *)
(* since no later step of the command writes the same item.                  *)

\* What an earlier command left unserved, when it left no save.
WritesLeft ==
  \A s \in Scenarios : \A i \in 1..Len(s.queue) : s.queue[i].kind = "set" /\ s.queue[i].item \in ConfigItems

ReadingInv ==
  ex.op = "poll" /\ ex.item \in ConfigItems =>
    /\ ex.stage \in {"send", "wait"} => NoneLeft(ex.item, "stale")
    /\ ex.stage = "ok" => SetsAt(ex.item) = {} /\ receiver.cfg[ex.item] = ex.val

Flashed  == receiver.flash = receiver.cfg /\ \A i \in 1..Len(requests) : requests[i].kind # "set"
SaveAck(f) == f.kind = "ack" /\ f.item = "CFG"
Unsaved  == /\ \A i \in 1..Len(requests) : requests[i].kind # "save"
            /\ \A f \in Frames : ~SaveAck(f)
SaveLast == \A i, j \in 1..Len(requests) : i < j /\ requests[i].kind = "save" => requests[j].kind # "set"

\* No save has been sent.
SaveAhead ==
  \/ stage \in {"start", "dialing"}
  \/ /\ todo # <<>> /\ Head(todo) # "rollback"
     /\ Head(todo) = "save" => ex.stage \in {"idle", "send"}

SavingInv ==
  /\ \A i \in 1..Len(requests) : requests[i].kind # "save" => requests[i].item # "CFG"
  /\ SaveAhead => Unsaved
  /\ ex.op = "save" /\ ex.stage = "wait" => SaveLast /\ \A f \in Frames : SaveAck(f) => Flashed
  /\ ex.op = "save" /\ ex.stage = "ok" => Flashed

Work  == Elements(Steps)
Doing == Elements(todo)

Effect(x) ==
  /\ x = "nav5" => Confirmed("NAV5", "stationary")
  /\ x = "tp5"  => Confirmed("TP5", "1HzUTC")
  /\ x = "poll" /\ cmd.name = "survey-in" /\ ~Has("ephemeral") =>
       receiver.svin = "valid" /\ Confirmed("TMODE", SurveyInFrame)
  /\ x = "fix"  => /\ SetsAt("TMODE") = {} /\ receiver.cfg["TMODE"].mode = 2
                   /\ cmd.name # "deploy" => receiver.cfg["TMODE"].pos = "surveyed"
  /\ x = "set"  => Confirmed("TMODE", SetFrame)
  /\ x = "save" => Flashed

WorkInv ==
  /\ Has("ephemeral") => cmd.name = "survey-in"
  /\ Has("save") => cmd.name \in {"configure-stationary", "configure-pps", "fixed from-svin", "fixed set", "deploy"}
  /\ stage = "running" =>
    /\ Doing \subseteq Work \cup {"rollback"}
    /\ todo # <<>> /\ Head(todo) # "rollback" =>
         \A x \in Work : Place[Head(todo)] <= Place[x] => x \in Doing
    /\ err = "none" /\ todo # <<>> /\ Head(todo) = "rollback" => Has("ephemeral")
    /\ err = "none" => \A x \in Work : x \in Doing \/ Effect(x)

LEMMA ElementsConcat ==
  ASSUME NEW s, AnySeq(s), NEW t, AnySeq(t)
  PROVE  AnySeq(s \o t) /\ Elements(s \o t) = Elements(s) \cup Elements(t)
<1>1. /\ AnySeq(s \o t) /\ Len(s) \in Nat /\ Len(t) \in Nat /\ Len(s \o t) = Len(s) + Len(t)
      /\ \A i \in 1..Len(s) : (s \o t)[i] = s[i]
      /\ \A i \in 1..Len(t) : (s \o t)[Len(s) + i] = t[i]
  BY AnyConcat
<1>2. \A i \in 1..Len(s) : i \in 1..Len(s \o t)
  BY <1>1
<1>3. \A i \in 1..Len(t) : Len(s) + i \in 1..Len(s \o t)
  BY <1>1
<1>4. Elements(s) \subseteq Elements(s \o t)
  BY <1>1, <1>2 DEF Elements
<1>5. Elements(t) \subseteq Elements(s \o t)
  BY <1>1, <1>3 DEF Elements
<1>6. Elements(s \o t) \subseteq Elements(s) \cup Elements(t)
  BY ElementsOf
<1> QED
  BY <1>1, <1>4, <1>5, <1>6

LEMMA LiteralElements ==
  /\ AnySeq(<<>>) /\ Elements(<<>>) = {}
  /\ \A a : AnySeq(<<a>>) /\ Elements(<<a>>) = {a}
  /\ \A a, b : AnySeq(<<a, b>>) /\ Elements(<<a, b>>) = {a, b}
  /\ \A a, b, c : AnySeq(<<a, b, c>>) /\ Elements(<<a, b, c>>) = {a, b, c}
  /\ \A a, b, c, d : AnySeq(<<a, b, c, d>>) /\ Elements(<<a, b, c, d>>) = {a, b, c, d}
<1>1. AnySeq(<<>>) /\ Elements(<<>>) = {}
  BY AnyEmpty, ElementsOf
<1>2. ASSUME NEW a PROVE AnySeq(<<a>>) /\ Elements(<<a>>) = {a}
  <2> DEFINE s == <<a>>
  <2>1. s \in Seq({a}) /\ Len(s) = 1 /\ s[1] = a /\ 1..1 = {1}
    OBVIOUS
  <2> HIDE DEF s
  <2>2. AnySeq(s) /\ Elements(s) = {a}
    BY <2>1 DEF AnySeq, Elements
  <2> QED
    BY <2>2 DEF s
<1>3. ASSUME NEW a, NEW b PROVE AnySeq(<<a, b>>) /\ Elements(<<a, b>>) = {a, b}
  <2> DEFINE s == <<a, b>>
  <2>1. s \in Seq({a, b}) /\ Len(s) = 2 /\ s[1] = a /\ s[2] = b /\ 1..2 = {1, 2}
    OBVIOUS
  <2> HIDE DEF s
  <2>2. AnySeq(s) /\ Elements(s) = {a, b}
    BY <2>1 DEF AnySeq, Elements
  <2> QED
    BY <2>2 DEF s
<1>4. ASSUME NEW a, NEW b, NEW c PROVE AnySeq(<<a, b, c>>) /\ Elements(<<a, b, c>>) = {a, b, c}
  <2> DEFINE s == <<a, b, c>>
  <2>1. s \in Seq({a, b, c}) /\ Len(s) = 3 /\ s[1] = a /\ s[2] = b /\ s[3] = c /\ 1..3 = {1, 2, 3}
    OBVIOUS
  <2> HIDE DEF s
  <2>2. AnySeq(s) /\ Elements(s) = {a, b, c}
    BY <2>1 DEF AnySeq, Elements
  <2> QED
    BY <2>2 DEF s
<1>5. ASSUME NEW a, NEW b, NEW c, NEW d PROVE AnySeq(<<a, b, c, d>>) /\ Elements(<<a, b, c, d>>) = {a, b, c, d}
  <2> DEFINE s == <<a, b, c, d>>
  <2>1. /\ s \in Seq({a, b, c, d}) /\ Len(s) = 4 /\ s[1] = a /\ s[2] = b /\ s[3] = c /\ s[4] = d
        /\ 1..4 = {1, 2, 3, 4}
    OBVIOUS
  <2> HIDE DEF s
  <2>2. AnySeq(s) /\ Elements(s) = {a, b, c, d}
    BY <2>1 DEF AnySeq, Elements
  <2> QED
    BY <2>2 DEF s
<1> QED
  BY <1>1, <1>2, <1>3, <1>4, <1>5

\* The steps of each command.
LEMMA WorkOf ==
  ASSUME cmd.name \in Names
  PROVE  LET saved == IF Has("save") THEN {"save"} ELSE {} IN
         /\ Elements(Save) = saved
         /\ cmd.name = "version" => Work = {"version"}
         /\ cmd.name \in {"tmode show", "fixed show"} => Work = {"version", "tmode"}
         /\ cmd.name = "tmode set" => Work = {"version", "set"}
         /\ cmd.name = "save" => Work = {"save"}
         /\ cmd.name = "configure-stationary" => Work = {"nav5"} \cup saved
         /\ cmd.name = "configure-pps" => Work = {"tp5"} \cup saved
         /\ cmd.name = "fixed from-svin" => Work = {"version", "svin", "fix"} \cup saved
         /\ cmd.name = "fixed set" => Work = {"version", "set"} \cup saved
         /\ cmd.name = "survey-in" => Work = {"version", "cache", "config", "poll"}
         /\ cmd.name = "deploy" => Work = {"version", "nav5", "tp5", "tmode", "cache", "config", "poll",
                                           "svin", "fix"} \cup saved
<1> DEFINE saved == IF Has("save") THEN {"save"} ELSE {}
<1>1. AnySeq(Save) /\ Elements(Save) = saved
  BY LiteralElements DEF Save
<1>2. /\ Elements(runVersion) = {"version"} /\ Elements(runTmodeShow) = {"version", "tmode"}
      /\ Elements(runFixedShow) = {"version", "tmode"} /\ Elements(runTmodeSet) = {"version", "set"}
      /\ Elements(runSave) = {"save"}
  BY LiteralElements DEF runVersion, runTmodeShow, runFixedShow, runTmodeSet, runSave
<1>3. Elements(runConfigureStationary) = {"nav5"} \cup saved
  <2>1. AnySeq(<<"nav5">>) /\ Elements(<<"nav5">>) = {"nav5"}
    BY LiteralElements
  <2> QED
    BY <1>1, <2>1, ElementsConcat DEF runConfigureStationary
<1>4. Elements(runConfigurePPS) = {"tp5"} \cup saved
  <2>1. AnySeq(<<"tp5">>) /\ Elements(<<"tp5">>) = {"tp5"}
    BY LiteralElements
  <2> QED
    BY <1>1, <2>1, ElementsConcat DEF runConfigurePPS
<1>5. Elements(runFixedFromSVIN) = {"version", "svin", "fix"} \cup saved
  <2>1. AnySeq(<<"version", "svin", "fix">>) /\ Elements(<<"version", "svin", "fix">>) = {"version", "svin", "fix"}
    BY LiteralElements
  <2> QED
    BY <1>1, <2>1, ElementsConcat DEF runFixedFromSVIN
<1>6. Elements(runFixedSet) = {"version", "set"} \cup saved
  <2>1. AnySeq(<<"version", "set">>) /\ Elements(<<"version", "set">>) = {"version", "set"}
    BY LiteralElements
  <2> QED
    BY <1>1, <2>1, ElementsConcat DEF runFixedSet
<1>7. AnySeq(SurveyIn) /\ Elements(SurveyIn) = {"cache", "config", "poll"}
  BY LiteralElements DEF SurveyIn
<1>8. Elements(runSurveyIn) = {"version", "cache", "config", "poll"}
  <2>1. AnySeq(<<"version">>) /\ Elements(<<"version">>) = {"version"}
    BY LiteralElements
  <2>2. Elements(runSurveyIn) = {"version"} \cup {"cache", "config", "poll"}
    BY <1>7, <2>1, ElementsConcat DEF runSurveyIn
  <2> QED
    BY <2>2
<1>9. Elements(runDeploy) = {"version", "nav5", "tp5", "tmode", "cache", "config", "poll", "svin", "fix"} \cup saved
  <2> DEFINE s == <<"version", "nav5", "tp5", "tmode">>
             t == <<"svin", "fix">>
  <2>1. AnySeq(s) /\ Elements(s) = {"version", "nav5", "tp5", "tmode"} /\ AnySeq(t) /\ Elements(t) = {"svin", "fix"}
    BY LiteralElements
  <2>2. runDeploy = s \o SurveyIn \o t \o Save
    BY DEF runDeploy
  <2> HIDE DEF s, t
  <2>3. AnySeq(s \o SurveyIn) /\ Elements(s \o SurveyIn) = Elements(s) \cup Elements(SurveyIn)
    BY <1>7, <2>1, ElementsConcat
  <2>4. AnySeq(s \o SurveyIn \o t) /\ Elements(s \o SurveyIn \o t) = Elements(s \o SurveyIn) \cup Elements(t)
    BY <2>1, <2>3, ElementsConcat
  <2>5. Elements(runDeploy) = Elements(s \o SurveyIn \o t) \cup Elements(Save)
    BY <1>1, <2>2, <2>4, ElementsConcat
  <2> QED
    BY <1>1, <1>7, <2>1, <2>3, <2>4, <2>5
<1>10. /\ cmd.name = "version" => Steps = runVersion
       /\ cmd.name = "tmode show" => Steps = runTmodeShow
       /\ cmd.name = "fixed show" => Steps = runFixedShow
       /\ cmd.name = "tmode set" => Steps = runTmodeSet
       /\ cmd.name = "save" => Steps = runSave
       /\ cmd.name = "configure-stationary" => Steps = runConfigureStationary
       /\ cmd.name = "configure-pps" => Steps = runConfigurePPS
       /\ cmd.name = "fixed from-svin" => Steps = runFixedFromSVIN
       /\ cmd.name = "fixed set" => Steps = runFixedSet
       /\ cmd.name = "survey-in" => Steps = runSurveyIn
       /\ cmd.name = "deploy" => Steps = runDeploy
  BY Zenon DEF Steps
<1> HIDE DEF saved
<1>11. /\ cmd.name = "version" => Work = {"version"}
       /\ cmd.name = "tmode show" => Work = {"version", "tmode"}
       /\ cmd.name = "fixed show" => Work = {"version", "tmode"}
       /\ cmd.name = "tmode set" => Work = {"version", "set"}
       /\ cmd.name = "save" => Work = {"save"}
  BY <1>2, <1>10, Zenon DEF Work
<1>12. /\ cmd.name = "configure-stationary" => Work = {"nav5"} \cup saved
       /\ cmd.name = "configure-pps" => Work = {"tp5"} \cup saved
       /\ cmd.name = "fixed from-svin" => Work = {"version", "svin", "fix"} \cup saved
       /\ cmd.name = "fixed set" => Work = {"version", "set"} \cup saved
  BY <1>3, <1>4, <1>5, <1>6, <1>10, Zenon DEF Work
<1>13. /\ cmd.name = "survey-in" => Work = {"version", "cache", "config", "poll"}
       /\ cmd.name = "deploy" => Work = {"version", "nav5", "tp5", "tmode", "cache", "config", "poll",
                                         "svin", "fix"} \cup saved
  BY <1>8, <1>9, <1>10, Zenon DEF Work
<1>14. cmd.name \in {"tmode show", "fixed show"} => Work = {"version", "tmode"}
  BY <1>11
<1> QED
  BY <1>1, <1>11, <1>12, <1>13, <1>14, Zenon DEF saved

LEMMA WorkFacts ==
  ASSUME cmd.name \in Names
  PROVE  /\ Work \subseteq StepNames \ {"rollback"}
         /\ Elements(Save) \subseteq {"save"} /\ ("save" \in Work => cmd.name = "save" \/ "save" \in Elements(Save))
         /\ "fix" \in Work => "set" \notin Work
         /\ cmd.name = "survey-in" => Work \cap {"nav5", "tp5", "fix", "set", "save"} = {}
         /\ cmd.name = "deploy" => "set" \notin Work
<1>1. {"version", "nav5", "tp5", "tmode", "cache", "config", "poll", "svin", "fix", "set", "save"}
        \subseteq StepNames \ {"rollback"}
  BY DEF StepNames, Plain, Guarded
<1>2. cmd.name \in {"version", "tmode show", "fixed show", "tmode set", "save", "configure-stationary"}
        \/ cmd.name \in {"configure-pps", "fixed from-svin", "fixed set", "survey-in", "deploy"}
  BY DEF Names
<1>3. CASE cmd.name \in {"version", "tmode show", "fixed show", "tmode set", "save", "configure-stationary"}
  BY <1>1, <1>3, WorkOf
<1>4. CASE cmd.name \in {"configure-pps", "fixed from-svin", "fixed set", "survey-in", "deploy"}
  BY <1>1, <1>4, WorkOf
<1> QED
  BY <1>2, <1>3, <1>4

\* What becomes of the exchange in a step.
ExMoves ==
  \/ ex' \in {ex, Idle}
  \/ Begin
  \/ SendUBX /\ ex' = [ex EXCEPT !.stage = "wait"]
  \/ WaitFrame /\ Wanted(Head(incoming)) /\ ex' = Received(Head(incoming))
  \/ ex' = [ex EXCEPT !.stage = "gone"] \/ ex' = [ex EXCEPT !.stage = "late"]

LEMMA ExchangeMoves ==
  ASSUME [Next]_vars
  PROVE  ExMoves
<1>1. CASE Exchange
  BY <1>1 DEF Exchange, SendUBX, WaitFrame, WaitClosed, WaitContext, WaitDeadline, ExMoves
<1>2. CASE Begin
  BY <1>2 DEF ExMoves
<1>3. CASE Start \/ Open \/ Finish
  BY <1>3 DEF Start, Open, Finish, ExMoves
<1>4. CASE Step /\ ~Begin
  BY <1>4 DEF Step, Stop, Broken, RolledBack, Generation, Written, TmodeRead, Cached,
              Polled, PollMissed, Surveyed, Ended, Ends, ExMoves
<1>5. CASE ~(Start \/ Open \/ Step \/ Finish) /\ ~Exchange
  BY <1>5 DEF Next, World, Command_, Interrupt, Expire, vars, Environment, Serve, Misserve, Converge,
              OtherPolls, OtherReceiver, Greet, Complain, Drop, ExMoves
<1> QED
  BY <1>1, <1>2, <1>3, <1>4, <1>5

LEMMA ReadingStep ==
  ASSUME VerifyInv, RollbackInv, ReadingInv, [Next]_vars
  PROVE  ReadingInv'
<1>1. PipeTypes /\ Linked
  BY DEF VerifyInv
<1>2. PICK I : I = ex'.item
  OBVIOUS
<1>3. SUFFICES ASSUME ex'.op = "poll", I \in ConfigItems
      PROVE  /\ ex'.stage \in {"send", "wait"} => NoneLeft(I, "stale")'
             /\ ex'.stage = "ok" => SetsAt(I)' = {} /\ receiver'.cfg[I] = ex'.val
  BY <1>2 DEF ReadingInv
<1>4. ASSUME ex.op = "poll", ex.item = I
      PROVE  Keeps(I, "stale") /\ Holds(I)
  <2>1. CASE KeepsAll
    BY <1>3, <2>1 DEF KeepsAll, Told
  <2>2. CASE /\ ex.stage = "send" /\ requests' = Append(requests, Request)
             /\ incoming' = <<>> /\ stream' = stream /\ receiver' = receiver /\ budget' = budget
    <3>1. ex.slot = "poll"
      BY <1>1, <1>4, <2>2 DEF Linked
    <3>2. Request.kind = "poll"
      BY <3>1 DEF Request
    <3>3. Keeps(I, "stale") /\ SetsAt(I)' = SetsAt(I)
      BY <1>1, <2>2, <3>2, AskingKeeps
    <3> QED
      BY <2>2, <3>3 DEF Holds
  <2> QED
    BY <2>1, <2>2, LineMoves
<1>5. CASE ex' = ex
  BY <1>2, <1>3, <1>4, <1>5 DEF ReadingInv, Keeps, Holds
<1>6. CASE ex' = Idle
  BY <1>3, <1>6 DEF Idle
<1>7. CASE Begin
  <2>1. /\ stage = "running" /\ ex.stage = "idle" /\ todo # <<>> /\ ex' = Asks(Head(todo))
    BY <1>7 DEF Begin
  <2>2. Verbs(Asks(Head(todo))) /\ (Head(todo) = "rollback" => Asks(Head(todo)).op = "write")
    BY <2>1, AsksShape, HeadIsStep
  <2>3. ex'.stage = "send" /\ Head(todo) # "rollback"
    BY <1>3, <2>1, <2>2 DEF Verbs
  <2>4. NoneLeft(I, "all")
    BY <1>3, <2>1, <2>3 DEF VerifyInv, Quiet
  <2>5. NoneLeft(I, "stale")
    BY <2>4, AllCoversStale
  <2>6. Still
    BY <1>7, CommandIsStill DEF Step
  <2> QED
    BY <1>1, <2>3, <2>5, <2>6, StillKeeps
<1>8. CASE SendUBX /\ ex' = [ex EXCEPT !.stage = "wait"]
  <2>1. ex.op = "poll" /\ ex.item = I /\ ex.stage = "send" /\ ex'.stage = "wait"
    BY <1>1, <1>2, <1>3, <1>8 DEF Linked, SendUBX
  <2>2. NoneLeft(I, "stale")
    BY <1>3, <2>1 DEF ReadingInv
  <2> QED
    BY <1>4, <2>1, <2>2 DEF Keeps
<1>9. CASE WaitFrame /\ Wanted(Head(incoming)) /\ ex' = Received(Head(incoming))
  <2>1. InProgress
    BY <1>9, Exchanging DEF WaitFrame
  <2>2. PICK slot, st : Moved(slot, st) /\ Outcome(Head(incoming), slot, st)
    BY <1>1, <1>9, <2>1, ReceivedMoves
  <2>3. ex.op = "poll" /\ ex.item = I /\ ex'.stage = "ok"
    BY <1>2, <1>3, <2>2 DEF Moved, Outcome
  <2>4. CASE ex' # ex
    <3>1. /\ incoming # <<>> /\ ex.stage = "wait"
          /\ Head(incoming).kind = "data" /\ Head(incoming).item = I
          /\ ex' = [ex EXCEPT !.stage = "ok", !.val = Head(incoming).val, !.short = Head(incoming).short]
      BY <1>3, <2>3, <2>4, PollAnswered
    <3>2. ex'.val = Head(incoming).val
      BY <1>1, <3>1 DEF Linked
    <3>3. IsData(Head(incoming), I)
      BY <1>1, <3>1, HeadIsElement DEF IsData, Frames
    <3>4. NoneLeft(I, "stale")
      BY <1>3, <2>3, <3>1 DEF ReadingInv
    <3>5. /\ incoming' = Tail(incoming) /\ stream' = stream /\ requests' = requests /\ receiver' = receiver
      BY <1>9 DEF WaitFrame, TakeFrame, linkVars
    <3>6. SetsAt(I)' = {} /\ receiver'.cfg[I] = Head(incoming).val
      BY <1>1, <3>1, <3>3, <3>4, <3>5, AnswerTaken
    <3> QED
      BY <2>3, <3>2, <3>6
  <2> QED
    BY <1>5, <2>4
<1>10. CASE ex' = [ex EXCEPT !.stage = "gone"] \/ ex' = [ex EXCEPT !.stage = "late"]
  BY <1>1, <1>10 DEF Linked
<1> QED
  BY <1>5, <1>6, <1>7, <1>8, <1>9, <1>10, ExchangeMoves DEF ExMoves
\* The command: its name stays, its stage goes on, and an error stays.
LEMMA StageMoves ==
  ASSUME [Next]_vars
  PROVE  /\ cmd' = cmd
         /\ stage' \in {"start", "dialing"} => stage \in {"start", "dialing"}
         /\ stage' = "running" => stage = "running" \/ (stage = "dialing" /\ todo' = Steps)
         /\ err' = "none" => err = "none"
         /\ stage' = "done" => stage = "done" \/ err' = "other" \/ Finish
<1>1. CASE Start \/ Open \/ Finish
  BY <1>1 DEF Start, Open, Refuse, Finish
<1>2. CASE Begin \/ Stop \/ Broken \/ RolledBack
  BY <1>2 DEF Begin, Stop, Broken, RolledBack, Fail, Cause
<1>3. CASE Generation \/ Written \/ TmodeRead \/ Cached \/ PollMissed \/ Surveyed
  BY <1>3 DEF Generation, Written, TmodeRead, Cached, PollMissed, Surveyed, Ended, Ends, Advance, Fail
<1>4. CASE Polled
  <2>1. stage = "running"
    BY <1>4, Zenon DEF Polled, Ends
  <2>2. cmd' = cmd /\ stage' = stage /\ err' = err
    BY <1>4, Zenon DEF Polled, Advance
  <2> QED
    BY <2>1, <2>2
<1>5. CASE ~(Start \/ Open \/ Step \/ Finish)
  <2>1. UNCHANGED cmdVars
    BY <1>5 DEF Next, World, Command_, Interrupt, Expire, vars, cmdVars
  <2> QED
    BY <2>1 DEF cmdVars
<1> QED
  BY <1>1, <1>2, <1>3, <1>4, <1>5 DEF Step

LEMMA FlashedKept ==
  ASSUME VerifyInv, RollbackInv, [Next]_vars, Flashed, ~(SendUBX /\ Request.kind = "set")
  PROVE  Flashed'
<1>1. PipeTypes /\ AnySeq(requests)
  BY DEF VerifyInv, PipeTypes
<1>2. CASE NoNews
  <2>1. receiver'.flash = receiver'.cfg
    BY <1>1, <1>2 DEF NoNews, PipeTypes, Flashed
  <2>2. CASE requests' = requests
    BY <2>1, <2>2 DEF Flashed
  <2>3. CASE requests' = Append(requests, Request) /\ Request.kind # "set"
    <3>1. /\ Len(requests) \in Nat /\ Len(requests') = Len(requests) + 1
          /\ \A i \in 1..Len(requests) : requests'[i] = requests[i]
          /\ requests'[Len(requests) + 1] = Request
      BY <1>1, <2>3, AnyAppend
    <3>2. \A i \in 1..Len(requests') : i \in 1..Len(requests) \/ i = Len(requests) + 1
      BY <3>1
    <3> QED
      BY <2>1, <2>3, <3>1, <3>2 DEF Flashed
  <2> QED
    BY <1>2, <2>2, <2>3 DEF NoNews
<1>3. CASE Serve \/ Misserve
  <2>1. /\ requests # <<>> /\ requests' = Tail(requests)
        /\ receiver' = receiver \/ receiver' = Applied(Head(requests))
    BY <1>1, <1>3, ServedFrames
  <2>2. Head(requests).kind # "set" /\ \A i \in 1..Len(requests') : requests'[i].kind # "set"
    BY <1>1, <2>1, AnyTail DEF Flashed
  <2>3. receiver'.flash = receiver'.cfg
    <3>1. CASE Head(requests).kind = "save"
      <4>1. Applied(Head(requests)) = [receiver EXCEPT !.flash = receiver.cfg]
        BY <3>1, Zenon DEF Applied
      <4> QED
        BY <1>1, <2>1, <4>1 DEF PipeTypes, Flashed
    <3>2. CASE Head(requests).kind # "save"
      <4>1. Applied(Head(requests)) = receiver
        BY <2>2, <3>2, Zenon DEF Applied
      <4> QED
        BY <2>1, <4>1 DEF Flashed
    <3> QED
      BY <3>1, <3>2
  <2> QED
    BY <2>2, <2>3 DEF Flashed
<1> QED
  BY <1>2, <1>3, NewsIsServed

\* A frame that acknowledges a save is new only when the save was applied.
LEMMA AckOfSave ==
  ASSUME VerifyInv, RollbackInv, SavingInv, [Next]_vars, NEW f \in Frames', f \notin Frames, SaveAck(f)
  PROVE  /\ ex' = ex /\ requests # <<>> /\ Head(requests).kind = "save"
         /\ requests' = Tail(requests) /\ receiver'.flash = receiver'.cfg
<1>1. PipeTypes /\ AnySeq(requests)
  BY DEF VerifyInv, PipeTypes
<1>2. Serve \/ Misserve
  BY NewsIsServed DEF NoNews
<1>3. /\ requests # <<>> /\ requests' = Tail(requests)
      /\ Head(requests).item = "CFG" /\ (Head(requests).kind = "poll" \/ receiver' = Applied(Head(requests)))
  BY <1>1, <1>2, ServedFrames DEF SaveAck
<1>4. Head(requests).kind = "save"
  <2>1. Head(requests) = requests[1] /\ 1 \in 1..Len(requests)
    BY <1>1, <1>3, AnyTail
  <2> QED
    BY <1>3, <2>1 DEF SavingInv
<1>5. receiver' = [receiver EXCEPT !.flash = receiver.cfg]
  BY <1>3, <1>4, Zenon DEF Applied
<1>6. receiver'.flash = receiver'.cfg
  BY <1>1, <1>5 DEF PipeTypes
<1>7. ex' = ex
  BY <1>2 DEF Serve, Misserve
<1> QED
  BY <1>3, <1>4, <1>6, <1>7
LEMMA OutsideCommand ==
  ASSUME [Next]_vars
  PROVE  Start \/ Open \/ Step \/ Finish \/ (UNCHANGED cmdVars /\ (Exchange \/ ex' = ex))
<1>1. CASE Exchange
  BY <1>1 DEF Next, World, Command_, Interrupt, Expire, vars, cmdVars
<1>2. CASE ~Exchange
  BY <1>2 DEF Next, World, Command_, Interrupt, Expire, vars, Environment, Serve, Misserve, Converge,
              OtherPolls, OtherReceiver, Greet, Complain, Drop, cmdVars
<1> QED
  BY <1>1, <1>2

\* What becomes of the requests.
LEMMA RequestsMove ==
  ASSUME VerifyInv, RollbackInv, [Next]_vars
  PROVE  \/ requests' = requests
         \/ requests # <<>> /\ requests' = Tail(requests) /\ ex' = ex
         \/ /\ requests' = Append(requests, Request) /\ UNCHANGED cmdVars
            /\ ex.stage = "send" /\ ex' = [ex EXCEPT !.stage = "wait"] /\ incoming' = <<>>
            /\ stage \notin {"start", "dialing"} /\ todo # <<>>
            /\ ex.op = "save" <=> Head(todo) = "save"
            /\ Request.kind = "save" <=> Head(todo) = "save"
            /\ Request.kind # "save" => Request.item # "CFG"
<1>1. PipeTypes /\ Linked
  BY DEF VerifyInv
<1>2. CASE Serve \/ Misserve
  BY <1>1, <1>2, ServedFrames DEF Serve, Misserve
<1>3. CASE NoNews /\ requests' # requests
  <2>1. SendUBX /\ requests' = Append(requests, Request)
    BY <1>3 DEF NoNews
  <2>2. ex.stage = "send" /\ ex' = [ex EXCEPT !.stage = "wait"] /\ incoming' = <<>>
    BY <1>3, <2>1 DEF SendUBX, DrainAndSend
  <2>3. UNCHANGED cmdVars
    <3>1. Start \/ Open \/ Step \/ Finish => requests' = requests
      BY CommandIsStill DEF Start, Still
    <3> QED
      BY <1>3, <3>1, OutsideCommand
  <2>4. InProgress /\ Head(todo) \in StepNames
    BY <2>2, Exchanging, HeadIsStep DEF InProgress
  <2>5. ex.op = Asks(Head(todo)).op /\ ex.item = Asks(Head(todo)).item
    BY <1>1, <2>2 DEF Linked
  <2>6. ex.op = "save" <=> Head(todo) = "save"
    BY <2>4, <2>5, AsksOf, AsksItems
  <2>7. Request.kind = "save" <=> ex.op = "save"
    BY <2>4 DEF Request, InProgress
  <2>8. Request.kind # "save" => Request.item # "CFG"
    <3>1. Request.item = ex.item
      BY DEF Request
    <3> QED
      BY <2>4, <2>5, <2>6, <2>7, <3>1, AsksItems
  <2> QED
    BY <2>1, <2>2, <2>3, <2>4, <2>6, <2>7, <2>8 DEF InProgress
<1> QED
  BY <1>2, <1>3, NewsIsServed

LEMMA SaveIsLast ==
  ASSUME RollbackInv, SurveyInv, todo # <<>>, Head(todo) = "save", Tail(todo) # <<>>
  PROVE  FALSE
<1>1. InOrder(todo) /\ Plan(todo)
  BY DEF SurveyInv, RollbackInv
<1>2. Len(todo) \in Nat \ {0} /\ Len(Tail(todo)) = Len(todo) - 1 /\ Tail(todo) \in Seq(StepNames)
  BY <1>1, HeadTailProperties DEF InOrder
<1>3. Head(Tail(todo)) = Tail(todo)[1] /\ 1 \in 1..Len(Tail(todo))
  BY <1>2
<1>4. 1 + 1 \in 2..Len(todo) /\ Tail(todo)[1] = todo[1 + 1]
  BY <1>1, <1>3, OrderTail
<1>5. Head(Tail(todo)) \in StepNames /\ Place["save"] < Place[Head(Tail(todo))]
  BY <1>1, <1>3, <1>4, OrderOf
<1>6. Head(Tail(todo)) = "rollback"
  BY <1>5 DEF Place, StepNames, Plain, Guarded
<1> QED
  BY <1>1, <1>6, PlanTail

LEMMA SaveWasAhead ==
  ASSUME VerifyInv, RollbackInv, SurveyInv, [Next]_vars, SaveAhead'
  PROVE  SaveAhead
<1>1. CASE stage' \in {"start", "dialing"}
  BY <1>1, StageMoves DEF SaveAhead
<1>2. CASE /\ todo' # <<>> /\ Head(todo') # "rollback"
           /\ Head(todo') = "save" => ex'.stage \in {"idle", "send"}
  <2>1. CASE Start \/ Open \/ Step \/ Finish
    <3>1. CASE todo' = todo
      BY <1>2, <2>1, <3>1, CommandMoves, SaveIsLast DEF TodoMoves, SaveAhead
    <3>2. CASE /\ todo # <<>> /\ todo' = Tail(todo) /\ Head(todo) # "rollback"
      BY <1>2, <3>2, SaveIsLast DEF SaveAhead
    <3>3. CASE todo # <<>> /\ Head(todo) = "tmode"
      BY <3>3 DEF SaveAhead
    <3>4. CASE todo' \in {<<>>, <<"rollback">>}
      BY <1>2, <3>4
    <3>5. CASE stage = "dialing"
      BY <3>5 DEF SaveAhead
    <3> QED
      BY <2>1, <3>1, <3>2, <3>3, <3>4, <3>5, CommandMoves DEF TodoMoves
  <2>2. CASE UNCHANGED cmdVars /\ ex' = ex
    BY <1>2, <2>2 DEF SaveAhead, cmdVars
  <2>3. CASE UNCHANGED cmdVars /\ Exchange
    <3>1. todo' = todo
      BY <2>3 DEF cmdVars
    <3>2. SUFFICES ASSUME Head(todo) = "save", ex'.stage \in {"idle", "send"}
          PROVE  ex.stage \in {"idle", "send"}
      BY <1>2, <3>1 DEF SaveAhead
    <3>3. CASE SendUBX
      BY <3>3 DEF SendUBX
    <3>4. CASE WaitFrame
      <4>1. InProgress /\ Linked /\ ex.stage = "wait"
        BY <3>4, Exchanging DEF WaitFrame, VerifyInv
      <4>2. ex.op = "save"
        BY <3>2, <4>1, AsksOf DEF Linked
      <4>3. CASE Wanted(Head(incoming))
        <5>1. ex' = Received(Head(incoming))
          BY <3>4, <4>3 DEF WaitFrame
        <5>2. PICK slot, st : Moved(slot, st) /\ Outcome(Head(incoming), slot, st)
          BY <4>1, <4>3, <5>1, ReceivedMoves
        <5> QED
          BY <3>2, <4>2, <5>2 DEF Moved, Outcome
      <4>4. CASE ~Wanted(Head(incoming))
        BY <3>2, <3>4, <4>4 DEF WaitFrame
      <4> QED
        BY <4>3, <4>4
    <3>5. CASE WaitClosed \/ WaitContext \/ WaitDeadline
      BY <3>2, <3>5 DEF WaitClosed, WaitContext, WaitDeadline, VerifyInv, Linked
    <3> QED
      BY <2>3, <3>3, <3>4, <3>5 DEF Exchange
  <2> QED
    BY <2>1, <2>2, <2>3, OutsideCommand
<1> QED
  BY <1>1, <1>2 DEF SaveAhead
LEMMA SavingStep ==
  ASSUME VerifyInv, RollbackInv, SurveyInv, SavingInv, [Next]_vars
  PROVE  SavingInv'
<1>1. PipeTypes /\ Linked /\ AnySeq(requests)
  BY DEF VerifyInv, PipeTypes
<1>2. \A i \in 1..Len(requests') :
        \/ i \in 1..Len(requests) /\ requests'[i] = requests[i]
        \/ i + 1 \in 1..Len(requests) /\ requests'[i] = requests[i + 1]
        \/ i = Len(requests) + 1 /\ requests' = Append(requests, Request) /\ requests'[i] = Request
  <2>1. CASE requests' = requests
    BY <2>1
  <2>2. CASE requests # <<>> /\ requests' = Tail(requests)
    BY <1>1, <2>2, AnyTail
  <2>3. CASE requests' = Append(requests, Request)
    <3>1. /\ Len(requests) \in Nat /\ Len(requests') = Len(requests) + 1
          /\ \A i \in 1..Len(requests) : requests'[i] = requests[i]
          /\ requests'[Len(requests) + 1] = Request
      BY <1>1, <2>3, AnyAppend
    <3>2. \A i \in 1..Len(requests') : i \in 1..Len(requests) \/ i = Len(requests) + 1
      BY <3>1
    <3> QED
      BY <2>3, <3>1, <3>2
  <2> QED
    BY <2>1, <2>2, <2>3, RequestsMove
<1>3. \A i \in 1..Len(requests') : requests'[i].kind # "save" => requests'[i].item # "CFG"
  <2>1. CASE requests' = requests
    BY <2>1 DEF SavingInv
  <2>2. CASE requests # <<>> /\ requests' = Tail(requests)
    BY <1>1, <2>2, AnyTail DEF SavingInv
  <2>3. CASE requests' = Append(requests, Request) /\ (Request.kind # "save" => Request.item # "CFG")
    <3>1. /\ Len(requests) \in Nat /\ Len(requests') = Len(requests) + 1
          /\ \A i \in 1..Len(requests) : requests'[i] = requests[i]
          /\ requests'[Len(requests) + 1] = Request
      BY <1>1, <2>3, AnyAppend
    <3>2. \A i \in 1..Len(requests') : i \in 1..Len(requests) \/ i = Len(requests) + 1
      BY <3>1
    <3> QED
      BY <2>3, <3>1, <3>2 DEF SavingInv
  <2> QED
    BY <2>1, <2>2, <2>3, RequestsMove
<1>4. ASSUME SaveAhead' PROVE Unsaved'
  <2>1. SaveAhead /\ Unsaved
    BY <1>4, SaveWasAhead DEF SavingInv
  <2>2. \A i \in 1..Len(requests') : requests'[i].kind # "save"
    <3>1. SUFFICES ASSUME NEW i \in 1..Len(requests'), requests'[i].kind = "save" PROVE FALSE
      OBVIOUS
    <3>2. CASE requests' = requests
      BY <2>1, <3>1, <3>2 DEF Unsaved
    <3>3. CASE requests # <<>> /\ requests' = Tail(requests)
      BY <1>1, <2>1, <3>1, <3>3, AnyTail DEF Unsaved
    <3>4. CASE /\ requests' = Append(requests, Request) /\ UNCHANGED cmdVars
               /\ ex.stage = "send" /\ ex' = [ex EXCEPT !.stage = "wait"]
               /\ stage \notin {"start", "dialing"}
               /\ Request.kind = "save" <=> Head(todo) = "save"
      <4>1. requests'[i] = Request
        BY <1>2, <2>1, <3>1 DEF Unsaved
      <4>2. Head(todo) = "save"
        BY <3>1, <3>4, <4>1
      <4>3. todo' = todo /\ stage' = stage /\ ex'.stage = "wait"
        BY <1>1, <3>4 DEF cmdVars, Linked
      <4> QED
        BY <1>4, <3>4, <4>2, <4>3 DEF SaveAhead
    <3> QED
      BY <3>2, <3>3, <3>4, RequestsMove
  <2>3. ASSUME NEW f \in Frames', SaveAck(f) PROVE FALSE
    <3>1. f \notin Frames
      BY <2>1, <2>3 DEF Unsaved
    <3>2. requests # <<>> /\ Head(requests).kind = "save"
      BY <2>3, <3>1, AckOfSave
    <3> QED
      BY <1>1, <2>1, <3>2, AnyTail DEF Unsaved
  <2> QED
    BY <2>2, <2>3 DEF Unsaved
<1>5. ASSUME ex' = ex, ex.op = "save", ex.stage = "wait"
      PROVE  SaveLast' /\ \A f \in Frames' : SaveAck(f) => Flashed'
  <2>1. SaveLast /\ (requests' = requests \/ (requests # <<>> /\ requests' = Tail(requests))) /\ ~SendUBX
    BY <1>5, RequestsMove DEF SavingInv, SendUBX
  <2>2. SaveLast'
    <3>1. CASE requests' = requests
      BY <2>1, <3>1 DEF SaveLast
    <3>2. CASE requests # <<>> /\ requests' = Tail(requests)
      <4>1. \A i \in 1..Len(requests') : i \in Nat /\ i + 1 \in 1..Len(requests) /\ requests'[i] = requests[i + 1]
        BY <1>1, <3>2, AnyTail
      <4>2. \A i, j \in Nat : i < j => i + 1 < j + 1
        OBVIOUS
      <4> QED
        BY <2>1, <4>1, <4>2 DEF SaveLast
    <3> QED
      BY <2>1, <3>1, <3>2
  <2>3. ASSUME NEW f \in Frames', SaveAck(f) PROVE Flashed'
    <3>1. CASE f \in Frames
      BY <1>5, <2>1, <2>3, <3>1, FlashedKept DEF SavingInv
    <3>2. CASE f \notin Frames
      <4>1. /\ requests # <<>> /\ Head(requests).kind = "save"
            /\ requests' = Tail(requests) /\ receiver'.flash = receiver'.cfg
        BY <2>3, <3>2, AckOfSave
      <4>2. /\ Head(requests) = requests[1] /\ 1 \in 1..Len(requests)
            /\ \A i \in 1..Len(requests') : i + 1 \in 1..Len(requests) /\ requests'[i] = requests[i + 1]
        BY <1>1, <4>1, AnyTail
      <4>3. \A i \in 1..Len(requests') : 1 < i + 1
        OBVIOUS
      <4>4. \A i \in 1..Len(requests') : requests'[i].kind # "set"
        BY <2>1, <4>1, <4>2, <4>3 DEF SaveLast
      <4> QED
        BY <4>1, <4>4 DEF Flashed
    <3> QED
      BY <3>1, <3>2
  <2> QED
    BY <2>2, <2>3
<1>6. ASSUME SendUBX, ex' = [ex EXCEPT !.stage = "wait"], ex.op = "save"
      PROVE  SaveLast' /\ \A f \in Frames' : SaveAck(f) => Flashed'
  <2>1. InProgress /\ Linked /\ ex.stage = "send" /\ ex' # ex
    BY <1>1, <1>6, Exchanging DEF SendUBX, Linked
  <2>2. Head(todo) = "save"
    BY <1>6, <2>1, AsksItems, HeadIsStep DEF Linked, InProgress
  <2>3. Unsaved
    BY <2>1, <2>2 DEF SavingInv, SaveAhead, InProgress
  <2>4. \A i \in 1..Len(requests') : requests'[i].kind = "save" =>
          i = Len(requests) + 1 /\ requests' = Append(requests, Request)
    BY <1>2, <2>3 DEF Unsaved
  <2>5. SaveLast'
    <3>1. SUFFICES ASSUME NEW i \in 1..Len(requests'), NEW j \in 1..Len(requests'), i < j,
                          requests'[i].kind = "save"
          PROVE  FALSE
      BY DEF SaveLast
    <3>2. i = Len(requests) + 1 /\ Len(requests') = Len(requests) + 1 /\ Len(requests) \in Nat
      BY <1>1, <2>4, <3>1, AnyAppend
    <3> QED
      BY <3>1, <3>2
  <2>6. \A f \in Frames' : ~SaveAck(f)
    BY <2>1, <2>3, AckOfSave DEF Unsaved
  <2> QED
    BY <2>5, <2>6
<1>7. ASSUME WaitFrame, Wanted(Head(incoming)), ex' = Received(Head(incoming)), ex'.op = "save"
      PROVE  ex'.stage # "wait" /\ (ex'.stage = "ok" => Flashed')
  <2>1. InProgress /\ incoming # <<>> /\ ex.stage = "wait"
    BY <1>7, Exchanging DEF WaitFrame, TakeFrame
  <2>2. PICK slot, st : Moved(slot, st) /\ Outcome(Head(incoming), slot, st)
    BY <1>1, <1>7, <2>1, ReceivedMoves
  <2>3. ex.op = "save" /\ ex.slot = "ack" /\ ex'.stage \in {"ok", "nak"}
    BY <1>7, <2>1, <2>2 DEF Moved, Outcome, InProgress
  <2>4. SUFFICES ASSUME ex'.stage = "ok" PROVE Flashed'
    BY <2>3
  <2>5. Head(incoming).kind # "nak"
    <3>1. Head(incoming).kind = "nak" => ex' = [ex EXCEPT !.stage = "nak"]
      BY <1>7, Zenon DEF Received
    <3> QED
      BY <1>1, <2>4, <3>1 DEF Linked
  <2>6. Head(todo) = "save" /\ ex.item = "CFG"
    BY <1>1, <2>1, <2>3, AsksOf, AsksItems, HeadIsStep DEF Linked
  <2>7. SaveAck(Head(incoming)) /\ Head(incoming) \in Frames
    BY <1>1, <1>7, <2>1, <2>3, <2>5, <2>6, HeadIsElement DEF Wanted, SaveAck
  <2>8. Flashed
    BY <2>1, <2>3, <2>7 DEF SavingInv
  <2> QED
    BY <2>1, <2>8, FlashedKept DEF SendUBX
<1>8. ex'.op = "save" /\ ex'.stage = "wait" => SaveLast' /\ \A f \in Frames' : SaveAck(f) => Flashed'
  <2>1. SUFFICES ASSUME ex'.op = "save", ex'.stage = "wait"
        PROVE  SaveLast' /\ \A f \in Frames' : SaveAck(f) => Flashed'
    OBVIOUS
  <2>2. CASE Begin
    <3>1. ex' = Asks(Head(todo)) /\ Verbs(Asks(Head(todo)))
      BY <2>2, AsksShape, HeadIsStep DEF Begin
    <3> QED
      BY <2>1, <3>1 DEF Verbs
  <2>3. CASE ex' = Idle \/ ex' = [ex EXCEPT !.stage = "gone"] \/ ex' = [ex EXCEPT !.stage = "late"]
    BY <1>1, <2>1, <2>3 DEF Idle, Linked
  <2>4. CASE SendUBX /\ ex' = [ex EXCEPT !.stage = "wait"]
    BY <1>1, <1>6, <2>1, <2>4 DEF Linked
  <2> QED
    BY <1>5, <1>7, <2>1, <2>2, <2>3, <2>4, ExchangeMoves DEF ExMoves
<1>9. ex'.op = "save" /\ ex'.stage = "ok" => Flashed'
  <2>1. SUFFICES ASSUME ex'.op = "save", ex'.stage = "ok" PROVE Flashed'
    OBVIOUS
  <2>2. CASE Begin
    <3>1. ex' = Asks(Head(todo)) /\ Verbs(Asks(Head(todo)))
      BY <2>2, AsksShape, HeadIsStep DEF Begin
    <3> QED
      BY <2>1, <3>1 DEF Verbs
  <2>3. CASE \/ ex' = Idle \/ ex' = [ex EXCEPT !.stage = "gone"] \/ ex' = [ex EXCEPT !.stage = "late"]
             \/ ex' = [ex EXCEPT !.stage = "wait"]
    BY <1>1, <2>1, <2>3 DEF Idle, Linked
  <2>4. CASE ex' = ex
    BY <2>1, <2>4, FlashedKept DEF SavingInv, SendUBX
  <2> QED
    BY <1>7, <2>1, <2>2, <2>3, <2>4, ExchangeMoves DEF ExMoves
<1> QED
  BY <1>3, <1>4, <1>8, <1>9 DEF SavingInv
LEMMA TailElements ==
  ASSUME NEW s, AnySeq(s), s # <<>>, NEW x \in Elements(s), x # Head(s)
  PROVE  x \in Elements(Tail(s))
<1>1. PICK i \in 1..Len(s) : x = s[i]
  BY DEF Elements
<1>2. /\ Len(s) \in Nat /\ Head(s) = s[1] /\ Len(Tail(s)) = Len(s) - 1
      /\ \A j \in 1..Len(Tail(s)) : Tail(s)[j] = s[j + 1]
  BY AnyTail
<1>3. i - 1 \in 1..Len(Tail(s)) /\ (i - 1) + 1 = i
  BY <1>1, <1>2
<1>4. Tail(s)[i - 1] = x
  BY <1>1, <1>2, <1>3
<1> QED
  BY <1>3, <1>4 DEF Elements

LEMMA TodoTypes ==
  ASSUME SurveyInv
  PROVE  /\ AnySeq(todo) /\ Doing \subseteq StepNames
         /\ todo # <<>> => /\ Head(todo) \in Doing
                           /\ \A x \in Doing : Place[Head(todo)] <= Place[x]
<1>1. todo \in Seq(StepNames) /\ AnySeq(todo)
  BY DEF SurveyInv, InOrder, AnySeq
<1>2. \A i \in 1..Len(todo) : todo[i] \in StepNames
  BY <1>1
<1>3. ASSUME todo # <<>> PROVE Head(todo) \in Doing
  BY <1>1, <1>3, ElementsOf DEF Doing
<1>4. ASSUME todo # <<>>, NEW x \in Doing PROVE Place[Head(todo)] <= Place[x]
  <2>1. PICK i \in 1..Len(todo) : x = todo[i]
    BY DEF Doing, Elements
  <2>2. Head(todo) = todo[1] /\ Len(todo) \in Nat /\ Head(todo) \in StepNames
    BY <1>1, <1>2, <1>4, AnyTail
  <2>3. CASE i = 1
    BY <2>1, <2>2, <2>3, PlaceIsNat
  <2>4. CASE i # 1
    <3>1. i \in 2..Len(todo)
      BY <2>1, <2>2, <2>4
    <3>2. Place[Head(todo)] < Place[todo[i]] /\ todo[i] \in StepNames
      BY <1>4, <3>1, OrderOf DEF SurveyInv
    <3>3. Place[Head(todo)] \in 1..12 /\ Place[todo[i]] \in 1..12
      BY <2>2, <3>2, PlaceIsNat
    <3>4. \A m, n \in 1..12 : m < n => m <= n
      OBVIOUS
    <3> QED
      BY <2>1, <3>2, <3>3, <3>4, Zenon
  <2> QED
    BY <2>3, <2>4
<1> QED
  BY <1>1, <1>2, <1>3, <1>4 DEF Doing, Elements

\* A setting changes only by a write to it that is sent.
LEMMA HoldsUnlessWritten ==
  ASSUME VerifyInv, RollbackInv, [Next]_vars, NEW item \in ConfigItems,
         ~(ex.stage = "send" /\ ex.op = "write" /\ ex.item = item)
  PROVE  Holds(item)
<1>1. PipeTypes
  BY DEF VerifyInv
<1>2. CASE KeepsAll
  BY <1>2 DEF KeepsAll
<1>3. CASE /\ ex.stage = "send" /\ requests' = Append(requests, Request)
           /\ incoming' = <<>> /\ stream' = stream /\ receiver' = receiver /\ budget' = budget
  <2>1. InProgress
    BY <1>3, Exchanging
  <2>2. ~(Request.kind = "set" /\ Request.item = item)
    BY <1>3, <2>1 DEF Request, InProgress
  <2>3. SetsAt(item)' = SetsAt(item)
    BY <1>1, <1>3, <2>2, AskingKeeps
  <2> QED
    BY <1>3, <2>3 DEF Holds
<1> QED
  BY <1>2, <1>3, LineMoves

\* The step that writes an item.
LEMMA Writers ==
  ASSUME VerifyInv, RollbackInv, ex.stage # "idle", ex.op = "write"
  PROVE  /\ todo # <<>> /\ Head(todo) \in {"nav5", "tp5", "config", "fix", "set", "rollback"}
         /\ ex.item = "NAV5" => Head(todo) = "nav5"
         /\ ex.item = "TP5" => Head(todo) = "tp5"
         /\ ex.item = "TMODE" => Head(todo) \in {"config", "fix", "set", "rollback"}
<1>1. todo # <<>> /\ ex.op = Asks(Head(todo)).op /\ ex.item = Asks(Head(todo)).item
  BY DEF VerifyInv, Linked
<1>2. Head(todo) \in StepNames
  BY <1>1, HeadIsStep
<1>3. \/ Head(todo) \in {"version", "tmode", "cache", "poll", "svin", "save"}
      \/ Head(todo) \in {"nav5", "tp5", "config", "fix", "set", "rollback"}
  BY <1>2 DEF StepNames, Plain, Guarded
<1>4. Head(todo) \in {"nav5", "tp5", "config", "fix", "set", "rollback"}
  BY <1>1, <1>3, AsksOf
<1> QED
  BY <1>1, <1>4, AsksOf

\* A step that is done is not undone by what its command does next.
LEMMA DoneIsNotUndone ==
  ASSUME VerifyInv, RollbackInv, SurveyInv, WorkInv, stage = "running", err = "none",
         NEW x \in Work, x \notin Doing, ex.stage # "idle", ex.op = "write"
  PROVE  /\ x = "nav5" => ex.item # "NAV5"
         /\ x = "tp5" => ex.item # "TP5"
         /\ x = "poll" /\ cmd.name = "survey-in" /\ ~Has("ephemeral") => ex.item # "TMODE"
         /\ x \in {"fix", "set"} => ex.item # "TMODE"
         /\ x # "save"
<1> DEFINE y == Head(todo)
<1>1. /\ todo # <<>> /\ y \in {"nav5", "tp5", "config", "fix", "set", "rollback"}
      /\ ex.item = "NAV5" => y = "nav5"
      /\ ex.item = "TP5" => y = "tp5"
      /\ ex.item = "TMODE" => y \in {"config", "fix", "set", "rollback"}
  BY Writers
<1>2. y \in Doing /\ cmd.name \in Names
  BY <1>1, TodoTypes DEF RollbackInv
<1>3. y # "rollback" => y \in Work /\ ~(Place[y] <= Place[x])
  BY <1>1, <1>2 DEF WorkInv
<1>4. y = "rollback" => Has("ephemeral") /\ cmd.name = "survey-in"
  BY <1>1 DEF WorkInv
<1> HIDE DEF y
<1>5. /\ "fix" \in Work => "set" \notin Work
      /\ cmd.name = "survey-in" => Work \cap {"nav5", "tp5", "fix", "set", "save"} = {}
  BY <1>2, WorkFacts
<1>6. /\ Place["config"] <= Place["poll"] /\ Place["config"] <= Place["fix"] /\ Place["config"] <= Place["set"]
      /\ Place["fix"] <= Place["fix"] /\ Place["fix"] <= Place["set"] /\ Place["set"] <= Place["set"]
      /\ \A z \in {"nav5", "tp5", "config", "fix", "set"} : Place[z] <= Place["save"]
  BY DEF Place
<1>7. x = "nav5" => y # "nav5"
  BY <1>2
<1>8. x = "tp5" => y # "tp5"
  BY <1>2
<1>9. x = "poll" /\ cmd.name = "survey-in" /\ ~Has("ephemeral") => y \notin {"config", "fix", "set", "rollback"}
  BY <1>3, <1>4, <1>5, <1>6
<1>10. x \in {"fix", "set"} => y \notin {"config", "fix", "set", "rollback"}
  BY <1>3, <1>4, <1>5, <1>6
<1>11. x # "save"
  BY <1>1, <1>3, <1>4, <1>5, <1>6
<1> QED
  BY <1>1, <1>7, <1>8, <1>9, <1>10, <1>11

LEMMA EffectKept ==
  ASSUME VerifyInv, RollbackInv, SurveyInv, WorkInv, [Next]_vars, stage = "running", err = "none",
         NEW x \in Work, x \notin Doing, Effect(x)
  PROVE  Effect(x)'
<1>1. cmd' = cmd
  BY StageMoves
<1>2. ASSUME NEW item \in ConfigItems, ~(ex.stage = "send" /\ ex.op = "write" /\ ex.item = item)
      PROVE  Holds(item)
  BY <1>2, HoldsUnlessWritten
<1>3. "NAV5" \in ConfigItems /\ "TP5" \in ConfigItems /\ "TMODE" \in ConfigItems
  BY DEF ConfigItems
<1>4. ASSUME NEW item \in ConfigItems, NEW want, Holds(item), Confirmed(item, want) PROVE Confirmed(item, want)'
  BY <1>4 DEF Holds, Confirmed, Agrees
<1>5. ASSUME x = "nav5" PROVE Confirmed("NAV5", "stationary")'
  BY <1>2, <1>3, <1>4, <1>5, DoneIsNotUndone DEF Effect
<1>6. ASSUME x = "tp5" PROVE Confirmed("TP5", "1HzUTC")'
  BY <1>2, <1>3, <1>4, <1>6, DoneIsNotUndone DEF Effect
<1>7. ASSUME x = "poll", cmd.name = "survey-in", ~Has("ephemeral")
      PROVE  receiver'.svin = "valid" /\ Confirmed("TMODE", SurveyInFrame)'
  <2>1. receiver.svin = "valid" /\ Confirmed("TMODE", SurveyInFrame)
    BY <1>7 DEF Effect
  <2>2. Holds("TMODE")
    BY <1>2, <1>3, <1>7, DoneIsNotUndone
  <2>3. receiver'.svin = "valid"
    BY <2>1, SvinKept DEF Confirmed
  <2>4. Confirmed("TMODE", SurveyInFrame)'
    BY <2>1, <2>2 DEF Holds, Confirmed, Agrees, compareTMODEByMode, SurveyInFrame
  <2> QED
    BY <2>3, <2>4
<1>8. ASSUME x = "fix"
      PROVE  /\ SetsAt("TMODE")' = {} /\ receiver'.cfg["TMODE"].mode = 2
             /\ cmd.name # "deploy" => receiver'.cfg["TMODE"].pos = "surveyed"
  <2>1. Holds("TMODE")
    BY <1>2, <1>3, <1>8, DoneIsNotUndone
  <2> QED
    BY <1>8, <2>1 DEF Effect, Holds
<1>9. ASSUME x = "set" PROVE Confirmed("TMODE", SetFrame)'
  <2>1. Holds("TMODE")
    BY <1>2, <1>3, <1>9, DoneIsNotUndone
  <2> QED
    BY <1>9, <2>1 DEF Effect, Holds, Confirmed, Agrees, compareTMODEByMode, SetFrame, FixedModeFrame
<1>10. ASSUME x = "save" PROVE Flashed'
  <2>1. ~(SendUBX /\ Request.kind = "set")
    <3>1. SUFFICES ASSUME ex.stage = "send", Request.kind = "set" PROVE FALSE
      BY DEF SendUBX
    <3>2. ex.op = "write"
      BY <3>1, Exchanging DEF Request, InProgress
    <3> QED
      BY <1>10, <3>1, <3>2, DoneIsNotUndone
  <2> QED
    BY <1>10, <2>1, FlashedKept DEF Effect
<1> QED
  BY <1>1, <1>5, <1>6, <1>7, <1>8, <1>9, <1>10 DEF Effect, Has
LEMMA WorkStays ==
  ASSUME [Next]_vars
  PROVE  cmd' = cmd /\ Work' = Work
<1>1. cmd' = cmd
  BY StageMoves
<1>2. Save' = Save
  BY <1>1 DEF Save, Has
<1>3. Steps' = Steps
  BY <1>1, <1>2 DEF Steps, runVersion, runTmodeShow, runFixedShow, runTmodeSet, runSave,
       runConfigureStationary, runConfigurePPS, runFixedFromSVIN, runFixedSet, runSurveyIn, runDeploy
<1> QED
  BY <1>1, <1>3 DEF Work, Elements

LEMMA EffectStill ==
  ASSUME Still, cmd' = cmd, NEW x, Effect(x)
  PROVE  Effect(x)'
<1>1. receiver' = receiver /\ requests' = requests
  BY DEF Still
<1> QED
  BY <1>1 DEF Effect, Confirmed, Agrees, SetsAt, Flashed, Has, compareTMODEByMode, SurveyInFrame, SetFrame,
              FixedModeFrame

\* A step is left behind when its exchange has succeeded, and then its effect is there.
LEMMA EffectOfStep ==
  ASSUME VerifyInv, RollbackInv, SurveyInv, SavingInv, todo # <<>>, ex.stage = "ok",
         Head(todo) = "poll" => ex.val = "valid"
  PROVE  Effect(Head(todo))
<1>1. PICK y : y = Head(todo)
  OBVIOUS
<1>2. /\ y \in StepNames /\ ex.op = Asks(y).op /\ ex.item = Asks(y).item /\ ex.want = Asks(y).want
      /\ ex.op = "write" => Confirmed(ex.item, ex.want)
  BY <1>1, HeadIsStep DEF VerifyInv, Linked, Writing
<1>3. y = "nav5" => Confirmed("NAV5", "stationary")
  BY <1>2, AsksOf
<1>4. y = "tp5" => Confirmed("TP5", "1HzUTC")
  BY <1>2, AsksOf
<1>5. y = "poll" => receiver.svin = "valid" /\ Confirmed("TMODE", SurveyInFrame)
  <2>1. SUFFICES ASSUME y = "poll" PROVE receiver.svin = "valid" /\ Confirmed("TMODE", SurveyInFrame)
    OBVIOUS
  <2>2. ex.op = "poll" /\ ex.val = "valid"
    BY <1>1, <1>2, <2>1, AsksOf
  <2>3. Confirmed("TMODE", SurveyInFrame) /\ SvinTold
    BY <1>1, <2>1 DEF SurveyInv
  <2> QED
    BY <2>2, <2>3 DEF SvinTold
<1>6. y = "fix" => /\ SetsAt("TMODE") = {} /\ receiver.cfg["TMODE"].mode = 2
                   /\ receiver.cfg["TMODE"].pos = "surveyed"
  <2>1. SUFFICES ASSUME y = "fix"
        PROVE  /\ SetsAt("TMODE") = {} /\ receiver.cfg["TMODE"].mode = 2
               /\ receiver.cfg["TMODE"].pos = "surveyed"
    OBVIOUS
  <2>2. Confirmed("TMODE", FixedModeFrame("surveyed"))
    BY <1>2, <2>1, AsksOf
  <2> QED
    BY <2>2 DEF Confirmed, Agrees, compareTMODEByMode, FixedModeFrame
<1>7. y = "set" => Confirmed("TMODE", SetFrame)
  BY <1>2, AsksOf
<1>8. y = "save" => Flashed
  BY <1>2, AsksOf DEF SavingInv
<1> QED
  BY <1>1, <1>3, <1>4, <1>5, <1>6, <1>7, <1>8 DEF Effect
\* The steps to do are the rest of the command's, in their order.
DoingIsRest ==
  /\ Doing \subseteq Work \cup {"rollback"}
  /\ todo # <<>> /\ Head(todo) # "rollback" =>
       \A x \in Work : Place[Head(todo)] <= Place[x] => x \in Doing
  /\ err = "none" /\ todo # <<>> /\ Head(todo) = "rollback" => Has("ephemeral")

LEMMA TailIsRest ==
  ASSUME RollbackInv, SurveyInv, [Next]_vars, DoingIsRest, todo # <<>>, todo' = Tail(todo), cmd.name \in Names
  PROVE  DoingIsRest' /\ \A x \in Doing : x = Head(todo) \/ x \in Doing'
<1>1. /\ AnySeq(todo) /\ Doing \subseteq StepNames /\ Head(todo) \in Doing
  BY TodoTypes
<1>2. cmd' = cmd /\ Work' = Work /\ Work \subseteq StepNames \ {"rollback"}
  BY WorkStays, WorkFacts
<1>3. Doing' \subseteq Doing
  BY <1>1, ElementsOf DEF Doing
<1>4. \A x \in Doing : x = Head(todo) \/ x \in Doing'
  BY <1>1, TailElements DEF Doing
<1>5. ASSUME todo' # <<>>
      PROVE  /\ Head(todo') # "rollback" /\ Head(todo') \in StepNames
             /\ Place[Head(todo)] < Place[Head(todo')]
  <2>1. Head(todo') # "rollback"
    BY <1>5, PlanTail DEF RollbackInv
  <2>2. /\ AnySeq(Tail(todo)) /\ Len(todo) \in Nat \ {0} /\ Len(Tail(todo)) = Len(todo) - 1
        /\ \A i \in 1..Len(Tail(todo)) : Tail(todo)[i] = todo[i + 1]
    BY <1>1, AnyTail
  <2>3. Len(Tail(todo)) \in Nat \ {0} /\ Head(Tail(todo)) = Tail(todo)[1]
    BY <1>5, <2>2, AnyTail
  <2>4. 1 \in 1..Len(Tail(todo)) /\ 1 + 1 = 2 /\ 2 \in 2..Len(todo)
    BY <2>2, <2>3
  <2>5. Head(todo') = todo[2]
    BY <2>2, <2>3, <2>4
  <2> QED
    BY <2>1, <2>4, <2>5, OrderOf DEF SurveyInv
<1>6. ASSUME todo' # <<>>, NEW x \in Work, Place[Head(todo')] <= Place[x] PROVE x \in Doing'
  <2>1. Place[Head(todo)] < Place[x] /\ Place[Head(todo)] <= Place[x]
    <3>1. /\ Head(todo) \in StepNames /\ Head(todo') \in StepNames /\ x \in StepNames
          /\ Place[Head(todo)] < Place[Head(todo')]
      BY <1>1, <1>2, <1>5, <1>6, Zenon
    <3>2. Place[Head(todo)] \in 1..12 /\ Place[Head(todo')] \in 1..12 /\ Place[x] \in 1..12
      BY <3>1, PlaceIsNat
    <3>3. PICK h, k, n : h = Place[Head(todo)] /\ k = Place[Head(todo')] /\ n = Place[x]
      OBVIOUS
    <3>4. h \in 1..12 /\ k \in 1..12 /\ n \in 1..12 /\ h < k /\ k <= n
      BY <1>6, <3>1, <3>2, <3>3, Zenon
    <3>5. h < n /\ h <= n
      BY <3>4
    <3> QED
      BY <3>3, <3>5, Zenon
  <2>2. Head(todo) # "rollback"
    BY <1>1, <1>2, <2>1, PlaceIsNat DEF Place
  <2>3. Place[Head(todo)] <= Place[x] /\ x # Head(todo)
    BY <1>1, <1>2, <2>1, PlaceIsNat
  <2>4. x \in Doing
    BY <1>1, <1>6, <2>2, <2>3 DEF DoingIsRest
  <2> QED
    BY <1>4, <2>3, <2>4
<1>7. Doing' \subseteq Work' \cup {"rollback"}
  BY <1>2, <1>3 DEF DoingIsRest
<1>8. \A x \in Work' : todo' # <<>> /\ Place[Head(todo')] <= Place[x] => x \in Doing'
  BY <1>2, <1>6
<1> QED
  BY <1>4, <1>5, <1>7, <1>8 DEF DoingIsRest

LEMMA RestStep ==
  ASSUME VerifyInv, RollbackInv, SurveyInv, WorkInv, [Next]_vars, stage = "running"
  PROVE  DoingIsRest'
<1>1. /\ cmd.name \in Names /\ DoingIsRest
      /\ Has("ephemeral") => cmd.name = "survey-in"
  BY DEF WorkInv, DoingIsRest, RollbackInv
<1>2. cmd' = cmd /\ Work' = Work /\ (err' = "none" => err = "none")
  BY WorkStays, StageMoves
<1>3. CASE todo' = todo
  BY <1>1, <1>2, <1>3 DEF DoingIsRest, Doing, Has
<1>4. CASE todo # <<>> /\ todo' = Tail(todo)
  BY <1>1, <1>4, TailIsRest
<1>5. CASE todo' = Save /\ cmd.name = "deploy"
  <2>1. /\ AnySeq(todo') /\ Doing' = Elements(Save) /\ Doing' \subseteq {"save"}
        /\ "save" \in Work => "save" \in Elements(Save)
        /\ Work \subseteq StepNames \ {"rollback"}
    <3>1. AnySeq(Save)
      BY LiteralElements DEF Save
    <3> QED
      BY <1>1, <1>5, <3>1, WorkFacts DEF Doing
  <2>2. Elements(Save) \subseteq Work
    BY <1>1, <1>5, WorkOf
  <2>3. todo' # <<>> => Head(todo') = "save"
    BY <2>1, ElementsOf DEF Doing
  <2>4. \A x \in StepNames \ {"rollback"} : Place["save"] <= Place[x] => x = "save"
    BY DEF StepNames, Plain, Guarded, Place
  <2>5. \A x \in Work : todo' # <<>> /\ Place[Head(todo')] <= Place[x] => x \in Doing'
    BY <2>1, <2>3, <2>4
  <2> QED
    BY <1>2, <2>1, <2>2, <2>3, <2>5 DEF DoingIsRest
<1>6. CASE /\ todo' \in {<<>>, <<"rollback">>}
           /\ err' # "none" \/ (todo # <<>> /\ Head(todo) = "rollback") \/ (Has("ephemeral") /\ todo' = <<"rollback">>)
  <2>1. Doing' \subseteq {"rollback"}
    BY <1>6, LiteralElements DEF Doing
  <2>2. todo' # <<>> => Head(todo') = "rollback"
    BY <1>6, EmptyPlan
  <2>3. err' = "none" /\ todo' # <<>> => Has("ephemeral")
    BY <1>1, <1>2, <1>6 DEF DoingIsRest
  <2> QED
    BY <1>2, <2>1, <2>2, <2>3 DEF DoingIsRest, Has
<1>7. TodoMoves \/ todo' = todo
  BY OutsideCommand, CommandMoves DEF cmdVars
<1> QED
  BY <1>3, <1>4, <1>5, <1>6, <1>7 DEF TodoMoves

\* A step that is no longer to do has had its effect.
EffectsDone == err = "none" => \A x \in Work : x \in Doing \/ Effect(x)

LEMMA EffectsStep ==
  ASSUME VerifyInv, RollbackInv, SurveyInv, ReadingInv, SavingInv, WorkInv, [Next]_vars, stage = "running"
  PROVE  EffectsDone'
<1>1. SUFFICES ASSUME err' = "none", NEW x \in Work, x \notin Doing' PROVE Effect(x)'
  BY WorkStays DEF EffectsDone
<1>2. /\ cmd.name \in Names /\ DoingIsRest /\ EffectsDone /\ err = "none" /\ cmd' = cmd
      /\ Has("ephemeral") => cmd.name = "survey-in"
  BY <1>1, StageMoves DEF WorkInv, DoingIsRest, EffectsDone, RollbackInv
<1>3. CASE x \notin Doing
  <2>1. Effect(x)
    BY <1>2, <1>3 DEF EffectsDone
  <2> QED
    BY <1>2, <1>3, <2>1, EffectKept
<1>4. CASE x \in Doing
  <2>1. todo' # todo
    BY <1>1, <1>4 DEF Doing
  <2>2. Start \/ Open \/ Step \/ Finish
    BY <2>1, OutsideCommand DEF cmdVars
  <2>3. TodoMoves /\ Still
    <3>1. ~Start
      BY <1>2, <2>1 DEF Start
    <3> QED
      BY <2>2, <3>1, CommandMoves, CommandIsStill
  <2>4. CASE /\ todo # <<>> /\ todo' = Tail(todo) /\ ex.stage = "ok"
             /\ Head(todo) = "poll" => ex.val = "valid"
    <3>1. x = Head(todo)
      BY <1>1, <1>2, <1>4, <2>4, TailIsRest
    <3>2. Effect(Head(todo))
      BY <2>4, EffectOfStep
    <3> QED
      BY <1>2, <2>3, <3>1, <3>2, EffectStill
  <2>5. CASE /\ todo # <<>> /\ Head(todo) = "tmode" /\ ex.stage = "ok"
             /\ cmd.name = "deploy" /\ ex.val.mode = 2 /\ todo' = Save
    <3>1. ex.op = "poll" /\ ex.item = "TMODE" /\ "TMODE" \in ConfigItems
      BY <2>5, AsksOf DEF VerifyInv, Linked, ConfigItems
    <3>2. SetsAt("TMODE") = {} /\ receiver.cfg["TMODE"].mode = 2
      BY <2>5, <3>1 DEF ReadingInv
    <3>3. x # "nav5" /\ x # "tp5"
      <4>1. Place["tmode"] <= Place[x]
        BY <1>4, <2>5, TodoTypes
      <4> QED
        BY <4>1 DEF Place
    <3>4. x # "set" /\ x # "save"
      <4>1. "save" \in Work => "save" \in Elements(Save)
        BY <1>2, <2>5, WorkFacts
      <4>2. Doing' = Elements(Save)
        BY <2>5 DEF Doing
      <4> QED
        BY <1>1, <1>2, <2>5, <4>1, <4>2, WorkFacts
    <3>5. Effect(x)
      BY <2>5, <3>2, <3>3, <3>4 DEF Effect
    <3> QED
      BY <1>2, <2>3, <3>5, EffectStill
  <2>6. CASE (todo # <<>> /\ Head(todo) = "rollback") \/ Has("ephemeral")
    <3>1. Has("ephemeral") /\ cmd.name = "survey-in"
      BY <1>2, <2>6 DEF DoingIsRest
    <3>2. x \notin {"nav5", "tp5", "fix", "set", "save"}
      BY <1>2, <3>1, WorkFacts
    <3>3. Effect(x)
      BY <3>1, <3>2 DEF Effect
    <3> QED
      BY <1>2, <2>3, <3>3, EffectStill
  <2> QED
    BY <1>1, <1>2, <2>1, <2>3, <2>4, <2>5, <2>6 DEF TodoMoves
<1> QED
  BY <1>3, <1>4

LEMMA WorkStep ==
  ASSUME VerifyInv, RollbackInv, SurveyInv, ReadingInv, SavingInv, WorkInv, [Next]_vars
  PROVE  WorkInv'
<1>1. /\ cmd' = cmd /\ Work' = Work /\ cmd.name \in Names
      /\ Has("ephemeral") => cmd.name = "survey-in"
      /\ Has("save") => cmd.name \in {"configure-stationary", "configure-pps", "fixed from-svin", "fixed set", "deploy"}
  BY WorkStays DEF WorkInv, RollbackInv
<1>2. ASSUME stage' = "running" PROVE DoingIsRest' /\ EffectsDone'
  <2>1. CASE stage = "running"
    BY <2>1, RestStep, EffectsStep
  <2>2. CASE stage = "dialing" /\ todo' = Steps
    <3>1. Doing' = Work
      BY <2>2 DEF Doing, Work
    <3>2. todo' # <<>> => Head(todo') # "rollback"
      BY <1>1, <2>2, StepsAreFresh DEF Fresh, Guarded
    <3> QED
      BY <1>1, <3>1, <3>2 DEF DoingIsRest, EffectsDone
  <2> QED
    BY <1>2, <2>1, <2>2, StageMoves
<1> QED
  BY <1>1, <1>2 DEF WorkInv, DoingIsRest, EffectsDone, Has
LEMMA WorkInit ==
  ASSUME WritesLeft, Init
  PROVE  ReadingInv /\ SavingInv /\ WorkInv
<1>1. PICK s \in Scenarios : requests = s.queue /\ cmd = [name |-> s.name, opts |-> s.opts]
  BY DEF Init
<1>2. /\ incoming = <<>> /\ stream = <<>> /\ ex = Idle /\ stage = "start"
  BY DEF Init, ClientInit
<1>3. \A i \in 1..Len(requests) : requests[i].kind = "set" /\ requests[i].item \in ConfigItems
  BY <1>1 DEF WritesLeft
<1>4. Idle.op = "none"
  BY DEF Idle
<1>5. Frames = {}
  BY <1>2, ElementsOf, AnyEmpty DEF Frames
<1>6. Unsaved
  BY <1>3, <1>5 DEF Unsaved
<1>7. SavingInv
  BY <1>2, <1>3, <1>4, <1>6 DEF SavingInv, ConfigItems
<1>8. WorkInv
  BY <1>1, <1>2, ScenarioAssumption DEF WorkInv, Has
<1> QED
  BY <1>2, <1>4, <1>7, <1>8 DEF ReadingInv

\* The effects of its steps are what a command is for.
LEMMA EffectsConfigure ==
  ASSUME cmd.name \in Names, \A x \in Work : Effect(x),
         Has("save") => cmd.name \in {"configure-stationary", "configure-pps", "fixed from-svin", "fixed set", "deploy"}
  PROVE  Configured
<1>1. PICK N : N = cmd.name
  OBVIOUS
<1>2. Has("save") => "save" \in Work
  <2>1. SUFFICES ASSUME Has("save") PROVE "save" \in Work
    OBVIOUS
  <2>2. N \in {"configure-stationary", "configure-pps", "fixed from-svin", "fixed set", "deploy"}
    BY <1>1, <2>1
  <2> QED
    BY <1>1, <2>1, <2>2, WorkOf
<1>3. Has("save") => receiver.flash = receiver.cfg
  BY <1>2 DEF Effect, Flashed
<1>4. CASE N = "deploy"
  <2>1. "nav5" \in Work /\ "tp5" \in Work /\ "fix" \in Work
    BY <1>1, <1>4, WorkOf
  <2>2. /\ receiver.cfg.NAV5 = "stationary" /\ receiver.cfg.TP5 = "1HzUTC" /\ receiver.cfg.TMODE.mode = 2
    BY <2>1 DEF Effect, Confirmed, Agrees
  <2> QED
    BY <1>1, <1>3, <1>4, <2>2 DEF Configured
<1>5. CASE N = "survey-in"
  <2>1. "poll" \in Work
    BY <1>1, <1>5, WorkOf
  <2>2. ~Has("ephemeral") => receiver.svin = "valid" /\ compareTMODEByMode(receiver.cfg.TMODE, SurveyInFrame)
    BY <1>1, <1>5, <2>1 DEF Effect, Confirmed, Agrees
  <2> QED
    BY <1>1, <1>5, <2>2 DEF Configured
<1>6. CASE N = "fixed from-svin"
  <2>1. "fix" \in Work
    BY <1>1, <1>6, WorkOf
  <2>2. receiver.cfg.TMODE.mode = 2 /\ receiver.cfg.TMODE.pos = "surveyed"
    BY <1>1, <1>6, <2>1 DEF Effect
  <2> QED
    BY <1>1, <1>3, <1>6, <2>2 DEF Configured
<1>7. CASE N \in {"fixed set", "tmode set"}
  <2>1. "set" \in Work
    BY <1>1, <1>7, WorkOf
  <2>2. compareTMODEByMode(receiver.cfg.TMODE, SetFrame)
    BY <2>1 DEF Effect, Confirmed, Agrees
  <2> QED
    BY <1>1, <1>3, <1>7, <2>2 DEF Configured
<1>8. CASE N \in {"configure-stationary", "configure-pps"}
  <2>1. (N = "configure-stationary" => "nav5" \in Work) /\ (N = "configure-pps" => "tp5" \in Work)
    BY <1>1, <1>8, WorkOf
  <2>2. /\ N = "configure-stationary" => receiver.cfg.NAV5 = "stationary"
        /\ N = "configure-pps" => receiver.cfg.TP5 = "1HzUTC"
    BY <2>1 DEF Effect, Confirmed, Agrees
  <2> QED
    BY <1>1, <1>3, <1>8, <2>2 DEF Configured
<1>9. CASE N = "save"
  <2>1. "save" \in Work
    BY <1>1, <1>9, WorkOf
  <2> QED
    BY <1>1, <1>9, <2>1 DEF Configured, Effect, Flashed
<1>10. CASE N \in {"version", "tmode show", "fixed show"}
  BY <1>1, <1>10 DEF Configured
<1> QED
  BY <1>1, <1>4, <1>5, <1>6, <1>7, <1>8, <1>9, <1>10 DEF Names

\* A command ends with an exit code of 1, or after its last step.
LEMMA EndMoves ==
  ASSUME [Next]_vars, stage # "done", stage' = "done"
  PROVE  code' = 1 \/ Finish
<1>1. CASE Start \/ Open
  BY <1>1 DEF Start, Open, Refuse
<1>2. CASE Step
  <2>1. ~(Begin \/ Stop \/ Broken \/ RolledBack)
    BY DEF Begin, Stop, Broken, RolledBack, Fail
  <2>2. ~(Generation \/ Written \/ TmodeRead \/ Cached \/ PollMissed \/ Surveyed)
    BY DEF Generation, Written, TmodeRead, Cached, PollMissed, Surveyed, Ended, Ends, Advance, Fail
  <2>3. Polled => stage' = stage
    BY Zenon DEF Polled, Advance
  <2> QED
    BY <1>2, <2>1, <2>2, <2>3 DEF Step
<1> QED
  BY <1>1, <1>2, OutsideCommand DEF cmdVars

LEMMA ExitStep ==
  ASSUME VerifyInv, RollbackInv, WorkInv, ExitZeroIsDone, [Next]_vars
  PROVE  ExitZeroIsDone'
<1>1. SUFFICES ASSUME stage' = "done", code' = 0 PROVE Configured'
  BY DEF ExitZeroIsDone
<1>2. CASE stage = "done"
  <2>1. UNCHANGED vars
    BY <1>2 DEF Next
  <2>2. code' = code /\ cmd' = cmd /\ receiver' = receiver
    BY <2>1 DEF vars, cmdVars, linkVars
  <2>3. Configured
    BY <1>1, <1>2, <2>2 DEF ExitZeroIsDone
  <2> QED
    BY <2>2, <2>3, Zenon DEF Configured, Has, SetFrame, SurveyInFrame, FixedModeFrame, compareTMODEByMode
<1>3. CASE Finish
  <2>1. /\ stage = "running" /\ todo = <<>> /\ code' = ExitCode /\ cmd' = cmd /\ receiver' = receiver
    BY <1>3 DEF Finish, linkVars
  <2>2. err = "none"
    <3>1. 130 # 0 /\ 2 # 0 /\ 1 # 0
      OBVIOUS
    <3> QED
      BY <1>1, <2>1, <3>1, Zenon DEF ExitCode
  <2>3. Doing = {}
    BY <2>1, LiteralElements DEF Doing
  <2>4. \A x \in Work : Effect(x)
    BY <2>1, <2>2, <2>3 DEF WorkInv
  <2>5. Configured
    BY <2>4, EffectsConfigure DEF WorkInv, RollbackInv
  <2> QED
    BY <2>1, <2>5, Zenon DEF Configured, Has, SetFrame, SurveyInFrame, FixedModeFrame, compareTMODEByMode
<1> QED
  BY <1>1, <1>2, <1>3, EndMoves

(* A command that exits with 0 has done what it is for: for every command,   *)
(* receiver and option, and for any loss, late answer, interrupt or lost     *)
(* connection, when no other program asks anything of the receiver and an    *)
(* earlier command left no poll and no save behind (main.go, each run        *)
(* function and the exit code of main).                                      *)
THEOREM ExitZeroMeansDone ==
  ASSUME Alone, WritesLeft
  PROVE  Spec => []ExitZeroIsDone
<1> DEFINE Inv == /\ VerifyInv /\ RollbackInv /\ SurveyInv /\ ReadingInv /\ SavingInv /\ WorkInv
                  /\ ExitZeroIsDone
<1>1. ASSUME Init PROVE Inv
  <2>1. stage = "start"
    BY <1>1 DEF Init
  <2> QED
    BY <1>1, <2>1, VerifyInit, RollbackInit, SurveyInit, WorkInit DEF ExitZeroIsDone
<1>2. Inv /\ [Next]_vars => Inv'
  BY VerifyStep, RollbackStep, SurveyStep, ReadingStep, SavingStep, WorkStep, ExitStep
<1>3. Inv => ExitZeroIsDone
  OBVIOUS
<1> QED
  BY <1>1, <1>2, <1>3, PTL DEF Spec
=============================================================================
