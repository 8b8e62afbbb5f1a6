----------------------------- MODULE GpsMonitor -----------------------------
(* The two programs that only read the receiver: the GPS monitor of          *)
(* plane-feeder (gpsmon.go, history.go) with the page of the dashboard that  *)
(* shows what it published (web.go), and "ubx status" (status.go). Both poll *)
(* one message after the other, keep what could be read and note the rest.   *)
(*                                                                           *)
(* The monitor opens a new session in every cycle. What is left of the       *)
(* reader of the one before has no part in the new one.                      *)
EXTENDS UbxExchange

CONSTANTS Scenarios,  \* what is tried: the program, the receiver, the budget of faults
          Retention   \* how many polling intervals the history goes back

Status == {"MON-HW", "NAV-CLOCK", "NAV-DOP"}
Items  == {"MON-VER", "SVIN"} \cup ConfigItems \cup Status

\* What the receiver can be, and what the answer to a poll of an item can say.
Gens     == {"F9", "M8", "unknown"}
Payloads == [mode : 0..2, svin : {"zero", "old", "asked"}, pos : {"zero", "old", "LLH", "given", "elsewhere"}]
Values(item) ==
  IF item = "TMODE" THEN Payloads
  ELSE Gens \cup {"none", "active", "valid", "stationary", "1HzUTC", "reading"}

ASSUME MonitorAssumption ==
  /\ Retention \in Nat
  /\ Forms \subseteq {"RAW", "bare"}
  /\ \A item \in Items : NoValue \notin Values(item)
  /\ \A s \in Scenarios :
       /\ s.prog \in {"monitor", "status"} /\ s.gen \in Gens /\ s.mode \in 0..2 /\ s.pos \in {"old", "LLH"}
       /\ s.budget \in [faults : Nat, errors : BOOLEAN, others : Nat, reports : Nat]

VARIABLES prog,       \* "monitor" or "status"
          named,      \* a device path was given
          phase,      \* "start", "probing", "off", "idle", "dialing", "asking" or "done"
          left,       \* the messages still to poll
          snap,       \* the snapshot or report being put together
          published,  \* the snapshot the web server reads, or the report printed
          samples,    \* the ages of the samples in the history, oldest first
          seen        \* history: the receiver's settings since the dial, and the budget then

monVars == <<prog, named, phase, left, snap, published, samples>>
vars    == <<clientVars, linkVars, ctxVars, ex, monVars, seen>>

\* What is polled once the generation is known to be gen.
Polls(gen) ==
  CASE prog = "status" -> <<"TMODE", "SVIN", "NAV5", "TP5", "NAV-CLOCK">>
    [] prog = "monitor" /\ gen # "unknown" ->
         <<"TMODE", "NAV5", "TP5", "MON-HW", "NAV-CLOCK", "NAV-DOP", "SVIN">>
    [] prog = "monitor" /\ gen = "unknown" -> <<"MON-HW", "NAV-CLOCK", "NAV-DOP">>

\* "mode" is TMODEMode, 0 until it is read; "pos" the position of the survey block.
Empty == [transport |-> FALSE, got |-> [i \in Items |-> NoValue], errs |-> {}, mode |-> 0,
          survey |-> "none", pos |-> "zero", fix |-> FALSE, sky |-> FALSE]

-----------------------------------------------------------------------------
(* Start-up and opening.                                                     *)

Connect(next) ==
  /\ Dial /\ gpsd' = "connected" /\ phase' = next
  /\ UNCHANGED <<requests, receiver, budget, ctxVars, ex>>

Start ==
  /\ phase = "start"
  /\ Connect(IF prog = "monitor" THEN "probing" ELSE "dialing")
  /\ UNCHANGED <<prog, named, left, snap, published, samples>>

\* Dial's own deadline, three seconds for the monitor.
DialTimesOut == ~ready /\ Spend

Fails == IF DialFails THEN UNCHANGED budget ELSE DialTimesOut

\* plane-feeder dials once before it commits to a monitor.
Probe ==
  /\ phase = "probing"
  /\ \/ DialSucceeds /\ phase' = "idle" /\ UNCHANGED budget
     \/ Fails /\ phase' = "off"
  /\ Close
  /\ UNCHANGED <<requests, receiver, gpsd, ctxVars, ex, prog, named, left, snap, published, samples>>

\* An interval passes. Past the retention one age is as good as another.
Older == [i \in DOMAIN samples |-> IF samples[i] > Retention THEN samples[i] ELSE samples[i] + 1]

\* The next cycle: a fresh snapshot over a fresh connection.
Cycle ==
  /\ phase = "idle"
  /\ Connect("dialing")
  /\ snap' = Empty /\ samples' = Older
  /\ UNCHANGED <<prog, named, left, published>>

\* The monitor takes the device it was given, listed or not, or the first;
\* the command must find the one it was given, or a single one.
DeviceFound ==
  IF prog = "monitor" THEN named \/ devices # {} ELSE IF named THEN Path \in devices ELSE devices = {Path}

Give(s) == published' = s /\ phase' = (IF prog = "monitor" THEN "idle" ELSE "done")

Open ==
  /\ phase = "dialing"
  /\ \/ /\ DialSucceeds /\ DeviceFound /\ Subscribe
        /\ phase' = "asking" /\ left' = <<"MON-VER">>
        /\ UNCHANGED <<budget, published>>
     \/ /\ \/ (expired \/ (DialSucceeds /\ ~DeviceFound)) /\ UNCHANGED budget
           \/ Fails
        /\ Close /\ Give([Empty EXCEPT !.transport = TRUE]) /\ UNCHANGED left
  /\ UNCHANGED <<requests, receiver, gpsd, ctxVars, ex, prog, named, snap, samples>>

-----------------------------------------------------------------------------
(* One poll after the other.                                                 *)

\* Mutant: the polls of the monitor share a context without a deadline.
AsksWithoutDeadline(item) == Poll(item, item = "MON-VER")

\* The monitor gives each poll three seconds; of the command's polls only the
\* first two have a deadline of their own.
Asks(item) == Poll(item, prog = "monitor" \/ item \in {"MON-VER", "TMODE"})

Begin ==
  /\ phase = "asking" /\ ex.stage = "idle" /\ left # <<>>
  /\ ex' = Asks(Head(left))
  /\ UNCHANGED <<clientVars, linkVars, ctxVars, monVars>>

\* A payload that is too short: PollTMODE does not look at it, and the monitor
\* says nothing of a NAV5 or TP5 that does not parse.
Unreported == IF prog = "monitor" THEN ConfigItems ELSE {"TMODE"}

\* The answer can be read: all of it, or a TMODE as far as its position.
Whole      == ex.stage = "ok" /\ ~ex.short
Ok(length) == Whole \/ (ex.stage = "ok" /\ ex.item = "TMODE" /\ length = "position")

Mode(length) == CASE ex.stage = "ok"                       -> TMODEMode(length)
                  [] ex.stage # "ok" /\ prog = "status"  -> -1
                  [] ex.stage # "ok" /\ prog = "monitor" -> snap.mode

\* Mutant: what cannot be read is left out without a word.
ReadingSilent(item, length) ==
  [snap EXCEPT !.got[item] = IF Ok(length) THEN ex.val ELSE @,
               !.mode      = IF item = "TMODE" THEN Mode(length) ELSE @,
               !.survey    = IF item = "SVIN" /\ Ok(length) THEN ex.val ELSE @,
               !.pos       = IF item = "SVIN" /\ Ok(length) /\ ex.val # "none" THEN "surveyed" ELSE @]

\* The snapshot after the answer to the poll of an item, or its error.
Reading(item, length) ==
  [snap EXCEPT !.got[item] = IF Ok(length) THEN ex.val ELSE @,
               !.errs      = IF Ok(length) \/ (ex.stage = "ok" /\ item \in Unreported) THEN @ ELSE @ \cup {item},
               !.mode      = IF item = "TMODE" THEN Mode(length) ELSE @,
               !.survey    = IF item = "SVIN" /\ Ok(length) THEN ex.val ELSE @,
               !.pos       = IF item = "SVIN" /\ Ok(length) /\ ex.val # "none" THEN "surveyed" ELSE @]

Answered ==
  /\ phase = "asking" /\ ex.stage \in Results
  /\ (\E length \in Lengths : snap' = Reading(Head(left), length)) /\ ex' = Idle
  /\ UNCHANGED <<linkVars, ctxVars, prog, named, samples>>

\* DetectGeneration: "ubx status" ends when it cannot tell the generation.
Identify ==
  /\ Answered /\ Head(left) = "MON-VER"
  /\ LET gen == IF Whole THEN DetectGeneration ELSE "unknown" IN
     IF gen = "unknown" /\ prog = "status"
     THEN Close /\ Give(snap') /\ left' = <<>>
     ELSE left' = Polls(gen) /\ UNCHANGED <<clientVars, phase, published>>

Collect ==
  /\ Answered /\ Head(left) # "MON-VER"
  /\ left' = Tail(left)
  /\ UNCHANGED <<clientVars, phase, published>>

-----------------------------------------------------------------------------
(* The end of a cycle, and of a status report.                               *)

\* Mutant: the position of a fixed receiver is taken from the survey.
OverlayNot(s) == s

\* In fixed mode the survey block shows the position of the TMODE payload, unless
\* that was cut short before its position.
Overlay(s) ==
  IF s.mode = 2 /\ s.got["TMODE"] # NoValue
  THEN [s EXCEPT !.survey = "valid", !.pos = ExtractFixedModeECEF(s.got["TMODE"])]
  ELSE s

\* TPV and SKY come from the session's cache. The command waits for SKY, for
\* five seconds at most; the monitor takes what there is.
WithReports(s) == [s EXCEPT !.fix = "TPV" \in latest /\ prog = "monitor", !.sky = "SKY" \in latest]

\* Append, trimLocked: from the front, samples older than the retention go.
Appended ==
  LET all  == Append(samples, 0)
      kept == {i \in DOMAIN all : all[i] <= Retention}
      from == CHOOSE i \in kept : \A j \in kept : i <= j
  IN SubSeq(all, from, Len(all))

Publish ==
  /\ phase = "asking" /\ ex.stage = "idle" /\ left = <<>>
  /\ Close
  /\ IF prog = "monitor" THEN Give(WithReports(Overlay(snap))) /\ samples' = Appended
     ELSE Give(WithReports(snap)) /\ UNCHANGED samples
  /\ UNCHANGED <<linkVars, ctxVars, ex, prog, named, left, snap>>

Program == Start \/ Probe \/ Cycle \/ Open \/ Begin \/ Identify \/ Collect \/ Publish

\* The fifteen seconds of "ubx status".
Expire ==
  /\ prog = "status" /\ phase \in {"dialing", "asking"} /\ ~expired
  /\ expired' = TRUE
  /\ UNCHANGED <<clientVars, linkVars, ex, cancelled, monVars>>

-----------------------------------------------------------------------------
(* What the web server makes of the snapshot. Without a monitor it is handed *)
(* a nil *Collector in a non-nil interface, and a handler's call of          *)
(* Snapshot or History panics.                                               *)

FromMonitor(body) == IF phase = "off" THEN [panic |-> TRUE] ELSE [panic |-> FALSE, body |-> body]

tmodeNameInt == [i \in 0..2 |-> CASE i = 0 -> "disabled" [] i = 1 -> "survey-in" [] i = 2 -> "fixed"]

handleGNSS        == FromMonitor(published)
handleGNSSHistory == FromMonitor(samples)

\* The rows of the page that depend on the time mode, and the errors it shows:
\* an unreachable gpsd (TransportErr) is not among them.
handleGPSDetails ==
  FromMonitor([mode     |-> IF published.mode \in 0..2 THEN tmodeNameInt[published.mode] ELSE "unknown",
               location |-> CASE published.mode = 2 -> published.pos
                              [] published.mode = 1 -> published.survey
                              [] OTHER -> "disabled",
               tp5      |-> published.got["TP5"],
               errors   |-> published.errs])

-----------------------------------------------------------------------------
(* The specification.                                                        *)

\* gpsd's reports of fix and satellites, and another program that writes.
Report ==
  /\ budget.reports > 0 /\ gpsd = "greeted"
  /\ budget' = [budget EXCEPT !.reports = @ - 1]
  /\ \E class \in {"TPV", "SKY"}, sparse \in BOOLEAN :
       GpsdSends(<<[class |-> class, sparse |-> sparse /\ class = "SKY"]>>)
  /\ UNCHANGED <<requests, receiver, gpsd, ex, ctxVars>>
OtherWrites ==
  /\ budget.others > 0
  /\ budget' = [budget EXCEPT !.others = @ - 1]
  /\ \E want \in {SurveyInFrame, FixedModeFrame("given")} :
       requests' = Append(requests, [kind |-> "set", item |-> "TMODE", val |-> want])
  /\ UNCHANGED <<clientVars, receiver, gpsd, ex, ctxVars>>

See == seen' = IF phase # "dialing" /\ phase' = "dialing"
               THEN [was |-> [i \in Items |-> {Setting(i)}], faults |-> budget.faults]
               ELSE [seen EXCEPT !.was = [i \in Items |-> @[i] \cup {Setting(i)'}]]

Init ==
  /\ ClientInit /\ gpsd = "listening" /\ ex = Idle /\ requests = <<>>
  /\ cancelled = FALSE /\ expired = FALSE
  /\ \E s \in Scenarios :
       /\ receiver = [gen |-> s.gen, flash |-> NoValue, svin |-> IF s.mode = 1 THEN "active" ELSE "none",
                      cfg |-> [i \in ConfigItems \cup Status |->
                                 CASE i = "TMODE" -> [mode |-> s.mode, svin |-> "old", pos |-> s.pos]
                                   [] i = "NAV5"  -> "stationary"
                                   [] i = "TP5"   -> "1HzUTC"
                                   [] i \in Status -> "reading"]]
       /\ prog = s.prog /\ named = s.named /\ budget = s.budget
  /\ phase = "start" /\ left = <<>> /\ samples = <<>>
  /\ snap = Empty /\ published = Empty
  /\ seen = [was |-> [i \in Items |-> {}], faults |-> 0]

World == \/ ReadLoop /\ UNCHANGED <<linkVars, ex, ctxVars, monVars>>
         \/ (Environment \/ Report \/ OtherWrites) /\ UNCHANGED monVars
Work  == (Exchange /\ UNCHANGED monVars) \/ Program

Running == phase \notin {"off", "done"}

Next == Running /\ (World \/ Work \/ Expire) /\ See

\* As for the commands; gpsd greets, so that what is shown is recovery.
Fairness == /\ WF_vars(Running /\ ReadLoop /\ UNCHANGED <<linkVars, ex, ctxVars, monVars>> /\ See)
            /\ WF_vars(Running /\ (Serve \/ Greet) /\ UNCHANGED monVars /\ See)
            /\ WF_vars(Running /\ Work /\ See)
            /\ WF_vars(Running /\ Expire /\ See)

Spec == Init /\ [][Next]_vars /\ Fairness

-----------------------------------------------------------------------------
(* Properties.                                                               *)

MonitorTypeOK ==
  /\ ClientTypeOK
  /\ phase \in {"start", "probing", "off", "idle", "dialing", "asking", "done"}
  /\ {i \in Items : snap.got[i] # NoValue} \cap snap.errs = {}
  /\ snap.mode \in -1..2 /\ published.errs \subseteq Items

Missing(s) == {i \in Items : s.got[i] = NoValue}

\* A published value is one the receiver had since this cycle's dial: no value
\* of an earlier cycle, of another poll or of another receiver is shown as
\* current (gpsmon.go, cycle: a fresh snapshot over a fresh session; client.go,
\* handleRawMsg).
SnapshotOfItsCycle ==
  [][published' # published =>
       \A i \in Items \ Missing(published') : published'.got[i] \in seen.was[i]]_vars

\* A page that says "fixed" shows a position the receiver was fixed at in the
\* cycle the page is of, whatever was written meanwhile and although the survey
\* poll that it overwrites comes later. There are two exceptions: what was set
\* in degrees is misread, and a TMODE cut short after its mode leaves what the
\* survey poll gave, of a survey of this cycle (gpsmon.go, the overlay of cycle;
\* tmode.go, ExtractFixedModeECEF; web.go, handleGPSDetailsPartial).
FixedPageShowsPosition ==
  [][published' # published /\ prog = "monitor" /\ handleGPSDetails'.body.mode = "fixed" =>
       LET location == handleGPSDetails'.body.location
           fixedAt  == {was.pos : was \in {v \in seen.was["TMODE"] : v.mode = 2}}
       IN /\ fixedAt # {}
          /\ \/ location \in fixedAt \ {"LLH"}
             \/ location = "misread" /\ "LLH" \in fixedAt
             \/ published'.got["TMODE"] = NoValue /\ location = "zero"
             \/ published'.got["TMODE"] = NoValue /\ location = "surveyed"
                  /\ seen.was["SVIN"] # {"none"}]_vars

\* What the monitor could not read it names, but for payloads too short and a
\* receiver it does not know; and while the session lasts a fault costs the
\* field it hits, not those after it (gpsmon.go, cycle: "per field").
MissingIsExplained ==
  [][published' # published /\ prog = "monitor" /\ ~published'.transport =>
       LET missing == Missing(published')
           known   == published'.got["MON-VER"] \notin {NoValue, "unknown"}
       IN /\ missing \subseteq published'.errs \cup ConfigItems \cup (IF known THEN {} ELSE {"SVIN"})
          /\ known /\ terr = "none" => Cardinality(missing) <= seen.faults - budget.faults]_vars

\* Once the faults are over, every cycle ends, its snapshot is complete, and
\* the history has no gap; and "ubx status" ends (gpsmon.go, Run).
Recovers ==
  /\ []<>(phase \in {"idle", "off", "done"})
  /\ <>[](phase = "idle" /\ published.got["MON-VER"] # "unknown" =>
            Missing(published) = {} /\ samples = [i \in 1..Retention + 1 |-> Retention + 1 - i])

\* The dashboard answers when there is no monitor (web.go, New: "when nil,
\* /api/gps and /gps both still route").
PagesAnswered == ~handleGPSDetails.panic /\ ~handleGNSS.panic /\ ~handleGNSSHistory.panic
=============================================================================
