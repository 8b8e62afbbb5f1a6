---------------------------- MODULE StatsConsole ----------------------------
(* The tuning console (cmd/watch-stats/main.go) against the feeder's web     *)
(* server and the CONFIG register behind it (web.go, main.go, regs.go).      *)
(*                                                                           *)
(* The console's state is changed by one goroutine, a message at a time;     *)
(* its requests run on goroutines of their own, and the server handles each  *)
(* on another. A request the console has given up goes on at the server.     *)
(* ReadDbg's accesses and the rates of the debug counters are left out, and  *)
(* so are rendering and the console's q key.                                 *)
EXTENDS Integers, Sequences, FiniteSets

CONSTANTS Calls,     \* the bound: requests in progress at once
          MaxShift,  \* largest value of a setting (7 in the code)
          Defaults,  \* the settings the feeder applies when it starts
          History,   \* samples kept (at least 16 in the code)
          None,      \* no answer
          Budgets    \* the bounds: messages, keys, clears, faults, restarts, posts of others

Settings == {"quiet", "snr"}

ASSUME ConsoleAssumption ==
  /\ IsFiniteSet(Calls) /\ Calls # {}
  /\ MaxShift \in Nat /\ Defaults \in [Settings -> 0..MaxShift] /\ History \in Nat \ {0}

\* An answer to a poll of the statistics.
Readings == [msgs : Nat, counted : Nat, config : [Settings -> Int]]

ASSUME NoneAssumption == None \notin Readings

VARIABLES up,         \* the feeder runs
          config,     \* the CONFIG register
          msgCount,   \* messages since the feeder started
          counted,    \* history: messages since the beginning
          calls,      \* the requests, with the place of each
          last, prev, \* the console's last answer, and the one rates are taken from
          clock,      \* polls started since the one that gave "prev", capped
          samples,    \* the rates charted, and history: what was counted in each interval
          polling,    \* the console's flag
          lastErr,    \* the last poll failed
          arrived,    \* history: an answer has come in since the last clear
          budget

server  == <<up, config, msgCount, counted>>
console == <<last, prev, clock, samples, polling, lastErr, arrived>>
vars    == <<server, calls, console, budget>>

\* What is asked, by whom, the value asked for, where it stands, when it began.
Asked(what, by, val, pc, at) ==
  [what |-> what, by |-> by, val |-> val, pc |-> pc, got |-> None, at |-> at]

Free == Asked("free", "nobody", 0, "free", 0)

\* A request takes the next place; places are all alike.
HasPlace(cs) == \E i \in Calls : cs[i] = Free
Place(cs)    == CHOOSE i \in Calls : cs[i] = Free

Spend(what) == budget[what] > 0 /\ budget' = [budget EXCEPT ![what] = @ - 1]

-----------------------------------------------------------------------------
(* The server. A handler stands where its request does: "sent", "write" when *)
(* it has read CONFIG, "done" or "failed".                                   *)

Step(i, pc, got) == calls' = [calls EXCEPT ![i] = [@ EXCEPT !.pc = pc, !.got = got]]

\* handleStats with debug=1: the counter, and the settings from CONFIG.
handleStats(i) ==
  /\ up /\ calls[i].what = "poll" /\ calls[i].pc = "sent"
  /\ Step(i, "done", [msgs |-> msgCount, counted |-> counted, config |-> config])
  /\ UNCHANGED <<server, console, budget>>

\* A POST of a setting: refused out of range, else CONFIG is read ...
handleSet(i) ==
  /\ up /\ calls[i].what \in Settings /\ calls[i].pc = "sent"
  /\ IF calls[i].val > MaxShift THEN Step(i, "failed", None) ELSE Step(i, "write", config)
  /\ UNCHANGED <<server, console, budget>>

\* ... and written back whole, changed in the one field.
WriteBack(i) ==
  /\ up /\ calls[i].pc = "write"
  /\ config' = [calls[i].got EXCEPT ![calls[i].what] = calls[i].val]
  /\ Step(i, "done", None)
  /\ UNCHANGED <<up, msgCount, counted, console, budget>>

\* The feeder stops: its handlers are gone, and nobody listens.
Refused(i) ==
  /\ ~up /\ calls[i].pc \in {"sent", "write"}
  /\ Step(i, "failed", None)
  /\ UNCHANGED <<server, console, budget>>

Crash ==
  /\ up /\ Spend("restarts") /\ up' = FALSE
  /\ UNCHANGED <<config, msgCount, counted, calls, console>>

\* Start-up: the settings are applied and the counter is new before it listens.
Startup ==
  /\ ~up /\ up' = TRUE
  /\ config' = Defaults /\ msgCount' = 0
  /\ UNCHANGED <<counted, calls, console, budget>>

emit ==
  /\ up /\ Spend("messages")
  /\ msgCount' = msgCount + 1 /\ counted' = counted + 1
  /\ UNCHANGED <<up, config, calls, console>>

\* A request that nobody waits for is over when its handler is.
Forget(i) ==
  /\ calls[i].by = "nobody" /\ calls[i].pc \in {"done", "failed"}
  /\ calls' = [calls EXCEPT ![i] = Free]
  /\ UNCHANGED <<server, console, budget>>

\* The receiver page of the dashboard, or a script, posts a setting.
OtherPosts ==
  /\ Spend("posts") /\ HasPlace(calls)
  /\ \E f \in Settings, v \in {0, MaxShift + 1} :
       calls' = [calls EXCEPT ![Place(calls)] = Asked(f, "nobody", v, "sent", 0)]
  /\ UNCHANGED <<server, console>>

-----------------------------------------------------------------------------
(* The console: Update, by the message it gets.                              *)

Least(a, b) == IF a < b THEN a ELSE b

\* pollCmd: the time is taken when the goroutine starts.
PollCall(at) == Asked("poll", "console", 0, "sent", at)

\* A poll begins, the requests then being cs.
pollCmd(cs) ==
  /\ clock' = Least(clock + 1, Cardinality(Calls)) /\ polling' = TRUE
  /\ HasPlace(cs) /\ calls' = [cs EXCEPT ![Place(cs)] = PollCall(clock')]

Init ==
  /\ up = TRUE /\ config = Defaults /\ msgCount = 0 /\ counted = 0
  /\ last = None /\ prev = None /\ samples = <<>>
  /\ lastErr = FALSE /\ arrived = FALSE
  /\ budget \in Budgets
  /\ LET none == [i \in Calls |-> Free] IN calls = [none EXCEPT ![Place(none)] = PollCall(1)]
  /\ clock = 1 /\ polling = TRUE

\* The ticker: a tick while a poll is in progress does nothing.
tickMsg ==
  /\ IF polling THEN UNCHANGED <<calls, clock, polling>> ELSE pollCmd(calls)
  /\ UNCHANGED <<server, last, prev, samples, lastErr, arrived, budget>>

\* adjustQuietCmd, adjustSnrCmd: from the last answer, clamped; without one
\* the command fails by itself.
Key ==
  /\ Spend("keys") /\ HasPlace(calls)
  /\ \E f \in Settings, delta \in {-1, 1} :
       LET next == IF last = None THEN 0 ELSE last.config[f] + delta
           val  == IF next < 0 THEN 0 ELSE Least(next, MaxShift)
           pc   == IF last = None THEN "failed" ELSE "sent"
       IN calls' = [calls EXCEPT ![Place(calls)] = Asked(f, "console", val, pc, 0)]
  /\ UNCHANGED <<server, console>>

\* The c key.
clear ==
  /\ Spend("clears")
  /\ samples' = <<>> /\ prev' = None /\ arrived' = FALSE
  /\ UNCHANGED <<server, calls, last, clock, polling, lastErr>>

\* deltaRate, as what it divides by the elapsed time: -1 is the fallback.
deltaRate(cur, old) == IF cur >= old THEN cur - old ELSE -1

deriveSample(cur, old) ==
  [rate |-> deltaRate(cur.msgs, old.msgs), from |-> old.counted, to |-> cur.counted, fresh |-> arrived]

Suffix(s, n) == IF Len(s) <= n THEN s ELSE SubSeq(s, Len(s) - n + 1, Len(s))

\* A poll's answer. Times are counted from the poll that gave "prev".
pollResult(i) ==
  LET got == calls[i].got
      at  == calls[i].at
  IN /\ calls[i].what = "poll" /\ calls[i].by = "console" /\ calls[i].pc = "done"
     /\ polling' = FALSE /\ last' = got /\ lastErr' = FALSE
     /\ samples' = IF prev # None /\ at > 0
                   THEN Suffix(Append(samples, deriveSample(got, prev)), History) ELSE samples
     /\ prev' = got /\ arrived' = TRUE
     /\ clock' = clock - at
     /\ calls' = [j \in Calls |->
          CASE j = i -> Free
            [] j # i /\ calls[j].what = "poll" /\ calls[j].by = "console" -> [calls[j] EXCEPT !.at = @ - at]
            [] OTHER -> calls[j]]
     /\ UNCHANGED <<server, budget>>

\* The request fails, or the client's timeout passes: the answer is late or lost.
GivesUp(i) ==
  \/ calls[i].pc = "failed" /\ UNCHANGED budget
  \/ calls[i].pc \in {"sent", "write", "done"} /\ Spend("faults")

\* The requests when the console has done with one.
Without(i) ==
  [calls EXCEPT ![i] = IF calls[i].pc \in {"sent", "write"} THEN [@ EXCEPT !.by = "nobody", !.at = 0] ELSE Free]

\* Mutant: the flag is left set when a poll fails.
pollFailsFlagged(i) ==
  /\ calls[i].what = "poll" /\ calls[i].by = "console" /\ GivesUp(i)
  /\ lastErr' = TRUE /\ calls' = Without(i)
  /\ UNCHANGED <<server, last, prev, clock, samples, polling, arrived>>

pollFails(i) ==
  /\ calls[i].what = "poll" /\ calls[i].by = "console" /\ GivesUp(i)
  /\ polling' = FALSE /\ lastErr' = TRUE /\ calls' = Without(i)
  /\ UNCHANGED <<server, last, prev, clock, samples, arrived>>

\* Mutant: a poll follows whether or not one is in progress.
FollowAnyway(i) == pollCmd(Without(i))

\* A poll follows unless one is in progress.
Follow(i) ==
  IF polling THEN calls' = Without(i) /\ UNCHANGED <<clock, polling>> ELSE pollCmd(Without(i))

\* A control's answer or failure.
controlResult(i) ==
  /\ calls[i].what \in Settings /\ calls[i].by = "console"
  /\ GivesUp(i) \/ (calls[i].pc = "done" /\ UNCHANGED budget)
  /\ Follow(i)
  /\ UNCHANGED <<server, last, prev, samples, lastErr, arrived>>

-----------------------------------------------------------------------------
(* The specification. Handlers, answers and the ticker go on; messages, keys, *)
(* faults, restarts and other clients need not.                               *)

Handler(i) == handleStats(i) \/ handleSet(i) \/ WriteBack(i) \/ Refused(i) \/ Forget(i)
Answer(i)  == pollResult(i) \/ pollFails(i) \/ controlResult(i)

Next == \/ \E i \in Calls : Handler(i) \/ Answer(i)
        \/ tickMsg \/ Key \/ clear
        \/ emit \/ Crash \/ Startup \/ OtherPosts

Fairness == /\ \A i \in Calls : WF_vars(Handler(i)) /\ WF_vars(Answer(i))
            /\ WF_vars(tickMsg)

Spec == Init /\ [][Next]_vars /\ Fairness

-----------------------------------------------------------------------------
(* Properties.                                                               *)

\* What the chart shows has happened: a sample's rate never exceeds what the
\* feeder counted in its interval, also over a restart of the feeder; no
\* message is counted in two samples, whatever order answers, timeouts, ticks
\* and keys come in; and no sample reaches back to an answer from before the
\* last clear (watch-stats, Update and deltaRate).
SamplesHonest ==
  \A k \in DOMAIN samples :
    /\ samples[k].rate <= samples[k].to - samples[k].from
    /\ samples[k].fresh
    /\ k > 1 => samples[k - 1].to <= samples[k].from

\* While the feeder is up the console comes to show its count and the settings
\* in force, whatever was pressed, lost, late or set by others before
\* (watch-stats, the polling flag of Update).
ShowsWhatIsInForce ==
  <>[]up => <>[](/\ last # None /\ ~lastErr
                 /\ last.config = config /\ last.msgs = msgCount)
=============================================================================
