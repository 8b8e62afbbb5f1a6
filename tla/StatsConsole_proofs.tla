------------------------- MODULE StatsConsole_proofs -------------------------
(***************************************************************************)
(* The console's samples are honest for any number of requests in progress *)
(* and any number of messages, keys, faults, restarts and posts.           *)
(***************************************************************************)
EXTENDS StatsConsole, SequenceTheorems, FiniteSetTheorems, TLAPS

Request == [what : {"free", "poll"} \cup Settings, by : {"nobody", "console"}, val : Int,
            pc : {"free", "sent", "write", "done", "failed"},
            got : {None} \cup Readings \cup [Settings -> Int], at : Int]

Sample == [rate : Int, from : Nat, to : Nat, fresh : BOOLEAN]

(* What a request has been answered fits what it asked.                    *)
Proper(c) ==
  /\ c.pc = "write" => c.what \in Settings /\ c.got \in [Settings -> Int]
  /\ c.what = "poll" /\ c.pc = "done" => c.got \in Readings

Requests(cs) == cs \in [Calls -> Request] /\ \A i \in Calls : Proper(cs[i])

Polls(c) == c.what = "poll" /\ c.by = "console"

(* The console polls once at a time, and knows when it does.               *)
OnePoll(cs, flag) ==
  /\ \A i \in Calls : Polls(cs[i]) => flag
  /\ \A i, j \in Calls : Polls(cs[i]) /\ Polls(cs[j]) => i = j

(* The feeder's counter has grown by no more since r than was counted.     *)
Fine(r) == r.counted <= counted /\ msgCount - r.msgs <= counted - r.counted

After(r, old) == old.counted <= r.counted /\ r.msgs - old.msgs <= r.counted - old.counted

AnswersFine(cs) ==
  \A i \in Calls : Polls(cs[i]) /\ cs[i].pc = "done" =>
    Fine(cs[i].got) /\ (prev # None => After(cs[i].got, prev))

TypeInv ==
  /\ counted \in Nat /\ msgCount \in Nat /\ config \in [Settings -> Int]
  /\ last \in Readings \cup {None} /\ prev \in Readings \cup {None}
  /\ clock \in Int /\ polling \in BOOLEAN /\ arrived \in BOOLEAN
  /\ samples \in Seq(Sample)

(* The samples end where the next one would begin.                         *)
PrevFine ==
  /\ prev # None => arrived /\ Fine(prev)
  /\ prev = None => samples = <<>>
  /\ \A k \in 1..Len(samples) : k = Len(samples) => samples[k].to <= prev.counted

IInv ==
  /\ TypeInv
  /\ Requests(calls) /\ OnePoll(calls, polling) /\ AnswersFine(calls)
  /\ PrevFine
  /\ SamplesHonest

(* Where a request is put, there was none.                                 *)
LEMMA PlaceIsFree ==
  ASSUME NEW cs, HasPlace(cs)
  PROVE  Place(cs) \in Calls /\ cs[Place(cs)] = Free
BY DEF HasPlace, Place

LEMMA FreeIsProper == Free \in Request /\ Proper(Free) /\ ~Polls(Free)
BY DEF Free, Asked, Request, Proper, Polls, Settings

(* The requests that are put in a free place.                              *)
LEMMA AskedIsProper ==
  ASSUME NEW what \in {"poll"} \cup Settings, NEW by \in {"nobody", "console"}, NEW val \in Int,
         NEW pc \in {"sent", "failed"}, NEW at \in Int
  PROVE  LET r == Asked(what, by, val, pc, at)
         IN r \in Request /\ Proper(r) /\ r.pc # "done" /\ r.what = what /\ r.by = by
BY DEF Asked, Request, Proper

(* A request that has been given up.                                       *)
LEMMA GivenUp ==
  ASSUME NEW c \in Request
  PROVE  LET r == [c EXCEPT !.by = "nobody", !.at = 0]
         IN r \in Request /\ r.pc = c.pc /\ r.got = c.got /\ r.what = c.what /\ r.by = "nobody"
<1> DEFINE d == [c EXCEPT !.by = "nobody"]
<1>1. [c EXCEPT !.by = "nobody", !.at = 0] = [d EXCEPT !.at = 0]
  BY DEF Request
<1>2. d \in Request /\ d.pc = c.pc /\ d.got = c.got /\ d.what = c.what /\ d.by = "nobody"
  BY DEF Request
<1> HIDE DEF d
<1>3. [d EXCEPT !.at = 0] \in Request
  BY <1>2 DEF Request
<1>4. QED
  BY <1>1, <1>2, <1>3 DEF Request

(* A request put in place of another keeps the invariant of the requests,  *)
(* if it is answered as it should be and there is no second poll.          *)
LEMMA PutOne ==
  ASSUME NEW cs, Requests(cs), NEW flag \in BOOLEAN, OnePoll(cs, flag),
         NEW k \in Calls, NEW r \in Request, Proper(r), NEW flag2 \in BOOLEAN,
         flag => flag2,
         Polls(r) => flag2 /\ \A j \in Calls : j # k => ~Polls(cs[j])
  PROVE  /\ Requests([cs EXCEPT ![k] = r])
         /\ OnePoll([cs EXCEPT ![k] = r], flag2)
<1> DEFINE new == [cs EXCEPT ![k] = r]
<1>1. new \in [Calls -> Request] /\ \A j \in Calls : new[j] = IF j = k THEN r ELSE cs[j]
  BY DEF Requests
<1> HIDE DEF new
<1>2. Requests(new)
  BY <1>1 DEF Requests
<1>3. OnePoll(new, flag2)
  BY <1>1 DEF OnePoll
<1>4. QED
  BY <1>2, <1>3 DEF new

(* So does a put that adds no answer for the console's answers.            *)
LEMMA PutAnswers ==
  ASSUME NEW cs, Requests(cs), AnswersFine(cs), NEW k \in Calls, NEW r \in Request,
         Polls(r) => r.pc # "done"
  PROVE  AnswersFine([cs EXCEPT ![k] = r])
BY DEF Requests, AnswersFine

(* The answers stay fine while the server goes on counting.                *)
LEMMA StillFine ==
  ASSUME TypeInv, NEW r \in Readings, Fine(r),
         counted' \in Nat, msgCount' \in Nat,
         \/ UNCHANGED <<counted, msgCount>>
         \/ counted' = counted + 1 /\ msgCount' = msgCount + 1
         \/ counted' = counted /\ msgCount' = 0
  PROVE  Fine(r)'
BY DEF TypeInv, Fine, Readings

(* The requests the console has done with one of.                          *)
LEMMA WithoutOne ==
  ASSUME TypeInv, Requests(calls), OnePoll(calls, polling), AnswersFine(calls), NEW i \in Calls
  PROVE  /\ Requests(Without(i)) /\ OnePoll(Without(i), polling) /\ AnswersFine(Without(i))
         /\ \A j \in Calls : Polls(Without(i)[j]) => j # i /\ Polls(calls[j])
<1> DEFINE r == IF calls[i].pc \in {"sent", "write"}
                THEN [calls[i] EXCEPT !.by = "nobody", !.at = 0] ELSE Free
<1>1. Without(i) = [calls EXCEPT ![i] = r]
  BY DEF Without, Requests
<1>2. r \in Request /\ Proper(r) /\ ~Polls(r)
  <2>1. CASE calls[i].pc \in {"sent", "write"}
    <3>1. calls[i] \in Request /\ Proper(calls[i])
      BY DEF Requests
    <3>2. r = [calls[i] EXCEPT !.by = "nobody", !.at = 0]
      BY <2>1
    <3>3. /\ r \in Request /\ r.pc = calls[i].pc /\ r.what = calls[i].what
          /\ r.got = calls[i].got /\ r.by = "nobody"
      BY <3>1, <3>2, GivenUp
    <3>4. QED
      BY <3>1, <3>3 DEF Proper, Polls
  <2>2. CASE calls[i].pc \notin {"sent", "write"}
    BY <2>2, FreeIsProper
  <2>3. QED
    BY <2>1, <2>2
<1> HIDE DEF r
<1>3. polling \in BOOLEAN
  BY DEF TypeInv
<1>4. Requests(Without(i)) /\ OnePoll(Without(i), polling)
  <2>1. polling => polling
    OBVIOUS
  <2>2. Polls(r) => polling /\ \A j \in Calls : j # i => ~Polls(calls[j])
    BY <1>2
  <2>3. Requests([calls EXCEPT ![i] = r]) /\ OnePoll([calls EXCEPT ![i] = r], polling)
    BY <1>2, <1>3, <2>1, <2>2, PutOne, Zenon
  <2>4. QED
    BY <1>1, <2>3
<1>5. AnswersFine(Without(i))
  <2>1. Polls(r) => r.pc # "done"
    BY <1>2
  <2>2. AnswersFine([calls EXCEPT ![i] = r])
    BY <1>2, <2>1, PutAnswers, Zenon
  <2>3. QED
    BY <1>1, <2>2
<1>6. \A j \in Calls : Without(i)[j] = IF j = i THEN r ELSE calls[j]
  BY <1>1 DEF Requests
<1>7. QED
  BY <1>2, <1>4, <1>5, <1>6

(* A poll begins only where none is in progress.                           *)
LEMMA PollBegins ==
  ASSUME TypeInv, NEW cs, Requests(cs), OnePoll(cs, polling), AnswersFine(cs),
         ~polling, pollCmd(cs)
  PROVE  /\ Requests(calls') /\ OnePoll(calls', polling') /\ AnswersFine(calls')
         /\ clock' \in Int /\ polling' \in BOOLEAN
<1>1. Place(cs) \in Calls
  BY PlaceIsFree DEF pollCmd
<1>2. clock' \in Int
  BY FS_CardinalityType, ConsoleAssumption DEF TypeInv, pollCmd, Least
<1>3. /\ PollCall(clock') \in Request /\ Proper(PollCall(clock'))
      /\ PollCall(clock').pc # "done"
  BY <1>2, AskedIsProper DEF PollCall
<1>4. calls' = [cs EXCEPT ![Place(cs)] = PollCall(clock')] /\ polling' = TRUE
  BY DEF pollCmd
<1>5. \A j \in Calls : ~Polls(cs[j])
  BY DEF OnePoll
<1>6. polling \in BOOLEAN /\ polling' \in BOOLEAN
  BY <1>4 DEF TypeInv
<1>7. Requests(calls') /\ OnePoll(calls', polling')
  BY <1>1, <1>3, <1>4, <1>5, <1>6, PutOne
<1>8. AnswersFine(calls')
  BY <1>1, <1>3, <1>4, PutAnswers
<1>9. QED
  BY <1>2, <1>6, <1>7, <1>8

(* A handler's step answers as it should.                                  *)
LEMMA StepAnswers ==
  ASSUME IInv, NEW i \in Calls, NEW pc \in {"write", "done", "failed"},
         NEW got \in {None} \cup Readings \cup [Settings -> Int],
         Step(i, pc, got),
         pc = "write" => calls[i].what \in Settings /\ got \in [Settings -> Int],
         calls[i].what = "poll" /\ pc = "done" =>
           /\ got \in Readings
           /\ Fine(got) /\ (prev # None => After(got, prev))
  PROVE  Requests(calls') /\ OnePoll(calls', polling) /\ AnswersFine(calls')
<1> DEFINE r == [calls[i] EXCEPT !.pc = pc, !.got = got]
<1>1. calls[i] \in Request /\ Requests(calls) /\ OnePoll(calls, polling) /\ polling \in BOOLEAN
  BY DEF IInv, Requests, TypeInv
<1>2. r \in Request /\ r.pc = pc /\ r.got = got /\ r.what = calls[i].what /\ r.by = calls[i].by
  <2> DEFINE d == [calls[i] EXCEPT !.pc = pc]
  <2>1. r = [d EXCEPT !.got = got]
    BY <1>1 DEF Request
  <2>2. d \in Request /\ d.pc = pc /\ d.what = calls[i].what /\ d.by = calls[i].by
    BY <1>1 DEF Request
  <2> HIDE DEF d, r
  <2>3. [d EXCEPT !.got = got] \in Request
    BY <2>2 DEF Request
  <2>4. QED
    BY <2>1, <2>2, <2>3 DEF Request
<1>3. calls' = [calls EXCEPT ![i] = r]
  BY DEF Step
<1> HIDE DEF r
<1>4. Proper(r)
  BY <1>2 DEF Proper
<1>5. Polls(r) => polling /\ \A j \in Calls : j # i => ~Polls(calls[j])
  BY <1>1, <1>2 DEF Polls, OnePoll
<1>6. polling => polling
  OBVIOUS
<1>7. Requests([calls EXCEPT ![i] = r]) /\ OnePoll([calls EXCEPT ![i] = r], polling)
  BY <1>1, <1>2, <1>4, <1>5, <1>6, PutOne, Zenon
<1>8. \A j \in Calls : calls'[j] = IF j = i THEN r ELSE calls[j]
  BY <1>1, <1>3 DEF Requests
<1>9. AnswersFine(calls')
  <2> SUFFICES ASSUME NEW j \in Calls, Polls(calls'[j]), calls'[j].pc = "done"
               PROVE  Fine(calls'[j].got) /\ (prev # None => After(calls'[j].got, prev))
    BY DEF AnswersFine
  <2>1. CASE j = i
    BY <1>2, <1>8, <2>1 DEF Polls
  <2>2. CASE j # i
    BY <1>8, <2>2 DEF IInv, AnswersFine
  <2>3. QED
    BY <2>1, <2>2
<1>10. QED
  BY <1>3, <1>7, <1>9

(* Steps that leave the counters and the console's answers alone.          *)
LEMMA OnlyRequests ==
  ASSUME IInv, UNCHANGED <<counted, msgCount, last, prev, samples, arrived>>,
         config' \in [Settings -> Int], clock' \in Int, polling' \in BOOLEAN,
         Requests(calls'), OnePoll(calls', polling'), AnswersFine(calls')
  PROVE  IInv'
<1>1. TypeInv'
  BY DEF IInv, TypeInv
<1>2. AnswersFine(calls)'
  BY DEF AnswersFine, Fine, After
<1>3. PrevFine'
  BY DEF IInv, PrevFine, Fine
<1>4. SamplesHonest'
  BY DEF IInv, SamplesHonest
<1>5. QED
  BY <1>1, <1>2, <1>3, <1>4 DEF IInv

LEMMA HandlerStep ==
  ASSUME IInv, NEW i \in Calls, Handler(i)
  PROVE  IInv'
<1>1. calls[i] \in Request /\ Proper(calls[i]) /\ polling \in BOOLEAN /\ clock \in Int
  BY DEF IInv, Requests, TypeInv
<1>2. None \in {None} \cup Readings \cup [Settings -> Int]
  OBVIOUS
<1>3. CASE handleStats(i)
  <2> DEFINE got == [msgs |-> msgCount, counted |-> counted, config |-> config]
  <2>1. got \in Readings /\ Fine(got)
    BY DEF IInv, TypeInv, Readings, Fine
  <2>2. prev # None => After(got, prev)
    <3> SUFFICES ASSUME prev # None PROVE After(got, prev)
      OBVIOUS
    <3>1. prev \in Readings /\ Fine(prev)
      BY DEF IInv, TypeInv, PrevFine
    <3>2. QED
      BY <3>1 DEF Fine, After
  <2> HIDE DEF got
  <2>3. Step(i, "done", got) /\ UNCHANGED <<server, console, budget>>
    BY <1>3 DEF handleStats, got
  <2>4. Requests(calls') /\ OnePoll(calls', polling) /\ AnswersFine(calls')
    BY <2>1, <2>2, <2>3, StepAnswers
  <2>5. QED
    BY <1>1, <2>3, <2>4, OnlyRequests DEF server, console, IInv, TypeInv
<1>4. CASE handleSet(i)
  <2>1. /\ UNCHANGED <<server, console, budget>> /\ calls[i].what \in Settings
        /\ Step(i, "failed", None) \/ Step(i, "write", config)
    BY <1>4 DEF handleSet
  <2>2. config \in [Settings -> Int] /\ calls[i].what # "poll"
    BY <2>1 DEF IInv, TypeInv, Settings
  <2>3. Requests(calls') /\ OnePoll(calls', polling) /\ AnswersFine(calls')
    BY <1>2, <2>1, <2>2, StepAnswers
  <2>4. QED
    BY <1>1, <2>1, <2>3, OnlyRequests DEF server, console, IInv, TypeInv
<1>5. CASE WriteBack(i)
  <2>1. /\ calls[i].pc = "write" /\ calls[i].what \in Settings /\ calls[i].got \in [Settings -> Int]
        /\ config' = [calls[i].got EXCEPT ![calls[i].what] = calls[i].val]
        /\ Step(i, "done", None)
        /\ UNCHANGED <<up, msgCount, counted, console, budget>>
    BY <1>1, <1>5 DEF WriteBack, Proper
  <2>2. calls[i].val \in Int /\ calls[i].what # "poll"
    BY <1>1, <2>1 DEF Request, Settings
  <2>3. config' \in [Settings -> Int]
    BY <2>1, <2>2
  <2>4. Requests(calls') /\ OnePoll(calls', polling) /\ AnswersFine(calls')
    BY <1>2, <2>1, <2>2, StepAnswers
  <2>5. QED
    BY <1>1, <2>1, <2>3, <2>4, OnlyRequests DEF console, IInv, TypeInv
<1>6. CASE Refused(i)
  <2>1. Step(i, "failed", None) /\ UNCHANGED <<server, console, budget>>
    BY <1>6 DEF Refused
  <2>2. Requests(calls') /\ OnePoll(calls', polling) /\ AnswersFine(calls')
    BY <1>2, <2>1, StepAnswers
  <2>3. QED
    BY <1>1, <2>1, <2>2, OnlyRequests DEF server, console, IInv, TypeInv
<1>7. CASE Forget(i)
  <2>1. calls' = [calls EXCEPT ![i] = Free] /\ UNCHANGED <<server, console, budget>>
    BY <1>7 DEF Forget
  <2>2. polling => polling
    OBVIOUS
  <2>3. Requests([calls EXCEPT ![i] = Free]) /\ OnePoll([calls EXCEPT ![i] = Free], polling)
    BY <1>1, <2>2, FreeIsProper, PutOne, Zenon DEF IInv
  <2>4. AnswersFine([calls EXCEPT ![i] = Free])
    BY FreeIsProper, PutAnswers, Zenon DEF IInv
  <2>5. Requests(calls') /\ OnePoll(calls', polling) /\ AnswersFine(calls')
    BY <2>1, <2>3, <2>4
  <2>6. QED
    BY <1>1, <2>1, <2>5, OnlyRequests DEF server, console, IInv, TypeInv
<1>8. QED
  BY <1>3, <1>4, <1>5, <1>6, <1>7 DEF Handler

(* A request is put in a free place.                                       *)
LEMMA PutFree ==
  ASSUME IInv, HasPlace(calls), NEW r \in Request, Proper(r), ~Polls(r),
         calls' = [calls EXCEPT ![Place(calls)] = r]
  PROVE  Requests(calls') /\ OnePoll(calls', polling) /\ AnswersFine(calls')
<1>1. Place(calls) \in Calls
  BY PlaceIsFree
<1>2. polling => polling
  OBVIOUS
<1>3. polling \in BOOLEAN
  BY DEF IInv, TypeInv
<1>4. /\ Requests([calls EXCEPT ![Place(calls)] = r])
      /\ OnePoll([calls EXCEPT ![Place(calls)] = r], polling)
  BY <1>1, <1>2, <1>3, PutOne, Zenon DEF IInv
<1>5. AnswersFine([calls EXCEPT ![Place(calls)] = r])
  BY <1>1, PutAnswers, Zenon DEF IInv
<1>6. QED
  BY <1>4, <1>5

LEMMA OtherPostsStep == ASSUME IInv, OtherPosts PROVE IInv'
<1>1. PICK f \in Settings, v \in {0, MaxShift + 1} :
        calls' = [calls EXCEPT ![Place(calls)] = Asked(f, "nobody", v, "sent", 0)]
  BY DEF OtherPosts
<1>2. HasPlace(calls) /\ UNCHANGED <<server, console>>
  BY DEF OtherPosts
<1> DEFINE r == Asked(f, "nobody", v, "sent", 0)
<1>3. v \in Int
  BY ConsoleAssumption
<1>4. r \in Request /\ Proper(r) /\ r.what = f /\ r.by = "nobody"
  <2>1. f \in {"poll"} \cup Settings /\ "nobody" \in {"nobody", "console"}
        /\ "sent" \in {"sent", "failed"} /\ 0 \in Int
    OBVIOUS
  <2>2. QED
    BY <1>3, <2>1, AskedIsProper
<1>5. ~Polls(r)
  BY <1>4 DEF Polls
<1>6. Requests(calls') /\ OnePoll(calls', polling) /\ AnswersFine(calls')
  <2> HIDE DEF r
  <2>1. calls' = [calls EXCEPT ![Place(calls)] = r]
    BY <1>1 DEF r
  <2>2. QED
    BY <1>2, <1>4, <1>5, <2>1, PutFree
<1>7. QED
  BY <1>2, <1>6, OnlyRequests DEF server, console, IInv, TypeInv

LEMMA KeyStep == ASSUME IInv, Key PROVE IInv'
<1>1. PICK f \in Settings, delta \in {-1, 1} :
       LET next == IF last = None THEN 0 ELSE last.config[f] + delta
           val  == IF next < 0 THEN 0 ELSE Least(next, MaxShift)
           pc   == IF last = None THEN "failed" ELSE "sent"
       IN calls' = [calls EXCEPT ![Place(calls)] = Asked(f, "console", val, pc, 0)]
  BY DEF Key
<1>2. HasPlace(calls) /\ UNCHANGED <<server, console>>
  BY DEF Key
<1> DEFINE next == IF last = None THEN 0 ELSE last.config[f] + delta
           val  == IF next < 0 THEN 0 ELSE Least(next, MaxShift)
           pc   == IF last = None THEN "failed" ELSE "sent"
           r    == Asked(f, "console", val, pc, 0)
<1>3. next \in Int
  BY DEF IInv, TypeInv, Readings
<1>4. val \in Int
  BY <1>3, ConsoleAssumption DEF Least
<1>5. calls' = [calls EXCEPT ![Place(calls)] = r]
  BY <1>1
<1>6. pc \in {"sent", "failed"}
  OBVIOUS
<1> HIDE DEF next, val, pc
<1>7. r \in Request /\ Proper(r) /\ r.what = f
  <2>1. f \in {"poll"} \cup Settings /\ "console" \in {"nobody", "console"} /\ 0 \in Int
    OBVIOUS
  <2>2. QED
    BY <1>4, <1>6, <2>1, AskedIsProper
<1> HIDE DEF r
<1>8. ~Polls(r)
  BY <1>7 DEF Polls, Settings
<1>9. Requests(calls') /\ OnePoll(calls', polling) /\ AnswersFine(calls')
  BY <1>2, <1>5, <1>7, <1>8, PutFree
<1>10. QED
  BY <1>2, <1>9, OnlyRequests DEF server, console, IInv, TypeInv

LEMMA tickStep == ASSUME IInv, tickMsg PROVE IInv'
<1>1. UNCHANGED <<server, last, prev, samples, lastErr, arrived, budget>>
  BY DEF tickMsg
<1>2. CASE polling
  <2>1. UNCHANGED <<calls, clock, polling>>
    BY <1>2 DEF tickMsg
  <2>2. Requests(calls') /\ OnePoll(calls', polling') /\ AnswersFine(calls')
    BY <2>1 DEF IInv
  <2>3. QED
    BY <1>1, <2>1, <2>2, OnlyRequests DEF server, IInv, TypeInv
<1>3. CASE ~polling
  <2>1. pollCmd(calls)
    BY <1>3 DEF tickMsg
  <2>2. /\ Requests(calls') /\ OnePoll(calls', polling') /\ AnswersFine(calls')
        /\ clock' \in Int /\ polling' \in BOOLEAN
    BY <1>3, <2>1, PollBegins DEF IInv
  <2>3. QED
    BY <1>1, <2>2, OnlyRequests DEF server, IInv, TypeInv
<1>4. QED
  BY <1>2, <1>3

LEMMA pollFailsStep == ASSUME IInv, NEW i \in Calls, pollFails(i) PROVE IInv'
<1>1. /\ Polls(calls[i]) /\ polling' = FALSE /\ calls' = Without(i)
      /\ UNCHANGED <<server, last, prev, clock, samples, arrived>>
  BY DEF pollFails, Polls
<1>2. /\ Requests(Without(i)) /\ OnePoll(Without(i), polling) /\ AnswersFine(Without(i))
      /\ \A j \in Calls : Polls(Without(i)[j]) => j # i /\ Polls(calls[j])
  BY WithoutOne DEF IInv
<1>3. \A j \in Calls : ~Polls(Without(i)[j])
  BY <1>1, <1>2 DEF IInv, OnePoll
<1>4. OnePoll(calls', polling')
  BY <1>1, <1>3 DEF OnePoll
<1>5. Requests(calls') /\ AnswersFine(calls')
  BY <1>1, <1>2
<1>6. QED
  BY <1>1, <1>4, <1>5, OnlyRequests DEF server, IInv, TypeInv

LEMMA controlResultStep == ASSUME IInv, NEW i \in Calls, controlResult(i) PROVE IInv'
<1>1. Follow(i) /\ UNCHANGED <<server, last, prev, samples, lastErr, arrived>>
  BY DEF controlResult
<1>2. Requests(Without(i)) /\ OnePoll(Without(i), polling) /\ AnswersFine(Without(i))
  BY WithoutOne DEF IInv
<1>3. CASE polling
  <2>1. calls' = Without(i) /\ UNCHANGED <<clock, polling>>
    BY <1>1, <1>3 DEF Follow
  <2>2. Requests(calls') /\ OnePoll(calls', polling') /\ AnswersFine(calls')
    BY <1>2, <2>1
  <2>3. QED
    BY <1>1, <2>1, <2>2, OnlyRequests DEF server, IInv, TypeInv
<1>4. CASE ~polling
  <2>1. pollCmd(Without(i))
    BY <1>1, <1>4 DEF Follow
  <2>2. /\ Requests(calls') /\ OnePoll(calls', polling') /\ AnswersFine(calls')
        /\ clock' \in Int /\ polling' \in BOOLEAN
    BY <1>2, <1>4, <2>1, PollBegins DEF IInv
  <2>3. QED
    BY <1>1, <2>2, OnlyRequests DEF server, IInv, TypeInv
<1>5. QED
  BY <1>3, <1>4

(* The server counts, stops, starts again with a new counter.              *)
LEMMA ServerStep == ASSUME IInv, emit \/ Crash \/ Startup PROVE IInv'
<1>1. /\ UNCHANGED <<calls, console>>
      /\ \/ UNCHANGED <<counted, msgCount>>
         \/ counted' = counted + 1 /\ msgCount' = msgCount + 1
         \/ counted' = counted /\ msgCount' = 0
      /\ config' \in [Settings -> Int]
  BY ConsoleAssumption DEF emit, Crash, Startup, IInv, TypeInv
<1>2. counted' \in Nat /\ msgCount' \in Nat
  BY <1>1 DEF IInv, TypeInv
<1>3. TypeInv'
  BY <1>1, <1>2 DEF console, IInv, TypeInv
<1>4. ASSUME NEW r \in Readings, Fine(r)
      PROVE  r.counted <= counted' /\ msgCount' - r.msgs <= counted' - r.counted
  BY <1>1, <1>2, <1>4, StillFine DEF IInv, Fine
<1>5. AnswersFine(calls)'
  <2> SUFFICES ASSUME NEW i \in Calls, Polls(calls[i]), calls[i].pc = "done"
               PROVE  Fine(calls[i].got)' /\ (prev # None => After(calls[i].got, prev))
    BY <1>1 DEF AnswersFine, console, After, Fine
  <2>1. calls[i].got \in Readings /\ Fine(calls[i].got)
    BY DEF IInv, Requests, Proper, AnswersFine, Polls
  <2>2. QED
    BY <1>1, <1>4, <2>1 DEF IInv, AnswersFine, Fine, console
<1>6. PrevFine'
  <2>1. prev # None => prev.counted <= counted' /\ msgCount' - prev.msgs <= counted' - prev.counted
    BY <1>4 DEF IInv, TypeInv, PrevFine
  <2>2. QED
    BY <1>1, <2>1 DEF IInv, PrevFine, Fine, console
<1>7. QED
  BY <1>1, <1>3, <1>5, <1>6 DEF IInv, console, SamplesHonest

LEMMA clearStep == ASSUME IInv, clear PROVE IInv'
<1>1. /\ samples' = <<>> /\ prev' = None /\ arrived' = FALSE
      /\ UNCHANGED <<server, calls, last, clock, polling, lastErr>>
  BY DEF clear
<1>2. TypeInv'
  <2>1. samples' \in Seq(Sample)
    BY <1>1
  <2>2. QED
    BY <1>1, <2>1 DEF IInv, TypeInv, server
<1>3. AnswersFine(calls)'
  BY <1>1 DEF IInv, AnswersFine, Fine, After, server
<1>4. PrevFine' /\ SamplesHonest'
  BY <1>1 DEF PrevFine, SamplesHonest
<1>5. QED
  BY <1>1, <1>2, <1>3, <1>4 DEF IInv

(* The last samples of honest ones are honest.                             *)
HonestSeq(s) ==
  \A k \in 1..Len(s) :
    /\ s[k].rate <= s[k].to - s[k].from
    /\ s[k].fresh
    /\ k > 1 => s[k - 1].to <= s[k].from

LEMMA SuffixHonest ==
  ASSUME NEW s \in Seq(Sample), HonestSeq(s), s # <<>>
  PROVE  LET t == Suffix(s, History)
         IN t \in Seq(Sample) /\ HonestSeq(t) /\ t # <<>> /\ t[Len(t)] = s[Len(s)]
<1>1. CASE Len(s) <= History
  BY <1>1 DEF Suffix
<1>2. CASE Len(s) > History
  <2> DEFINE m == Len(s) - History + 1
             t == SubSeq(s, m, Len(s))
  <2>1. Len(s) \in Nat /\ History \in Nat /\ History > 0 /\ m \in 2..Len(s)
    BY <1>2, ConsoleAssumption
  <2>2. t \in Seq(Sample) /\ Len(t) = History /\ \A k \in 1..History : t[k] = s[k + m - 1]
    BY <2>1, SubSeqProperties
  <2>3. Suffix(s, History) = t
    BY <1>2, <2>1 DEF Suffix
  <2> HIDE DEF t
  <2>4. t # <<>> /\ t[Len(t)] = s[Len(s)]
    BY <2>1, <2>2
  <2>5. HonestSeq(t)
    <3> SUFFICES ASSUME NEW k \in 1..Len(t)
                 PROVE  /\ t[k].rate <= t[k].to - t[k].from /\ t[k].fresh
                        /\ k > 1 => t[k - 1].to <= t[k].from
      BY DEF HonestSeq
    <3>1. k + m - 1 \in 1..Len(s) /\ t[k] = s[k + m - 1]
      BY <2>1, <2>2
    <3>2. CASE k > 1
      <4>1. k - 1 \in 1..History /\ t[k - 1] = s[k - 1 + m - 1]
        BY <2>1, <2>2, <3>2
      <4>2. k + m - 1 > 1 /\ k - 1 + m - 1 = (k + m - 1) - 1
        BY <2>1, <3>2
      <4>3. s[(k + m - 1) - 1].to <= s[k + m - 1].from
        BY <3>1, <4>2 DEF HonestSeq
      <4>4. QED
        BY <3>1, <4>1, <4>2, <4>3 DEF HonestSeq
    <3>3. CASE ~(k > 1)
      BY <3>1, <3>3 DEF HonestSeq
    <3>4. QED
      BY <3>2, <3>3
  <2>6. QED
    BY <2>2, <2>3, <2>4, <2>5
<1>3. QED
  BY <1>1, <1>2, ConsoleAssumption

LEMMA Honest == TypeInv => (SamplesHonest <=> HonestSeq(samples))
BY DEF TypeInv, SamplesHonest, HonestSeq

(* An answer to the poll: the sample it gives follows the ones before it.  *)
LEMMA pollResultStep == ASSUME IInv, NEW i \in Calls, pollResult(i) PROVE IInv'
<1> DEFINE got == calls[i].got
           at  == calls[i].at
<1>1. /\ Polls(calls[i]) /\ calls[i].pc = "done"
      /\ polling' = FALSE /\ last' = got /\ prev' = got /\ arrived' = TRUE
      /\ samples' = IF prev # None /\ at > 0
                    THEN Suffix(Append(samples, deriveSample(got, prev)), History) ELSE samples
      /\ clock' = clock - at
      /\ calls' = [j \in Calls |->
           CASE j = i -> Free
             [] j # i /\ calls[j].what = "poll" /\ calls[j].by = "console" -> [calls[j] EXCEPT !.at = @ - at]
             [] OTHER -> calls[j]]
      /\ UNCHANGED server
  BY DEF pollResult, Polls
<1>2. /\ calls[i] \in Request /\ got \in Readings /\ got # None /\ at \in Int
      /\ Fine(got) /\ (prev # None => After(got, prev))
  BY <1>1, NoneAssumption DEF IInv, Requests, Proper, AnswersFine, Polls, Request
<1>3. \A j \in Calls : calls'[j] = IF j = i THEN Free ELSE calls[j]
  BY <1>1 DEF IInv, OnePoll, Polls
<1>4. calls' = [calls EXCEPT ![i] = Free]
  BY <1>1, <1>3 DEF IInv, Requests
<1> HIDE DEF got, at
<1>5. Requests(calls')
  BY <1>3, <1>4, FreeIsProper DEF IInv, Requests
<1>6. \A j \in Calls : ~Polls(calls'[j])
  BY <1>1, <1>3, FreeIsProper DEF IInv, OnePoll
<1>7. OnePoll(calls', polling') /\ AnswersFine(calls)'
  BY <1>6 DEF OnePoll, AnswersFine
<1>8. /\ samples' \in Seq(Sample) /\ HonestSeq(samples')
      /\ \A k \in 1..Len(samples') : k = Len(samples') => samples'[k].to <= got.counted
  <2>1. samples \in Seq(Sample) /\ HonestSeq(samples)
    BY Honest DEF IInv, TypeInv
  <2>2. CASE prev # None /\ at > 0
    <3> DEFINE new == deriveSample(got, prev)
               s   == Append(samples, new)
    <3>1. prev \in Readings /\ arrived
      BY <2>2 DEF IInv, TypeInv, PrevFine
    <3>2. /\ new \in Sample /\ new.fresh /\ new.rate <= new.to - new.from
          /\ new.to = got.counted /\ new.from = prev.counted
      BY <1>2, <2>2, <3>1 DEF deriveSample, deltaRate, Sample, Readings, After
    <3> HIDE DEF new
    <3>3. /\ s \in Seq(Sample) /\ Len(s) = Len(samples) + 1 /\ s # <<>>
          /\ \A k \in 1..Len(samples) : s[k] = samples[k]
          /\ s[Len(s)] = new
      BY <2>1, <3>2, AppendProperties
    <3> HIDE DEF s
    <3>4. HonestSeq(s)
      <4> SUFFICES ASSUME NEW k \in 1..Len(s)
                   PROVE  /\ s[k].rate <= s[k].to - s[k].from /\ s[k].fresh
                          /\ k > 1 => s[k - 1].to <= s[k].from
        BY DEF HonestSeq
      <4>1. CASE k \in 1..Len(samples)
        <5>1. s[k] = samples[k] /\ (k > 1 => k - 1 \in 1..Len(samples))
          BY <2>1, <3>3, <4>1
        <5>2. k > 1 => s[k - 1] = samples[k - 1]
          BY <3>3, <5>1
        <5>3. QED
          BY <2>1, <4>1, <5>1, <5>2 DEF HonestSeq
      <4>2. CASE k = Len(s)
        <5>1. k > 1 => k - 1 = Len(samples) /\ k - 1 \in 1..Len(samples)
          BY <2>1, <3>3, <4>2
        <5>2. k > 1 => s[k - 1].to <= prev.counted
          BY <3>3, <5>1 DEF IInv, PrevFine
        <5>3. QED
          BY <3>2, <3>3, <4>2, <5>2
      <4>3. QED
        BY <2>1, <3>3, <4>1, <4>2
    <3>5. samples' = Suffix(s, History)
      BY <1>1, <2>2 DEF s, new
    <3>6. /\ samples' \in Seq(Sample) /\ HonestSeq(samples')
          /\ samples'[Len(samples')] = s[Len(s)]
      BY <3>3, <3>4, <3>5, SuffixHonest
    <3>7. QED
      BY <3>2, <3>3, <3>6, <1>2 DEF Readings
  <2>3. CASE ~(prev # None /\ at > 0)
    <3>1. samples' = samples
      BY <1>1, <2>3
    <3>2. CASE prev = None
      BY <2>1, <3>1, <3>2 DEF IInv, PrevFine
    <3>3. CASE prev # None
      <4>1. prev \in Readings /\ prev.counted <= got.counted
        BY <1>2, <3>3 DEF After, IInv, TypeInv
      <4>2. ASSUME NEW k \in 1..Len(samples), k = Len(samples)
            PROVE  samples[k].to <= got.counted
        <5>1. samples[k].to <= prev.counted
          BY <4>2 DEF IInv, PrevFine
        <5>2. samples[k].to \in Nat
          <6>1. samples[k] \in Sample
            BY <2>1, <4>2
          <6>2. QED
            BY <6>1 DEF Sample
        <5>3. QED
          BY <1>2, <4>1, <5>1, <5>2 DEF Readings
      <4>3. QED
        BY <2>1, <3>1, <4>2
    <3>4. QED
      BY <3>2, <3>3
  <2>4. QED
    BY <2>2, <2>3
<1>9. TypeInv'
  <2>1. clock' \in Int
    BY <1>1, <1>2 DEF IInv, TypeInv
  <2>2. last' \in Readings \cup {None} /\ prev' \in Readings \cup {None}
    BY <1>1, <1>2
  <2>3. QED
    BY <1>1, <1>8, <2>1, <2>2 DEF IInv, TypeInv, server
<1>10. PrevFine'
  BY <1>1, <1>2, <1>8 DEF PrevFine, Fine, server
<1>11. SamplesHonest'
  BY <1>8, <1>9 DEF SamplesHonest, HonestSeq, TypeInv
<1>12. QED
  BY <1>5, <1>7, <1>9, <1>10, <1>11 DEF IInv

LEMMA InitIInv == Init => IInv
<1> SUFFICES ASSUME Init PROVE IInv
  OBVIOUS
<1> DEFINE none == [j \in Calls |-> Free]
<1>1. /\ calls = [none EXCEPT ![Place(none)] = PollCall(1)]
      /\ prev = None /\ last = None /\ samples = <<>> /\ polling = TRUE /\ arrived = FALSE
      /\ counted = 0 /\ msgCount = 0 /\ config = Defaults /\ clock = 1
  BY DEF Init
<1>2. Place(none) \in Calls
  <2>1. HasPlace(none)
    BY ConsoleAssumption DEF HasPlace
  <2>2. QED
    BY <2>1, PlaceIsFree, Zenon
<1>3. none \in [Calls -> Request] /\ \A j \in Calls : none[j] = Free
  BY FreeIsProper
<1> HIDE DEF none
<1>4. Requests(none) /\ OnePoll(none, FALSE) /\ AnswersFine(none)
  BY <1>3, FreeIsProper DEF Requests, OnePoll, AnswersFine
<1>5. PollCall(1) \in Request /\ Proper(PollCall(1)) /\ PollCall(1).pc # "done"
  BY AskedIsProper DEF PollCall
<1>6. \A j \in Calls : ~Polls(none[j])
  BY <1>3, FreeIsProper
<1>7. Requests(calls) /\ OnePoll(calls, polling)
  <2>1. \A j \in Calls : calls[j] = IF j = Place(none) THEN PollCall(1) ELSE none[j]
    BY <1>1, <1>2, <1>3
  <2>2. Requests(calls)
    BY <1>1, <1>2, <1>3, <1>4, <1>5, <2>1 DEF Requests
  <2>3. OnePoll(calls, polling)
    BY <1>1, <1>6, <2>1 DEF OnePoll
  <2>4. QED
    BY <2>2, <2>3
<1>8. AnswersFine(calls)
  BY <1>1, <1>2, <1>4, <1>5, PutAnswers
<1>9. TypeInv
  <2>1. samples \in Seq(Sample)
    BY <1>1
  <2>2. config \in [Settings -> Int]
    BY <1>1, ConsoleAssumption
  <2>3. last \in Readings \cup {None} /\ prev \in Readings \cup {None}
    BY <1>1
  <2>4. counted \in Nat /\ msgCount \in Nat /\ clock \in Int
    BY <1>1
  <2>5. polling \in BOOLEAN /\ arrived \in BOOLEAN
    BY <1>1
  <2>6. QED
    BY <2>1, <2>2, <2>3, <2>4, <2>5 DEF TypeInv
<1>10. PrevFine /\ SamplesHonest
  BY <1>1 DEF PrevFine, SamplesHonest
<1>11. QED
  BY <1>1, <1>7, <1>8, <1>9, <1>10 DEF IInv

LEMMA NextIInv == IInv /\ [Next]_vars => IInv'
<1> SUFFICES ASSUME IInv, [Next]_vars PROVE IInv'
  OBVIOUS
<1>1. ASSUME NEW i \in Calls, Handler(i) PROVE IInv'
  BY <1>1, HandlerStep
<1>2. ASSUME NEW i \in Calls, Answer(i) PROVE IInv'
  BY <1>2, pollResultStep, pollFailsStep, controlResultStep DEF Answer
<1>3. CASE tickMsg \/ Key \/ clear \/ OtherPosts
  BY <1>3, tickStep, KeyStep, clearStep, OtherPostsStep
<1>4. CASE emit \/ Crash \/ Startup
  BY <1>4, ServerStep
<1>5. CASE UNCHANGED vars
  <2>1. UNCHANGED <<server, console, calls>>
    BY <1>5 DEF vars
  <2>2. Requests(calls') /\ OnePoll(calls', polling') /\ AnswersFine(calls')
    BY <2>1 DEF IInv, console
  <2>3. QED
    BY <2>1, <2>2, OnlyRequests DEF server, console, IInv, TypeInv
<1>6. QED
  BY <1>1, <1>2, <1>3, <1>4, <1>5 DEF Next

(* Whatever order answers, timeouts, keys and ticks come in, and over any  *)
(* number of restarts of the feeder, the chart claims no more messages for *)
(* an interval than were counted in it, counts none twice and reaches back *)
(* over no clear (watch-stats, Update).                                    *)
THEOREM ChartIsHonest == Spec => []SamplesHonest
<1>1. IInv => SamplesHonest
  BY DEF IInv
<1>2. QED
  BY InitIInv, NextIInv, <1>1, PTL DEF Spec
=============================================================================
