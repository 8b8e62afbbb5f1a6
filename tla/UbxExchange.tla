---------------------------- MODULE UbxExchange ----------------------------
(* Requests to the u-blox receiver through gpsd and the wait for their       *)
(* answers (client.go, surveyin.go: SendAndAwaitACK, SendAndAwaitResponse,   *)
(* WriteAndVerify), with the configuration messages of tmode.go, nav5.go,    *)
(* tp5.go and cfgcfg.go.                                                     *)
(*                                                                           *)
(* Requests queue at gpsd and the serial line and are served in order;       *)
(* UBX has no request number, so an answer can only be told by its message   *)
(* class. gpsd sends every answer to all its clients: those to the polls of  *)
(* another program (plane-feeder's monitor) reach this one too, and those to *)
(* what a program asked before it gave up reach the next.                    *)
EXTENDS GpsdClient, FiniteSets

CONSTANTS Forms,      \* how gpsd passes frames on: "RAW" objects, "bare" hex lines
          NoValue,    \* the payload of a frame that has none
          Dev2        \* a second receiver on the same gpsd, or Path if there is none

VARIABLES requests,   \* what the receiver has not served yet
          receiver,   \* its generation, configuration, survey and saved configuration
          gpsd,       \* "listening", "connected", "greeted" or "gone"
          ex,         \* the exchange in progress
          cancelled,  \* the caller's context was cancelled by a signal
          expired,    \* the deadline of the caller's context has passed
          budget      \* the bound: how many faults, of which kinds, and how many polls of others

linkVars == <<requests, receiver, gpsd, budget>>
ctxVars  == <<cancelled, expired>>

-----------------------------------------------------------------------------
(* Configuration payloads. A TMODE payload is its mode (0 disabled, 1        *)
(* survey-in, 2 fixed) and the fields of the other two modes. The programs   *)
(* write positions in ECEF; "LLH" is one that was set in degrees.            *)

SurveyInFrame      == [mode |-> 1, svin |-> "asked", pos |-> "zero"]
FixedModeFrame(p)  == [mode |-> 2, svin |-> "zero", pos |-> p]

\* compareTMODEByMode: the fields the receiver ignores in a mode are skipped.
compareTMODEByMode(got, want) ==
  /\ got.mode = want.mode
  /\ want.mode = 1 => got.svin = want.svin
  /\ want.mode = 2 => got.pos = want.pos

Agrees(item, got, want) == IF item = "TMODE" THEN compareTMODEByMode(got, want) ELSE got = want

\* What a poll of an item answers.
Setting(item) == CASE item = "MON-VER" -> receiver.gen
                   [] item = "SVIN"    -> receiver.svin
                   [] OTHER            -> receiver.cfg[item]

ConfigItems == {"TMODE", "NAV5", "TP5"}

-----------------------------------------------------------------------------
(* The receiver and gpsd, external to the repository.                        *)

Frame(dev, kind, item, val, short) ==
  [class |-> "frame", dev |-> dev, kind |-> kind, item |-> item, val |-> val, short |-> short]

\* The M8 keeps the fields of the modes it is not switched to.
Stored(old, new) ==
  IF receiver.gen = "F9" THEN new
  ELSE [mode |-> new.mode,
        svin |-> IF new.mode = 1 THEN new.svin ELSE old.svin,
        pos  |-> IF new.mode = 2 THEN new.pos ELSE old.pos]

Applied(req) ==
  CASE req.kind = "save" -> [receiver EXCEPT !.flash = receiver.cfg]
    [] req.kind = "set" /\ req.item = "TMODE" ->
         [receiver EXCEPT !.cfg.TMODE = Stored(@, req.val),
                          !.svin = IF req.val.mode = 1 THEN "active" ELSE "none"]
    [] req.kind = "set" /\ req.item # "TMODE" -> [receiver EXCEPT !.cfg[req.item] = req.val]
    [] OTHER -> receiver

\* A write is acknowledged; a poll is answered, and acknowledged too when it
\* is of a configuration message.
Answer(req, short) ==
  LET ack  == Frame(Path, "ack", req.item, NoValue, FALSE)
      data == Frame(Path, "data", req.item, Setting(req.item), short)
  IN IF req.kind # "poll" THEN <<ack>>
     ELSE IF req.item \in ConfigItems THEN <<data, ack>> ELSE <<data>>

Send(frames) ==
  \E form \in Forms :
    GpsdSends(IF gpsd = "greeted"
              THEN [i \in DOMAIN frames |-> [frames[i] EXCEPT !.class = form]]
              ELSE <<>>)

Serve ==
  /\ requests # <<>>
  /\ receiver' = Applied(Head(requests))
  /\ Send(Answer(Head(requests), FALSE))
  /\ requests' = Tail(requests)
  /\ UNCHANGED <<gpsd, ex, budget, ctxVars>>

\* Lost, refused, garbled, late and aborted exchanges are faults.
Spend == budget.faults > 0 /\ budget' = [budget EXCEPT !.faults = @ - 1]

\* The request is lost or refused, or its answer is lost or too short.
Misserve ==
  /\ requests # <<>> /\ Spend
  /\ LET req == Head(requests) IN
     \/ UNCHANGED receiver /\ Send(<<>>)
     \/ req.kind # "poll" /\ UNCHANGED receiver
          /\ Send(<<Frame(Path, "nak", req.item, NoValue, FALSE)>>)
     \/ req.kind # "poll" /\ receiver' = Applied(req) /\ Send(<<>>)
     \/ req.kind = "poll" /\ UNCHANGED receiver /\ Send(Answer(req, TRUE))
  /\ requests' = Tail(requests)
  /\ UNCHANGED <<gpsd, ex, ctxVars>>

\* A survey converges.
Converge ==
  /\ receiver.cfg.TMODE.mode = 1 /\ receiver.svin = "active"
  /\ receiver' = [receiver EXCEPT !.svin = "valid"]
  /\ UNCHANGED <<clientVars, requests, gpsd, ex, budget, ctxVars>>

\* Another program polls the receiver.
OtherPolls ==
  /\ budget.others > 0 /\ gpsd = "greeted"
  /\ budget' = [budget EXCEPT !.others = @ - 1]
  /\ \E item \in {"TMODE", "SVIN"} :
       requests' = Append(requests, [kind |-> "poll", item |-> item, val |-> NoValue])
  /\ UNCHANGED <<clientVars, receiver, gpsd, ex, ctxVars>>

\* A second receiver on the same gpsd, fixed elsewhere, answers a poll of its own.
OtherReceiver ==
  /\ Dev2 # Path /\ gpsd = "greeted" /\ budget.others > 0
  /\ budget' = [budget EXCEPT !.others = @ - 1]
  /\ Send(<<Frame(Dev2, "data", "TMODE", FixedModeFrame("elsewhere"), FALSE)>>)
  /\ UNCHANGED <<requests, receiver, gpsd, ex, ctxVars>>

\* gpsd answers ?WATCH with its devices (that it knows less is a fault), later
\* reports a device or an error, or closes the connection.
Greet ==
  /\ gpsd = "connected"
  /\ \E list \in SUBSET Paths :
       /\ IF list = Paths THEN UNCHANGED budget ELSE Spend
       /\ GpsdSends(<<[class |-> "DEVICES", paths |-> list]>>)
  /\ gpsd' = "greeted"
  /\ UNCHANGED <<requests, receiver, ex, ctxVars>>
Complain ==
  /\ gpsd = "greeted" /\ budget.errors /\ Spend
  /\ \E msg \in {[class |-> "ERROR"], [class |-> "DEVICE", path |-> Path]} : GpsdSends(<<msg>>)
  /\ UNCHANGED <<requests, receiver, gpsd, ex, ctxVars>>
Drop ==
  /\ gpsd \in {"connected", "greeted"} /\ Spend
  /\ GpsdSends(<<[class |-> "EOF"]>>)
  /\ gpsd' = "gone"
  /\ UNCHANGED <<requests, receiver, ex, ctxVars>>

\* The serial side goes on whatever becomes of the connection.
Environment == \/ Serve \/ Misserve \/ Converge \/ OtherPolls \/ OtherReceiver
               \/ Greet \/ Complain \/ Drop

-----------------------------------------------------------------------------
(* An exchange: a poll, an acknowledged command, or a write with its         *)
(* verification. "stage" is its place or its result; "slot" the place of a   *)
(* write in WriteAndVerify: the acknowledgement, and two verify polls with   *)
(* one retry each.                                                           *)

\* What a call makes of the payload it received: one that is too short does not parse.
ParseSVIN        == IF ex.short THEN "short" ELSE ex.val
DetectGeneration == IF ex.short THEN "short" ELSE ex.val

\* Of a TMODE payload that is too short there may be enough for its mode, or for
\* its position as well. Whoever reads a payload is the only one who does, so
\* that how long it is may be chosen there.
Lengths == {"nothing", "mode", "position"}
TMODEMode(length)   == IF ex.short /\ length = "nothing" THEN -1 ELSE ex.val.mode
HasPosition(length) == ex.short => length = "position"

\* The position is read as ECEF, whatever the payload's lla flag says.
ExtractFixedModeECEF(payload) == IF payload.pos = "LLH" THEN "misread" ELSE payload.pos

Idle == [op |-> "none", item |-> "none", want |-> NoValue, slot |-> "none", stage |-> "idle",
         own |-> FALSE, shield |-> FALSE, val |-> NoValue, short |-> FALSE]

Results == {"ok", "nak", "mismatch", "gone", "late"}

\* "own": the call has a deadline of its own; "shield": it ignores the
\* caller's context, as the rollback does.
Poll(item, own) ==
  [Idle EXCEPT !.op = "poll", !.item = item, !.slot = "poll", !.stage = "send", !.own = own]
Command(item) ==
  [Idle EXCEPT !.op = "save", !.item = item, !.slot = "ack", !.stage = "send"]
WriteAndVerify(item, want, own, shield) ==
  [Idle EXCEPT !.op = "write", !.item = item, !.want = want, !.slot = "ack", !.stage = "send",
               !.own = own, !.shield = shield]

\* The calls of the package that are made of them.
WriteTMODE(want, own, shield) == WriteAndVerify("TMODE", want, own, shield)
WriteNAV5DynModel             == WriteAndVerify("NAV5", "stationary", FALSE, FALSE)
WriteTP5_1HzUTC               == WriteAndVerify("TP5", "1HzUTC", FALSE, FALSE)
SaveConfig                    == Command("CFG")
PollSVIN(own)                 == Poll("SVIN", own)

Request == IF ex.slot # "ack" THEN [kind |-> "poll", item |-> ex.item, val |-> NoValue]
           ELSE IF ex.op = "save" THEN [kind |-> "save", item |-> ex.item, val |-> NoValue]
           ELSE [kind |-> "set", item |-> ex.item, val |-> ex.want]

\* Drain, SendUBX.
SendUBX ==
  /\ ex.stage = "send"
  /\ \/ /\ DrainAndSend
        /\ requests' = IF gpsd = "gone" THEN requests ELSE Append(requests, Request)
        /\ ex' = [ex EXCEPT !.stage = "wait"]
     \/ /\ closed
        /\ ex' = [ex EXCEPT !.stage = "gone"]
        /\ UNCHANGED <<clientVars, requests>>
  /\ UNCHANGED <<receiver, gpsd, budget, ctxVars>>

Wanted(f) == f.item = ex.item /\ (IF ex.slot = "ack" THEN f.kind \in {"ack", "nak"} ELSE f.kind = "data")

\* writeVerifySlot: a mismatch is retried once; two slots must agree.
Verified(f) ==
  LET agrees == ~f.short /\ Agrees(ex.item, f.val, ex.want)
      to(slot) == [ex EXCEPT !.slot = slot, !.stage = "send"]
  IN CASE agrees /\ ex.slot \in {"v0", "r0"}  -> to("v1")
       [] agrees /\ ex.slot \in {"v1", "r1"}  -> [ex EXCEPT !.stage = "ok"]
       [] ~agrees /\ ex.slot = "v0"           -> to("r0")
       [] ~agrees /\ ex.slot = "v1"           -> to("r1")
       [] ~agrees /\ ex.slot \in {"r0", "r1"} -> [ex EXCEPT !.stage = "mismatch"]

\* Mutant: the acknowledgement is taken for the proof.
ReceivedAckSuffices(f) ==
  CASE f.kind = "nak"                     -> [ex EXCEPT !.stage = "nak"]
    [] f.kind = "ack"                     -> [ex EXCEPT !.stage = "ok"]
    [] f.kind = "data" /\ ex.op = "poll"  -> [ex EXCEPT !.stage = "ok", !.val = f.val, !.short = f.short]
    [] f.kind = "data" /\ ex.op = "write" -> Verified(f)

Received(f) ==
  CASE f.kind = "nak"                   -> [ex EXCEPT !.stage = "nak"]
    [] f.kind = "ack" /\ ex.op = "save"  -> [ex EXCEPT !.stage = "ok"]
    [] f.kind = "ack" /\ ex.op = "write" -> [ex EXCEPT !.slot = "v0", !.stage = "send"]
    [] f.kind = "data" /\ ex.op = "poll" -> [ex EXCEPT !.stage = "ok", !.val = f.val, !.short = f.short]
    [] f.kind = "data" /\ ex.op = "write" -> Verified(f)

\* WaitFor's select: a frame, the subscription closed, or the context done.
WaitFrame ==
  /\ ex.stage = "wait" /\ TakeFrame
  /\ ex' = IF Wanted(Head(incoming)) THEN Received(Head(incoming)) ELSE ex
  /\ UNCHANGED <<linkVars, ctxVars>>
WaitClosed ==
  /\ ex.stage = "wait" /\ sub = "closed"
  /\ ex' = [ex EXCEPT !.stage = "gone"]
  /\ UNCHANGED <<clientVars, linkVars, ctxVars>>
WaitContext ==
  /\ ex.stage = "wait" /\ (cancelled \/ expired) /\ ~ex.shield
  /\ ex' = [ex EXCEPT !.stage = "late"]
  /\ UNCHANGED <<clientVars, linkVars, ctxVars>>

\* The call's own deadline: for want of an answer, or ahead of a slow one,
\* which then arrives during what is asked next.
Silence == requests = <<>> /\ stream = <<>> /\ incoming = <<>>
WaitDeadline ==
  /\ ex.stage = "wait" /\ ex.own
  /\ IF Silence THEN UNCHANGED budget ELSE Spend
  /\ ex' = [ex EXCEPT !.stage = "late"]
  /\ UNCHANGED <<clientVars, requests, receiver, gpsd, ctxVars>>

Exchange == SendUBX \/ WaitFrame \/ WaitClosed \/ WaitContext \/ WaitDeadline
=============================================================================
