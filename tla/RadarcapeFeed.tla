--------------------------- MODULE RadarcapeFeed ---------------------------
(***************************************************************************)
(* The Radarcape output of ps/cmd/plane-feeder/main.go on top of the Beast *)
(* server: the state machine that picks the timestamp format from the      *)
(* PPS-disciplined clock, the 0x34 status frames that announce it, and the *)
(* welcome frames that announce it to late joiners.                        *)
(*                                                                         *)
(* A client decodes the timestamps of the stream in the mode the last      *)
(* status frame announced.  A frame is therefore its kind, the mode its    *)
(* timestamp is in, and, for a status frame, the mode it announces.  Wall  *)
(* time is left out: a periodic status frame may be due at any message.    *)
(* 0x35 position frames are not emitted (main.go:445-452 is switched off). *)
(***************************************************************************)
EXTENDS BeastServer

CONSTANTS GPS, Legacy,   \* ModeRadarcapeGPS, ModeRadarcapeLegacy12MHz
          MaxEmits       \* bound of the model: messages emitted

ASSUME RadarcapeAssumption == GPS # Legacy /\ MaxEmits \in Nat

Modes == {GPS, Legacy}

(* A *ClockRef: nil, or whether its GpsSync is set *)
Refs == {"nil", "unsynced", "synced"}

Status(ts, mode) == [kind |-> "status", ts |-> ts, mode |-> mode]
Data(ts) == [kind |-> "data", ts |-> ts, mode |-> ts]
IsStatus(f) == f.kind = "status"

AllFrames == {Status(t, m) : t, m \in Modes} \cup {Data(t) : t \in Modes}
AllWelcomes == {<<Status(m, m)>> : m \in Modes}

(* What the feeder makes is among what the server takes. *)
ASSUME FramesAssumption == AllFrames \subseteq Frames /\ AllWelcomes \subseteq Welcomes

VARIABLES currentMode, desiredMode, lastGoodRef,  \* radarcapeState
          clockRef,   \* the clockRef argument of the running call of emit
          pc,         \* where the feeder is in emit
          frames,     \* controlFrames still to be broadcast
          emitted,    \* calls of emit so far
          nilDeref,   \* a GPS timestamp was encoded from a nil ref
          startMode,  \* history: the mode of the startup status frame
          misled      \* history: [Clients -> why the client may be in the
                      \* wrong mode, or "no"]

rcVars == <<currentMode, desiredMode, lastGoodRef, clockRef, pc, frames, emitted,
            nilDeref, startMode, misled>>
vars == <<serverVars, rcVars>>

TypeOK ==
  /\ ServerTypeOK
  /\ currentMode \in Modes
  /\ desiredMode \in Modes
  /\ lastGoodRef \in {"nil", "synced"}
  /\ clockRef \in Refs
  /\ pc \in {"poll", "control", "welcome", "data"}
  /\ frames \in Seq(AllFrames)
  /\ emitted \in 0..MaxEmits
  /\ nilDeref \in BOOLEAN
  /\ startMode \in Modes
  /\ misled \in [Clients -> {"no", "join", "loss"}]

----------------------------------------------------------------------------

(* radarcapeState.update *)
Desired(ref) == IF ref = "synced" THEN GPS ELSE Legacy

(* Mutant: update does not keep the synced ref. *)
LastGoodNotKept(ref) == lastGoodRef

LastGood(ref) == IF ref = "synced" THEN ref ELSE lastGoodRef

(* encodeTimestamp dereferences the ref in GPS mode only. *)
Crashes(ts, ref) == ts = GPS /\ ref = "nil"

(* main, before beastSrv.Start: the state machine is initialised from the   *)
(* first ref and its startup frame becomes the welcome frame.               *)
Init ==
  /\ \E ref \in Refs :
       /\ desiredMode = Desired(ref)
       /\ lastGoodRef = IF ref = "synced" THEN ref ELSE "nil"
       /\ nilDeref = Crashes(desiredMode, ref)
       /\ clockRef = ref
  /\ currentMode = desiredMode
  /\ startMode = desiredMode
  /\ ServerInit(<<Status(currentMode, currentMode)>>)
  /\ pc = "poll"
  /\ frames = <<>>
  /\ emitted = 0
  /\ misled = [c \in Clients |-> "no"]

(* Mutant: a transition frame is stamped in the new mode. *)
ControlFramesInNewMode(ref, due) ==
  LET mode == Desired(ref)
  IN IF mode # currentMode \/ due
     THEN [frames |-> <<Status(mode, mode)>>, nil |-> Crashes(mode, ref)]
     ELSE [frames |-> <<>>, nil |-> FALSE]

(* emitControlFrames, after update(ref) *)
ControlFrames(ref, due) ==
  LET mode == Desired(ref)
      tsRef == IF currentMode = GPS /\ ref # "synced" THEN LastGood(ref) ELSE ref
  IN IF mode # currentMode
     THEN [frames |-> <<Status(currentMode, mode)>>, nil |-> Crashes(currentMode, tsRef)]
     ELSE IF due
     THEN [frames |-> <<Status(mode, mode)>>, nil |-> Crashes(mode, ref)]
     ELSE [frames |-> <<>>, nil |-> FALSE]

(* emit: update and emitControlFrames, *)
EmitBegin(ref, due) ==
  /\ pc = "poll" /\ stop = "idle"
  /\ emitted < MaxEmits
  /\ emitted' = emitted + 1
  /\ clockRef' = ref
  /\ desiredMode' = Desired(ref)
  /\ lastGoodRef' = LastGood(ref)
  /\ currentMode' = Desired(ref)
  /\ frames' = ControlFrames(ref, due).frames
  /\ nilDeref' = (nilDeref \/ ControlFrames(ref, due).nil)
  /\ pc' = IF frames' # <<>> THEN "control" ELSE "data"
  /\ UNCHANGED <<serverVars, startMode, misled>>

(* A client that has read the first n frames of s decodes in mode m: that   *)
(* of the last status frame it read, or else the one the feeder started in. *)
InMode(s, n, m) ==
  \/ m = startMode /\ \A i \in 1..n : ~IsStatus(s[i])
  \/ \E i \in 1..n : /\ IsStatus(s[i]) /\ s[i].mode = m
                     /\ \A j \in (i + 1)..n : ~IsStatus(s[j])

Announced(s) == CHOOSE m \in Modes : InMode(s, Len(s), m)

(* A status frame puts the clients that get it in its mode, and misleads    *)
(* those that lose it to a full channel, when it changes the mode.          *)
MisledBy(f) ==
  [c \in Clients |->
     IF c \notin clients \/ ~IsStatus(f) THEN misled[c]
     ELSE IF HasRoom(c) THEN "no"
     ELSE IF f.ts # f.mode /\ misled[c] = "no" THEN "loss" ELSE misled[c]]

(* the control frames are broadcast, *)
EmitControl ==
  /\ pc = "control"
  /\ Broadcast(Head(frames))
  /\ misled' = MisledBy(Head(frames))
  /\ frames' = Tail(frames)
  /\ pc' = IF frames' = <<>> THEN "welcome" ELSE "control"
  /\ UNCHANGED <<currentMode, desiredMode, lastGoodRef, clockRef, emitted,
                 nilDeref, startMode>>

(* Mutant: the welcome frames are left as they were. *)
EmitNoWelcome ==
  /\ pc = "welcome"
  /\ pc' = "data"
  /\ UNCHANGED <<serverVars, currentMode, desiredMode, lastGoodRef, clockRef,
                 frames, emitted, nilDeref, startMode, misled>>

(* the welcome frames follow them, *)
EmitWelcome ==
  /\ pc = "welcome"
  /\ SetWelcome(<<Status(currentMode, currentMode)>>)
  /\ nilDeref' = (nilDeref \/ Crashes(currentMode, clockRef))
  /\ pc' = "data"
  /\ UNCHANGED <<currentMode, desiredMode, lastGoodRef, clockRef, frames, emitted,
                 startMode, misled>>

(* and the data frame is broadcast.                                         *)
EmitData ==
  /\ pc = "data"
  /\ Broadcast(Data(currentMode))
  /\ nilDeref' = (nilDeref \/ Crashes(currentMode, clockRef))
  /\ pc' = "poll"
  /\ UNCHANGED <<currentMode, desiredMode, lastGoodRef, clockRef, frames, emitted,
                 startMode, misled>>

(* The feeder calls Stop when it is signalled, between two messages.  What  *)
(* a client is told when it joins is stale, if its welcome frame announces  *)
(* a mode other than the last broadcast.                                    *)
Joins(c) ==
  /\ Register(c)
  /\ misled' = [misled EXCEPT ![c] =
                  IF Announced(welcome) # Announced(log) THEN "join" ELSE @]
  /\ UNCHANGED <<currentMode, desiredMode, lastGoodRef, clockRef, pc, frames,
                 emitted, nilDeref, startMode>>

ServerOwn ==
  /\ \/ AcceptFails
     \/ \E c \in Clients : Accept(c) \/ AddConn(c) \/ StartWriter(c) \/ Writer(c)
  /\ UNCHANGED rcVars

Shutdown ==
  /\ pc = "poll"
  /\ Stopper
  /\ UNCHANGED rcVars

Next ==
  \/ \E ref \in Refs, due \in BOOLEAN : EmitBegin(ref, due)
  \/ EmitControl
  \/ EmitWelcome
  \/ EmitData
  \/ \E c \in Clients : Joins(c)
  \/ ServerOwn
  \/ Shutdown

Spec == Init /\ [][Next]_vars

----------------------------------------------------------------------------

(* beast.go:45-47: in GPS mode "ref must be non-nil": no path through the   *)
(* state machine, a transition out of GPS mode with the clock gone          *)
(* included, encodes a GPS timestamp from a nil ref, which would panic.     *)
NeverEncodesNilRef == ~nilDeref

(* docs/plans/2026-04-01-radarcape-protocol-compliance.md:134-137, the      *)
(* "two-mode API": a frame is stamped in the mode that the frames before it *)
(* put a decoder in, so that a transition frame can still be parsed and     *)
(* data follows its announcement.                                           *)
BroadcastsParse == \A i \in 1..Len(log) : InMode(log, i - 1, log[i].ts)

(* What a late joiner is told is the mode of the stream, except between the *)
(* broadcast of a status frame and the update of the welcome frames.        *)
WelcomeIsCurrent ==
  /\ pc # "welcome" => Announced(welcome) = Announced(log)
  /\ pc = "poll" => Announced(log) = currentMode

(* Every connected client can decode every frame it is queued, unless it    *)
(* was misled: it joined on a stale welcome frame, or lost a transition     *)
(* frame to a full channel, and has had no status frame since.              *)
Queues(c) == c \in clients /\ Len(stream'[c]) > Len(stream[c])
Decodes(c) == Last(stream'[c]).ts = Announced(stream[c])

FollowersDecode ==
  [][\A c \in Clients : Queues(c) /\ misled[c] = "no" => Decodes(c)]_vars
=============================================================================
