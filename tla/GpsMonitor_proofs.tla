------------------------- MODULE GpsMonitor_proofs -------------------------
(* Theorems about GpsMonitor, for any scenarios and any budget of faults:    *)
(* what is published is of its cycle, a fixed receiver is shown where it was *)
(* fixed in it, and what is missing is named and paid for by a fault.        *)
EXTENDS GpsMonitor, FiniteSetTheorems, SequenceTheorems, TLAPS

-----------------------------------------------------------------------------
(* Sequences of anything, by their elements.                                 *)

AnySeq(s) == \E S : s \in Seq(S)
Elements(s) == {s[i] : i \in 1..Len(s)}

LEMMA ElementsEmpty == AnySeq(<<>>) /\ Elements(<<>>) = {}
  BY DEF AnySeq, Elements

LEMMA ElementsTail ==
  ASSUME NEW s, AnySeq(s), s # <<>>
  PROVE  /\ AnySeq(Tail(s)) /\ Elements(s) = {Head(s)} \cup Elements(Tail(s))
<1>1. PICK S : s \in Seq(S)
  BY DEF AnySeq
<1>2. Len(s) \in Nat \ {0} /\ Head(s) = s[1]
  BY <1>1
<1>3. /\ Tail(s) \in Seq(S) /\ Len(Tail(s)) = Len(s) - 1
      /\ \A i \in 1..Len(Tail(s)) : Tail(s)[i] = s[i + 1]
  BY <1>1, HeadTailProperties
<1>4. ASSUME NEW i \in 1..Len(s) PROVE i = 1 \/ (i - 1 \in 1..Len(Tail(s)) /\ (i - 1) + 1 = i)
  BY <1>2, <1>3
<1>5. ASSUME NEW i \in 1..Len(Tail(s)) PROVE i + 1 \in 1..Len(s)
  BY <1>2, <1>3
<1>6. 1 \in 1..Len(s)
  BY <1>2
<1>7. Elements(s) \subseteq {Head(s)} \cup Elements(Tail(s))
  <2>1. SUFFICES ASSUME NEW i \in 1..Len(s) PROVE s[i] = Head(s) \/ s[i] \in Elements(Tail(s))
    BY DEF Elements
  <2>2. CASE i = 1
    BY <1>2, <2>2
  <2>3. CASE i - 1 \in 1..Len(Tail(s)) /\ (i - 1) + 1 = i
    <3>1. Tail(s)[i - 1] = s[i]
      BY <1>3, <2>3
    <3> QED
      BY <2>3, <3>1 DEF Elements
  <2> QED
    BY <1>4, <2>2, <2>3
<1>8. {Head(s)} \cup Elements(Tail(s)) \subseteq Elements(s)
  BY <1>2, <1>3, <1>5, <1>6 DEF Elements
<1> QED
  BY <1>3, <1>7, <1>8 DEF AnySeq

LEMMA ElementsConcat ==
  ASSUME NEW s, NEW t, AnySeq(s), AnySeq(t)
  PROVE  AnySeq(s \o t) /\ Elements(s \o t) = Elements(s) \cup Elements(t)
<1>1. PICK S : s \in Seq(S)
  BY DEF AnySeq
<1>2. PICK T : t \in Seq(T)
  BY DEF AnySeq
<1> DEFINE U == S \cup T
<1>3. s \in Seq(U) /\ t \in Seq(U) /\ Len(s) \in Nat /\ Len(t) \in Nat
  BY <1>1, <1>2, SeqMonotonic
<1> HIDE DEF U
<1>4. /\ s \o t \in Seq(U) /\ Len(s \o t) = Len(s) + Len(t)
      /\ \A i \in 1..Len(s) + Len(t) : (s \o t)[i] = IF i <= Len(s) THEN s[i] ELSE t[i - Len(s)]
  BY <1>3, ConcatProperties
<1>5. ASSUME NEW i \in 1..Len(s) PROVE i \in 1..(Len(s) + Len(t)) /\ (s \o t)[i] = s[i]
  BY <1>3, <1>4
<1>6. ASSUME NEW i \in 1..Len(t)
      PROVE  Len(s) + i \in 1..(Len(s) + Len(t)) /\ (s \o t)[Len(s) + i] = t[i]
  <2>1. /\ Len(s) + i \in 1..(Len(s) + Len(t)) /\ ~(Len(s) + i <= Len(s))
        /\ (Len(s) + i) - Len(s) = i
    BY <1>3
  <2> QED
    BY <1>4, <2>1
<1>7. ASSUME NEW i \in 1..(Len(s) + Len(t))
      PROVE  (s \o t)[i] \in Elements(s) \cup Elements(t)
  <2>1. CASE i <= Len(s)
    BY <1>3, <1>4, <2>1 DEF Elements
  <2>2. CASE ~(i <= Len(s))
    <3>1. i - Len(s) \in 1..Len(t) /\ (s \o t)[i] = t[i - Len(s)]
      BY <1>3, <1>4, <2>2
    <3> QED
      BY <3>1 DEF Elements
  <2> QED
    BY <2>1, <2>2
<1>8. Elements(s \o t) \subseteq Elements(s) \cup Elements(t)
  BY <1>4, <1>7 DEF Elements
<1>9. Elements(s) \subseteq Elements(s \o t)
  BY <1>4, <1>5 DEF Elements
<1>10. Elements(t) \subseteq Elements(s \o t)
  BY <1>4, <1>6 DEF Elements
<1> QED
  BY <1>4, <1>8, <1>9, <1>10 DEF AnySeq

LEMMA ElementsAppend ==
  ASSUME NEW s, AnySeq(s), NEW e
  PROVE  AnySeq(Append(s, e)) /\ Elements(Append(s, e)) = Elements(s) \cup {e}
<1>1. PICK S : s \in Seq(S)
  BY DEF AnySeq
<1>2. s \in Seq(S \cup {e}) /\ e \in S \cup {e} /\ Len(s) \in Nat
  BY <1>1, SeqMonotonic
<1>3. /\ Append(s, e) \in Seq(S \cup {e}) /\ Len(Append(s, e)) = Len(s) + 1
      /\ \A i \in 1..Len(s) : Append(s, e)[i] = s[i]
      /\ Append(s, e)[Len(s) + 1] = e
  BY <1>2, AppendProperties
<1>4. \A i \in 1..(Len(s) + 1) : i \in 1..Len(s) \/ i = Len(s) + 1
  BY <1>2
<1>5. \A i \in 1..Len(s) : i \in 1..(Len(s) + 1)
  BY <1>2
<1>6. Len(s) + 1 \in 1..(Len(s) + 1)
  BY <1>2
<1>7. Elements(Append(s, e)) \subseteq Elements(s) \cup {e}
  BY <1>3, <1>4 DEF Elements
<1>8. Elements(s) \cup {e} \subseteq Elements(Append(s, e))
  BY <1>3, <1>5, <1>6 DEF Elements
<1> QED
  BY <1>3, <1>7, <1>8 DEF AnySeq

LEMMA ElementsOne == \A e : AnySeq(<<e>>) /\ Elements(<<e>>) = {e}
<1>1. SUFFICES ASSUME NEW e PROVE AnySeq(<<e>>) /\ Elements(<<e>>) = {e}
  OBVIOUS
<1>2. <<e>> \in Seq({e}) /\ Len(<<e>>) = 1 /\ <<e>>[1] = e /\ 1..1 = {1}
  OBVIOUS
<1> QED
  BY <1>2 DEF AnySeq, Elements

LEMMA ElementsTwo == \A d, e : AnySeq(<<d, e>>) /\ Elements(<<d, e>>) = {d, e}
<1>1. SUFFICES ASSUME NEW d, NEW e PROVE AnySeq(<<d, e>>) /\ Elements(<<d, e>>) = {d, e}
  OBVIOUS
<1>2. /\ <<d, e>> \in Seq({d, e}) /\ Len(<<d, e>>) = 2
      /\ <<d, e>>[1] = d /\ <<d, e>>[2] = e /\ 1..2 = {1, 2}
  OBVIOUS
<1> QED
  BY <1>2 DEF AnySeq, Elements

-----------------------------------------------------------------------------
(* The line: what is on its way to the caller, and what is still to be asked *)
(* of the receiver.                                                          *)

Ours(f)  == f.class = "bare" \/ (f.class = "RAW" /\ f.dev = Path)
OnItsWay == {f \in Elements(incoming) \cup Elements(stream) : Ours(f)}
Ended    == \E m \in Elements(stream) : m.class = "EOF"

Polled(item)   == \E r \in Elements(requests) : r.kind = "poll" /\ r.item = item
Answering(item) == \E f \in OnItsWay : f.kind = "data" /\ f.item = item

Proper(r) ==
  /\ r.item \in Items /\ r.kind \in {"poll", "set"}
  /\ r.kind = "set" => r.item = "TMODE" /\ r.val \in Payloads

ReceiverTypes ==
  /\ DOMAIN receiver = {"gen", "flash", "svin", "cfg"}
  /\ receiver.gen \in Gens /\ receiver.svin \in {"none", "active", "valid"}
  /\ DOMAIN receiver.cfg = ConfigItems \cup Status
  /\ \A i \in ConfigItems \cup Status : receiver.cfg[i] \in Values(i)

FramesTyped ==
  /\ \A f \in Elements(incoming) : Ours(f)
  /\ \A f \in OnItsWay : f.kind = "data" => f.item \in Items /\ f.val \in Values(f.item)

Queues == AnySeq(stream) /\ AnySeq(incoming) /\ AnySeq(requests)

LineTypes ==
  /\ Queues /\ ReceiverTypes /\ FramesTyped
  /\ \A r \in Elements(requests) : Proper(r)
  /\ budget \in [faults : Nat, errors : BOOLEAN, others : Nat, reports : Nat]

LEMMA SettingTyped ==
  ASSUME ReceiverTypes
  PROVE  \A i \in Items : Setting(i) \in Values(i)
<1>1. SUFFICES ASSUME NEW i \in Items PROVE Setting(i) \in Values(i)
  OBVIOUS
<1>2. CASE i = "MON-VER"
  BY <1>2 DEF ReceiverTypes, Setting, Values
<1>3. CASE i = "SVIN"
  BY <1>3 DEF ReceiverTypes, Setting, Values
<1>4. CASE i \in ConfigItems \cup Status
  <2>1. Setting(i) = receiver.cfg[i]
    BY <1>4 DEF Setting, ConfigItems, Status
  <2> QED
    BY <1>4, <2>1 DEF ReceiverTypes
<1> QED
  BY <1>1, <1>2, <1>3, <1>4 DEF Items

\* gpsd passes frames on in one form, once it has greeted.
LEMMA SendIs ==
  ASSUME NEW frames, AnySeq(frames), Send(frames)
  PROVE  /\ UNCHANGED <<reader, terr, devices, ready, closed, sub, incoming, latest>>
         /\ \E form \in Forms : \E msgs :
              /\ AnySeq(msgs) /\ stream' = stream \o msgs
              /\ Elements(msgs) = IF gpsd = "greeted"
                                  THEN {[f EXCEPT !.class = form] : f \in Elements(frames)}
                                  ELSE {}
<1>1. PICK form \in Forms :
        GpsdSends(IF gpsd = "greeted"
                  THEN [i \in DOMAIN frames |-> [frames[i] EXCEPT !.class = form]]
                  ELSE <<>>)
  BY DEF Send
<1>2. UNCHANGED <<reader, terr, devices, ready, closed, sub, incoming, latest>>
  BY <1>1 DEF GpsdSends
<1> DEFINE m == [i \in DOMAIN frames |-> [frames[i] EXCEPT !.class = form]]
           T == {[frames[i] EXCEPT !.class = form] : i \in DOMAIN frames}
<1>3. CASE gpsd # "greeted"
  <2>1. stream' = stream \o <<>>
    BY <1>1, <1>3 DEF GpsdSends
  <2> QED
    BY <1>2, <1>3, <2>1, ElementsEmpty
<1>4. CASE gpsd = "greeted"
  <2>1. stream' = stream \o m
    BY <1>1, <1>4 DEF GpsdSends
  <2>2. PICK n \in Nat : DOMAIN frames = 1..n /\ Len(frames) = n
    BY SeqDef DEF AnySeq
  <2>3. m \in [1..n -> T]
    BY <2>2
  <2>4. m \in Seq(T) /\ Len(m) = n
    BY <2>2, <2>3, SeqDef
  <2>5. \A i \in 1..n : m[i] = [frames[i] EXCEPT !.class = form]
    BY <2>2
  <2> HIDE DEF m, T
  <2>6. AnySeq(m)
    BY <2>4 DEF AnySeq
  <2>7. Elements(m) = {[f EXCEPT !.class = form] : f \in Elements(frames)}
    <3>1. Elements(m) = {m[i] : i \in 1..n} /\ Elements(frames) = {frames[i] : i \in 1..n}
      BY <2>2, <2>4, Zenon DEF Elements
    <3>2. \A x \in Elements(m) : \E f \in Elements(frames) : x = [f EXCEPT !.class = form]
      BY <2>5, <3>1
    <3>3. \A f \in Elements(frames) : [f EXCEPT !.class = form] \in Elements(m)
      BY <2>5, <3>1
    <3> QED
      BY <3>2, <3>3
  <2> QED
    BY <1>2, <1>4, <2>1, <2>6, <2>7
<1> QED
  BY <1>3, <1>4

LEMMA PassedOn ==
  ASSUME NEW dev, NEW kind, NEW item, NEW val, NEW short, NEW form, NEW f,
         f = [Frame(dev, kind, item, val, short) EXCEPT !.class = form]
  PROVE  /\ f.class = form /\ f.dev = dev /\ f.kind = kind /\ f.item = item
         /\ f.val = val /\ f.short = short
  BY DEF Frame

LEMMA AnswerIs ==
  ASSUME NEW req, NEW short
  PROVE  /\ AnySeq(Answer(req, short))
         /\ Elements(Answer(req, short)) \subseteq
              {Frame(Path, "ack", req.item, NoValue, FALSE)} \cup
              (IF req.kind = "poll" THEN {Frame(Path, "data", req.item, Setting(req.item), short)} ELSE {})
         /\ req.kind = "poll" =>
              Frame(Path, "data", req.item, Setting(req.item), short) \in Elements(Answer(req, short))
<1> DEFINE ack  == Frame(Path, "ack", req.item, NoValue, FALSE)
           data == Frame(Path, "data", req.item, Setting(req.item), short)
<1>1. CASE req.kind # "poll"
  <2>1. Answer(req, short) = <<ack>>
    BY <1>1 DEF Answer
  <2> HIDE DEF ack, data
  <2> QED
    <3>1. AnySeq(Answer(req, short)) /\ Elements(Answer(req, short)) = {ack}
      BY <2>1, ElementsOne, Zenon
    <3> QED
      BY <1>1, <3>1 DEF ack
<1>2. CASE req.kind = "poll" /\ req.item \in ConfigItems
  <2>1. Answer(req, short) = <<data, ack>>
    BY <1>2 DEF Answer
  <2> HIDE DEF ack, data
  <2>2. AnySeq(Answer(req, short)) /\ Elements(Answer(req, short)) = {data, ack}
    <3>1. AnySeq(<<data, ack>>) /\ Elements(<<data, ack>>) = {data, ack}
      BY ElementsTwo
    <3> QED
      BY <2>1, <3>1
  <2> QED
    BY <1>2, <2>2 DEF ack, data
<1>3. CASE req.kind = "poll" /\ req.item \notin ConfigItems
  <2>1. Answer(req, short) = <<data>>
    BY <1>3 DEF Answer
  <2> HIDE DEF ack, data
  <2>2. AnySeq(Answer(req, short)) /\ Elements(Answer(req, short)) = {data}
    BY <2>1, ElementsOne, Zenon
  <2> QED
    BY <1>3, <2>2 DEF ack, data
<1> QED
  BY <1>1, <1>2, <1>3

-----------------------------------------------------------------------------
(* The shape of a snapshot. It is published through the overlay, or it is    *)
(* the empty one of a session that could not be opened, whose mode is 0.     *)

Fields    == {"transport", "got", "errs", "mode", "survey", "pos", "fix", "sky"}
Shaped(s) == DOMAIN s = Fields /\ DOMAIN s.got = Items

ShapeInv ==
  /\ prog \in {"monitor", "status"}
  /\ Shaped(snap) /\ Shaped(published)

LEMMA EmptyShaped ==
  /\ Shaped(Empty) /\ Empty.mode = 0 /\ Empty.pos = "zero"
  /\ \A i \in Items : Empty.got[i] = NoValue
  /\ Empty.errs = {} /\ ~Empty.transport
  BY DEF Shaped, Fields, Empty

LEMMA FailedShaped ==
  ASSUME NEW s, s = [Empty EXCEPT !.transport = TRUE]
  PROVE  Shaped(s) /\ s.mode = 0 /\ s.transport /\ s.got = Empty.got
  BY DEF Shaped, Fields, Empty

LEMMA OverlayShows ==
  ASSUME NEW s, Shaped(s), NEW t, t = WithReports(Overlay(s))
  PROVE  /\ Shaped(t) /\ t.got = s.got /\ t.errs = s.errs /\ t.transport = s.transport
         /\ t.mode = s.mode
         /\ t.pos = IF s.mode = 2 /\ s.got["TMODE"] # NoValue
                    THEN ExtractFixedModeECEF(s.got["TMODE"]) ELSE s.pos
<1> DEFINE shown == ExtractFixedModeECEF(s.got["TMODE"])
<1> HIDE DEF shown
<1> DEFINE o == IF s.mode = 2 /\ s.got["TMODE"] # NoValue
                THEN [s EXCEPT !.survey = "valid", !.pos = shown] ELSE s
<1>1. /\ Shaped(o) /\ o.got = s.got /\ o.errs = s.errs /\ o.mode = s.mode
      /\ o.transport = s.transport
      /\ o.pos = IF s.mode = 2 /\ s.got["TMODE"] # NoValue THEN shown ELSE s.pos
  BY DEF Shaped, Fields
<1>2. o = Overlay(s)
  BY DEF Overlay, shown
<1> HIDE DEF o
<1>3. t = WithReports(o)
  BY <1>2
<1>4. /\ Shaped(t) /\ t.got = o.got /\ t.errs = o.errs /\ t.transport = o.transport
      /\ t.mode = o.mode /\ t.pos = o.pos
  BY <1>1, <1>3 DEF WithReports, Shaped, Fields
<1> QED
  BY <1>1, <1>4 DEF shown

LEMMA ReportsShaped ==
  ASSUME NEW s, Shaped(s), NEW t, t = WithReports(s)
  PROVE  Shaped(t) /\ t.got = s.got /\ t.errs = s.errs /\ t.transport = s.transport
  BY DEF WithReports, Shaped, Fields

\* What can be read is at most a TMODE more than what came whole.
LEMMA OkIs ==
  ASSUME NEW length
  PROVE  /\ Whole => Ok(length)
         /\ Ok(length) => ex.stage = "ok"
         /\ Ok(length) /\ ~Whole => ex.item = "TMODE" /\ length = "position"
  BY DEF Ok, Whole

\* What the answer to the poll of an item changes in the snapshot.
NotesOf(s, item, length) ==
  /\ Shaped(s)
  /\ \A i \in Items \ {item} : s.got[i] = snap.got[i]
  /\ Ok(length) => s.got[item] = ex.val /\ s.errs = snap.errs
  /\ ~Ok(length) => s.got[item] = snap.got[item]
  /\ ~Ok(length) /\ ex.stage = "ok" /\ item \in Unreported => s.errs = snap.errs
  /\ ~Ok(length) /\ ~(ex.stage = "ok" /\ item \in Unreported) => s.errs = snap.errs \cup {item}
  /\ s.mode = IF item = "TMODE" THEN Mode(length) ELSE snap.mode
  /\ s.pos = IF item = "SVIN" /\ Ok(length) /\ ex.val # "none" THEN "surveyed" ELSE snap.pos

LEMMA ReadingIs ==
  ASSUME Shaped(snap), NEW item \in Items, NEW length, NEW s, s = Reading(item, length)
  PROVE  NotesOf(s, item, length)
<1> DEFINE got  == [snap.got EXCEPT ![item] = IF Ok(length) THEN ex.val ELSE snap.got[item]]
           errs == IF Ok(length) \/ (ex.stage = "ok" /\ item \in Unreported)
                   THEN snap.errs ELSE snap.errs \cup {item}
           mode   == IF item = "TMODE" THEN Mode(length) ELSE snap.mode
           survey == IF item = "SVIN" /\ Ok(length) THEN ex.val ELSE snap.survey
           pos    == IF item = "SVIN" /\ Ok(length) /\ ex.val # "none" THEN "surveyed" ELSE snap.pos
<1>1. s = [snap EXCEPT !.got = got, !.errs = errs, !.mode = mode, !.survey = survey, !.pos = pos]
  BY DEF Reading
<1>2. /\ DOMAIN got = Items /\ got[item] = IF Ok(length) THEN ex.val ELSE snap.got[item]
      /\ \A i \in Items \ {item} : got[i] = snap.got[i]
  BY DEF Shaped
<1> HIDE DEF got, errs, mode, survey, pos
<1>3. s.got = got /\ s.errs = errs /\ s.mode = mode /\ s.pos = pos /\ DOMAIN s = Fields
  BY <1>1 DEF Shaped, Fields
<1>4. Shaped(s)
  BY <1>2, <1>3 DEF Shaped
<1> QED
  BY <1>2, <1>3, <1>4 DEF NotesOf, errs, mode, pos

LEMMA ShapeInit == Init => ShapeInv
<1> SUFFICES ASSUME Init PROVE ShapeInv
  OBVIOUS
<1>1. prog \in {"monitor", "status"}
  BY MonitorAssumption DEF Init
<1> QED
  BY <1>1, EmptyShaped DEF Init, ShapeInv

\* What answers takes the place of the snapshot; it is of the head of "left".
LEMMA ShapeStep ==
  ASSUME ShapeInv, [Next]_vars, left \in Seq(Items), phase = "asking" /\ ex.stage \in Results => left # <<>>
  PROVE  ShapeInv'
<1> DEFINE Same == UNCHANGED <<prog, snap, published>>
<1>1. CASE Same
  BY <1>1 DEF ShapeInv, Shaped
<1>2. CASE Cycle
  <2>1. snap' = Empty /\ published' = published /\ prog' = prog
    BY <1>2 DEF Cycle
  <2> QED
    BY <2>1, EmptyShaped DEF ShapeInv, Shaped
<1>3. CASE Open
  <2>1. snap' = snap /\ prog' = prog
    BY <1>3 DEF Open
  <2>2. CASE published' = published
    BY <2>1, <2>2 DEF ShapeInv, Shaped
  <2>3. CASE published' = [Empty EXCEPT !.transport = TRUE]
    <3>1. Shaped(published') /\ published'.mode = 0
      BY <2>3, FailedShaped
    <3> QED
      BY <2>1, <3>1 DEF ShapeInv, Shaped
  <2> QED
    BY <1>3, <2>2, <2>3 DEF Open, Give
<1>4. CASE Answered /\ (Identify \/ Collect)
  <2>1. Head(left) \in Items
    BY <1>4 DEF Answered
  <2>2. PICK length \in Lengths : snap' = Reading(Head(left), length) /\ prog' = prog
    BY <1>4 DEF Answered
  <2>3. Shaped(snap')
    <3>1. PICK item \in Items : item = Head(left)
      BY <2>1
    <3>2. PICK s : s = Reading(item, length)
      OBVIOUS
    <3>3. NotesOf(s, item, length)
      BY <3>2, ReadingIs DEF ShapeInv
    <3> QED
      BY <2>2, <3>1, <3>2, <3>3 DEF NotesOf
  <2>4. CASE published' = published
    BY <2>2, <2>3, <2>4 DEF ShapeInv, Shaped
  <2>5. CASE published' = snap' /\ prog = "status"
    BY <2>2, <2>3, <2>5 DEF ShapeInv, Shaped
  <2> QED
    BY <1>4, <2>4, <2>5 DEF Identify, Collect, Give
<1>5. CASE Publish
  <2>1. snap' = snap /\ prog' = prog
    BY <1>5 DEF Publish
  <2>2. CASE prog = "monitor"
    <3>1. published' = WithReports(Overlay(snap))
      BY <1>5, <2>2 DEF Publish, Give
    <3>2. Shaped(published')
      BY <3>1, OverlayShows DEF ShapeInv
    <3> QED
      BY <2>1, <3>2 DEF ShapeInv, Shaped
  <2>3. CASE prog # "monitor"
    <3>1. published' = WithReports(snap)
      BY <1>5, <2>3 DEF Publish, Give
    <3>2. Shaped(published')
      BY <3>1, ReportsShaped DEF ShapeInv
    <3> QED
      BY <2>1, <2>3, <3>2 DEF ShapeInv, Shaped
  <2> QED
    BY <2>2, <2>3
<1>6. CASE UNCHANGED vars
  BY <1>1, <1>6 DEF vars, monVars
<1>7. CASE World \/ (Exchange /\ UNCHANGED monVars) \/ Expire
  BY <1>1, <1>7 DEF World, Expire, monVars
<1>8. CASE Start \/ Probe \/ Begin
  BY <1>1, <1>8 DEF Start, Probe, Begin, monVars
<1> QED
  BY <1>2, <1>3, <1>4, <1>5, <1>6, <1>7, <1>8 DEF Next, Work, Program, Identify, Collect

-----------------------------------------------------------------------------
(* What the reader does to the line: nothing comes on its way by reading,    *)
(* and what is ours gets lost only at a full channel or with the session.    *)

\* One message is read, and handed on or not.
LEMMA HandedOn ==
  ASSUME Queues, stream # <<>>, stream' = Tail(stream),
         \/ incoming' = incoming
         \/ Ours(Head(stream)) /\ incoming' = Append(incoming, Head(stream))
  PROVE  /\ AnySeq(stream') /\ AnySeq(incoming')
         /\ OnItsWay' \subseteq OnItsWay
         /\ (\A f \in Elements(incoming) : Ours(f)) => \A f \in Elements(incoming') : Ours(f)
         /\ (Ours(Head(stream)) => incoming' = Append(incoming, Head(stream))) => OnItsWay \subseteq OnItsWay'
         /\ Ended /\ Head(stream).class # "EOF" => Ended'
<1> DEFINE first == Head(stream)
           rest  == Tail(stream)
<1>1. AnySeq(rest) /\ Elements(stream) = {first} \cup Elements(rest)
  BY ElementsTail DEF Queues
<1>2. AnySeq(stream') /\ Elements(stream') = Elements(rest)
  BY <1>1
<1>3. CASE incoming' = incoming
  <2>1. AnySeq(incoming') /\ Elements(incoming') = Elements(incoming)
    BY <1>3 DEF Queues
  <2>2. OnItsWay' = {f \in Elements(incoming) \cup Elements(rest) : Ours(f)}
    BY <1>2, <2>1 DEF OnItsWay, Ours
  <2>3. OnItsWay = {f \in Elements(incoming) \cup {first} \cup Elements(rest) : Ours(f)}
    BY <1>1 DEF OnItsWay
  <2>5. OnItsWay' \subseteq OnItsWay
    BY <2>2, <2>3
  <2>6. ~Ours(first) => OnItsWay \subseteq OnItsWay'
    BY <2>2, <2>3
  <2>7. (Ours(first) => incoming' = Append(incoming, first)) => ~Ours(first)
    <3>1. incoming # Append(incoming, first)
      <4>1. PICK S : incoming \in Seq(S)
        BY DEF Queues, AnySeq
      <4>2. Len(Append(incoming, first)) = Len(incoming) + 1 /\ Len(incoming) \in Nat
        <5>1. incoming \in Seq(S \cup {first})
          BY <4>1
        <5> QED
          BY <5>1
      <4> QED
        BY <4>2
    <3> QED
      BY <1>3, <3>1
  <2>8. Ended /\ first.class # "EOF" => Ended'
    BY <1>1, <1>2 DEF Ended
  <2> QED
    BY <1>2, <2>1, <2>5, <2>6, <2>7, <2>8
<1>4. CASE Ours(first) /\ incoming' = Append(incoming, first)
  <2>1. AnySeq(incoming') /\ Elements(incoming') = Elements(incoming) \cup {first}
    BY <1>4, ElementsAppend DEF Queues
  <2>2. OnItsWay' = {f \in Elements(incoming) \cup {first} \cup Elements(rest) : Ours(f)}
    BY <1>2, <2>1 DEF OnItsWay, Ours
  <2>3. OnItsWay = {f \in Elements(incoming) \cup {first} \cup Elements(rest) : Ours(f)}
    BY <1>1 DEF OnItsWay
  <2>4. Ended /\ first.class # "EOF" => Ended'
    BY <1>1, <1>2 DEF Ended
  <2> QED
    BY <1>2, <1>4, <2>1, <2>2, <2>3, <2>4
<1> QED
  BY <1>3, <1>4

\* The session goes on: no error was observed, and the reader reads.
ReaderRuns == terr = "none" /\ reader = "loop" /\ ~closed

LEMMA ReaderStep ==
  ASSUME Queues, ReadLoop
  PROVE  /\ AnySeq(stream') /\ AnySeq(incoming')
         /\ OnItsWay' \subseteq OnItsWay
         /\ (\A f \in Elements(incoming) : Ours(f)) => \A f \in Elements(incoming') : Ours(f)
         /\ terr' = "none" => terr = "none"
         /\ ReaderRuns /\ terr' = "none" =>
              /\ stream # <<>> /\ ReaderRuns' /\ sub' = sub
              /\ ready => ready'
              /\ Ended => Ended'
              /\ sub = "open" /\ Len(incoming) < QCap => OnItsWay \subseteq OnItsWay'
<1>1. ASSUME NEW class \in {"DEVICES", "DEVICE", "TPV", "SKY", "ERROR"}, Reads(class),
             stream' = Tail(stream), incoming' = incoming
      PROVE  /\ AnySeq(stream') /\ AnySeq(incoming')
             /\ OnItsWay' \subseteq OnItsWay /\ OnItsWay \subseteq OnItsWay'
             /\ (\A f \in Elements(incoming) : Ours(f)) => \A f \in Elements(incoming') : Ours(f)
             /\ stream # <<>> /\ (Ended => Ended')
  <2>1. stream # <<>> /\ Head(stream).class # "EOF" /\ ~Ours(Head(stream))
    BY <1>1 DEF Reads, Ours
  <2> QED
    BY <1>1, <2>1, HandedOn, Zenon
<1>2. ASSUME NEW class \in {"RAW", "bare"}, Reads(class), stream' = Tail(stream),
             IF Ours(Head(stream)) THEN Dispatch(Head(stream)) ELSE incoming' = incoming
      PROVE  /\ AnySeq(stream') /\ AnySeq(incoming')
             /\ OnItsWay' \subseteq OnItsWay
             /\ (\A f \in Elements(incoming) : Ours(f)) => \A f \in Elements(incoming') : Ours(f)
             /\ stream # <<>> /\ (Ended => Ended')
             /\ sub = "open" /\ Len(incoming) < QCap => OnItsWay \subseteq OnItsWay'
  <2>1. stream # <<>> /\ Head(stream).class # "EOF"
    BY <1>2 DEF Reads
  <2>2. \/ incoming' = incoming
        \/ Ours(Head(stream)) /\ incoming' = Append(incoming, Head(stream))
    BY <1>2 DEF Dispatch
  <2>3. sub = "open" /\ Len(incoming) < QCap =>
          (Ours(Head(stream)) => incoming' = Append(incoming, Head(stream)))
    BY <1>2 DEF Dispatch
  <2> QED
    BY <1>2, <2>1, <2>2, <2>3, HandedOn, Zenon
<1>3. CASE ReadDevices
  <2>1. /\ Reads("DEVICES") /\ stream' = Tail(stream) /\ incoming' = incoming
        /\ ready' /\ UNCHANGED <<reader, terr, closed, sub>>
    BY <1>3 DEF ReadDevices
  <2> QED
    BY <1>1, <2>1 DEF ReaderRuns
<1>4. CASE ReadDevice
  <2>1. /\ Reads("DEVICE") /\ stream' = Tail(stream) /\ incoming' = incoming
        /\ UNCHANGED <<reader, terr, closed, sub, ready>>
    BY <1>4 DEF ReadDevice
  <2> QED
    BY <1>1, <2>1 DEF ReaderRuns
<1>5. CASE ReadRaw
  <2>1. /\ Reads("RAW") /\ stream' = Tail(stream)
        /\ UNCHANGED <<reader, terr, closed, sub, ready>>
        /\ IF Head(stream).dev = Path THEN Dispatch(Head(stream)) ELSE UNCHANGED incoming
    BY <1>5 DEF ReadRaw
  <2>2. IF Ours(Head(stream)) THEN Dispatch(Head(stream)) ELSE incoming' = incoming
    BY <2>1 DEF Ours, Reads
  <2> QED
    BY <1>2, <2>1, <2>2 DEF ReaderRuns
<1>6. CASE ReadBareHex
  <2>1. /\ Reads("bare") /\ stream' = Tail(stream) /\ Dispatch(Head(stream))
        /\ UNCHANGED <<reader, terr, closed, sub, ready>>
    BY <1>6 DEF ReadBareHex
  <2>2. IF Ours(Head(stream)) THEN Dispatch(Head(stream)) ELSE incoming' = incoming
    BY <2>1 DEF Ours, Reads
  <2> QED
    BY <1>2, <2>1, <2>2 DEF ReaderRuns
<1>7. CASE ReadReport
  <2>1. PICK class \in {"TPV", "SKY"} : Reads(class)
    BY <1>7 DEF ReadReport
  <2>2. /\ stream' = Tail(stream) /\ incoming' = incoming
        /\ UNCHANGED <<reader, terr, closed, sub, ready>>
    BY <1>7 DEF ReadReport
  <2> QED
    BY <1>1, <2>1, <2>2 DEF ReaderRuns
<1>8. CASE ReadError
  <2>1. /\ Reads("ERROR") /\ stream' = Tail(stream) /\ incoming' = incoming
        /\ terr' # "none"
    BY <1>8 DEF ReadError, FirstCause
  <2> QED
    BY <1>1, <2>1 DEF ReaderRuns
<1>9. CASE LeaveLoop
  <2>1. stream' = <<>> /\ incoming' = incoming /\ terr' # "none"
    BY <1>9 DEF LeaveLoop, FirstCause
  <2>2. AnySeq(stream') /\ Elements(stream') = {} /\ AnySeq(incoming')
    BY <2>1, ElementsEmpty DEF Queues
  <2>3. OnItsWay' \subseteq OnItsWay
    BY <2>1, <2>2 DEF OnItsWay, Ours
  <2> QED
    BY <2>1, <2>2, <2>3 DEF Ours
<1>10. CASE CloseSubs \/ ReleaseDial \/ CloseConn
  <2>1. UNCHANGED <<stream, incoming, terr>> /\ reader # "loop"
    BY <1>10 DEF CloseSubs, ReleaseDial, CloseConn
  <2> QED
    BY <2>1 DEF Queues, OnItsWay, Ours, ReaderRuns
<1> QED
  BY <1>3, <1>4, <1>5, <1>6, <1>7, <1>8, <1>9, <1>10 DEF ReadLoop

-----------------------------------------------------------------------------
(* What the rest of the world does to the line. Without a fault every new    *)
(* frame of data is whole and says what the receiver is set to, and a poll   *)
(* that was served is being answered.                                        *)

ServesAll(item) ==
  /\ \A f \in OnItsWay' \ OnItsWay : f.kind = "data" /\ f.item = item => ~f.short
  /\ Polled(item) /\ gpsd = "greeted" => Polled(item)' \/ Answering(item)'

LineStep ==
  /\ UNCHANGED <<reader, terr, ready, closed, sub, incoming, ex, cancelled, expired>>
  /\ OnItsWay \subseteq OnItsWay' /\ (Ended => Ended')
  /\ budget'.faults <= budget.faults
  /\ gpsd' = gpsd \/ (gpsd = "connected" /\ gpsd' = "greeted") \/ (gpsd' = "gone" /\ Ended')
  /\ gpsd' = "connected" => stream' = stream
  /\ \A f \in OnItsWay' \ OnItsWay :
       f.kind = "data" => f.val = Setting(f.item)' \/ ("bare" \in Forms /\ Dev2 # Path)
  /\ \E j \in Items : \A item \in Items :
       item # j \/ budget'.faults = budget.faults => ServesAll(item)

LEMMA SpendTypes ==
  ASSUME budget \in [faults : Nat, errors : BOOLEAN, others : Nat, reports : Nat]
  PROVE  /\ Spend => /\ budget' \in [faults : Nat, errors : BOOLEAN, others : Nat, reports : Nat]
                     /\ budget'.faults < budget.faults
         /\ budget.others > 0 /\ budget' = [budget EXCEPT !.others = @ - 1] =>
              /\ budget' \in [faults : Nat, errors : BOOLEAN, others : Nat, reports : Nat]
              /\ budget'.faults = budget.faults
         /\ budget.reports > 0 /\ budget' = [budget EXCEPT !.reports = @ - 1] =>
              /\ budget' \in [faults : Nat, errors : BOOLEAN, others : Nat, reports : Nat]
              /\ budget'.faults = budget.faults
  BY DEF Spend

\* A message that is no frame.
LEMMA NoticeSent ==
  ASSUME Queues, NEW m, ~Ours(m), GpsdSends(<<m>>)
  PROVE  /\ UNCHANGED <<reader, terr, ready, closed, sub, incoming>>
         /\ AnySeq(stream') /\ AnySeq(incoming')
         /\ OnItsWay' = OnItsWay
         /\ (Ended \/ m.class = "EOF") => Ended'
<1>1. /\ stream' = stream \o <<m>>
      /\ UNCHANGED <<reader, terr, ready, closed, sub, incoming>>
  BY DEF GpsdSends
<1>2. AnySeq(<<m>>) /\ Elements(<<m>>) = {m}
  BY ElementsOne
<1>3. AnySeq(stream') /\ Elements(stream') = Elements(stream) \cup {m}
  <2> DEFINE one == <<m>>
  <2>1. AnySeq(one) /\ Elements(one) = {m} /\ stream' = stream \o one
    BY <1>1, <1>2
  <2> HIDE DEF one
  <2>2. AnySeq(stream \o one) /\ Elements(stream \o one) = Elements(stream) \cup Elements(one)
    BY <2>1, ElementsConcat DEF Queues
  <2> QED
    BY <2>1, <2>2
<1>4. Elements(incoming') = Elements(incoming) /\ AnySeq(incoming')
  BY <1>1 DEF Queues
<1>5. OnItsWay' = OnItsWay
  BY <1>3, <1>4 DEF OnItsWay, Ours
<1> QED
  BY <1>1, <1>3, <1>4, <1>5 DEF Ended

\* Frames that are passed on.
LEMMA FramesSent ==
  ASSUME Queues, NEW frames, AnySeq(frames), Send(frames)
  PROVE  /\ UNCHANGED <<reader, terr, ready, closed, sub, incoming>>
         /\ AnySeq(stream') /\ AnySeq(incoming')
         /\ OnItsWay \subseteq OnItsWay' /\ (Ended => Ended')
         /\ gpsd # "greeted" => OnItsWay' = OnItsWay
         /\ \E form \in Forms :
              /\ \A g \in OnItsWay' \ OnItsWay :
                   Ours(g) /\ \E f \in Elements(frames) : g = [f EXCEPT !.class = form]
              /\ gpsd = "greeted" =>
                   \A f \in Elements(frames) : Ours([f EXCEPT !.class = form]) =>
                     [f EXCEPT !.class = form] \in OnItsWay'
<1>1. PICK form \in Forms : \E msgs :
              /\ AnySeq(msgs) /\ stream' = stream \o msgs
              /\ Elements(msgs) = IF gpsd = "greeted"
                                  THEN {[f EXCEPT !.class = form] : f \in Elements(frames)}
                                  ELSE {}
  BY SendIs
<1>2. PICK msgs :
              /\ AnySeq(msgs) /\ stream' = stream \o msgs
              /\ Elements(msgs) = IF gpsd = "greeted"
                                  THEN {[f EXCEPT !.class = form] : f \in Elements(frames)}
                                  ELSE {}
  BY <1>1
<1>3. UNCHANGED <<reader, terr, ready, closed, sub, incoming>>
  BY SendIs
<1>4. AnySeq(stream') /\ Elements(stream') = Elements(stream) \cup Elements(msgs)
  BY <1>2, ElementsConcat DEF Queues
<1>5. Elements(incoming') = Elements(incoming) /\ AnySeq(incoming')
  BY <1>3 DEF Queues
<1>6. \A g : g \in OnItsWay' <=> g \in OnItsWay \/ (g \in Elements(msgs) /\ Ours(g))
  BY <1>4, <1>5 DEF OnItsWay, Ours
<1>7. Ended => Ended'
  BY <1>4 DEF Ended
<1> DEFINE Made(f) == [f EXCEPT !.class = form]
<1>8. Elements(msgs) = IF gpsd = "greeted" THEN {Made(f) : f \in Elements(frames)} ELSE {}
  BY <1>2
<1> HIDE DEF Made
<1>9. gpsd # "greeted" => OnItsWay' = OnItsWay
  BY <1>6, <1>8
<1>10. \A g \in OnItsWay' \ OnItsWay : Ours(g) /\ \E f \in Elements(frames) : g = Made(f)
  BY <1>6, <1>8
<1>11. gpsd = "greeted" => \A f \in Elements(frames) : Ours(Made(f)) => Made(f) \in OnItsWay'
  BY <1>6, <1>8
<1> USE DEF Made
<1>12. OnItsWay \subseteq OnItsWay'
  BY <1>6
<1>13. \A g \in OnItsWay' \ OnItsWay :
         Ours(g) /\ \E f \in Elements(frames) : g = [f EXCEPT !.class = form]
  BY <1>10, Zenon
<1>14. gpsd = "greeted" =>
         \A f \in Elements(frames) : Ours([f EXCEPT !.class = form]) =>
           [f EXCEPT !.class = form] \in OnItsWay'
  BY <1>11, Zenon
<1> QED
  BY <1>3, <1>4, <1>5, <1>7, <1>9, <1>12, <1>13, <1>14, Zenon

\* What arrives of an answer: frames of which one kind says something.
Arrives(frames, dev, item, val, short) ==
  /\ \A g \in OnItsWay' \ OnItsWay : g.kind = "data" =>
       /\ g.item = item /\ g.val = val /\ g.short = short
       /\ dev = Path \/ "bare" \in Forms
  /\ gpsd = "greeted" /\ Frame(Path, "data", item, val, short) \in Elements(frames) =>
       Answering(item)'

LEMMA SaysOne ==
  ASSUME Queues, NEW frames, AnySeq(frames), Send(frames),
         NEW dev, NEW item, NEW val, NEW short,
         \A f \in Elements(frames) :
           \/ f = Frame(dev, "data", item, val, short)
           \/ f = Frame(Path, "ack", item, NoValue, FALSE)
           \/ f = Frame(Path, "nak", item, NoValue, FALSE)
  PROVE  Arrives(frames, dev, item, val, short)
<1>1. PICK form \in Forms :
              /\ \A g \in OnItsWay' \ OnItsWay :
                   Ours(g) /\ \E f \in Elements(frames) : g = [f EXCEPT !.class = form]
              /\ gpsd = "greeted" =>
                   \A f \in Elements(frames) : Ours([f EXCEPT !.class = form]) =>
                     [f EXCEPT !.class = form] \in OnItsWay'
  BY FramesSent
<1>2. form \in {"RAW", "bare"}
  BY MonitorAssumption
<1>3. ASSUME NEW g \in OnItsWay' \ OnItsWay, g.kind = "data"
      PROVE  g.item = item /\ g.val = val /\ g.short = short /\ (dev = Path \/ "bare" \in Forms)
  <2>1. Ours(g)
    BY <1>1, <1>3
  <2>2. PICK f \in Elements(frames) : g = [f EXCEPT !.class = form]
    BY <1>1, <1>3, Zenon
  <2>3. f # Frame(Path, "ack", item, NoValue, FALSE) /\ f # Frame(Path, "nak", item, NoValue, FALSE)
    BY <1>3, <2>2 DEF Frame
  <2>4. g = [Frame(dev, "data", item, val, short) EXCEPT !.class = form]
    BY <2>2, <2>3
  <2>5. g.class = form /\ g.dev = dev /\ g.item = item /\ g.val = val /\ g.short = short
    BY <2>4 DEF Frame
  <2> QED
    BY <1>2, <2>1, <2>5 DEF Ours
<1>4. ASSUME gpsd = "greeted", Frame(Path, "data", item, val, short) \in Elements(frames)
      PROVE  Answering(item)'
  <2> DEFINE f == Frame(Path, "data", item, val, short)
             g == [f EXCEPT !.class = form]
  <2>1. g.class = form /\ g.dev = Path /\ g.kind = "data" /\ g.item = item
    BY DEF Frame
  <2>2. Ours(g)
    BY <1>2, <2>1 DEF Ours
  <2>3. g \in OnItsWay'
    BY <1>1, <1>4, <2>2
  <2> HIDE DEF g
  <2> QED
    BY <2>1, <2>3 DEF Answering
<1> QED
  BY <1>3, <1>4, Zenon DEF Arrives

LEMMA StoredTyped ==
  ASSUME NEW old \in Payloads, NEW new \in Payloads
  PROVE  Stored(old, new) \in Payloads
  BY DEF Stored, Payloads

LEMMA AppliedTyped ==
  ASSUME ReceiverTypes, NEW req, Proper(req), receiver' = Applied(req)
  PROVE  ReceiverTypes' /\ (req.kind = "poll" => receiver' = receiver)
<1>1. CASE req.kind = "poll"
  <2>1. receiver' = receiver
    BY <1>1 DEF Applied
  <2> QED
    BY <2>1 DEF ReceiverTypes
<1>2. CASE req.kind = "set"
  <2> DEFINE stored == Stored(receiver.cfg["TMODE"], req.val)
             survey == IF req.val.mode = 1 THEN "active" ELSE "none"
             cfg    == [receiver.cfg EXCEPT !["TMODE"] = stored]
  <2>1. receiver' = [receiver EXCEPT !.cfg = cfg, !.svin = survey]
    <3>1. receiver' = [receiver EXCEPT !.cfg.TMODE = Stored(@, req.val),
                          !.svin = IF req.val.mode = 1 THEN "active" ELSE "none"]
      BY <1>2 DEF Applied, Proper
    <3> QED
      BY <3>1
  <2>2. receiver.cfg["TMODE"] \in Payloads /\ req.val \in Payloads
    BY <1>2 DEF ReceiverTypes, ConfigItems, Values, Proper
  <2>3. stored \in Payloads
    BY <2>2, StoredTyped
  <2>4. /\ DOMAIN cfg = ConfigItems \cup Status /\ cfg["TMODE"] = stored
        /\ \A i \in (ConfigItems \cup Status) \ {"TMODE"} : cfg[i] = receiver.cfg[i]
    BY DEF ReceiverTypes, ConfigItems
  <2>5. survey \in {"active", "none"}
    OBVIOUS
  <2> HIDE DEF cfg, survey, stored
  <2>6. /\ DOMAIN receiver' = {"gen", "flash", "svin", "cfg"}
        /\ receiver'.gen = receiver.gen /\ receiver'.svin = survey /\ receiver'.cfg = cfg
    BY <2>1 DEF ReceiverTypes
  <2>7. \A i \in ConfigItems \cup Status : cfg[i] \in Values(i)
    BY <2>3, <2>4 DEF ReceiverTypes, Values
  <2> QED
    BY <1>2, <2>4, <2>5, <2>6, <2>7 DEF ReceiverTypes, Values
<1> QED
  BY <1>1, <1>2 DEF Proper

\* One request is served: "frames" is what the answer comes to.
LEMMA ServedStep ==
  ASSUME LineTypes, requests # <<>>, requests' = Tail(requests),
         NEW req, req = Head(requests),
         receiver' = receiver \/ receiver' = Applied(req),
         UNCHANGED <<gpsd, ex, cancelled, expired>>,
         NEW frames, AnySeq(frames), Send(frames), NEW short \in BOOLEAN,
         \A f \in Elements(frames) :
           \/ f = Frame(Path, "data", req.item, Setting(req.item), short) /\ req.kind = "poll"
           \/ f = Frame(Path, "ack", req.item, NoValue, FALSE)
           \/ f = Frame(Path, "nak", req.item, NoValue, FALSE),
         budget' \in [faults : Nat, errors : BOOLEAN, others : Nat, reports : Nat],
         \/ budget'.faults < budget.faults
         \/ /\ budget'.faults = budget.faults /\ short = FALSE
            /\ req.kind = "poll" =>
                 Frame(Path, "data", req.item, Setting(req.item), short) \in Elements(frames)
  PROVE  LineTypes' /\ LineStep
<1> DEFINE val == Setting(req.item)
<1>1. AnySeq(Tail(requests)) /\ Elements(requests) = {req} \cup Elements(Tail(requests))
  BY ElementsTail DEF LineTypes, Queues
<1>2. Queues /\ Proper(req) /\ ReceiverTypes
  BY <1>1 DEF LineTypes
<1>3. ReceiverTypes' /\ (req.kind = "poll" => receiver' = receiver)
  <2>1. CASE receiver' = receiver
    BY <1>2, <2>1 DEF ReceiverTypes
  <2>2. CASE receiver' = Applied(req)
    BY <1>2, <2>2, AppliedTyped
  <2> QED
    BY <2>1, <2>2
<1>4. /\ UNCHANGED <<reader, terr, ready, closed, sub, incoming>>
      /\ AnySeq(stream') /\ AnySeq(incoming')
      /\ OnItsWay \subseteq OnItsWay' /\ (Ended => Ended')
  BY <1>2, FramesSent
<1>5. stream' = stream \/ gpsd # "connected"
  <2>1. SUFFICES ASSUME gpsd = "connected" PROVE stream' = stream
    OBVIOUS
  <2>2. stream' = stream \o <<>>
    BY <2>1 DEF Send, GpsdSends
  <2>3. PICK S : stream \in Seq(S)
    BY <1>2 DEF Queues, AnySeq
  <2> QED
    BY <2>2, <2>3
<1> HIDE DEF val
<1>6. PICK item : item = req.item
  OBVIOUS
<1>7. /\ \A g \in OnItsWay' \ OnItsWay : g.kind = "data" =>
           g.item = item /\ g.val = val /\ g.short = short
      /\ gpsd = "greeted" /\ Frame(Path, "data", item, val, short) \in Elements(frames) =>
           Answering(item)'
  <2>1. \A f \in Elements(frames) :
           \/ f = Frame(Path, "data", item, val, short)
           \/ f = Frame(Path, "ack", item, NoValue, FALSE)
           \/ f = Frame(Path, "nak", item, NoValue, FALSE)
    BY <1>6 DEF val
  <2>2. Arrives(frames, Path, item, val, short)
    BY <1>2, <2>1, SaysOne, Zenon
  <2> QED
    BY <2>2 DEF Arrives
<1>8. \A g \in OnItsWay' \ OnItsWay : g.kind = "data" => req.kind = "poll"
  <2>1. SUFFICES ASSUME NEW g \in OnItsWay' \ OnItsWay, g.kind = "data", req.kind # "poll"
                 PROVE  FALSE
    OBVIOUS
  <2>2. PICK form \in Forms : \E f \in Elements(frames) : g = [f EXCEPT !.class = form]
    BY <1>2, <2>1, FramesSent
  <2>3. PICK f \in Elements(frames) : g = [f EXCEPT !.class = form]
    BY <2>2, Zenon
  <2>4. f = Frame(Path, "ack", req.item, NoValue, FALSE) \/ f = Frame(Path, "nak", req.item, NoValue, FALSE)
    BY <2>1
  <2> QED
    BY <2>1, <2>3, <2>4 DEF Frame
<1>9. req.kind = "poll" => val = Setting(req.item)' /\ val \in Values(req.item) /\ req.item \in Items
  BY <1>2, <1>3, SettingTyped DEF val, Setting, Proper
<1>10. FramesTyped'
  <2>1. \A f \in Elements(incoming)' : Ours(f)
    BY <1>4 DEF LineTypes, FramesTyped
  <2>2. \A f \in OnItsWay' : f.kind = "data" => f.item \in Items /\ f.val \in Values(f.item)
    BY <1>4, <1>6, <1>7, <1>8, <1>9 DEF LineTypes, FramesTyped
  <2> QED
    BY <2>1, <2>2 DEF FramesTyped, Ours
<1>11. Elements(requests') = Elements(Tail(requests)) /\ AnySeq(requests')
  BY <1>1
<1>12. LineTypes'
  <2>1. \A r \in Elements(requests)' : Proper(r)
    BY <1>1, <1>11 DEF LineTypes
  <2>2. \A r \in Elements(requests)' : Proper(r)'
    BY <2>1 DEF Proper
  <2> QED
    BY <1>3, <1>4, <1>10, <1>11, <2>2 DEF LineTypes, Queues
<1>13. \A i \in Items : i # req.item \/ budget'.faults = budget.faults => ServesAll(i)
  <2>1. SUFFICES ASSUME NEW i \in Items, i # req.item \/ budget'.faults = budget.faults
                 PROVE  ServesAll(i)
    OBVIOUS
  <2>2. \A f \in OnItsWay' \ OnItsWay : f.kind = "data" /\ f.item = i => ~f.short
    BY <1>6, <1>7, <2>1
  <2>3. Polled(i) /\ gpsd = "greeted" => Polled(i)' \/ Answering(i)'
    <3>1. CASE \E r \in Elements(Tail(requests)) : r.kind = "poll" /\ r.item = i
      BY <1>11, <3>1 DEF Polled
    <3>2. CASE req.kind = "poll" /\ req.item = i
      BY <1>6, <1>7, <2>1, <3>2 DEF val
    <3> QED
      BY <1>1, <3>1, <3>2 DEF Polled
  <2> QED
    BY <2>2, <2>3 DEF ServesAll
<1>14. \A f \in OnItsWay' \ OnItsWay : f.kind = "data" => f.val = Setting(f.item)'
  BY <1>6, <1>7, <1>8, <1>9
<1>15. budget'.faults <= budget.faults
  BY DEF LineTypes
<1>16. req.item \in Items
  BY <1>2 DEF Proper
<1>17. LineStep
  BY <1>4, <1>5, <1>13, <1>14, <1>15, <1>16 DEF LineStep
<1> QED
  BY <1>12, <1>17

\* A request that is answered, or not, or with less than was asked.
LEMMA AnswersItem ==
  ASSUME NEW req, NEW short, NEW frames, frames = Answer(req, short)
  PROVE  /\ AnySeq(frames)
         /\ \A f \in Elements(frames) :
              \/ f = Frame(Path, "data", req.item, Setting(req.item), short) /\ req.kind = "poll"
              \/ f = Frame(Path, "ack", req.item, NoValue, FALSE)
              \/ f = Frame(Path, "nak", req.item, NoValue, FALSE)
         /\ req.kind = "poll" => Frame(Path, "data", req.item, Setting(req.item), short) \in Elements(frames)
<1> DEFINE data == Frame(Path, "data", req.item, Setting(req.item), short)
           ack  == Frame(Path, "ack", req.item, NoValue, FALSE)
<1>1. /\ AnySeq(frames)
      /\ Elements(frames) \subseteq {ack} \cup (IF req.kind = "poll" THEN {data} ELSE {})
      /\ req.kind = "poll" => data \in Elements(frames)
  BY AnswerIs, Zenon
<1> HIDE DEF data, ack
<1>2. \A f \in Elements(frames) : (f = data /\ req.kind = "poll") \/ f = ack
  BY <1>1
<1> QED
  BY <1>1, <1>2, Zenon DEF data, ack

LEMMA ServeStep == LineTypes /\ Serve => LineTypes' /\ LineStep
<1> SUFFICES ASSUME LineTypes, Serve PROVE LineTypes' /\ LineStep
  OBVIOUS
<1>1. PICK req : req = Head(requests)
  OBVIOUS
<1>2. PICK short \in BOOLEAN : short = FALSE
  OBVIOUS
<1>3. PICK frames : frames = Answer(req, short)
  OBVIOUS
<1>4. /\ requests # <<>> /\ receiver' = Applied(req) /\ Send(frames)
      /\ requests' = Tail(requests)
      /\ UNCHANGED <<gpsd, ex, cancelled, expired, budget>>
  <2>1. Answer(req, short) = Answer(Head(requests), FALSE)
    BY <1>1, <1>2, Zenon
  <2>2. Send(frames)
    BY <1>3, <2>1, Zenon DEF Serve
  <2> QED
    BY <1>1, <2>2 DEF Serve, ctxVars
<1>5. /\ AnySeq(frames)
      /\ \A f \in Elements(frames) :
           \/ f = Frame(Path, "data", req.item, Setting(req.item), short) /\ req.kind = "poll"
           \/ f = Frame(Path, "ack", req.item, NoValue, FALSE)
           \/ f = Frame(Path, "nak", req.item, NoValue, FALSE)
      /\ req.kind = "poll" => Frame(Path, "data", req.item, Setting(req.item), short) \in Elements(frames)
  BY <1>3, AnswersItem
<1>6. /\ budget' \in [faults : Nat, errors : BOOLEAN, others : Nat, reports : Nat]
      /\ budget'.faults = budget.faults
  BY <1>4 DEF LineTypes
<1> QED
  BY <1>1, <1>2, <1>4, <1>5, <1>6, ServedStep

LEMMA MisserveStep == LineTypes /\ Misserve => LineTypes' /\ LineStep
<1> SUFFICES ASSUME LineTypes, Misserve PROVE LineTypes' /\ LineStep
  OBVIOUS
<1>1. PICK req : req = Head(requests)
  OBVIOUS
<1>2. /\ requests # <<>> /\ requests' = Tail(requests)
      /\ UNCHANGED <<gpsd, ex, cancelled, expired>>
      /\ budget' \in [faults : Nat, errors : BOOLEAN, others : Nat, reports : Nat]
      /\ budget'.faults < budget.faults
      /\ receiver' = receiver \/ receiver' = Applied(req)
  BY <1>1, SpendTypes DEF Misserve, LineTypes, ctxVars
<1>3. PICK short \in BOOLEAN : short = TRUE
  OBVIOUS
<1>4. \/ Send(<<>>)
      \/ Send(<<Frame(Path, "nak", req.item, NoValue, FALSE)>>)
      \/ Send(Answer(req, short)) /\ req.kind = "poll"
  <2>1. \/ Send(<<>>)
        \/ Send(<<Frame(Path, "nak", req.item, NoValue, FALSE)>>)
        \/ Send(Answer(req, TRUE)) /\ req.kind = "poll"
    BY <1>1, Zenon DEF Misserve
  <2> QED
    BY <1>3, <2>1, Zenon
<1> DEFINE Fits(frames) ==
      \A f \in Elements(frames) :
           \/ f = Frame(Path, "data", req.item, Setting(req.item), short) /\ req.kind = "poll"
           \/ f = Frame(Path, "ack", req.item, NoValue, FALSE)
           \/ f = Frame(Path, "nak", req.item, NoValue, FALSE)
<1>5. PICK frames : Send(frames) /\ AnySeq(frames) /\ Fits(frames)
  <2>1. CASE Send(<<>>)
    <3>1. AnySeq(<<>>) /\ Fits(<<>>)
      BY ElementsEmpty
    <3> QED
      BY <2>1, <3>1, Zenon
  <2>2. CASE Send(<<Frame(Path, "nak", req.item, NoValue, FALSE)>>)
    <3> DEFINE nak == Frame(Path, "nak", req.item, NoValue, FALSE)
    <3> HIDE DEF nak
    <3>1. AnySeq(<<nak>>) /\ Elements(<<nak>>) = {nak}
      BY ElementsOne
    <3>2. Fits(<<nak>>)
      BY <3>1 DEF nak
    <3> USE DEF nak
    <3> QED
      BY <2>2, <3>1, <3>2, Zenon
  <2>3. CASE Send(Answer(req, short)) /\ req.kind = "poll"
    <3>1. PICK frames : frames = Answer(req, short)
      OBVIOUS
    <3>2. AnySeq(frames) /\ Fits(frames)
      BY <3>1, AnswersItem
    <3> QED
      BY <2>3, <3>1, <3>2, Zenon
  <2> QED
    BY <1>4, <2>1, <2>2, <2>3
<1> QED
  BY <1>1, <1>2, <1>5, ServedStep

\* What leaves the line alone, but for a notice or a request.
LEMMA NoticeStep ==
  ASSUME LineTypes, AnySeq(stream'), AnySeq(incoming'), OnItsWay' = OnItsWay, Ended => Ended',
         UNCHANGED <<reader, terr, ready, closed, sub, incoming, ex, cancelled, expired>>,
         \/ requests' = requests
         \/ \E r : Proper(r) /\ requests' = Append(requests, r),
         ReceiverTypes',
         budget' \in [faults : Nat, errors : BOOLEAN, others : Nat, reports : Nat],
         budget'.faults <= budget.faults,
         gpsd' = gpsd \/ (gpsd = "connected" /\ gpsd' = "greeted") \/ (gpsd' = "gone" /\ Ended'),
         gpsd' = "connected" => stream' = stream
  PROVE  LineTypes' /\ LineStep
<1>1. AnySeq(requests') /\ Elements(requests) \subseteq Elements(requests')
      /\ \A r \in Elements(requests') : Proper(r)
  <2>1. CASE requests' = requests
    <3>1. AnySeq(requests') /\ Elements(requests') = Elements(requests)
      BY <2>1 DEF LineTypes, Queues
    <3> QED
      BY <3>1 DEF LineTypes
  <2>2. CASE \E r : Proper(r) /\ requests' = Append(requests, r)
    <3>1. PICK r : Proper(r) /\ requests' = Append(requests, r)
      BY <2>2
    <3>2. AnySeq(Append(requests, r)) /\ Elements(Append(requests, r)) = Elements(requests) \cup {r}
      BY ElementsAppend DEF LineTypes, Queues
    <3>3. AnySeq(requests') /\ Elements(requests') = Elements(requests) \cup {r}
      BY <3>1, <3>2
    <3> QED
      BY <3>1, <3>3 DEF LineTypes
  <2> QED
    BY <2>1, <2>2
<1>2. FramesTyped'
  <2>1. \A f \in Elements(incoming)' : Ours(f)
    BY DEF LineTypes, FramesTyped
  <2>2. \A f \in OnItsWay' : f.kind = "data" => f.item \in Items /\ f.val \in Values(f.item)
    BY DEF LineTypes, FramesTyped
  <2> QED
    BY <2>1, <2>2 DEF FramesTyped, Ours
<1>3. LineTypes'
  BY <1>1, <1>2 DEF LineTypes, Queues, Proper
<1>4. \A item \in Items : ServesAll(item)
  BY <1>1 DEF ServesAll, Polled
<1>5. "SVIN" \in Items
  BY DEF Items
<1>6. LineStep
  BY <1>4, <1>5 DEF LineStep
<1> QED
  BY <1>3, <1>6

LEMMA OtherReceiverStep == LineTypes /\ OtherReceiver => LineTypes' /\ LineStep
<1> SUFFICES ASSUME LineTypes, OtherReceiver PROVE LineTypes' /\ LineStep
  OBVIOUS
<1>1. PICK short \in BOOLEAN : short = FALSE
  OBVIOUS
<1>2. PICK val : val = FixedModeFrame("elsewhere")
  OBVIOUS
<1>3. val \in Values("TMODE") /\ "TMODE" \in Items
  BY <1>2 DEF FixedModeFrame, Values, Payloads, Items, ConfigItems
<1> DEFINE f == Frame(Dev2, "data", "TMODE", val, short)
<1>4. Send(<<f>>)
  BY <1>1, <1>2, Zenon DEF OtherReceiver
<1>5. /\ UNCHANGED <<requests, receiver, gpsd, ex, cancelled, expired>> /\ Dev2 # Path
      /\ gpsd = "greeted"
      /\ budget' \in [faults : Nat, errors : BOOLEAN, others : Nat, reports : Nat]
      /\ budget'.faults = budget.faults
  BY SpendTypes DEF OtherReceiver, LineTypes, ctxVars
<1> HIDE DEF f
<1>6. PICK frames : AnySeq(frames) /\ Elements(frames) = {f} /\ Send(frames)
  BY <1>4, ElementsOne, Zenon
<1>7. Queues
  BY DEF LineTypes
<1>8. /\ UNCHANGED <<reader, terr, ready, closed, sub, incoming>>
      /\ AnySeq(stream') /\ AnySeq(incoming')
      /\ OnItsWay \subseteq OnItsWay' /\ (Ended => Ended')
  BY <1>6, <1>7, FramesSent
<1>9. PICK item : item = "TMODE"
  OBVIOUS
<1>10. \A g \in OnItsWay' \ OnItsWay : g.kind = "data" =>
              /\ g.item = "TMODE" /\ g.val = val /\ g.short = short
              /\ Dev2 = Path \/ "bare" \in Forms
  <2>1. \A e \in Elements(frames) :
           \/ e = Frame(Dev2, "data", item, val, short)
           \/ e = Frame(Path, "ack", item, NoValue, FALSE)
           \/ e = Frame(Path, "nak", item, NoValue, FALSE)
    BY <1>6, <1>9 DEF f
  <2>2. Arrives(frames, Dev2, item, val, short)
    BY <1>6, <1>7, <2>1, SaysOne, Zenon
  <2> QED
    BY <1>9, <2>2 DEF Arrives
<1>11. FramesTyped'
  <2>1. \A e \in Elements(incoming)' : Ours(e)
    BY <1>8 DEF LineTypes, FramesTyped
  <2>2. \A e \in OnItsWay' : e.kind = "data" => e.item \in Items /\ e.val \in Values(e.item)
    BY <1>3, <1>8, <1>10 DEF LineTypes, FramesTyped
  <2> QED
    BY <2>1, <2>2 DEF FramesTyped, Ours
<1>12. Elements(requests') = Elements(requests) /\ AnySeq(requests')
  BY <1>5 DEF LineTypes, Queues
<1>13. LineTypes'
  BY <1>5, <1>8, <1>11, <1>12 DEF LineTypes, Queues, ReceiverTypes, Proper
<1>14. \A i \in Items : ServesAll(i)
  BY <1>1, <1>10, <1>12 DEF ServesAll, Polled
<1>15. LineStep
  BY <1>3, <1>5, <1>8, <1>10, <1>14 DEF LineStep, LineTypes
<1> QED
  BY <1>13, <1>15

LEMMA EnvironmentStep ==
  ASSUME LineTypes, Environment \/ Report \/ OtherWrites
  PROVE  LineTypes' /\ LineStep
<1>1. /\ Queues /\ ReceiverTypes
      /\ budget \in [faults : Nat, errors : BOOLEAN, others : Nat, reports : Nat]
  BY DEF LineTypes
<1>2. ASSUME NEW m, ~Ours(m), GpsdSends(<<m>>), m.class = "EOF" \/ gpsd' = "greeted",
             UNCHANGED <<requests, receiver, ex, cancelled, expired>>,
             budget' \in [faults : Nat, errors : BOOLEAN, others : Nat, reports : Nat],
             budget'.faults <= budget.faults,
             \/ gpsd' = "greeted" /\ gpsd \in {"connected", "greeted"}
             \/ gpsd' = "gone" /\ m.class = "EOF"
      PROVE  LineTypes' /\ LineStep
  <2>1. /\ UNCHANGED <<reader, terr, ready, closed, sub, incoming>>
        /\ AnySeq(stream') /\ AnySeq(incoming') /\ OnItsWay' = OnItsWay
        /\ (Ended \/ m.class = "EOF") => Ended'
    BY <1>1, <1>2, NoticeSent
  <2>2. ReceiverTypes'
    BY <1>1, <1>2 DEF ReceiverTypes
  <2> QED
    BY <1>2, <2>1, <2>2, NoticeStep
<1>3. ASSUME UNCHANGED <<clientVars, gpsd, ex, cancelled, expired>>,
             \/ requests' = requests
             \/ \E r : Proper(r) /\ requests' = Append(requests, r),
             ReceiverTypes',
             budget' \in [faults : Nat, errors : BOOLEAN, others : Nat, reports : Nat],
             budget'.faults <= budget.faults
      PROVE  LineTypes' /\ LineStep
  <2>1. /\ UNCHANGED <<stream, reader, terr, ready, closed, sub, incoming>>
        /\ AnySeq(stream') /\ AnySeq(incoming')
    BY <1>1, <1>3 DEF clientVars, Queues
  <2>2. OnItsWay' = OnItsWay /\ (Ended => Ended')
    BY <2>1 DEF OnItsWay, Ours, Ended
  <2> QED
    BY <1>3, <2>1, <2>2, NoticeStep
<1>4. CASE Converge
  <2> DEFINE new == [receiver EXCEPT !.svin = "valid"]
  <2>1. receiver' = new /\ UNCHANGED <<clientVars, requests, gpsd, ex, cancelled, expired, budget>>
    BY <1>4 DEF Converge, ctxVars
  <2>2. /\ DOMAIN new = {"gen", "flash", "svin", "cfg"} /\ new.svin = "valid"
        /\ new.gen = receiver.gen /\ new.cfg = receiver.cfg
    BY <1>1 DEF ReceiverTypes
  <2> HIDE DEF new
  <2>3. ReceiverTypes'
    BY <1>1, <2>1, <2>2 DEF ReceiverTypes
  <2> QED
    BY <1>1, <1>3, <2>1, <2>3
<1>5. CASE OtherPolls \/ OtherWrites
  <2>1. UNCHANGED <<clientVars, receiver, gpsd, ex, cancelled, expired>>
    BY <1>5 DEF OtherPolls, OtherWrites, ctxVars
  <2>2. /\ budget' \in [faults : Nat, errors : BOOLEAN, others : Nat, reports : Nat]
        /\ budget'.faults = budget.faults
    BY <1>1, <1>5, SpendTypes DEF OtherPolls, OtherWrites
  <2>3. \E r : Proper(r) /\ requests' = Append(requests, r)
    <3>1. CASE OtherPolls
      <4>1. PICK item \in {"TMODE", "SVIN"} :
              requests' = Append(requests, [kind |-> "poll", item |-> item, val |-> NoValue])
        BY <3>1 DEF OtherPolls
      <4>2. Proper([kind |-> "poll", item |-> item, val |-> NoValue])
        BY DEF Proper, Items, ConfigItems
      <4> QED
        BY <4>1, <4>2
    <3>2. CASE OtherWrites
      <4>1. PICK want \in {SurveyInFrame, FixedModeFrame("given")} :
              requests' = Append(requests, [kind |-> "set", item |-> "TMODE", val |-> want])
        BY <3>2 DEF OtherWrites
      <4>2. want \in Payloads
        BY DEF SurveyInFrame, FixedModeFrame, Payloads
      <4>3. Proper([kind |-> "set", item |-> "TMODE", val |-> want])
        BY <4>2 DEF Proper, Items, ConfigItems
      <4> QED
        BY <4>1, <4>3
    <3> QED
      BY <1>5, <3>1, <3>2
  <2>4. ReceiverTypes'
    BY <1>1, <2>1 DEF ReceiverTypes
  <2> QED
    BY <1>1, <1>3, <2>1, <2>2, <2>3, <2>4
<1>6. CASE Greet
  <2>1. PICK list \in SUBSET Paths :
          /\ budget' = budget \/ Spend
          /\ GpsdSends(<<[class |-> "DEVICES", paths |-> list]>>)
    BY <1>6 DEF Greet
  <2>2. PICK m : m = [class |-> "DEVICES", paths |-> list]
    OBVIOUS
  <2>3. ~Ours(m) /\ GpsdSends(<<m>>)
    BY <2>1, <2>2 DEF Ours
  <2> QED
    BY <1>1, <1>2, <1>6, <2>1, <2>3, SpendTypes DEF Greet, ctxVars
<1>7. CASE Complain
  <2>1. PICK m \in {[class |-> "ERROR"], [class |-> "DEVICE", path |-> Path]} : GpsdSends(<<m>>)
    BY <1>7 DEF Complain
  <2>2. ~Ours(m)
    BY <2>1 DEF Ours
  <2> QED
    BY <1>1, <1>2, <1>7, <2>1, <2>2, SpendTypes DEF Complain, ctxVars
<1>8. CASE Drop
  <2>1. PICK m : m = [class |-> "EOF"]
    OBVIOUS
  <2>2. ~Ours(m) /\ GpsdSends(<<m>>) /\ m.class = "EOF"
    BY <1>8, <2>1 DEF Ours, Drop
  <2> QED
    BY <1>1, <1>2, <1>8, <2>2, SpendTypes DEF Drop, ctxVars
<1>9. CASE Report
  <2>1. PICK class \in {"TPV", "SKY"}, sparse \in BOOLEAN :
          GpsdSends(<<[class |-> class, sparse |-> sparse /\ class = "SKY"]>>)
    BY <1>9 DEF Report
  <2>2. PICK m : m = [class |-> class, sparse |-> sparse /\ class = "SKY"]
    OBVIOUS
  <2>3. ~Ours(m) /\ GpsdSends(<<m>>)
    BY <2>1, <2>2 DEF Ours
  <2> QED
    BY <1>1, <1>2, <1>9, <2>3, SpendTypes DEF Report, ctxVars
<1> QED
  BY <1>4, <1>5, <1>6, <1>7, <1>8, <1>9, ServeStep, MisserveStep, OtherReceiverStep DEF Environment

-----------------------------------------------------------------------------
(* Where the program is with its polls, and what it knows of the receiver.   *)

ExFields == {"op", "item", "want", "slot", "stage", "own", "shield", "val", "short"}

SeenTypes == DOMAIN seen = {"was", "faults"} /\ DOMAIN seen.was = Items /\ seen.faults \in Nat

Asking ==
  /\ left \in Seq(Items)
  /\ DOMAIN ex = ExFields
  /\ phase # "asking" => ex.stage = "idle"
  /\ ex.stage # "idle" =>
       /\ left # <<>> /\ ex.item = Head(left)
       /\ ex.op = "poll" /\ ex.slot = "poll"
       /\ ex.stage \in {"send", "wait", "ok", "gone", "late"}
  /\ ex.stage = "ok" => ex.val \in Values(ex.item)
  /\ phase \in {"start", "dialing"} => snap = Empty
  /\ cancelled = FALSE /\ (prog = "monitor" => expired = FALSE)
  /\ SeenTypes

Types == LineTypes /\ Asking /\ ShapeInv

LEMMA SeeKeeps ==
  ASSUME See, SeenTypes, phase = "dialing" \/ phase' # "dialing"
  PROVE  /\ SeenTypes' /\ seen'.faults = seen.faults
         /\ \A i \in Items : seen'.was[i] = seen.was[i] \cup {Setting(i)'}
<1>1. seen' = [seen EXCEPT !.was = [i \in Items |-> seen.was[i] \cup {Setting(i)'}]]
  BY DEF See
<1> DEFINE was == [i \in Items |-> seen.was[i] \cup {Setting(i)'}]
<1>2. DOMAIN was = Items /\ \A i \in Items : was[i] = seen.was[i] \cup {Setting(i)'}
  OBVIOUS
<1> HIDE DEF was
<1>3. seen' = [seen EXCEPT !.was = was]
  BY <1>1 DEF was
<1>4. DOMAIN seen' = {"was", "faults"} /\ seen'.was = was /\ seen'.faults = seen.faults
  BY <1>3 DEF SeenTypes
<1> QED
  BY <1>2, <1>4 DEF SeenTypes

LEMMA SeeStarts ==
  ASSUME See, phase # "dialing", phase' = "dialing", budget.faults \in Nat
  PROVE  /\ SeenTypes' /\ seen'.faults = budget.faults
         /\ \A i \in Items : seen'.was[i] = {Setting(i)}
  BY DEF See, SeenTypes

LEMMA SeeTypes == ASSUME See, SeenTypes, budget.faults \in Nat PROVE SeenTypes'
  BY SeeKeeps, SeeStarts

LEMMA PollsAre ==
  ASSUME prog \in {"monitor", "status"}, NEW gen
  PROVE  /\ prog = "status" => Polls(gen) = <<"TMODE", "SVIN", "NAV5", "TP5", "NAV-CLOCK">>
         /\ prog = "monitor" /\ gen # "unknown" =>
              Polls(gen) = <<"TMODE", "NAV5", "TP5", "MON-HW", "NAV-CLOCK", "NAV-DOP", "SVIN">>
         /\ prog = "monitor" /\ gen = "unknown" => Polls(gen) = <<"MON-HW", "NAV-CLOCK", "NAV-DOP">>
<1>1. ASSUME prog = "status"
      PROVE  Polls(gen) = <<"TMODE", "SVIN", "NAV5", "TP5", "NAV-CLOCK">>
  <2>1. prog # "monitor"
    BY <1>1
  <2> QED
    BY <1>1, <2>1, Zenon DEF Polls
<1>2. ASSUME prog = "monitor", gen # "unknown"
      PROVE  Polls(gen) = <<"TMODE", "NAV5", "TP5", "MON-HW", "NAV-CLOCK", "NAV-DOP", "SVIN">>
  <2>1. prog # "status"
    BY <1>2
  <2> QED
    BY <1>2, <2>1, Zenon DEF Polls
<1>3. ASSUME prog = "monitor", gen = "unknown"
      PROVE  Polls(gen) = <<"MON-HW", "NAV-CLOCK", "NAV-DOP">>
  <2>1. prog # "status"
    BY <1>3
  <2> QED
    BY <1>3, <2>1, Zenon DEF Polls
<1> QED
  BY <1>1, <1>2, <1>3, Zenon

LEMMA PollsTyped ==
  ASSUME prog \in {"monitor", "status"}, NEW gen PROVE Polls(gen) \in Seq(Items)
<1>1. /\ <<"TMODE", "SVIN", "NAV5", "TP5", "NAV-CLOCK">> \in Seq(Items)
      /\ <<"TMODE", "NAV5", "TP5", "MON-HW", "NAV-CLOCK", "NAV-DOP", "SVIN">> \in Seq(Items)
      /\ <<"MON-HW", "NAV-CLOCK", "NAV-DOP">> \in Seq(Items)
  BY DEF Items, ConfigItems, Status
<1>2. CASE prog = "status"
  <2>1. Polls(gen) = <<"TMODE", "SVIN", "NAV5", "TP5", "NAV-CLOCK">>
    BY <1>2, PollsAre
  <2> QED
    BY <1>1, <2>1, Zenon
<1>3. CASE prog = "monitor" /\ gen # "unknown"
  <2>1. Polls(gen) = <<"TMODE", "NAV5", "TP5", "MON-HW", "NAV-CLOCK", "NAV-DOP", "SVIN">>
    BY <1>3, PollsAre
  <2> QED
    BY <1>1, <2>1, Zenon
<1>4. CASE prog = "monitor" /\ gen = "unknown"
  <2>1. Polls(gen) = <<"MON-HW", "NAV-CLOCK", "NAV-DOP">>
    BY <1>4, PollsAre
  <2> QED
    BY <1>1, <2>1, Zenon
<1> QED
  BY <1>2, <1>3, <1>4

LEMMA ReceivedIs ==
  ASSUME ex.op = "poll", NEW f, f.kind = "data"
  PROVE  Received(f) = [ex EXCEPT !.stage = "ok", !.val = f.val, !.short = f.short]
<1>1. f.kind # "nak" /\ f.kind # "ack" /\ ex.op # "write" /\ ex.op # "save"
  OBVIOUS
<1> QED
  BY <1>1, Zenon DEF Received

LEMMA Moved ==
  ASSUME DOMAIN ex = ExFields, NEW stage, ex' = [ex EXCEPT !.stage = stage]
  PROVE  /\ DOMAIN ex' = ExFields /\ ex'.stage = stage
         /\ ex'.item = ex.item /\ ex'.op = ex.op /\ ex'.slot = ex.slot
         /\ ex'.val = ex.val /\ ex'.short = ex.short /\ ex'.own = ex.own
  BY DEF ExFields

-----------------------------------------------------------------------------
(* The calls of the client, on the line.                                     *)

LEMMA SameLine ==
  ASSUME LineTypes, UNCHANGED <<stream, incoming, requests, receiver>>,
         budget' = budget \/ Spend
  PROVE  LineTypes' /\ OnItsWay' = OnItsWay /\ budget'.faults <= budget.faults
<1>1. OnItsWay' = OnItsWay
  BY DEF OnItsWay, Ours
<1>2. budget' \in [faults : Nat, errors : BOOLEAN, others : Nat, reports : Nat] /\ budget'.faults <= budget.faults
  BY SpendTypes DEF LineTypes
<1> QED
  BY <1>1, <1>2 DEF LineTypes, Queues, ReceiverTypes, FramesTyped, Proper, Ours

LEMMA AskStep ==
  ASSUME LineTypes, Asking, SendUBX
  PROVE  /\ LineTypes' /\ OnItsWay' \subseteq OnItsWay
         /\ UNCHANGED <<stream, receiver, gpsd, budget, cancelled, expired, terr, closed, ready, reader, sub>>
         /\ ex.stage = "send"
         /\ \/ closed /\ ex' = [ex EXCEPT !.stage = "gone"]
            \/ /\ ~closed /\ ex' = [ex EXCEPT !.stage = "wait"]
               /\ gpsd # "gone" => Polled(ex.item)'
<1>1. /\ UNCHANGED <<stream, receiver, gpsd, budget, cancelled, expired, terr, closed, ready, reader, sub>>
      /\ ex.stage = "send"
  BY DEF SendUBX, DrainAndSend, clientVars, ctxVars
<1>2. CASE closed /\ ex' = [ex EXCEPT !.stage = "gone"] /\ UNCHANGED <<clientVars, requests>>
  BY <1>1, <1>2, SameLine DEF clientVars
<1>3. CASE /\ DrainAndSend
           /\ requests' = IF gpsd = "gone" THEN requests ELSE Append(requests, Request)
           /\ ex' = [ex EXCEPT !.stage = "wait"]
  <2>1. PICK r : r = Request
    OBVIOUS
  <2>2. r.kind = "poll" /\ r.item = ex.item /\ Proper(r)
    <3>1. Request = [kind |-> "poll", item |-> ex.item, val |-> NoValue]
      BY <1>1 DEF Request, Asking
    <3>2. ex.item \in Items
      BY <1>1 DEF Asking
    <3> QED
      BY <2>1, <3>1, <3>2 DEF Proper
  <2>3. incoming' = <<>> /\ ~closed
    BY <1>3 DEF DrainAndSend
  <2>4. AnySeq(incoming') /\ Elements(incoming') = {}
    BY <2>3, ElementsEmpty
  <2>5. AnySeq(stream') /\ Elements(stream') = Elements(stream)
    BY <1>1 DEF LineTypes, Queues
  <2>6. OnItsWay' \subseteq OnItsWay
    BY <2>4, <2>5 DEF OnItsWay, Ours
  <2>7. /\ AnySeq(requests') /\ \A q \in Elements(requests') : Proper(q)
        /\ gpsd # "gone" => r \in Elements(requests')
    <3>1. CASE gpsd = "gone"
      <4>1. AnySeq(requests') /\ Elements(requests') = Elements(requests)
        BY <1>3, <3>1 DEF LineTypes, Queues
      <4> QED
        BY <3>1, <4>1 DEF LineTypes
    <3>2. CASE gpsd # "gone"
      <4>1. AnySeq(Append(requests, r)) /\ Elements(Append(requests, r)) = Elements(requests) \cup {r}
        BY ElementsAppend DEF LineTypes, Queues
      <4>2. AnySeq(requests') /\ Elements(requests') = Elements(requests) \cup {r}
        BY <1>3, <2>1, <3>2, <4>1
      <4> QED
        BY <2>2, <4>2 DEF LineTypes
    <3> QED
      BY <3>1, <3>2
  <2>8. FramesTyped'
    BY <2>4, <2>6 DEF LineTypes, FramesTyped, Ours
  <2>9. LineTypes'
    BY <1>1, <2>4, <2>5, <2>7, <2>8 DEF LineTypes, Queues, ReceiverTypes, Proper
  <2>10. gpsd # "gone" => Polled(ex.item)'
    <3>1. PICK item : item = ex.item
      OBVIOUS
    <3>2. ex.item' = ex.item
      BY <1>3 DEF Asking, ExFields
    <3> QED
      BY <2>2, <2>7, <3>2 DEF Polled
  <2> QED
    BY <1>1, <1>3, <2>3, <2>6, <2>9, <2>10
<1> QED
  BY <1>2, <1>3 DEF SendUBX

LEMMA FrameStep ==
  ASSUME LineTypes, Asking, WaitFrame
  PROVE  /\ LineTypes' /\ OnItsWay' \subseteq OnItsWay
         /\ UNCHANGED <<stream, requests, receiver, gpsd, budget, cancelled, expired, terr, closed, ready, reader, sub>>
         /\ ex.stage = "wait"
         /\ \E f \in OnItsWay :
              /\ OnItsWay \subseteq OnItsWay' \cup {f}
              /\ \/ /\ f.kind = "data" /\ f.item = ex.item
                    /\ ex' = [ex EXCEPT !.stage = "ok", !.val = f.val, !.short = f.short]
                 \/ ~(f.kind = "data" /\ f.item = ex.item) /\ ex' = ex
<1>1. /\ UNCHANGED <<stream, requests, receiver, gpsd, budget, cancelled, expired, terr, closed, ready, reader, sub>>
      /\ ex.stage = "wait" /\ incoming # <<>> /\ incoming' = Tail(incoming)
      /\ ex' = IF Wanted(Head(incoming)) THEN Received(Head(incoming)) ELSE ex
  BY DEF WaitFrame, TakeFrame, linkVars, ctxVars
<1>2. PICK f : f = Head(incoming)
  OBVIOUS
<1>3. AnySeq(Tail(incoming)) /\ Elements(incoming) = {f} \cup Elements(Tail(incoming))
  BY <1>1, <1>2, ElementsTail DEF LineTypes, Queues
<1>4. AnySeq(incoming') /\ Elements(incoming) = {f} \cup Elements(incoming')
  BY <1>1, <1>3
<1>5. AnySeq(stream') /\ Elements(stream') = Elements(stream)
  BY <1>1 DEF LineTypes, Queues
<1>6. f \in OnItsWay
  BY <1>4 DEF LineTypes, FramesTyped, OnItsWay
<1>7. OnItsWay' \subseteq OnItsWay /\ OnItsWay \subseteq OnItsWay' \cup {f}
  BY <1>4, <1>5 DEF OnItsWay, Ours
<1>8. FramesTyped'
  BY <1>4, <1>7 DEF LineTypes, FramesTyped, Ours
<1>9. LineTypes'
  BY <1>1, <1>4, <1>5, <1>8 DEF LineTypes, Queues, ReceiverTypes, Proper
<1>10. Wanted(f) <=> f.kind = "data" /\ f.item = ex.item
  BY <1>1 DEF Wanted, Asking
<1>11. \/ /\ f.kind = "data" /\ f.item = ex.item
          /\ ex' = [ex EXCEPT !.stage = "ok", !.val = f.val, !.short = f.short]
       \/ ~(f.kind = "data" /\ f.item = ex.item) /\ ex' = ex
  <2>1. CASE Wanted(f)
    <3>1. ex' = Received(f) /\ ex.op = "poll" /\ f.kind = "data" /\ f.item = ex.item
      BY <1>1, <1>2, <1>10, <2>1 DEF Asking
    <3> QED
      BY <3>1, ReceivedIs
  <2>2. CASE ~Wanted(f)
    BY <1>1, <1>2, <1>10, <2>2
  <2> QED
    BY <2>1, <2>2
<1> QED
  BY <1>1, <1>6, <1>7, <1>9, <1>11

LEMMA DialStep ==
  ASSUME LineTypes, Dial, UNCHANGED <<requests, receiver, budget>>
  PROVE  LineTypes' /\ OnItsWay' = {}
<1>1. stream' = <<>> /\ incoming' = <<>>
  BY DEF Dial
<1>2. /\ AnySeq(stream') /\ Elements(stream') = {}
      /\ AnySeq(incoming') /\ Elements(incoming') = {}
  BY <1>1, ElementsEmpty
<1>3. OnItsWay' = {}
  BY <1>2 DEF OnItsWay
<1>4. FramesTyped'
  BY <1>2, <1>3 DEF FramesTyped
<1> QED
  BY <1>2, <1>3, <1>4 DEF LineTypes, Queues, ReceiverTypes, Proper

\* The steps of the program, by what they do to the line and to the polls.
LEMMA ConnectStep ==
  ASSUME Types, NEW next \in {"probing", "dialing"}, Connect(next)
  PROVE  /\ LineTypes' /\ OnItsWay' = {} /\ ex' = ex /\ phase' = next
         /\ UNCHANGED <<receiver, budget, cancelled, expired>>
         /\ stream' = <<>> /\ gpsd' = "connected" /\ reader' = "loop" /\ terr' = "none"
         /\ ~ready' /\ ~closed' /\ sub' = "none"
<1>1. Dial /\ UNCHANGED <<requests, receiver, budget, cancelled, expired, ex>>
      /\ phase' = next /\ gpsd' = "connected"
  BY DEF Connect, ctxVars
<1> QED
  BY <1>1, DialStep DEF Types, Dial

LEMMA ProbeStep ==
  ASSUME LineTypes, Probe
  PROVE  /\ LineTypes' /\ phase' \in {"idle", "off"} /\ phase = "probing"
         /\ UNCHANGED <<receiver, ex, cancelled, expired, prog, left, snap, published>>
  BY SameLine DEF Probe, Close, Fails, DialTimesOut, ctxVars

LEMMA OpenStep ==
  ASSUME LineTypes, Open
  PROVE  /\ LineTypes' /\ OnItsWay' = OnItsWay /\ phase = "dialing"
         /\ UNCHANGED <<stream, requests, receiver, gpsd, ex, cancelled, expired, prog, snap, reader, terr, ready>>
         /\ \/ /\ phase' = "asking" /\ left' = <<"MON-VER">> /\ ready
               /\ closed' = closed /\ sub' = "open" /\ UNCHANGED <<budget, published>>
            \/ /\ phase' \in {"idle", "done"} /\ left' = left
               /\ published' = [Empty EXCEPT !.transport = TRUE]
  BY SameLine DEF Open, Subscribe, Close, Give, Fails, DialTimesOut, DialSucceeds, ctxVars

LEMMA PublishStep ==
  ASSUME LineTypes, Publish
  PROVE  /\ LineTypes' /\ phase' \in {"idle", "done"} /\ phase = "asking"
         /\ ex.stage = "idle" /\ left = <<>>
         /\ UNCHANGED <<receiver, budget, terr, ex, cancelled, expired, prog, left, snap>>
         /\ published' = IF prog = "monitor" THEN WithReports(Overlay(snap)) ELSE WithReports(snap)
  BY SameLine DEF Publish, Close, Give, linkVars, ctxVars

\* The answer to a poll, or its error, is taken down.
LEMMA AnsweredStep ==
  ASSUME Types, Identify \/ Collect
  PROVE  /\ LineTypes' /\ OnItsWay' = OnItsWay
         /\ phase = "asking" /\ phase' \in {"asking", "done"} /\ (phase' = "done" => prog = "status")
         /\ UNCHANGED <<stream, requests, receiver, gpsd, budget, cancelled, expired, prog, terr, ready, reader, sub>>
         /\ ex.stage \in {"ok", "gone", "late"} /\ ex' = Idle
         /\ left # <<>> /\ ex.item = Head(left) /\ ex.item \in Items /\ left' \in Seq(Items)
         /\ Shaped(snap') /\ \E length \in Lengths : snap' = Reading(ex.item, length)
         /\ \/ phase' = "asking" /\ published' = published /\ closed' = closed
            \/ phase' = "done" /\ published' = snap'
         /\ \/ /\ ex.item # "MON-VER" /\ left' = Tail(left) /\ phase' = "asking"
            \/ /\ ex.item = "MON-VER" /\ phase' = "done" /\ left' = <<>>
            \/ /\ ex.item = "MON-VER" /\ phase' = "asking"
               /\ left' = Polls(IF Whole THEN ex.val ELSE "unknown")
<1>1. /\ phase = "asking" /\ ex.stage \in Results /\ ex' = Idle
      /\ \E length \in Lengths : snap' = Reading(Head(left), length)
      /\ UNCHANGED <<requests, receiver, gpsd, budget, cancelled, expired, prog>>
  BY DEF Identify, Collect, Answered, linkVars, ctxVars
<1>2. /\ left # <<>> /\ ex.item = Head(left) /\ ex.stage \in {"ok", "gone", "late"}
      /\ ex.item \in Items /\ left \in Seq(Items)
  BY <1>1 DEF Types, Asking, Results
<1>3. PICK length \in Lengths : snap' = Reading(ex.item, length)
  BY <1>1, <1>2
<1>4. Shaped(snap')
  <2>1. PICK item \in Items : item = ex.item
    BY <1>2
  <2>2. PICK s : s = Reading(item, length)
    OBVIOUS
  <2>3. NotesOf(s, item, length)
    BY <2>2, ReadingIs DEF Types, ShapeInv
  <2> QED
    BY <1>3, <2>1, <2>2, <2>3 DEF NotesOf
<1>5. UNCHANGED <<stream, terr, ready, reader, sub, incoming>>
  BY DEF Identify, Collect, Close, clientVars
<1>6. LineTypes' /\ OnItsWay' = OnItsWay
  BY <1>1, <1>5, SameLine DEF Types
<1>7. prog \in {"monitor", "status"}
  BY DEF Types, ShapeInv
<1>8. CASE Collect
  <2>1. /\ ex.item # "MON-VER" /\ left' = Tail(left) /\ phase' = "asking"
        /\ published' = published /\ closed' = closed
    BY <1>1, <1>2, <1>8 DEF Collect, clientVars
  <2>2. left' \in Seq(Items)
    BY <1>2, <2>1
  <2> QED
    BY <1>1, <1>2, <1>3, <1>4, <1>5, <1>6, <2>1, <2>2
<1>9. CASE Identify
  <2> DEFINE gen == IF Whole THEN ex.val ELSE "unknown"
  <2>1. ex.item = "MON-VER"
    BY <1>2, <1>9 DEF Identify
  <2>2. \/ /\ prog = "status" /\ phase' = "done" /\ published' = snap' /\ left' = <<>>
        \/ left' = Polls(gen) /\ phase' = "asking" /\ published' = published /\ closed' = closed
    <3>1. (IF Whole THEN DetectGeneration ELSE "unknown") = gen
      BY DEF Whole, DetectGeneration
    <3> QED
      BY <1>1, <1>9, <3>1 DEF Identify, Give, clientVars
  <2> HIDE DEF gen
  <2>3. left' \in Seq(Items)
    <3>1. Polls(gen) \in Seq(Items)
      BY <1>7, PollsTyped, Zenon
    <3>2. <<>> \in Seq(Items)
      OBVIOUS
    <3> QED
      BY <2>2, <3>1, <3>2
  <2> USE DEF gen
  <2> QED
    BY <1>1, <1>2, <1>3, <1>4, <1>5, <1>6, <2>1, <2>2, <2>3
<1> QED
  BY <1>8, <1>9

-----------------------------------------------------------------------------
(* The types are an invariant.                                               *)

LEMMA TypesInit == Init => Types
<1> SUFFICES ASSUME Init PROVE Types
  OBVIOUS
<1>1. PICK s \in Scenarios :
       /\ receiver = [gen |-> s.gen, flash |-> NoValue, svin |-> IF s.mode = 1 THEN "active" ELSE "none",
                      cfg |-> [i \in ConfigItems \cup Status |->
                                 CASE i = "TMODE" -> [mode |-> s.mode, svin |-> "old", pos |-> s.pos]
                                   [] i = "NAV5"  -> "stationary"
                                   [] i = "TP5"   -> "1HzUTC"
                                   [] i \in Status -> "reading"]]
       /\ prog = s.prog /\ named = s.named /\ budget = s.budget
  BY Zenon DEF Init
<1>2. /\ s.prog \in {"monitor", "status"} /\ s.gen \in Gens /\ s.mode \in 0..2 /\ s.pos \in {"old", "LLH"}
      /\ s.budget \in [faults : Nat, errors : BOOLEAN, others : Nat, reports : Nat]
  BY MonitorAssumption
<1>3. ReceiverTypes
  <2> DEFINE tmode == [mode |-> s.mode, svin |-> "old", pos |-> s.pos]
             value(i) == CASE i = "TMODE" -> tmode
                           [] i = "NAV5"  -> "stationary"
                           [] i = "TP5"   -> "1HzUTC"
                           [] i \in Status -> "reading"
             cfg == [i \in ConfigItems \cup Status |-> value(i)]
             survey == IF s.mode = 1 THEN "active" ELSE "none"
  <2>1. value("TMODE") = tmode
    <3>1. "TMODE" # "NAV5" /\ "TMODE" # "TP5" /\ "TMODE" \notin Status
      BY DEF Status
    <3> QED
      BY <3>1, Zenon
  <2>2. value("NAV5") = "stationary"
    <3>1. "NAV5" # "TMODE" /\ "NAV5" # "TP5" /\ "NAV5" \notin Status
      BY DEF Status
    <3> QED
      BY <3>1, Zenon
  <2>3. value("TP5") = "1HzUTC"
    <3>1. "TP5" # "TMODE" /\ "TP5" # "NAV5" /\ "TP5" \notin Status
      BY DEF Status
    <3> QED
      BY <3>1, Zenon
  <2>4. ASSUME NEW i \in Status PROVE value(i) = "reading"
    <3>1. i # "TMODE" /\ i # "NAV5" /\ i # "TP5"
      BY DEF Status
    <3> QED
      BY <3>1, Zenon
  <2>5. receiver = [gen |-> s.gen, flash |-> NoValue, svin |-> survey, cfg |-> cfg]
    BY <1>1
  <2>6. tmode \in Payloads
    BY <1>2 DEF Payloads
  <2>7. survey \in {"none", "active", "valid"}
    OBVIOUS
  <2> HIDE DEF value, tmode, survey
  <2>8. DOMAIN cfg = ConfigItems \cup Status /\ \A i \in ConfigItems \cup Status : cfg[i] = value(i)
    OBVIOUS
  <2> HIDE DEF cfg
  <2>9. \A i \in ConfigItems \cup Status : cfg[i] \in Values(i)
    <3>1. cfg["TMODE"] \in Values("TMODE")
      BY <2>1, <2>6, <2>8 DEF Values, ConfigItems
    <3>2. cfg["NAV5"] \in Values("NAV5")
      BY <2>2, <2>8 DEF Values, ConfigItems
    <3>3. cfg["TP5"] \in Values("TP5")
      BY <2>3, <2>8 DEF Values, ConfigItems
    <3>4. \A i \in Status : cfg[i] \in Values(i)
      <4>1. SUFFICES ASSUME NEW i \in Status PROVE cfg[i] \in Values(i)
        OBVIOUS
      <4>2. cfg[i] = "reading" /\ i # "TMODE"
        BY <2>4, <2>8 DEF Status
      <4> QED
        BY <4>2 DEF Values
    <3> QED
      BY <3>1, <3>2, <3>3, <3>4 DEF ConfigItems
  <2>10. /\ DOMAIN receiver = {"gen", "flash", "svin", "cfg"} /\ receiver.gen = s.gen
         /\ receiver.svin = survey /\ receiver.cfg = cfg
    BY <2>5
  <2> QED
    BY <1>2, <2>7, <2>8, <2>9, <2>10 DEF ReceiverTypes
<1>4. LineTypes
  <2>1. stream = <<>> /\ incoming = <<>> /\ requests = <<>>
    BY DEF Init, ClientInit
  <2>2. /\ AnySeq(stream) /\ AnySeq(incoming) /\ AnySeq(requests)
        /\ Elements(stream) = {} /\ Elements(incoming) = {} /\ Elements(requests) = {}
    BY <2>1, ElementsEmpty
  <2>3. FramesTyped
    BY <2>2 DEF FramesTyped, OnItsWay
  <2> QED
    BY <1>1, <1>2, <1>3, <2>2, <2>3 DEF LineTypes, Queues
<1>5. Asking
  <2>1. ex.stage = "idle" /\ DOMAIN ex = ExFields
    BY DEF Init, Idle, ExFields
  <2>2. SeenTypes
    BY DEF Init, SeenTypes
  <2>3. left = <<>> /\ phase = "start" /\ snap = Empty /\ cancelled = FALSE /\ expired = FALSE
    BY Zenon DEF Init
  <2> QED
    BY <2>1, <2>2, <2>3 DEF Asking
<1> QED
  BY <1>4, <1>5, ShapeInit DEF Types

\* An exchange that moves on in its stage keeps to its poll.
LEMMA ExchangeTypes ==
  ASSUME Types, Exchange, UNCHANGED monVars, See
  PROVE  LineTypes' /\ Asking'
<1>1. SeenTypes' /\ UNCHANGED <<prog, phase, left, snap>>
  BY SeeTypes DEF Types, Asking, LineTypes, monVars
<1>2. ASSUME LineTypes', NEW stage \in {"wait", "gone", "late"}, ex' = [ex EXCEPT !.stage = stage],
             ex.stage # "idle", UNCHANGED <<cancelled, expired>>
      PROVE  LineTypes' /\ Asking'
  <2>1. /\ DOMAIN ex' = ExFields /\ ex'.stage = stage /\ ex'.item = ex.item
        /\ ex'.op = ex.op /\ ex'.slot = ex.slot
    BY <1>2, Moved DEF Types, Asking
  <2> QED
    BY <1>1, <1>2, <2>1 DEF Types, Asking
<1>3. CASE SendUBX
  <2>1. /\ LineTypes' /\ UNCHANGED <<cancelled, expired>> /\ ex.stage = "send"
        /\ ex' = [ex EXCEPT !.stage = "gone"] \/ ex' = [ex EXCEPT !.stage = "wait"]
    BY <1>3, AskStep DEF Types
  <2> QED
    BY <1>2, <2>1
<1>4. CASE WaitFrame
  <2>1. /\ LineTypes' /\ UNCHANGED <<cancelled, expired>> /\ ex.stage = "wait"
    BY <1>4, FrameStep DEF Types
  <2>2. PICK f \in OnItsWay :
              \/ /\ f.kind = "data" /\ f.item = ex.item
                 /\ ex' = [ex EXCEPT !.stage = "ok", !.val = f.val, !.short = f.short]
              \/ ~(f.kind = "data" /\ f.item = ex.item) /\ ex' = ex
    BY <1>4, FrameStep DEF Types
  <2>3. CASE ex' = ex
    BY <1>1, <2>1, <2>3 DEF Types, Asking
  <2>4. CASE /\ f.kind = "data" /\ f.item = ex.item
             /\ ex' = [ex EXCEPT !.stage = "ok", !.val = f.val, !.short = f.short]
    <3>1. /\ DOMAIN ex' = ExFields /\ ex'.stage = "ok" /\ ex'.item = ex.item
          /\ ex'.op = ex.op /\ ex'.slot = ex.slot /\ ex'.val = f.val
      BY <2>4 DEF Types, Asking, ExFields
    <3>2. f.val \in Values(f.item)
      BY <2>4 DEF Types, LineTypes, FramesTyped
    <3> QED
      BY <1>1, <2>1, <2>4, <3>1, <3>2 DEF Types, Asking
  <2> QED
    BY <2>2, <2>3, <2>4
<1>5. CASE WaitClosed \/ WaitContext \/ WaitDeadline
  <2>1. /\ ex.stage = "wait" /\ UNCHANGED <<cancelled, expired, clientVars, requests, receiver>>
        /\ ex' = [ex EXCEPT !.stage = "gone"] \/ ex' = [ex EXCEPT !.stage = "late"]
        /\ budget' = budget \/ Spend
    BY <1>5 DEF WaitClosed, WaitContext, WaitDeadline, linkVars, ctxVars
  <2>2. LineTypes'
    BY <2>1, SameLine DEF Types, clientVars
  <2> QED
    BY <1>2, <2>1, <2>2
<1> QED
  BY <1>3, <1>4, <1>5 DEF Exchange

LEMMA TypesStep == Types /\ [Next]_vars => Types'
<1> SUFFICES ASSUME Types, [Next]_vars PROVE Types'
  OBVIOUS
<1>1. ShapeInv'
  BY ShapeStep DEF Types, Asking, Results
<1>2. CASE UNCHANGED vars
  <2>1. UNCHANGED <<stream, incoming, requests, receiver, budget, cancelled, expired, ex, prog, phase, left, snap, seen>>
    BY <1>2 DEF vars, clientVars, linkVars, ctxVars, monVars
  <2>2. LineTypes'
    BY <2>1, SameLine DEF Types
  <2> QED
    BY <1>1, <2>1, <2>2 DEF Types, Asking, SeenTypes
<1>3. CASE Next
  <2>1. See /\ SeenTypes' /\ Running
    BY <1>3, SeeTypes DEF Next, Types, Asking, LineTypes
  <2>2. CASE World
    <3>1. LineTypes' /\ UNCHANGED <<ex, cancelled, expired, prog, phase, left, snap>>
      <4>1. CASE ReadLoop /\ UNCHANGED <<linkVars, ex, ctxVars, monVars>>
        <5>1. /\ AnySeq(stream') /\ AnySeq(incoming') /\ OnItsWay' \subseteq OnItsWay
              /\ \A f \in Elements(incoming') : Ours(f)
          BY <4>1, ReaderStep DEF Types, LineTypes, FramesTyped
        <5>2. FramesTyped'
          BY <5>1 DEF Types, LineTypes, FramesTyped, Ours
        <5>3. UNCHANGED <<requests, receiver, budget, ex, cancelled, expired, prog, phase, left, snap>>
          BY <4>1 DEF linkVars, ctxVars, monVars
        <5>4. AnySeq(requests') /\ Elements(requests') = Elements(requests)
          BY <5>3 DEF Types, LineTypes, Queues
        <5> QED
          BY <5>1, <5>2, <5>3, <5>4 DEF Types, LineTypes, Queues, ReceiverTypes, Proper
      <4>2. CASE (Environment \/ Report \/ OtherWrites) /\ UNCHANGED monVars
        BY <4>2, EnvironmentStep DEF Types, LineStep, monVars
      <4> QED
        BY <2>2, <4>1, <4>2 DEF World
    <3> QED
      BY <1>1, <2>1, <3>1 DEF Types, Asking
  <2>3. CASE Exchange /\ UNCHANGED monVars
    BY <1>1, <2>1, <2>3, ExchangeTypes DEF Types
  <2>4. CASE Start \/ Cycle
    <3>1. PICK next \in {"probing", "dialing"} : Connect(next)
      BY <2>4, Zenon DEF Start, Cycle
    <3>2. LineTypes' /\ ex' = ex /\ phase' = next /\ UNCHANGED <<cancelled, expired>>
      BY <3>1, ConnectStep
    <3>3. UNCHANGED <<prog, left>> /\ ex.stage = "idle"
      BY <2>4 DEF Start, Cycle, Types, Asking
    <3>4. phase' = "dialing" => snap' = Empty
      BY <2>4 DEF Start, Cycle, Types, Asking
    <3> QED
      BY <1>1, <2>1, <3>2, <3>3, <3>4 DEF Types, Asking
  <2>5. CASE Probe
    <3>1. /\ LineTypes' /\ phase' \in {"idle", "off"} /\ phase = "probing"
          /\ UNCHANGED <<ex, cancelled, expired, prog, left>>
      BY <2>5, ProbeStep DEF Types
    <3> QED
      BY <1>1, <2>1, <3>1 DEF Types, Asking
  <2>6. CASE Open
    <3>1. /\ LineTypes' /\ phase = "dialing" /\ UNCHANGED <<ex, cancelled, expired, prog, snap>>
          /\ phase' \in {"asking", "idle", "done"} /\ (left' = left \/ left' = <<"MON-VER">>)
      BY <2>6, OpenStep DEF Types
    <3>2. <<"MON-VER">> \in Seq(Items)
      BY DEF Items
    <3> QED
      BY <1>1, <2>1, <3>1, <3>2 DEF Types, Asking
  <2>7. CASE Begin
    <3>1. /\ phase = "asking" /\ ex.stage = "idle" /\ left # <<>> /\ ex' = Asks(Head(left))
          /\ UNCHANGED <<stream, incoming, requests, receiver, budget, cancelled, expired, prog, phase, left, snap>>
      BY <2>7 DEF Begin, clientVars, linkVars, ctxVars, monVars
    <3>2. LineTypes'
      BY <3>1, SameLine DEF Types
    <3>3. /\ DOMAIN ex' = ExFields /\ ex'.stage = "send" /\ ex'.item = Head(left)
          /\ ex'.op = "poll" /\ ex'.slot = "poll"
      BY <3>1 DEF Asks, Poll, Idle, ExFields
    <3> QED
      BY <1>1, <2>1, <3>1, <3>2, <3>3 DEF Types, Asking
  <2>8. CASE Identify \/ Collect
    <3>1. /\ LineTypes' /\ phase' \in {"asking", "done"}
          /\ UNCHANGED <<cancelled, expired, prog>> /\ ex' = Idle /\ left' \in Seq(Items)
      BY <2>8, AnsweredStep
    <3>2. ex'.stage = "idle" /\ DOMAIN ex' = ExFields
      BY <3>1 DEF Idle, ExFields
    <3> QED
      BY <1>1, <2>1, <3>1, <3>2 DEF Types, Asking
  <2>9. CASE Publish
    <3>1. /\ LineTypes' /\ phase' \in {"idle", "done"} /\ ex.stage = "idle"
          /\ UNCHANGED <<ex, cancelled, expired, prog, left, snap>>
      BY <2>9, PublishStep DEF Types
    <3> QED
      BY <1>1, <2>1, <3>1 DEF Types, Asking
  <2>10. CASE Expire
    <3>1. /\ prog = "status" /\ UNCHANGED <<stream, incoming, requests, receiver, budget, ex, cancelled, prog, phase, left, snap>>
      BY <2>10 DEF Expire, clientVars, linkVars, monVars
    <3>2. LineTypes'
      BY <3>1, SameLine DEF Types
    <3> QED
      BY <1>1, <2>1, <3>1, <3>2 DEF Types, Asking
  <2> QED
    BY <1>3, <2>2, <2>3, <2>4, <2>5, <2>6, <2>7, <2>8, <2>9, <2>10 DEF Next, Work, Program
<1> QED
  BY <1>2, <1>3

LEMMA TypesAlways == Spec => []Types
<1>1. Init => Types
  BY TypesInit
<1>2. Types /\ [Next]_vars => Types'
  BY TypesStep
<1> QED
  BY <1>1, <1>2, PTL DEF Spec

-----------------------------------------------------------------------------
(* What is shown is of its cycle. Every frame on its way, every answer taken *)
(* and every value noted is one the receiver had since the dial: nothing of  *)
(* the connection before is left at a dial, and on this one all new frames   *)
(* are of one receiver, unless a second one sends lines that name no device. *)

OneReceiver == "bare" \notin Forms \/ Dev2 = Path

Honest ==
  /\ \A f \in OnItsWay : f.kind = "data" => f.val \in seen.was[f.item]
  /\ ex.stage = "ok" => ex.val \in seen.was[ex.item]
  /\ \A i \in Items : snap.got[i] \in seen.was[i] \cup {NoValue}

LEMMA HonestInit == Init => Honest
<1> SUFFICES ASSUME Init PROVE Honest
  OBVIOUS
<1>1. stream = <<>> /\ incoming = <<>>
  BY DEF Init, ClientInit
<1>2. OnItsWay = {}
  BY <1>1, ElementsEmpty DEF OnItsWay
<1>3. ex.stage = "idle" /\ snap = Empty
  BY DEF Init, Idle
<1> QED
  BY <1>2, <1>3, EmptyShaped DEF Honest

\* Steps at which nothing is taken down, and nothing new is on its way.
LEMMA HonestKept ==
  ASSUME Types, Honest, See, phase = "dialing" \/ phase' # "dialing",
         LineTypes', \A f \in OnItsWay' \ OnItsWay : f.kind = "data" => f.val = Setting(f.item)',
         snap' = snap,
         \/ ex'.stage = "ok" /\ ex'.val = ex.val /\ ex'.item = ex.item /\ ex.stage = "ok"
         \/ ex'.stage # "ok"
         \/ \E f \in OnItsWay : f.kind = "data" /\ ex'.item = f.item /\ ex'.val = f.val
  PROVE  Honest'
<1>1. \A i \in Items : seen'.was[i] = seen.was[i] \cup {Setting(i)'}
  BY SeeKeeps DEF Types, Asking
<1>2. \A f \in OnItsWay : f.kind = "data" => f.item \in Items
  BY DEF Types, LineTypes, FramesTyped
<1>3. \A f \in OnItsWay' : f.kind = "data" => f.val \in seen'.was[f.item]
  <2>1. SUFFICES ASSUME NEW f \in OnItsWay', f.kind = "data" PROVE f.val \in seen'.was[f.item]
    OBVIOUS
  <2>2. f.item \in Items
    BY <2>1 DEF LineTypes, FramesTyped
  <2>3. CASE f \in OnItsWay
    BY <1>1, <2>1, <2>2, <2>3 DEF Honest
  <2>4. CASE f \notin OnItsWay
    BY <1>1, <2>1, <2>2, <2>4
  <2> QED
    BY <2>3, <2>4
<1>4. ex'.stage = "ok" => ex'.val \in seen'.was[ex'.item]
  <2>1. CASE ex'.stage = "ok" /\ ex'.val = ex.val /\ ex'.item = ex.item /\ ex.stage = "ok"
    <3>1. ex.item \in Items
      BY <2>1 DEF Types, Asking
    <3> QED
      BY <1>1, <2>1, <3>1 DEF Honest
  <2>2. CASE \E f \in OnItsWay : f.kind = "data" /\ ex'.item = f.item /\ ex'.val = f.val
    BY <1>1, <1>2, <2>2 DEF Honest
  <2> QED
    BY <2>1, <2>2
<1>5. \A i \in Items : snap'.got[i] \in seen'.was[i] \cup {NoValue}
  BY <1>1 DEF Honest
<1> QED
  BY <1>3, <1>4, <1>5 DEF Honest

\* The answer to a poll, once it is noted.
LEMMA HonestReading ==
  ASSUME Types, Honest, ex.stage \in {"ok", "gone", "late"}, NEW length, snap' = Reading(ex.item, length)
  PROVE  \A i \in Items : snap'.got[i] \in seen.was[i] \cup {NoValue}
<1>1. ex.item \in Items
  BY DEF Types, Asking
<1>2. /\ \A i \in Items \ {ex.item} : snap'.got[i] = snap.got[i]
      /\ Ok(length) => snap'.got[ex.item] = ex.val
      /\ ~Ok(length) => snap'.got[ex.item] = snap.got[ex.item]
  <2>1. PICK item \in Items : item = ex.item
    BY <1>1
  <2>2. PICK s : s = Reading(item, length)
    OBVIOUS
  <2>3. Shaped(snap)
    BY DEF Types, ShapeInv
  <2>4. /\ \A i \in Items \ {item} : s.got[i] = snap.got[i]
        /\ Ok(length) => s.got[item] = ex.val
        /\ ~Ok(length) => s.got[item] = snap.got[item]
    <3>1. NotesOf(s, item, length)
      BY <2>2, <2>3, ReadingIs
    <3> QED
      BY <3>1 DEF NotesOf
  <2>5. snap' = s
    BY <2>1, <2>2
  <2> QED
    BY <2>1, <2>4, <2>5
<1> QED
  BY <1>1, <1>2, OkIs DEF Honest

LEMMA HonestStep ==
  ASSUME OneReceiver, Types, Honest, [Next]_vars PROVE Honest'
<1>1. LineTypes' /\ Asking'
  BY TypesStep DEF Types
<1>2. CASE UNCHANGED vars
  <2>1. UNCHANGED <<stream, incoming, ex, snap, seen>>
    BY <1>2 DEF vars, clientVars, monVars
  <2>2. OnItsWay' = OnItsWay
    BY <2>1 DEF OnItsWay, Ours
  <2> QED
    BY <2>1, <2>2 DEF Honest
<1>3. CASE Next
  <2>1. See
    BY <1>3 DEF Next
  <2>2. CASE World
    <3>1. UNCHANGED <<ex, snap, phase>>
      <4>1. CASE ReadLoop /\ UNCHANGED <<linkVars, ex, ctxVars, monVars>>
        BY <4>1 DEF monVars
      <4>2. CASE (Environment \/ Report \/ OtherWrites) /\ UNCHANGED monVars
        BY <4>2, EnvironmentStep DEF Types, LineStep, monVars
      <4> QED
        BY <2>2, <4>1, <4>2 DEF World
    <3>2. \A f \in OnItsWay' \ OnItsWay : f.kind = "data" => f.val = Setting(f.item)'
      <4>1. CASE ReadLoop
        <5>1. OnItsWay' \subseteq OnItsWay
          BY <4>1, ReaderStep DEF Types, LineTypes
        <5> QED
          BY <5>1
      <4>2. CASE Environment \/ Report \/ OtherWrites
        BY <4>2, EnvironmentStep DEF Types, LineStep, OneReceiver
      <4> QED
        BY <2>2, <4>1, <4>2 DEF World
    <3> QED
      BY <1>1, <2>1, <3>1, <3>2, HonestKept
  <2>3. CASE Exchange /\ UNCHANGED monVars
    <3>1. UNCHANGED <<snap, phase>>
      BY <2>3 DEF monVars
    <3>2. CASE SendUBX
      <4>1. /\ OnItsWay' \subseteq OnItsWay
            /\ ex' = [ex EXCEPT !.stage = "gone"] \/ ex' = [ex EXCEPT !.stage = "wait"]
        BY <3>2, AskStep DEF Types
      <4>2. ex'.stage # "ok"
        BY <4>1, Moved DEF Types, Asking
      <4> QED
        BY <1>1, <2>1, <3>1, <4>1, <4>2, HonestKept
    <3>3. CASE WaitFrame
      <4>1. OnItsWay' \subseteq OnItsWay /\ ex.stage = "wait"
        BY <3>3, FrameStep DEF Types
      <4>2. PICK f \in OnItsWay :
              \/ /\ f.kind = "data" /\ f.item = ex.item
                 /\ ex' = [ex EXCEPT !.stage = "ok", !.val = f.val, !.short = f.short]
              \/ ~(f.kind = "data" /\ f.item = ex.item) /\ ex' = ex
        BY <3>3, FrameStep DEF Types
      <4>3. CASE ex' = ex
        BY <1>1, <2>1, <3>1, <4>1, <4>3, HonestKept
      <4>4. CASE /\ f.kind = "data" /\ f.item = ex.item
                 /\ ex' = [ex EXCEPT !.stage = "ok", !.val = f.val, !.short = f.short]
        <5>1. ex'.item = f.item /\ ex'.val = f.val
          BY <4>4 DEF Types, Asking, ExFields
        <5> QED
          BY <1>1, <2>1, <3>1, <4>1, <4>4, <5>1, HonestKept
      <4> QED
        BY <4>2, <4>3, <4>4
    <3>4. CASE WaitClosed \/ WaitContext \/ WaitDeadline
      <4>1. /\ UNCHANGED <<clientVars, requests, receiver>>
            /\ ex' = [ex EXCEPT !.stage = "gone"] \/ ex' = [ex EXCEPT !.stage = "late"]
            /\ budget' = budget \/ Spend
        BY <3>4 DEF WaitClosed, WaitContext, WaitDeadline, linkVars
      <4>2. OnItsWay' = OnItsWay
        BY <4>1, SameLine DEF Types, clientVars
      <4>3. ex'.stage # "ok"
        BY <4>1, Moved DEF Types, Asking
      <4> QED
        BY <1>1, <2>1, <3>1, <4>2, <4>3, HonestKept
    <3> QED
      BY <2>3, <3>2, <3>3, <3>4 DEF Exchange
  <2>4. CASE Start \/ Cycle
    <3>1. PICK next \in {"probing", "dialing"} : Connect(next)
      BY <2>4, Zenon DEF Start, Cycle
    <3>2. OnItsWay' = {} /\ ex' = ex /\ phase' = next
      BY <3>1, ConnectStep
    <3>3. ex.stage = "idle" /\ snap' = Empty /\ phase # "dialing"
      BY <2>4 DEF Start, Cycle, Types, Asking
    <3> QED
      BY <3>2, <3>3, EmptyShaped DEF Honest
  <2>5. CASE Probe
    <3>1. /\ phase' \in {"idle", "off"} /\ UNCHANGED <<ex, snap>>
      BY <2>5, ProbeStep DEF Types
    <3>2. OnItsWay' = OnItsWay
      BY <2>5 DEF Probe, Close, OnItsWay, Ours
    <3> QED
      BY <1>1, <2>1, <3>1, <3>2, HonestKept
  <2>6. CASE Open
    <3>1. /\ OnItsWay' = OnItsWay /\ phase = "dialing" /\ UNCHANGED <<ex, snap>>
      BY <2>6, OpenStep DEF Types
    <3> QED
      BY <1>1, <2>1, <3>1, HonestKept
  <2>7. CASE Begin
    <3>1. /\ ex' = Asks(Head(left)) /\ UNCHANGED <<stream, incoming, phase, snap>>
      BY <2>7 DEF Begin, clientVars, monVars
    <3>2. ex'.stage # "ok"
      BY <3>1 DEF Asks, Poll, Idle
    <3>3. OnItsWay' = OnItsWay
      BY <3>1 DEF OnItsWay, Ours
    <3> QED
      BY <1>1, <2>1, <3>1, <3>2, <3>3, HonestKept
  <2>8. CASE Identify \/ Collect
    <3>1. /\ OnItsWay' = OnItsWay /\ phase' # "dialing" /\ ex' = Idle
          /\ ex.stage \in {"ok", "gone", "late"}
          /\ \E length \in Lengths : snap' = Reading(ex.item, length)
      BY <2>8, AnsweredStep
    <3>2. \A i \in Items : snap'.got[i] \in seen.was[i] \cup {NoValue}
      BY <3>1, HonestReading
    <3>3. \A i \in Items : seen'.was[i] = seen.was[i] \cup {Setting(i)'}
      BY <2>1, <3>1, SeeKeeps DEF Types, Asking
    <3>4. \A f \in OnItsWay : f.kind = "data" => f.item \in Items
      BY DEF Types, LineTypes, FramesTyped
    <3>5. ex'.stage # "ok"
      BY <3>1 DEF Idle
    <3> QED
      BY <3>1, <3>2, <3>3, <3>4, <3>5 DEF Honest
  <2>9. CASE Publish
    <3>1. phase' \in {"idle", "done"} /\ UNCHANGED <<ex, snap>>
      BY <2>9, PublishStep DEF Types
    <3>2. OnItsWay' = OnItsWay
      BY <2>9 DEF Publish, Close, OnItsWay, Ours
    <3> QED
      BY <1>1, <2>1, <3>1, <3>2, HonestKept
  <2>10. CASE Expire
    <3>1. UNCHANGED <<stream, incoming, ex, phase, snap>>
      BY <2>10 DEF Expire, clientVars, monVars
    <3>2. OnItsWay' = OnItsWay
      BY <3>1 DEF OnItsWay, Ours
    <3> QED
      BY <1>1, <2>1, <3>1, <3>2, HonestKept
  <2> QED
    BY <1>3, <2>2, <2>3, <2>4, <2>5, <2>6, <2>7, <2>8, <2>9, <2>10 DEF Next, Work, Program
<1> QED
  BY <1>2, <1>3

\* The steps that publish, and what.
LEMMA PublishedIs ==
  ASSUME Types, [Next]_vars, published' # published
  PROVE  \/ /\ Open /\ published' = [Empty EXCEPT !.transport = TRUE]
         \/ Identify /\ prog = "status" /\ published' = snap'
         \/ Publish
<1>1. ~(UNCHANGED vars) /\ Next
  BY DEF vars, monVars
<1>2. ~World
  BY <1>1, Zenon DEF World, monVars
<1>3. ~(Exchange /\ UNCHANGED monVars) /\ ~Expire
  BY DEF Expire, monVars
<1>4. ~(Start \/ Cycle \/ Probe \/ Begin \/ Collect)
  BY DEF Start, Cycle, Probe, Begin, Collect, monVars
<1>5. Open => published' = [Empty EXCEPT !.transport = TRUE]
  BY DEF Open, Give
<1>6. Identify => prog = "status" /\ published' = snap'
  BY DEF Identify, Give
<1> QED
  BY <1>1, <1>2, <1>3, <1>4, <1>5, <1>6 DEF Next, Work, Program

LEMMA HonestShows ==
  ASSUME Types, Honest, [Next]_vars, published' # published
  PROVE  \A i \in Items \ Missing(published)' : published'.got[i] \in seen.was[i]
<1>1. \A i \in Items : published'.got[i] \in seen.was[i] \cup {NoValue}
  <2>1. CASE published' = [Empty EXCEPT !.transport = TRUE]
    <3>1. published'.got = Empty.got
      BY <2>1, FailedShaped
    <3> QED
      BY <3>1, EmptyShaped
  <2>2. CASE Identify /\ published' = snap'
    <3>1. /\ ex.stage \in {"ok", "gone", "late"}
          /\ \E length \in Lengths : snap' = Reading(ex.item, length)
      BY <2>2, AnsweredStep
    <3> QED
      BY <2>2, <3>1, HonestReading
  <2>3. CASE Publish
    <3>1. published' = IF prog = "monitor" THEN WithReports(Overlay(snap)) ELSE WithReports(snap)
      BY <2>3, PublishStep DEF Types
    <3>2. published'.got = snap.got
      BY <3>1, OverlayShows, ReportsShaped DEF Types, ShapeInv
    <3> QED
      BY <3>2 DEF Honest
  <2> QED
    BY <2>1, <2>2, <2>3, PublishedIs
<1>2. \A i \in Items : published'.got[i] = NoValue => i \in Missing(published)'
  BY DEF Missing
<1> QED
  BY <1>1, <1>2

\* A published value is one the receiver had since this cycle's dial, with one
\* receiver on gpsd, or frames that name theirs (gpsmon.go, cycle; client.go,
\* handleRawMsg).
THEOREM SnapshotsAreOfTheirCycle ==
  ASSUME "bare" \notin Forms \/ Dev2 = Path
  PROVE  Spec => SnapshotOfItsCycle
<1>1. OneReceiver
  BY DEF OneReceiver
<1>2. Init => Honest
  BY HonestInit
<1>3. Types /\ Honest /\ [Next]_vars => Honest'
  BY <1>1, HonestStep
<1>4. Types /\ Honest /\ [Next]_vars =>
        [published' # published =>
           \A i \in Items \ Missing(published') : published'.got[i] \in seen.was[i]]_vars
  <2>1. SUFFICES ASSUME Types, Honest, [Next]_vars, published' # published
                 PROVE  \A i \in Items \ Missing(published') : published'.got[i] \in seen.was[i]
    OBVIOUS
  <2>2. \A i \in Items \ Missing(published)' : published'.got[i] \in seen.was[i]
    BY <2>1, HonestShows
  <2> QED
    BY <2>2 DEF Missing
<1> QED
  BY <1>2, <1>3, <1>4, TypesAlways, PTL DEF Spec, SnapshotOfItsCycle

-----------------------------------------------------------------------------
(* What is missing is named. A message is still to be asked for, was read,   *)
(* or is among the errors; the poll of MON-VER, which decides on the rest,   *)
(* is the first.                                                             *)

Known(s) == s.got["MON-VER"] \notin {NoValue, "unknown"}
Owing(s) == Items \ (ConfigItems \cup (IF Known(s) THEN {} ELSE {"SVIN"}))

Explained ==
  phase = "asking" /\ prog = "monitor" =>
    \/ left = <<"MON-VER">> /\ snap = Empty
    \/ /\ "MON-VER" \notin Elements(left)
       /\ \A i \in Owing(snap) : snap.got[i] # NoValue \/ i \in snap.errs \/ i \in Elements(left)

LEMMA LeftTail ==
  ASSUME left \in Seq(Items), left # <<>>
  PROVE  /\ Elements(left) = {Head(left)} \cup Elements(Tail(left))
         /\ Elements(<<"MON-VER">>) = {"MON-VER"}
<1>1. AnySeq(left)
  BY DEF AnySeq
<1>2. Elements(left) = {Head(left)} \cup Elements(Tail(left))
  BY <1>1, ElementsTail
<1>3. Elements(<<"MON-VER">>) = {"MON-VER"}
  BY ElementsOne
<1> QED
  BY <1>2, <1>3

\* What is polled covers what is owed.
LEMMA PollsCover ==
  ASSUME prog = "monitor", NEW gen
  PROVE  /\ "MON-VER" \notin Elements(Polls(gen)) /\ Status \subseteq Elements(Polls(gen))
         /\ gen # "unknown" => Items \ {"MON-VER"} \subseteq Elements(Polls(gen))
<1> DEFINE all  == <<"TMODE", "NAV5", "TP5", "MON-HW", "NAV-CLOCK", "NAV-DOP", "SVIN">>
           some == <<"MON-HW", "NAV-CLOCK", "NAV-DOP">>
<1>1. Elements(all) = {all[i] : i \in 1..7}
  BY DEF Elements
<1>2. Elements(some) = {some[i] : i \in 1..3}
  BY DEF Elements
<1>3. Elements(all) = Items \ {"MON-VER"}
  <2>1. Elements(all) \subseteq Items \ {"MON-VER"}
    <3>1. \A i \in 1..7 : all[i] \in Items \ {"MON-VER"}
      BY DEF Items, ConfigItems, Status
    <3> QED
      BY <1>1, <3>1
  <2>2. /\ all[1] = "TMODE" /\ all[2] = "NAV5" /\ all[3] = "TP5" /\ all[4] = "MON-HW"
        /\ all[5] = "NAV-CLOCK" /\ all[6] = "NAV-DOP" /\ all[7] = "SVIN"
    OBVIOUS
  <2> HIDE DEF all
  <2>3. {"TMODE", "NAV5", "TP5", "MON-HW", "NAV-CLOCK", "NAV-DOP", "SVIN"} \subseteq Elements(all)
    BY <1>1, <2>2
  <2> QED
    BY <2>1, <2>3 DEF Items, ConfigItems, Status
<1>4. Elements(some) = Status
  <2>1. some[1] = "MON-HW" /\ some[2] = "NAV-CLOCK" /\ some[3] = "NAV-DOP"
    OBVIOUS
  <2>2. \A i \in 1..3 : i = 1 \/ i = 2 \/ i = 3
    OBVIOUS
  <2> HIDE DEF some
  <2> QED
    BY <1>2, <2>1, <2>2 DEF Status
<1> HIDE DEF all, some
<1>5. CASE gen = "unknown"
  <2>1. prog \in {"monitor", "status"}
    OBVIOUS
  <2>2. Polls(gen) = some
    BY <1>5, <2>1, PollsAre DEF some
  <2>3. Elements(Polls(gen)) = Status
    BY <1>4, <2>2, Zenon
  <2> QED
    BY <1>5, <2>3 DEF Status
<1>6. CASE gen # "unknown"
  <2>1. prog \in {"monitor", "status"}
    OBVIOUS
  <2>2. Polls(gen) = all
    BY <1>6, <2>1, PollsAre DEF all
  <2>3. Elements(Polls(gen)) = Items \ {"MON-VER"}
    BY <1>3, <2>2, Zenon
  <2> QED
    BY <2>3 DEF Status, Items
<1> QED
  BY <1>5, <1>6

\* The answer to a poll in the monitor's snapshot.
Notes(s, item) ==
  /\ item \in Items /\ Shaped(s)
  /\ \A i \in Items \ {item} : s.got[i] = snap.got[i]
  /\ Whole => s.got[item] = ex.val /\ s.got[item] # NoValue
  /\ s.got[item] = NoValue => snap.got[item] = NoValue
  /\ ~Whole /\ item # "TMODE" => s.got[item] = snap.got[item]
  /\ snap.errs \subseteq s.errs
  /\ ~Whole /\ item \notin ConfigItems => item \in s.errs

LEMMA Noted ==
  ASSUME Types, prog = "monitor", Identify \/ Collect,
         NEW item, item = ex.item, NEW s, s = snap'
  PROVE  Notes(s, item)
<1>1. PICK length \in Lengths : item \in Items /\ s = Reading(item, length) /\ Shaped(snap)
  BY AnsweredStep DEF Types, ShapeInv
<1>2. NotesOf(s, item, length)
  BY <1>1, ReadingIs
<1>3. Unreported = ConfigItems
  BY DEF Unreported
<1>4. Ok(length) => ex.val # NoValue
  <2>1. Ok(length) => ex.val \in Values(item)
    BY OkIs DEF Types, Asking
  <2> QED
    BY <1>1, <2>1, MonitorAssumption, Zenon
<1>5. (Whole => Ok(length)) /\ (Ok(length) /\ ~Whole => item = "TMODE" /\ item \in ConfigItems)
  BY OkIs DEF ConfigItems
<1> QED
  BY <1>1, <1>2, <1>3, <1>4, <1>5 DEF Notes, NotesOf

LEMMA ExplainedInit == Init => Explained
  BY DEF Init, Explained

LEMMA ExplainedStep == Types /\ Explained /\ [Next]_vars => Explained'
<1> SUFFICES ASSUME Types, Explained, [Next]_vars PROVE Explained'
  OBVIOUS
<1>1. CASE UNCHANGED <<phase, prog, left, snap>>
  BY <1>1 DEF Explained, Owing, Known
<1>2. CASE UNCHANGED vars \/ World \/ (Exchange /\ UNCHANGED monVars) \/ Expire \/ Begin
  BY <1>1, <1>2 DEF vars, World, Expire, Begin, monVars
<1>3. CASE Start \/ Cycle
  <2>1. PICK next \in {"probing", "dialing"} : Connect(next)
    BY <1>3, Zenon DEF Start, Cycle
  <2>2. phase' # "asking"
    BY <2>1 DEF Connect
  <2> QED
    BY <2>2 DEF Explained
<1>4. CASE Probe
  <2>1. phase' # "asking"
    BY <1>4 DEF Probe
  <2> QED
    BY <2>1 DEF Explained
<1>5. CASE Open
  <2>1. phase = "dialing" /\ snap' = snap /\ (phase' = "asking" => left' = <<"MON-VER">>)
    BY <1>5, OpenStep DEF Types
  <2> QED
    BY <2>1 DEF Explained, Types, Asking
<1>6. CASE Publish
  <2>1. phase' # "asking"
    BY <1>6, PublishStep DEF Types
  <2> QED
    BY <2>1 DEF Explained
<1>7. CASE Identify \/ Collect
  <2>1. SUFFICES ASSUME prog = "monitor"
                 PROVE  \/ left' = <<"MON-VER">> /\ snap' = Empty
                        \/ /\ "MON-VER" \notin Elements(left')
                           /\ \A i \in Owing(snap)' :
                                snap'.got[i] # NoValue \/ i \in snap'.errs \/ i \in Elements(left')
    <3>1. prog' = prog
      BY <1>7, AnsweredStep
    <3> QED
      BY <2>1, <3>1 DEF Explained
  <2>2. PICK item : item = ex.item
    OBVIOUS
  <2>3. PICK s : s = snap'
    OBVIOUS
  <2>4. /\ item \in Items /\ Shaped(s)
        /\ \A i \in Items \ {item} : s.got[i] = snap.got[i]
        /\ Whole => s.got[item] = ex.val /\ s.got[item] # NoValue
        /\ s.got[item] = NoValue => snap.got[item] = NoValue
        /\ ~Whole /\ item # "TMODE" => s.got[item] = snap.got[item]
        /\ snap.errs \subseteq s.errs
        /\ ~Whole /\ item \notin ConfigItems => item \in s.errs
    <3>1. Notes(s, item)
      BY <1>7, <2>1, <2>2, <2>3, Noted
    <3> QED
      BY <3>1 DEF Notes
  <2>5. /\ left # <<>> /\ item = Head(left) /\ left \in Seq(Items) /\ phase = "asking"
        /\ \/ item # "MON-VER" /\ left' = Tail(left)
           \/ item = "MON-VER" /\ left' = Polls(IF Whole THEN ex.val ELSE "unknown")
    BY <1>7, <2>1, <2>2, AnsweredStep DEF Types, Asking
  <2>6. /\ Elements(left) = {item} \cup Elements(Tail(left)) /\ Elements(<<"MON-VER">>) = {"MON-VER"}
    BY <2>5, LeftTail
  <2>7. CASE item # "MON-VER"
    <3>1. /\ "MON-VER" \notin Elements(left)
          /\ \A i \in Owing(snap) : snap.got[i] # NoValue \/ i \in snap.errs \/ i \in Elements(left)
      <4>1. left # <<"MON-VER">>
        BY <2>5, <2>7
      <4> QED
        BY <2>1, <2>5, <4>1 DEF Explained
    <3>2. Owing(s) = Owing(snap)
      <4>1. "MON-VER" \in Items
        BY DEF Items
      <4> QED
        BY <2>4, <2>7, <4>1 DEF Owing, Known
    <3>3. Elements(left') = Elements(Tail(left))
      BY <2>5, <2>7
    <3>4. \A i \in Owing(s) : s.got[i] # NoValue \/ i \in s.errs \/ i \in Elements(left')
      <4>1. SUFFICES ASSUME NEW i \in Owing(s)
                     PROVE  s.got[i] # NoValue \/ i \in s.errs \/ i \in Elements(left')
        OBVIOUS
      <4>2. i \in Items /\ i \notin ConfigItems
        BY DEF Owing
      <4>3. CASE i = item
        BY <2>4, <4>2, <4>3
      <4>4. CASE i # item
        BY <2>4, <2>6, <3>1, <3>2, <3>3, <4>2, <4>4
      <4> QED
        BY <4>3, <4>4
    <3>5. Owing(snap)' = Owing(s)
      BY <2>3 DEF Owing, Known
    <3> QED
      BY <2>3, <2>6, <3>1, <3>3, <3>4, <3>5
  <2>8. CASE item = "MON-VER"
    <3>1. snap = Empty
      BY <2>1, <2>5, <2>6, <2>8 DEF Explained
    <3>2. PICK gen : gen = IF Whole THEN ex.val ELSE "unknown"
      OBVIOUS
    <3>3. left' = Polls(gen)
      <4>1. left' = Polls(IF Whole THEN ex.val ELSE "unknown")
        BY <2>5, <2>8
      <4> QED
        BY <3>2, <4>1, Zenon
    <3>4. /\ "MON-VER" \notin Elements(Polls(gen)) /\ Status \subseteq Elements(Polls(gen))
          /\ gen # "unknown" => Items \ {"MON-VER"} \subseteq Elements(Polls(gen))
      BY <2>1, PollsCover, Zenon
    <3>5. Elements(left') = Elements(Polls(gen))
      BY <3>3
    <3>6. Known(s) => gen # "unknown"
      BY <2>4, <2>8, <3>1, <3>2, EmptyShaped DEF Known
    <3>7. s.got["MON-VER"] # NoValue \/ "MON-VER" \in s.errs
      BY <2>4, <2>8 DEF ConfigItems
    <3>8. \A i \in Owing(s) : i = "MON-VER" \/ i \in Elements(left')
      BY <3>4, <3>5, <3>6 DEF Owing, Items
    <3>9. Owing(snap)' = Owing(s)
      BY <2>3 DEF Owing, Known
    <3> QED
      BY <2>3, <3>4, <3>5, <3>7, <3>8, <3>9
  <2> QED
    BY <2>7, <2>8
<1> QED
  BY <1>2, <1>3, <1>4, <1>5, <1>6, <1>7 DEF Next, Work, Program

-----------------------------------------------------------------------------
(* What is missing is paid for. As long as no error was observed the session *)
(* is in order, so that a poll that was sent is served or its frame is on    *)
(* the way, or the connection has ended; and the items that were hit are no  *)
(* more than the faults spent.                                               *)

Session ==
  phase \in {"dialing", "asking"} /\ terr = "none" =>
    /\ reader = "loop" /\ ~closed
    /\ gpsd \in {"connected", "greeted", "gone"}
    /\ gpsd = "connected" => stream = <<>> /\ ~ready
    /\ gpsd = "gone" => Ended
    /\ phase = "asking" => ready /\ sub = "open"

LEMMA SessionInit == Init => Session
  BY DEF Init, Session

\* Steps at which the session is left as it is.
LEMMA SessionKept ==
  ASSUME Session, UNCHANGED <<stream, reader, terr, ready, closed, sub, gpsd>>,
         phase' = phase \/ phase' \notin {"dialing", "asking"}
  PROVE  Session'
<1>1. Ended => Ended'
  BY DEF Ended
<1> QED
  BY <1>1 DEF Session

LEMMA SessionStep == Types /\ Session /\ [Next]_vars => Session'
<1> SUFFICES ASSUME Types, Session, [Next]_vars PROVE Session'
  OBVIOUS
<1>1. CASE UNCHANGED vars \/ Begin \/ Expire
  <2>1. UNCHANGED <<stream, reader, terr, ready, closed, sub, gpsd, phase>>
    BY <1>1 DEF vars, Begin, Expire, clientVars, linkVars, monVars
  <2> QED
    BY <2>1, SessionKept
<1>2. CASE ReadLoop /\ UNCHANGED <<linkVars, ex, ctxVars, monVars>>
  <2>1. UNCHANGED <<gpsd, phase>>
    BY <1>2 DEF linkVars, monVars
  <2>2. /\ terr' = "none" => terr = "none"
        /\ ReaderRuns /\ terr' = "none" =>
             stream # <<>> /\ ReaderRuns' /\ sub' = sub /\ (ready => ready') /\ (Ended => Ended')
    BY <1>2, ReaderStep DEF Types, LineTypes
  <2>3. SUFFICES ASSUME phase \in {"dialing", "asking"}, terr' = "none"
                 PROVE  /\ reader' = "loop" /\ ~closed'
                        /\ gpsd' \in {"connected", "greeted", "gone"}
                        /\ gpsd' = "connected" => stream' = <<>> /\ ~ready'
                        /\ gpsd' = "gone" => Ended'
                        /\ phase' = "asking" => ready' /\ sub' = "open"
    BY <2>1 DEF Session
  <2>4. ReaderRuns
    BY <2>2, <2>3 DEF Session, ReaderRuns
  <2> QED
    BY <2>1, <2>2, <2>3, <2>4 DEF Session, ReaderRuns
<1>3. CASE (Environment \/ Report \/ OtherWrites) /\ UNCHANGED monVars
  <2>1. UNCHANGED <<phase, reader, terr, ready, closed, sub>>
    BY <1>3, EnvironmentStep DEF Types, LineStep, monVars
  <2>2. /\ Ended => Ended'
        /\ gpsd' = gpsd \/ (gpsd = "connected" /\ gpsd' = "greeted") \/ (gpsd' = "gone" /\ Ended')
        /\ gpsd' = "connected" => stream' = stream
    BY <1>3, EnvironmentStep DEF Types, LineStep
  <2> QED
    BY <2>1, <2>2 DEF Session
<1>4. CASE Exchange /\ UNCHANGED monVars
  <2>1. UNCHANGED <<stream, reader, terr, ready, closed, sub, gpsd>>
    BY <1>4 DEF Exchange, SendUBX, DrainAndSend, WaitFrame, TakeFrame, WaitClosed, WaitContext,
                WaitDeadline, clientVars, linkVars
  <2>2. phase' = phase
    BY <1>4 DEF monVars
  <2> QED
    BY <2>1, <2>2, SessionKept
<1>5. CASE Start \/ Cycle
  <2>1. PICK next \in {"probing", "dialing"} : Connect(next)
    BY <1>5, Zenon DEF Start, Cycle
  <2>2. /\ phase' = next /\ stream' = <<>> /\ gpsd' = "connected" /\ reader' = "loop"
        /\ ~ready' /\ ~closed'
    BY <2>1, ConnectStep
  <2> QED
    BY <2>2 DEF Session
<1>6. CASE Probe
  <2>1. phase' \notin {"dialing", "asking"}
    BY <1>6 DEF Probe
  <2> QED
    BY <2>1 DEF Session
<1>7. CASE Open
  <2>1. /\ phase = "dialing" /\ UNCHANGED <<stream, gpsd, reader, terr, ready>>
        /\ \/ phase' = "asking" /\ ready /\ closed' = closed /\ sub' = "open"
           \/ phase' \in {"idle", "done"}
    BY <1>7, OpenStep DEF Types
  <2>2. Ended => Ended'
    BY <2>1 DEF Ended
  <2> QED
    BY <2>1, <2>2 DEF Session
<1>8. CASE Identify \/ Collect
  <2>1. /\ phase = "asking" /\ UNCHANGED <<stream, gpsd, terr, ready, reader, sub>>
        /\ (phase' = "asking" /\ closed' = closed) \/ phase' = "done"
    BY <1>8, AnsweredStep
  <2>2. Ended => Ended'
    BY <2>1 DEF Ended
  <2> QED
    BY <2>1, <2>2 DEF Session
<1>9. CASE Publish
  <2>1. phase' \notin {"dialing", "asking"}
    BY <1>9, PublishStep DEF Types
  <2> QED
    BY <2>1 DEF Session
<1> QED
  BY <1>1, <1>2, <1>3, <1>4, <1>5, <1>6, <1>7, <1>8, <1>9 DEF Next, World, Work, Program

-----------------------------------------------------------------------------
(* The items that were hit.                                                  *)

Coming(item) == Polled(item) \/ Answering(item) \/ Ended

Charges(C) ==
  /\ \A f \in OnItsWay : f.kind = "data" /\ f.short => f.item \in C
  /\ ex.stage # "gone"
  /\ ex.stage = "late" => ex.item \in C
  /\ ex.stage = "ok" /\ ex.short => ex.item \in C
  /\ ex.stage = "wait" => ex.item \in C \/ Coming(ex.item)
  /\ Known(snap) => Missing(snap) \ Elements(left) \subseteq C

Paid ==
  phase \in {"dialing", "asking"} /\ prog = "monitor" /\ terr = "none" =>
    \E C \in SUBSET Items : Cardinality(C) <= seen.faults - budget.faults /\ Charges(C)

LEMMA ItemsFinite == IsFiniteSet(Items)
<1>1. /\ IsFiniteSet({"MON-VER", "SVIN"}) /\ IsFiniteSet({"TMODE", "NAV5", "TP5"})
      /\ IsFiniteSet({"MON-HW", "NAV-CLOCK", "NAV-DOP"})
  <2>1. ASSUME NEW a, NEW b, NEW c PROVE IsFiniteSet({a, b, c})
    <3>1. IsFiniteSet({a})
      BY FS_Singleton
    <3>2. IsFiniteSet({a} \cup {b})
      BY <3>1, FS_AddElement
    <3>3. IsFiniteSet(({a} \cup {b}) \cup {c})
      BY <3>2, FS_AddElement
    <3>4. ({a} \cup {b}) \cup {c} = {a, b, c}
      OBVIOUS
    <3> QED
      BY <3>3, <3>4
  <2>2. {"MON-VER", "SVIN"} = {"MON-VER", "SVIN", "SVIN"}
    OBVIOUS
  <2> QED
    BY <2>1, <2>2
<1>2. IsFiniteSet({"MON-VER", "SVIN"} \cup {"TMODE", "NAV5", "TP5"})
  BY <1>1, FS_Union
<1>3. IsFiniteSet(({"MON-VER", "SVIN"} \cup {"TMODE", "NAV5", "TP5"}) \cup {"MON-HW", "NAV-CLOCK", "NAV-DOP"})
  BY <1>1, <1>2, FS_Union
<1> QED
  BY <1>3 DEF Items, ConfigItems, Status

LEMMA CountItems ==
  ASSUME NEW C \in SUBSET Items
  PROVE  /\ Cardinality(C) \in Nat
         /\ \A D \in SUBSET C : Cardinality(D) <= Cardinality(C)
         /\ \A j : Cardinality(C \cup {j}) <= Cardinality(C) + 1
<1>1. IsFiniteSet(C)
  BY ItemsFinite, FS_Subset
<1>2. Cardinality(C) \in Nat
  BY <1>1, FS_CardinalityType
<1>3. \A D \in SUBSET C : Cardinality(D) <= Cardinality(C)
  BY <1>1, FS_Subset
<1>4. ASSUME NEW j PROVE Cardinality(C \cup {j}) <= Cardinality(C) + 1
  <2>1. Cardinality(C \cup {j}) = IF j \in C THEN Cardinality(C) ELSE Cardinality(C) + 1
    BY <1>1, FS_AddElement
  <2> QED
    BY <1>2, <2>1
<1> QED
  BY <1>2, <1>3, <1>4

\* Steps without a fault, and steps that spend one on an item.
LEMMA StillPaid ==
  ASSUME Types, phase = "dialing" \/ phase' # "dialing", See, NEW C \in SUBSET Items,
         Cardinality(C) <= seen.faults - budget.faults, budget' = budget, Charges(C)'
  PROVE  Paid'
<1>1. seen'.faults = seen.faults
  BY SeeKeeps DEF Types, Asking
<1> QED
  BY <1>1 DEF Paid

LEMMA PaidNow ==
  ASSUME Types, LineTypes', phase = "dialing" \/ phase' # "dialing", See,
         NEW C \in SUBSET Items, NEW j \in Items,
         Cardinality(C) <= seen.faults - budget.faults,
         budget'.faults < budget.faults, Charges(C \cup {j})'
  PROVE  Paid'
<1>1. seen'.faults = seen.faults /\ seen.faults \in Nat
  <2>1. SeenTypes
    BY DEF Types, Asking
  <2>2. seen.faults \in Nat
    BY <2>1 DEF SeenTypes
  <2> QED
    BY <2>1, <2>2, SeeKeeps
<1>2. budget.faults \in Nat /\ budget'.faults \in Nat
  BY DEF Types, LineTypes
<1>3. Cardinality(C) \in Nat /\ Cardinality(C \cup {j}) <= Cardinality(C) + 1
  BY CountItems
<1>4. C \cup {j} \in SUBSET Items /\ Cardinality(C \cup {j}) \in Nat
  <2>1. C \cup {j} \in SUBSET Items
    OBVIOUS
  <2> QED
    BY <2>1, CountItems
<1>5. Cardinality(C \cup {j}) <= seen'.faults - budget'.faults
  BY <1>1, <1>2, <1>3, <1>4
<1> QED
  BY <1>4, <1>5 DEF Paid

\* The steps that leave the snapshot alone, and what they do to the exchange.
LEMMA EnvironmentPaid ==
  ASSUME Types, Session, Paid, See, phase = "asking" \/ phase = "dialing", prog = "monitor", terr = "none",
         Environment \/ Report \/ OtherWrites, UNCHANGED monVars
  PROVE  Paid'
<1>1. LineTypes' /\ LineStep
  BY EnvironmentStep DEF Types
<1>2. PICK C \in SUBSET Items : Cardinality(C) <= seen.faults - budget.faults /\ Charges(C)
  BY DEF Paid
<1>3. PICK j \in Items : \A item \in Items :
        item # j \/ budget'.faults = budget.faults => ServesAll(item)
  BY <1>1 DEF LineStep
<1>4. UNCHANGED <<phase, snap, left, prog, ex, terr>>
  BY <1>1 DEF monVars, LineStep
<1>5. /\ OnItsWay \subseteq OnItsWay' /\ (Ended => Ended')
      /\ budget'.faults <= budget.faults
  BY <1>1 DEF LineStep
<1>6. budget.faults \in Nat /\ budget'.faults \in Nat
  BY <1>1 DEF Types, LineTypes
<1>7. ASSUME NEW D \in SUBSET Items, C \subseteq D, budget'.faults = budget.faults \/ j \in D
      PROVE  Charges(D)'
  <2>1. \A f \in OnItsWay' : f.kind = "data" /\ f.short => f.item \in D
    <3>1. SUFFICES ASSUME NEW f \in OnItsWay', f.kind = "data", f.short PROVE f.item \in D
      OBVIOUS
    <3>2. CASE f \in OnItsWay
      BY <1>2, <1>7, <3>1, <3>2 DEF Charges
    <3>3. CASE f \notin OnItsWay /\ f.item # j
      <4>1. f.item \in Items
        BY <1>1, <3>1 DEF LineTypes, FramesTyped
      <4>2. ServesAll(f.item)
        BY <1>3, <3>3, <4>1
      <4> QED
        BY <3>1, <3>3, <4>2 DEF ServesAll
    <3>4. CASE f \notin OnItsWay /\ f.item = j
      <4>1. CASE budget'.faults = budget.faults
        <5>1. ServesAll(f.item)
          BY <1>3, <3>4, <4>1
        <5> QED
          BY <3>1, <3>4, <5>1 DEF ServesAll
      <4> QED
        BY <1>7, <3>4, <4>1
    <3> QED
      BY <3>2, <3>3, <3>4
  <2>2. ex'.stage = "wait" => ex'.item \in D \/ Coming(ex.item)'
    <3>1. SUFFICES ASSUME ex.stage = "wait", ex.item \notin D PROVE Coming(ex.item)'
      BY <1>4
    <3>2. PICK item : item = ex.item
      OBVIOUS
    <3>3. item \in Items /\ phase = "asking"
      BY <3>1, <3>2 DEF Types, Asking
    <3>4. Polled(item) \/ Answering(item) \/ Ended
      BY <1>2, <1>7, <3>1, <3>2 DEF Charges, Coming
    <3>5. ServesAll(item)
      BY <1>3, <1>7, <3>1, <3>2, <3>3
    <3>6. gpsd = "greeted" \/ Ended
      BY <3>3 DEF Session
    <3>7. Polled(item)' \/ Answering(item)' \/ Ended'
      <4>1. Answering(item) => Answering(item)'
        BY <1>5 DEF Answering
      <4> QED
        BY <1>5, <3>4, <3>5, <3>6, <4>1 DEF ServesAll
    <3>8. ex.item' = item
      BY <1>4, <3>2
    <3> QED
      BY <3>7, <3>8 DEF Coming, Polled, Answering
  <2>3. Known(snap') => Missing(snap') \ Elements(left') \subseteq D
    BY <1>2, <1>4, <1>7 DEF Charges
  <2> QED
    BY <1>2, <1>4, <1>7, <2>1, <2>2, <2>3 DEF Charges, Coming, Known, Missing
<1>8. CASE budget'.faults = budget.faults
  <2>1. Charges(C)'
    BY <1>7, <1>8
  <2>2. seen'.faults = seen.faults
    BY <1>4, SeeKeeps DEF Types, Asking
  <2> QED
    BY <1>2, <1>8, <2>1, <2>2 DEF Paid
<1>9. CASE budget'.faults < budget.faults
  <2>1. Charges(C \cup {j})'
    BY <1>7
  <2> QED
    BY <1>1, <1>2, <1>4, <1>9, <2>1, PaidNow
<1> QED
  BY <1>5, <1>6, <1>8, <1>9

LEMMA ReaderPaid ==
  ASSUME Types, Session, Paid, See, phase = "asking" \/ phase = "dialing", prog = "monitor",
         terr' = "none", Len(incoming) < QCap,
         ReadLoop, UNCHANGED <<linkVars, ex, ctxVars, monVars>>
  PROVE  Paid'
<1>1. UNCHANGED <<requests, budget, ex, phase, snap, left, prog>>
  BY DEF linkVars, monVars
<1>2. /\ terr = "none" /\ OnItsWay' \subseteq OnItsWay
      /\ ReaderRuns => /\ Ended => Ended'
                       /\ sub = "open" /\ Len(incoming) < QCap => OnItsWay \subseteq OnItsWay'
  BY ReaderStep DEF Types, LineTypes
<1>3. ReaderRuns /\ (phase = "asking" => sub = "open")
  BY <1>2 DEF Session, ReaderRuns
<1>4. PICK C \in SUBSET Items : Cardinality(C) <= seen.faults - budget.faults /\ Charges(C)
  BY <1>2 DEF Paid
<1>5. ex'.stage = "wait" => ex'.item \in C \/ Coming(ex.item)'
  <2>1. SUFFICES ASSUME ex.stage = "wait", ex.item \notin C PROVE Coming(ex.item)'
    BY <1>1
  <2>2. PICK item : item = ex.item
    OBVIOUS
  <2>3. phase = "asking"
    BY <2>1 DEF Types, Asking
  <2>4. Polled(item) \/ Answering(item) \/ Ended
    BY <1>4, <2>1, <2>2 DEF Charges, Coming
  <2>5. OnItsWay \subseteq OnItsWay' /\ (Ended => Ended')
    BY <1>2, <1>3, <2>3
  <2>6. Polled(item) => Polled(item)'
    BY <1>1 DEF Polled
  <2>7. Answering(item) => Answering(item)'
    BY <2>5 DEF Answering
  <2>8. ex.item' = item
    BY <1>1, <2>2
  <2> QED
    BY <2>4, <2>5, <2>6, <2>7, <2>8 DEF Coming, Polled, Answering
<1>6. \A f \in OnItsWay' : f.kind = "data" /\ f.short => f.item \in C
  BY <1>2, <1>4 DEF Charges
<1>7. Charges(C)'
  BY <1>1, <1>4, <1>5, <1>6 DEF Charges, Known, Missing
<1> QED
  BY <1>1, <1>4, <1>7, StillPaid

\* The charges when the exchange is at none of the stages that are charged.
LEMMA ChargesKept ==
  ASSUME NEW C, Charges(C), OnItsWay' \subseteq OnItsWay, snap' = snap, left' = left,
         \/ ex'.stage \in {"idle", "send"}
         \/ ex'.stage = "ok" /\ (ex'.short => ex'.item \in C)
         \/ ex'.stage = "late" /\ ex'.item \in C
         \/ ex'.stage = "wait" /\ (ex'.item \in C \/ Coming(ex.item)')
  PROVE  Charges(C)'
<1>1. \A f \in OnItsWay' : f.kind = "data" /\ f.short => f.item \in C
  BY DEF Charges
<1>2. /\ ex'.stage # "gone"
      /\ ex'.stage = "late" => ex'.item \in C
      /\ ex'.stage = "ok" /\ ex'.short => ex'.item \in C
      /\ ex'.stage = "wait" => ex'.item \in C \/ Coming(ex.item)'
  OBVIOUS
<1>3. Known(snap)' => Missing(snap)' \ Elements(left)' \subseteq C
  BY DEF Charges, Known, Missing
<1> QED
  BY <1>1, <1>2, <1>3, Zenon DEF Charges

LEMMA ExchangePaid ==
  ASSUME Types, Types', Session, Paid, See, phase = "asking", prog = "monitor", terr = "none",
         Exchange, UNCHANGED monVars
  PROVE  Paid'
<1>1. UNCHANGED <<phase, snap, left, prog>>
  BY DEF monVars
<1>2. PICK C \in SUBSET Items : Cardinality(C) <= seen.faults - budget.faults /\ Charges(C)
  BY DEF Paid
<1>3. ~closed /\ sub = "open" /\ (gpsd = "gone" => Ended) /\ cancelled = FALSE /\ expired = FALSE
  BY DEF Session, Types, Asking
<1>4. CASE SendUBX
  <2>1. /\ OnItsWay' \subseteq OnItsWay /\ UNCHANGED <<stream, budget>>
        /\ ex' = [ex EXCEPT !.stage = "wait"] /\ (gpsd # "gone" => Polled(ex.item)')
    BY <1>3, <1>4, AskStep DEF Types
  <2>2. ex'.stage = "wait"
    BY <2>1, Moved DEF Types, Asking
  <2>3. Coming(ex.item)'
    <3>1. Ended => Ended'
      BY <2>1 DEF Ended
    <3> QED
      BY <1>3, <2>1, <3>1 DEF Coming
  <2>4. Charges(C)'
    BY <1>1, <1>2, <2>1, <2>2, <2>3, ChargesKept
  <2> QED
    BY <1>1, <1>2, <2>1, <2>4, StillPaid
<1>5. CASE WaitFrame
  <2>1. OnItsWay' \subseteq OnItsWay /\ UNCHANGED <<stream, requests, budget>> /\ ex.stage = "wait"
    BY <1>5, FrameStep DEF Types
  <2>2. PICK f \in OnItsWay :
          /\ OnItsWay \subseteq OnItsWay' \cup {f}
          /\ \/ /\ f.kind = "data" /\ f.item = ex.item
                /\ ex' = [ex EXCEPT !.stage = "ok", !.val = f.val, !.short = f.short]
             \/ ~(f.kind = "data" /\ f.item = ex.item) /\ ex' = ex
    BY <1>5, FrameStep DEF Types
  <2>3. CASE /\ f.kind = "data" /\ f.item = ex.item
             /\ ex' = [ex EXCEPT !.stage = "ok", !.val = f.val, !.short = f.short]
    <3>1. ex'.stage = "ok" /\ ex'.short = f.short /\ ex'.item = ex.item
      BY <2>3 DEF Types, Asking, ExFields
    <3>2. f.short => f.item \in C
      BY <1>2, <2>3 DEF Charges
    <3>3. ex'.stage = "ok" /\ (ex'.short => ex'.item \in C)
      BY <2>3, <3>1, <3>2
    <3>4. Charges(C)'
      BY <1>1, <1>2, <2>1, <3>3, ChargesKept
    <3> QED
      BY <1>1, <1>2, <2>1, <3>4, StillPaid
  <2>4. CASE ~(f.kind = "data" /\ f.item = ex.item) /\ ex' = ex
    <3>1. PICK item : item = ex.item
      OBVIOUS
    <3>2. item \in C \/ Polled(item) \/ Answering(item) \/ Ended
      BY <1>2, <2>1, <3>1 DEF Charges, Coming
    <3>3. Polled(item) => Polled(item)'
      BY <2>1 DEF Polled
    <3>4. Answering(item) => Answering(item)'
      BY <2>2, <2>4, <3>1 DEF Answering
    <3>5. Ended => Ended'
      BY <2>1 DEF Ended
    <3>6. ex.item' = item
      BY <2>4, <3>1
    <3>7. ex'.stage = "wait" /\ (ex'.item \in C \/ Coming(ex.item)')
      BY <2>1, <2>4, <3>2, <3>3, <3>4, <3>5, <3>6 DEF Coming, Polled, Answering
    <3>8. Charges(C)'
      BY <1>1, <1>2, <2>1, <3>7, ChargesKept
    <3> QED
      BY <1>1, <1>2, <2>1, <3>8, StillPaid
  <2> QED
    BY <2>2, <2>3, <2>4
<1>6. ~WaitClosed /\ ~WaitContext
  BY <1>3 DEF WaitClosed, WaitContext
<1>7. CASE WaitDeadline
  <2>1. /\ ex.stage = "wait" /\ ex' = [ex EXCEPT !.stage = "late"]
        /\ UNCHANGED <<clientVars, requests, receiver>>
        /\ IF Silence THEN budget' = budget ELSE Spend
    BY <1>7 DEF WaitDeadline
  <2>2. OnItsWay' = OnItsWay
    BY <2>1, SameLine DEF Types, clientVars
  <2>3. ex'.stage = "late" /\ ex'.item = ex.item
    BY <2>1, Moved DEF Types, Asking
  <2>4. CASE Silence
    <3>1. requests = <<>> /\ stream = <<>> /\ incoming = <<>>
      BY <2>4 DEF Silence
    <3>2. Elements(requests) = {} /\ Elements(stream) = {} /\ OnItsWay = {}
      BY <3>1, ElementsEmpty DEF OnItsWay
    <3>3. ~Coming(ex.item)
      BY <3>2 DEF Coming, Polled, Answering, Ended
    <3>4. ex'.stage = "late" /\ ex'.item \in C
      BY <1>2, <2>1, <2>3, <3>3 DEF Charges
    <3>5. Charges(C)'
      BY <1>1, <1>2, <2>2, <3>4, ChargesKept
    <3> QED
      BY <1>1, <1>2, <2>1, <2>4, <3>5, StillPaid
  <2>5. CASE ~Silence
    <3>1. PICK j : j = ex.item
      OBVIOUS
    <3>2. j \in Items
      BY <2>1, <3>1 DEF Types, Asking
    <3>3. PICK D : D = C \cup {j}
      OBVIOUS
    <3>4. Charges(D)
      BY <1>2, <3>3 DEF Charges
    <3>5. ex'.stage = "late" /\ ex'.item \in D
      BY <2>3, <3>1, <3>3
    <3>6. Charges(D)'
      BY <1>1, <2>2, <3>4, <3>5, ChargesKept
    <3>7. budget'.faults < budget.faults
      BY <2>1, <2>5, SpendTypes DEF Types, LineTypes
    <3>8. Charges(C \cup {j})'
      BY <3>3, <3>6
    <3>9. LineTypes'
      BY DEF Types
    <3> QED
      BY <1>1, <1>2, <3>2, <3>7, <3>8, <3>9, PaidNow
  <2> QED
    BY <2>4, <2>5
<1> QED
  BY <1>4, <1>5, <1>6, <1>7 DEF Exchange

LEMMA DialPaid ==
  ASSUME Types, See, Start \/ Cycle
  PROVE  Paid'
<1>1. PICK next \in {"probing", "dialing"} : Connect(next)
  BY Zenon DEF Start, Cycle
<1>2. OnItsWay' = {} /\ ex' = ex /\ phase' = next /\ UNCHANGED budget
  BY <1>1, ConnectStep
<1>3. ex.stage = "idle" /\ phase # "dialing" /\ snap' = Empty
  BY DEF Start, Cycle, Types, Asking
<1>4. budget.faults \in Nat
  BY DEF Types, LineTypes
<1>5. SUFFICES ASSUME phase' = "dialing" PROVE Paid'
  BY <1>2 DEF Paid
<1>6. seen'.faults = budget.faults
  BY <1>3, <1>4, <1>5, SeeStarts
<1>7. ~Known(snap)'
  BY <1>3, EmptyShaped DEF Known, Items
<1>8. Charges({})'
  BY <1>2, <1>3, <1>7 DEF Charges
<1>9. Cardinality({}) <= seen'.faults - budget'.faults /\ {} \in SUBSET Items
  BY <1>2, <1>4, <1>6, FS_EmptySet
<1> QED
  BY <1>8, <1>9 DEF Paid

LEMMA AnsweredPaid ==
  ASSUME Types, Explained, Paid, See, prog = "monitor", terr = "none", Identify \/ Collect
  PROVE  Paid'
<1>1. /\ OnItsWay' = OnItsWay /\ phase = "asking" /\ phase' = "asking" /\ budget' = budget
      /\ ex.stage \in {"ok", "gone", "late"} /\ ex' = Idle
  BY AnsweredStep
<1>2. PICK C \in SUBSET Items : Cardinality(C) <= seen.faults - budget.faults /\ Charges(C)
  BY <1>1 DEF Paid
<1>3. PICK item : item = ex.item
  OBVIOUS
<1>4. PICK s : s = snap'
  OBVIOUS
<1>5. /\ item \in Items /\ Shaped(s)
      /\ \A i \in Items \ {item} : s.got[i] = snap.got[i]
      /\ Whole => s.got[item] = ex.val /\ s.got[item] # NoValue
      /\ s.got[item] = NoValue => snap.got[item] = NoValue
      /\ ~Whole /\ item # "TMODE" => s.got[item] = snap.got[item]
      /\ snap.errs \subseteq s.errs
      /\ ~Whole /\ item \notin ConfigItems => item \in s.errs
  <2>1. Notes(s, item)
    BY <1>3, <1>4, Noted
  <2> QED
    BY <2>1 DEF Notes
<1>6. /\ left # <<>> /\ item = Head(left) /\ left \in Seq(Items)
      /\ \/ item # "MON-VER" /\ left' = Tail(left)
         \/ item = "MON-VER" /\ left' = Polls(IF Whole THEN ex.val ELSE "unknown")
  BY <1>1, <1>3, AnsweredStep DEF Types, Asking
<1>7. /\ Elements(left) = {item} \cup Elements(Tail(left)) /\ Elements(<<"MON-VER">>) = {"MON-VER"}
  BY <1>6, LeftTail
<1>8. ~Whole => item \in C
  BY <1>1, <1>2, <1>3 DEF Charges, Whole
<1>9. Known(s) => Missing(s) \ Elements(left') \subseteq C
  <2>1. CASE item # "MON-VER"
    <3>1. Known(s) = Known(snap)
      <4>1. "MON-VER" \in Items
        BY DEF Items
      <4> QED
        BY <1>5, <2>1, <4>1 DEF Known
    <3>2. Elements(left') = Elements(Tail(left))
      BY <1>6, <2>1
    <3>3. SUFFICES ASSUME Known(s), NEW i \in Missing(s), i \notin Elements(left') PROVE i \in C
      OBVIOUS
    <3>4. CASE i = item
      BY <1>5, <1>8, <3>3, <3>4 DEF Missing
    <3>5. CASE i # item
      <4>1. i \in Missing(snap) /\ i \notin Elements(left)
        BY <1>5, <1>7, <3>2, <3>3, <3>5 DEF Missing
      <4> QED
        BY <1>2, <3>1, <3>3, <4>1 DEF Charges
    <3> QED
      BY <3>4, <3>5
  <2>2. CASE item = "MON-VER"
    <3>1. snap = Empty
      BY <1>1, <1>6, <1>7, <2>2 DEF Explained
    <3>2. PICK gen : gen = IF Whole THEN ex.val ELSE "unknown"
      OBVIOUS
    <3>3. left' = Polls(gen)
      <4>1. left' = Polls(IF Whole THEN ex.val ELSE "unknown")
        BY <1>6, <2>2
      <4> QED
        BY <3>2, <4>1, Zenon
    <3>4. gen # "unknown" => Items \ {"MON-VER"} \subseteq Elements(Polls(gen))
      BY PollsCover, Zenon
    <3>5. Elements(left') = Elements(Polls(gen))
      BY <3>3
    <3>6. Known(s) => gen # "unknown" /\ s.got["MON-VER"] # NoValue
      BY <1>5, <2>2, <3>1, <3>2, EmptyShaped DEF Known
    <3> QED
      BY <3>4, <3>5, <3>6 DEF Missing
  <2> QED
    BY <2>1, <2>2
<1>10. ex'.stage = "idle"
  BY <1>1 DEF Idle
<1>11. Known(snap)' => Missing(snap)' \ Elements(left)' \subseteq C
  BY <1>4, <1>9 DEF Known, Missing
<1>12. \A f \in OnItsWay' : f.kind = "data" /\ f.short => f.item \in C
  BY <1>1, <1>2 DEF Charges
<1>13. Charges(C)'
  <2>1. /\ ex'.stage # "gone" /\ ex'.stage # "late" /\ ex'.stage # "ok" /\ ex'.stage # "wait"
    BY <1>10
  <2> QED
    BY <1>11, <1>12, <2>1, Zenon DEF Charges
<1> QED
  BY <1>1, <1>2, <1>13, StillPaid

LEMMA PaidInit == Init => Paid
  BY DEF Init, Paid

\* A frame that is dropped at a full channel is lost without a fault.
LEMMA PaidStep ==
  ASSUME Types, Session, Explained, Paid, [Next]_vars, Len(incoming) < QCap
  PROVE  Paid'
<1>1. Types'
  BY TypesStep
<1>2. CASE UNCHANGED vars
  <2>1. UNCHANGED <<stream, incoming, requests, budget, ex, phase, prog, terr, snap, left, seen>>
    BY <1>2 DEF vars, clientVars, linkVars, monVars
  <2> QED
    BY <2>1 DEF Paid, Charges, Coming, Polled, Answering, Ended, OnItsWay, Ours, Known, Missing
<1>3. CASE Next
  <2>1. See
    BY <1>3 DEF Next
  <2>2. prog' = prog
    BY <1>3 DEF Next, World, Work, Program, Start, Probe, Cycle, Open, Begin, Identify, Collect,
                Answered, Publish, Expire, monVars
  <2>3. SUFFICES ASSUME prog = "monitor", phase' \in {"dialing", "asking"}, terr' = "none" PROVE Paid'
    BY <2>2 DEF Paid
  <2>4. CASE ReadLoop /\ UNCHANGED <<linkVars, ex, ctxVars, monVars>>
    <3>1. phase' = phase
      BY <2>4 DEF monVars
    <3> QED
      BY <2>1, <2>3, <2>4, <3>1, ReaderPaid
  <2>5. CASE (Environment \/ Report \/ OtherWrites) /\ UNCHANGED monVars
    <3>1. phase' = phase /\ terr' = terr
      BY <2>5, EnvironmentStep DEF monVars, LineStep, Types
    <3> QED
      BY <2>1, <2>3, <2>5, <3>1, EnvironmentPaid
  <2>6. CASE Exchange /\ UNCHANGED monVars
    <3>1. terr' = terr /\ ex.stage # "idle"
      BY <2>6 DEF Exchange, SendUBX, DrainAndSend, WaitFrame, TakeFrame, WaitClosed, WaitContext,
                  WaitDeadline, clientVars
    <3>2. phase = "asking"
      BY <3>1 DEF Types, Asking
    <3> QED
      BY <1>1, <2>1, <2>3, <2>6, <3>1, <3>2, ExchangePaid
  <2>7. CASE Start \/ Cycle
    BY <2>1, <2>7, DialPaid
  <2>8. CASE Probe
    BY <2>3, <2>8 DEF Probe
  <2>9. CASE Open
    <3>1. /\ OnItsWay' = OnItsWay /\ phase = "dialing" /\ UNCHANGED <<ex, snap, terr, budget>>
      BY <2>3, <2>9, OpenStep DEF Types
    <3>2. PICK C \in SUBSET Items : Cardinality(C) <= seen.faults - budget.faults /\ Charges(C)
      BY <2>3, <3>1 DEF Paid
    <3>3. ~Known(snap)' /\ ex'.stage = "idle"
      <4>1. snap = Empty /\ ex.stage = "idle"
        BY <3>1 DEF Types, Asking
      <4> QED
        BY <3>1, <4>1, EmptyShaped DEF Known, Items
    <3>4. \A f \in OnItsWay' : f.kind = "data" /\ f.short => f.item \in C
      BY <3>1, <3>2 DEF Charges
    <3>5. Charges(C)'
      <4>1. ex'.stage # "gone" /\ ex'.stage # "late" /\ ex'.stage # "ok" /\ ex'.stage # "wait"
        BY <3>3
      <4> QED
        BY <3>3, <3>4, <4>1, Zenon DEF Charges
    <3> QED
      BY <2>1, <3>1, <3>2, <3>5, StillPaid
  <2>10. CASE Begin
    <3>1. /\ ex' = Asks(Head(left)) /\ phase = "asking"
          /\ UNCHANGED <<stream, incoming, phase, snap, left, budget, terr>>
      BY <2>10 DEF Begin, clientVars, linkVars, monVars
    <3>2. OnItsWay' = OnItsWay
      BY <3>1 DEF OnItsWay, Ours
    <3>3. ex'.stage = "send"
      BY <3>1 DEF Asks, Poll, Idle
    <3>4. PICK C \in SUBSET Items : Cardinality(C) <= seen.faults - budget.faults /\ Charges(C)
      BY <2>3, <3>1 DEF Paid
    <3>5. Charges(C)'
      BY <3>1, <3>2, <3>3, <3>4, ChargesKept
    <3> QED
      BY <2>1, <3>1, <3>4, <3>5, StillPaid
  <2>11. CASE Identify \/ Collect
    <3>1. terr' = terr
      BY <2>11, AnsweredStep
    <3> QED
      BY <2>1, <2>3, <2>11, <3>1, AnsweredPaid
  <2>12. CASE Publish
    BY <2>3, <2>12, PublishStep DEF Types
  <2>13. CASE Expire
    BY <2>3, <2>13 DEF Expire
  <2> QED
    BY <1>3, <2>4, <2>5, <2>6, <2>7, <2>8, <2>9, <2>10, <2>11, <2>12, <2>13
    DEF Next, World, Work, Program
<1> QED
  BY <1>2, <1>3

\* What was put together is published as it is.
LEMMA MonitorPublishes ==
  ASSUME Types, [Next]_vars, published' # published, prog = "monitor", ~published'.transport
  PROVE  /\ phase = "asking" /\ left = <<>>
         /\ published'.got = snap.got /\ published'.errs = snap.errs
<1>1. Publish
  <2>1. published' # [Empty EXCEPT !.transport = TRUE]
    BY FailedShaped
  <2> QED
    BY <2>1, PublishedIs
<1>2. phase = "asking" /\ left = <<>> /\ published' = WithReports(Overlay(snap))
  BY <1>1, PublishStep DEF Types
<1>3. published'.got = snap.got /\ published'.errs = snap.errs
  BY <1>2, OverlayShows DEF Types, ShapeInv
<1> QED
  BY <1>2, <1>3

\* What a monitor could not read it names, but for payloads too short and a
\* receiver it does not know (gpsmon.go, cycle: "per field").
MissingIsNamed ==
  [][published' # published /\ prog = "monitor" /\ ~published'.transport =>
       Missing(published') \subseteq
         published'.errs \cup ConfigItems \cup
           (IF published'.got["MON-VER"] \notin {NoValue, "unknown"} THEN {} ELSE {"SVIN"})]_vars

LEMMA NamesMissing ==
  ASSUME Types, Explained, [Next]_vars, published' # published, prog = "monitor", ~published'.transport
  PROVE  Missing(published)' \subseteq
           published'.errs \cup ConfigItems \cup
             (IF published'.got["MON-VER"] \notin {NoValue, "unknown"} THEN {} ELSE {"SVIN"})
<1>1. phase = "asking" /\ left = <<>> /\ published'.got = snap.got /\ published'.errs = snap.errs
  BY MonitorPublishes
<1>2. Elements(left) = {} /\ left # <<"MON-VER">>
  BY <1>1, ElementsEmpty
<1>3. \A i \in Owing(snap) : snap.got[i] # NoValue \/ i \in snap.errs
  BY <1>1, <1>2 DEF Explained
<1>4. Missing(published)' = Missing(snap)
  BY <1>1 DEF Missing
<1> QED
  BY <1>1, <1>3, <1>4 DEF Owing, Known, Missing

LEMMA PaysForMissing ==
  ASSUME Types, Paid, [Next]_vars, published' # published, prog = "monitor", ~published'.transport,
         published'.got["MON-VER"] \notin {NoValue, "unknown"}, terr = "none"
  PROVE  Cardinality(Missing(published)') <= seen.faults - budget.faults
<1>1. phase = "asking" /\ left = <<>> /\ published'.got = snap.got
  BY MonitorPublishes
<1>2. Elements(left) = {} /\ Known(snap)
  BY <1>1, ElementsEmpty DEF Known
<1>3. PICK C \in SUBSET Items : Cardinality(C) <= seen.faults - budget.faults /\ Charges(C)
  BY <1>1 DEF Paid
<1>4. Missing(snap) \in SUBSET C
  BY <1>2, <1>3 DEF Charges
<1>5. Missing(published)' = Missing(snap)
  BY <1>1 DEF Missing
<1>6. Cardinality(C) \in Nat /\ Cardinality(Missing(snap)) <= Cardinality(C)
  BY <1>4, CountItems
<1>7. Cardinality(Missing(snap)) \in Nat
  BY <1>4, CountItems
<1>8. seen.faults \in Nat /\ budget.faults \in Nat
  <2>1. SeenTypes
    BY DEF Types, Asking
  <2> QED
    BY <2>1 DEF SeenTypes, Types, LineTypes
<1> QED
  BY <1>3, <1>5, <1>6, <1>7, <1>8

LEMMA ExplainedAlways == Spec => [](Types /\ Explained)
<1>1. Init => Types /\ Explained
  BY TypesInit, ExplainedInit
<1>2. Types /\ Explained /\ [Next]_vars => Types' /\ Explained'
  BY TypesStep, ExplainedStep
<1> QED
  BY <1>1, <1>2, PTL DEF Spec

\* What a published snapshot lacks is among its errors, but for payloads too
\* short and what an unknown receiver is not asked, whatever is lost
\* (gpsmon.go, cycle; snapshot.go, appendReceiverErr).
THEOREM MissingAreNamed == Spec => MissingIsNamed
<1>1. Types /\ Explained /\ [Next]_vars =>
        [published' # published /\ prog = "monitor" /\ ~published'.transport =>
           Missing(published') \subseteq
             published'.errs \cup ConfigItems \cup
               (IF published'.got["MON-VER"] \notin {NoValue, "unknown"} THEN {} ELSE {"SVIN"})]_vars
  <2>1. SUFFICES ASSUME Types, Explained, [Next]_vars, published' # published,
                        prog = "monitor", ~published'.transport
                 PROVE  Missing(published') \subseteq
                          published'.errs \cup ConfigItems \cup
                            (IF published'.got["MON-VER"] \notin {NoValue, "unknown"} THEN {} ELSE {"SVIN"})
    OBVIOUS
  <2>2. Missing(published') = Missing(published)'
    BY DEF Missing
  <2> QED
    BY <2>1, <2>2, NamesMissing
<1> QED
  BY <1>1, ExplainedAlways, PTL DEF Spec, MissingIsNamed

\* And while the session lasts and its channel has room, a fault costs the
\* field it hits, not those after it (client.go, dispatchFrame).
THEOREM MissingArePaidFor ==
  Spec /\ [](Len(incoming) < QCap) => MissingIsExplained
<1> DEFINE Room == Len(incoming) < QCap
           Inv  == Types /\ Explained /\ Session /\ Paid
<1>1. Init => Inv
  BY TypesInit, ExplainedInit, SessionInit, PaidInit
<1>2. Inv /\ Room /\ [Next]_vars => Inv'
  BY TypesStep, ExplainedStep, SessionStep, PaidStep
<1>3. Inv /\ [Next]_vars =>
        [published' # published /\ prog = "monitor" /\ ~published'.transport =>
           LET missing == Missing(published')
               known   == published'.got["MON-VER"] \notin {NoValue, "unknown"}
           IN /\ missing \subseteq published'.errs \cup ConfigItems \cup (IF known THEN {} ELSE {"SVIN"})
              /\ known /\ terr = "none" => Cardinality(missing) <= seen.faults - budget.faults]_vars
  <2>1. SUFFICES ASSUME Inv, [Next]_vars, published' # published, prog = "monitor", ~published'.transport
                 PROVE  /\ Missing(published') \subseteq
                             published'.errs \cup ConfigItems \cup
                               (IF published'.got["MON-VER"] \notin {NoValue, "unknown"} THEN {} ELSE {"SVIN"})
                        /\ published'.got["MON-VER"] \notin {NoValue, "unknown"} /\ terr = "none" =>
                             Cardinality(Missing(published')) <= seen.faults - budget.faults
    OBVIOUS
  <2>2. Missing(published') = Missing(published)'
    BY DEF Missing
  <2>3. Missing(published') \subseteq
          published'.errs \cup ConfigItems \cup
            (IF published'.got["MON-VER"] \notin {NoValue, "unknown"} THEN {} ELSE {"SVIN"})
    BY <2>1, <2>2, NamesMissing
  <2>4. published'.got["MON-VER"] \notin {NoValue, "unknown"} /\ terr = "none" =>
          Cardinality(Missing(published')) <= seen.faults - budget.faults
    BY <2>1, <2>2, PaysForMissing
  <2> QED
    BY <2>3, <2>4
<1> HIDE DEF Inv, Room
<1>4. Spec /\ []Room => []Inv
  BY <1>1, <1>2, PTL DEF Spec
<1>5. []Inv /\ [][Next]_vars => MissingIsExplained
  BY <1>3, PTL DEF MissingIsExplained
<1> QED
  BY <1>4, <1>5, PTL DEF Spec, Room

-----------------------------------------------------------------------------
(* The state of the client. The devices it lists are those gpsd reported,    *)
(* and its channel holds no more frames than it has room for.                *)

MessageTyped(m) ==
  /\ m.class = "DEVICES" => m.paths \subseteq Paths
  /\ m.class = "DEVICE" => m.path \in Paths

StreamTyped == \A m \in Elements(stream) : MessageTyped(m)

LEMMA ShorterTail ==
  ASSUME NEW s, AnySeq(s), s # <<>> PROVE Len(Tail(s)) = Len(s) - 1 /\ Len(s) \in Nat
<1>1. PICK S : s \in Seq(S)
  BY DEF AnySeq
<1> QED
  BY <1>1

LEMMA LongerAppend ==
  ASSUME NEW s, AnySeq(s), NEW e PROVE Len(Append(s, e)) = Len(s) + 1 /\ Len(s) \in Nat
<1>1. PICK S : s \in Seq(S)
  BY DEF AnySeq
<1>2. s \in Seq(S \cup {e})
  BY <1>1
<1> QED
  BY <1>2

LEMMA ReaderTyped ==
  ASSUME Queues, ClientTypeOK, StreamTyped, ReadLoop
  PROVE  ClientTypeOK' /\ StreamTyped'
<1> USE GpsdAssumption DEF ClientTypeOK
<1>1. ASSUME stream # <<>>, stream' = Tail(stream)
      PROVE  StreamTyped' /\ MessageTyped(Head(stream))
  <2>1. Elements(stream) = {Head(stream)} \cup Elements(Tail(stream))
    BY <1>1, ElementsTail DEF Queues
  <2>2. Elements(stream') = Elements(Tail(stream))
    BY <1>1
  <2> QED
    BY <2>1, <2>2 DEF StreamTyped, MessageTyped
<1>2. ASSUME Dispatch(Head(stream)) \/ incoming' = incoming
      PROVE  Len(incoming') <= QCap
  <2>1. CASE incoming' = incoming
    BY <2>1
  <2>2. CASE Len(incoming) < QCap /\ incoming' = Append(incoming, Head(stream))
    <3>1. Len(incoming') = Len(incoming) + 1 /\ Len(incoming) \in Nat
      BY <2>2, LongerAppend DEF Queues
    <3> QED
      BY <2>2, <3>1
  <2> QED
    BY <1>2, <2>1, <2>2 DEF Dispatch
<1>3. CASE ReadDevices
  <2>1. /\ Reads("DEVICES") /\ stream' = Tail(stream) /\ devices' = Head(stream).paths /\ ready'
        /\ UNCHANGED <<reader, terr, closed, sub, incoming, latest>>
    BY <1>3 DEF ReadDevices
  <2>2. StreamTyped' /\ devices' \subseteq Paths
    BY <1>1, <2>1 DEF Reads, MessageTyped
  <2>3. ready' \in BOOLEAN
    BY <1>3 DEF ReadDevices
  <2> QED
    BY <2>1, <2>2, <2>3
<1>4. CASE ReadDevice
  <2>1. /\ Reads("DEVICE") /\ stream' = Tail(stream) /\ devices' = devices \cup {Head(stream).path}
        /\ UNCHANGED <<reader, terr, ready, closed, sub, incoming, latest>>
    BY <1>4 DEF ReadDevice
  <2>2. StreamTyped' /\ devices' \subseteq Paths
    BY <1>1, <2>1 DEF Reads, MessageTyped
  <2> QED
    BY <2>1, <2>2
<1>5. CASE ReadRaw \/ ReadBareHex
  <2>1. /\ stream # <<>> /\ stream' = Tail(stream)
        /\ Dispatch(Head(stream)) \/ incoming' = incoming
        /\ UNCHANGED <<reader, terr, devices, ready, closed, sub, latest>>
    BY <1>5 DEF ReadRaw, ReadBareHex, Reads
  <2>2. StreamTyped' /\ Len(incoming') <= QCap
    BY <1>1, <1>2, <2>1
  <2> QED
    BY <2>1, <2>2
<1>6. CASE ReadReport
  <2>1. /\ stream # <<>> /\ stream' = Tail(stream) /\ latest' \subseteq {"TPV", "SKY"}
        /\ UNCHANGED <<reader, terr, devices, ready, closed, sub, incoming>>
    BY <1>6 DEF ReadReport, Reads
  <2> QED
    BY <1>1, <2>1
<1>7. CASE ReadError
  <2>1. /\ stream # <<>> /\ stream' = Tail(stream)
        /\ terr' \in {"none", "gpsd", "io"} /\ sub' \in {"none", "open", "closed"}
        /\ UNCHANGED <<reader, devices, ready, closed, incoming, latest>>
    BY <1>7 DEF ReadError, Reads, FirstCause, Shut
  <2> QED
    BY <1>1, <2>1
<1>8. CASE LeaveLoop
  <2>1. /\ stream' = <<>> /\ reader' = "subs" /\ terr' \in {"none", "gpsd", "io"}
        /\ UNCHANGED <<devices, ready, closed, sub, incoming, latest>>
    BY <1>8 DEF LeaveLoop, FirstCause
  <2>2. Elements(stream') = {}
    BY <2>1, ElementsEmpty
  <2> QED
    BY <2>1, <2>2 DEF StreamTyped
<1>9. CASE CloseSubs \/ ReleaseDial \/ CloseConn
  <2>1. UNCHANGED <<stream, terr, devices, incoming, latest>>
    BY <1>9 DEF CloseSubs, ReleaseDial, CloseConn
  <2>2. /\ reader' \in {"ready", "conn", "exited"} /\ sub' \in {"none", "open", "closed"}
        /\ ready' \in BOOLEAN /\ closed' \in BOOLEAN
    BY <1>9 DEF CloseSubs, ReleaseDial, CloseConn, Shut
  <2> QED
    BY <2>1, <2>2 DEF StreamTyped
<1> QED
  BY <1>3, <1>4, <1>5, <1>6, <1>7, <1>8, <1>9 DEF ReadLoop

\* What gpsd sends, if it is typed, leaves the client's state typed.
LEMMA SentTyped ==
  ASSUME Queues, ClientTypeOK, StreamTyped,
         UNCHANGED <<reader, terr, devices, ready, closed, sub, incoming, latest>>,
         NEW msgs, AnySeq(msgs), stream' = stream \o msgs,
         \A m \in Elements(msgs) : MessageTyped(m)
  PROVE  ClientTypeOK' /\ StreamTyped'
<1>1. Elements(stream \o msgs) = Elements(stream) \cup Elements(msgs)
  BY ElementsConcat DEF Queues
<1>2. Elements(stream') = Elements(stream) \cup Elements(msgs)
  BY <1>1
<1> QED
  BY <1>2 DEF ClientTypeOK, StreamTyped

LEMMA FramesAreTyped ==
  ASSUME Queues, ClientTypeOK, StreamTyped, NEW frames, AnySeq(frames), Send(frames),
         \A f \in Elements(frames) : f = Frame(f.dev, f.kind, f.item, f.val, f.short)
  PROVE  ClientTypeOK' /\ StreamTyped'
<1>1. UNCHANGED <<reader, terr, devices, ready, closed, sub, incoming, latest>>
  BY SendIs
<1>2. PICK form \in Forms : \E msgs :
              /\ AnySeq(msgs) /\ stream' = stream \o msgs
              /\ Elements(msgs) = IF gpsd = "greeted"
                                  THEN {[f EXCEPT !.class = form] : f \in Elements(frames)}
                                  ELSE {}
  BY SendIs
<1>3. PICK msgs :
              /\ AnySeq(msgs) /\ stream' = stream \o msgs
              /\ Elements(msgs) = IF gpsd = "greeted"
                                  THEN {[f EXCEPT !.class = form] : f \in Elements(frames)}
                                  ELSE {}
  BY <1>2
<1>4. form # "DEVICES" /\ form # "DEVICE"
  BY MonitorAssumption
<1>5. ASSUME NEW m \in Elements(msgs) PROVE MessageTyped(m)
  <2>1. PICK f \in Elements(frames) : m = [f EXCEPT !.class = form]
    BY <1>3
  <2>2. m = [Frame(f.dev, f.kind, f.item, f.val, f.short) EXCEPT !.class = form]
    BY <2>1
  <2>3. m.class = form
    BY <2>2, PassedOn
  <2> QED
    BY <1>4, <2>3 DEF MessageTyped
<1> QED
  BY <1>1, <1>3, <1>5, SentTyped

LEMMA FrameIs ==
  ASSUME NEW dev, NEW kind, NEW item, NEW val, NEW short, NEW f,
         f = Frame(dev, kind, item, val, short)
  PROVE  f = Frame(f.dev, f.kind, f.item, f.val, f.short)
  BY DEF Frame

LEMMA AnswerTyped ==
  ASSUME NEW req, NEW short
  PROVE  /\ AnySeq(Answer(req, short))
         /\ \A f \in Elements(Answer(req, short)) : f = Frame(f.dev, f.kind, f.item, f.val, f.short)
<1>1. AnySeq(Answer(req, short))
  BY AnswerIs
<1>2. ASSUME NEW f \in Elements(Answer(req, short))
      PROVE  f = Frame(f.dev, f.kind, f.item, f.val, f.short)
  <2> DEFINE ack  == Frame(Path, "ack", req.item, NoValue, FALSE)
             data == Frame(Path, "data", req.item, Setting(req.item), short)
  <2>1. Elements(Answer(req, short)) \subseteq
          {ack} \cup (IF req.kind = "poll" THEN {data} ELSE {})
    BY AnswerIs, Zenon
  <2> HIDE DEF ack, data
  <2>2. f = ack \/ f = data
    BY <2>1
  <2>3. CASE f = ack
    BY <2>3 DEF ack, Frame
  <2>4. CASE f = data
    BY <2>4 DEF data, Frame
  <2> QED
    BY <2>2, <2>3, <2>4
<1> QED
  BY <1>1, <1>2

LEMMA OneFrameTyped ==
  ASSUME NEW dev, NEW kind, NEW item, NEW val, NEW short
  PROVE  /\ AnySeq(<<Frame(dev, kind, item, val, short)>>)
         /\ \A f \in Elements(<<Frame(dev, kind, item, val, short)>>) :
              f = Frame(f.dev, f.kind, f.item, f.val, f.short)
<1>1. PICK f : f = Frame(dev, kind, item, val, short)
  OBVIOUS
<1>2. AnySeq(<<f>>) /\ Elements(<<f>>) = {f}
  BY ElementsOne
<1>3. f = Frame(f.dev, f.kind, f.item, f.val, f.short)
  BY <1>1, FrameIs
<1> QED
  BY <1>1, <1>2, <1>3

LEMMA EnvironmentTyped ==
  ASSUME Queues, ClientTypeOK, StreamTyped, Environment \/ Report \/ OtherWrites
  PROVE  ClientTypeOK' /\ StreamTyped'
<1>1. ASSUME UNCHANGED clientVars PROVE ClientTypeOK' /\ StreamTyped'
  BY <1>1 DEF clientVars, ClientTypeOK, StreamTyped
<1>2. ASSUME NEW m, MessageTyped(m), GpsdSends(<<m>>) PROVE ClientTypeOK' /\ StreamTyped'
  <2>1. AnySeq(<<m>>) /\ Elements(<<m>>) = {m}
    BY ElementsOne
  <2> QED
    BY <1>2, <2>1, SentTyped DEF GpsdSends
<1>3. CASE Serve
  <2>1. PICK req : req = Head(requests)
    OBVIOUS
  <2>2. Send(Answer(req, FALSE))
    BY <1>3, <2>1 DEF Serve
  <2> QED
    BY <2>2, AnswerTyped, FramesAreTyped
<1>4. CASE Misserve
  <2>1. PICK req : req = Head(requests)
    OBVIOUS
  <2>2. \/ Send(<<>>) \/ Send(<<Frame(Path, "nak", req.item, NoValue, FALSE)>>)
        \/ Send(Answer(req, TRUE))
    BY <1>4, <2>1 DEF Misserve
  <2>3. CASE Send(<<>>)
    BY <2>3, ElementsEmpty, FramesAreTyped
  <2>4. CASE Send(<<Frame(Path, "nak", req.item, NoValue, FALSE)>>)
    BY <2>4, OneFrameTyped, FramesAreTyped
  <2>5. CASE Send(Answer(req, TRUE))
    BY <2>5, AnswerTyped, FramesAreTyped
  <2> QED
    BY <2>2, <2>3, <2>4, <2>5
<1>5. CASE Converge \/ OtherPolls \/ OtherWrites
  BY <1>1, <1>5 DEF Converge, OtherPolls, OtherWrites
<1>6. CASE OtherReceiver
  BY <1>6, OneFrameTyped, FramesAreTyped DEF OtherReceiver
<1>7. CASE Greet
  <2>1. PICK list \in SUBSET Paths : GpsdSends(<<[class |-> "DEVICES", paths |-> list]>>)
    BY <1>7 DEF Greet
  <2>2. MessageTyped([class |-> "DEVICES", paths |-> list])
    BY DEF MessageTyped
  <2> QED
    BY <1>2, <2>1, <2>2
<1>8. CASE Complain
  <2>1. PICK m \in {[class |-> "ERROR"], [class |-> "DEVICE", path |-> Path]} : GpsdSends(<<m>>)
    BY <1>8 DEF Complain
  <2>2. MessageTyped(m)
    BY GpsdAssumption DEF MessageTyped
  <2> QED
    BY <1>2, <2>1, <2>2
<1>9. CASE Drop
  <2>1. GpsdSends(<<[class |-> "EOF"]>>) /\ MessageTyped([class |-> "EOF"])
    BY <1>9 DEF Drop, MessageTyped
  <2> QED
    BY <1>2, <2>1
<1>10. CASE Report
  <2>1. PICK class \in {"TPV", "SKY"}, sparse \in BOOLEAN :
          GpsdSends(<<[class |-> class, sparse |-> sparse /\ class = "SKY"]>>)
    BY <1>10 DEF Report
  <2>2. MessageTyped([class |-> class, sparse |-> sparse /\ class = "SKY"])
    BY DEF MessageTyped
  <2> QED
    BY <1>2, <2>1, <2>2
<1> QED
  BY <1>3, <1>4, <1>5, <1>6, <1>7, <1>8, <1>9, <1>10 DEF Environment

LEMMA ClientTyped ==
  ASSUME Queues, ClientTypeOK, StreamTyped, [Next]_vars
  PROVE  ClientTypeOK' /\ StreamTyped'
<1>1. ASSUME UNCHANGED clientVars PROVE ClientTypeOK' /\ StreamTyped'
  BY <1>1 DEF clientVars, ClientTypeOK, StreamTyped
<1>2. CASE World
  BY <1>2, ReaderTyped, EnvironmentTyped DEF World
<1>3. ASSUME Dial PROVE ClientTypeOK' /\ StreamTyped'
  <2>1. /\ stream' = <<>> /\ incoming' = <<>> /\ latest' = {} /\ reader' = "loop"
        /\ sub' = "none" /\ terr' = "none" /\ devices' = {} /\ ready' = FALSE /\ closed' = FALSE
    BY <1>3 DEF Dial
  <2>2. Elements(stream') = {}
    BY <2>1, ElementsEmpty
  <2>3. Len(incoming') <= QCap
    BY <2>1, GpsdAssumption
  <2>4. ClientTypeOK'
    BY <2>1, <2>3 DEF ClientTypeOK
  <2> QED
    BY <2>2, <2>4 DEF StreamTyped
<1>4. ASSUME Subscribe \/ Close PROVE ClientTypeOK' /\ StreamTyped'
  BY <1>4 DEF Subscribe, Close, ClientTypeOK, StreamTyped
<1>5. CASE Exchange
  <2>1. ASSUME UNCHANGED <<stream, reader, terr, devices, ready, closed, sub, latest>>,
               Len(incoming') <= QCap
        PROVE  ClientTypeOK' /\ StreamTyped'
    BY <2>1 DEF ClientTypeOK, StreamTyped
  <2>2. CASE SendUBX
    <3>1. CASE DrainAndSend
      <4>1. incoming' = <<>> /\ UNCHANGED <<stream, reader, terr, devices, ready, closed, sub, latest>>
        BY <3>1 DEF DrainAndSend
      <4>2. Len(incoming') <= QCap
        BY <4>1, GpsdAssumption
      <4> QED
        BY <2>1, <4>1, <4>2
    <3> QED
      BY <1>1, <2>2, <3>1 DEF SendUBX
  <2>3. CASE WaitFrame
    <3>1. /\ incoming # <<>> /\ incoming' = Tail(incoming)
          /\ UNCHANGED <<stream, reader, terr, devices, ready, closed, sub, latest>>
      BY <2>3 DEF WaitFrame, TakeFrame
    <3>2. Len(incoming') <= QCap
      <4>1. Len(Tail(incoming)) = Len(incoming) - 1 /\ Len(incoming) \in Nat
        BY <3>1, ShorterTail DEF Queues
      <4> QED
        BY <3>1, <4>1, GpsdAssumption DEF ClientTypeOK
    <3> QED
      BY <2>1, <3>1, <3>2
  <2>4. CASE WaitClosed \/ WaitContext \/ WaitDeadline
    BY <1>1, <2>4 DEF WaitClosed, WaitContext, WaitDeadline
  <2> QED
    BY <1>5, <2>2, <2>3, <2>4 DEF Exchange
<1>6. CASE Start \/ Cycle
  BY <1>3, <1>6, Zenon DEF Start, Cycle, Connect
<1>7. CASE Probe \/ Open \/ Publish
  BY <1>4, <1>7 DEF Probe, Open, Publish
<1>8. CASE Begin \/ Identify \/ Collect \/ Expire
  BY <1>1, <1>4, <1>8 DEF Begin, Identify, Collect, Expire
<1>9. CASE UNCHANGED vars
  BY <1>1, <1>9 DEF vars
<1> QED
  BY <1>2, <1>5, <1>6, <1>7, <1>8, <1>9 DEF Next, Work, Program

\* No message is polled twice in a cycle, so that what a field shows and the
\* error it shows are never both there.
Once(s) == \A i, j \in 1..Len(s) : s[i] = s[j] => i = j

NotedOnce ==
  /\ phase \in {"start", "probing", "off", "idle", "dialing", "asking", "done"}
  /\ snap.mode \in -1..2 /\ snap.errs \subseteq Items /\ published.errs \subseteq Items
  /\ \A i \in snap.errs : snap.got[i] = NoValue
  /\ phase = "asking" =>
       /\ Once(left)
       /\ \/ left = <<"MON-VER">> /\ snap = Empty
          \/ /\ "MON-VER" \notin Elements(left)
             /\ \A i \in Elements(left) : snap.got[i] = NoValue /\ i \notin snap.errs

LEMMA OnceTail ==
  ASSUME NEW s, AnySeq(s), s # <<>>, Once(s)
  PROVE  Once(Tail(s)) /\ Head(s) \notin Elements(Tail(s))
<1>1. PICK S : s \in Seq(S)
  BY DEF AnySeq
<1>2. Len(s) \in Nat \ {0} /\ Head(s) = s[1]
  BY <1>1
<1>3. /\ Len(Tail(s)) = Len(s) - 1 /\ \A i \in 1..Len(Tail(s)) : Tail(s)[i] = s[i + 1]
  BY <1>1, HeadTailProperties
<1>4. \A i \in 1..Len(Tail(s)) : i + 1 \in 1..Len(s) /\ i + 1 # 1
  BY <1>2, <1>3
<1>5. 1 \in 1..Len(s)
  BY <1>2
<1>6. Once(Tail(s))
  <2>1. SUFFICES ASSUME NEW i \in 1..Len(Tail(s)), NEW j \in 1..Len(Tail(s)),
                        Tail(s)[i] = Tail(s)[j]
                 PROVE  i = j
    BY DEF Once
  <2>2. s[i + 1] = s[j + 1]
    BY <1>3, <2>1
  <2>3. i + 1 = j + 1
    BY <1>4, <2>2 DEF Once
  <2> QED
    BY <1>2, <1>3, <2>3
<1>7. ASSUME NEW i \in 1..Len(Tail(s)), Tail(s)[i] = Head(s) PROVE FALSE
  <2>1. s[i + 1] = s[1]
    BY <1>2, <1>3, <1>7
  <2> QED
    BY <1>4, <1>5, <2>1 DEF Once
<1> QED
  BY <1>6, <1>7 DEF Elements

LEMMA PollsOnce ==
  ASSUME prog \in {"monitor", "status"}, NEW gen
  PROVE  Once(Polls(gen)) /\ "MON-VER" \notin Elements(Polls(gen))
<1> DEFINE all    == <<"TMODE", "NAV5", "TP5", "MON-HW", "NAV-CLOCK", "NAV-DOP", "SVIN">>
           some   == <<"MON-HW", "NAV-CLOCK", "NAV-DOP">>
           status == <<"TMODE", "SVIN", "NAV5", "TP5", "NAV-CLOCK">>
<1>1. Once(all) /\ "MON-VER" \notin Elements(all)
  <2>1. /\ all[1] = "TMODE" /\ all[2] = "NAV5" /\ all[3] = "TP5" /\ all[4] = "MON-HW"
        /\ all[5] = "NAV-CLOCK" /\ all[6] = "NAV-DOP" /\ all[7] = "SVIN" /\ Len(all) = 7
    OBVIOUS
  <2>2. \A i \in 1..7 : i = 1 \/ i = 2 \/ i = 3 \/ i = 4 \/ i = 5 \/ i = 6 \/ i = 7
    OBVIOUS
  <2> HIDE DEF all
  <2> QED
    BY <2>1, <2>2 DEF Once, Elements
<1>2. Once(some) /\ "MON-VER" \notin Elements(some)
  <2>1. some[1] = "MON-HW" /\ some[2] = "NAV-CLOCK" /\ some[3] = "NAV-DOP" /\ Len(some) = 3
    OBVIOUS
  <2>2. \A i \in 1..3 : i = 1 \/ i = 2 \/ i = 3
    OBVIOUS
  <2> HIDE DEF some
  <2> QED
    BY <2>1, <2>2 DEF Once, Elements
<1>3. Once(status) /\ "MON-VER" \notin Elements(status)
  <2>1. /\ status[1] = "TMODE" /\ status[2] = "SVIN" /\ status[3] = "NAV5" /\ status[4] = "TP5"
        /\ status[5] = "NAV-CLOCK" /\ Len(status) = 5
    OBVIOUS
  <2>2. \A i \in 1..5 : i = 1 \/ i = 2 \/ i = 3 \/ i = 4 \/ i = 5
    OBVIOUS
  <2> HIDE DEF status
  <2> QED
    BY <2>1, <2>2 DEF Once, Elements
<1> HIDE DEF all, some, status
<1>4. Polls(gen) = all \/ Polls(gen) = some \/ Polls(gen) = status
  <2>1. CASE prog = "status"
    BY <2>1, PollsAre DEF status
  <2>2. CASE prog = "monitor" /\ gen # "unknown"
    BY <2>2, PollsAre DEF all
  <2>3. CASE prog = "monitor" /\ gen = "unknown"
    BY <2>3, PollsAre DEF some
  <2> QED
    BY <2>1, <2>2, <2>3
<1> QED
  BY <1>1, <1>2, <1>3, <1>4, Zenon

LEMMA ModeRange ==
  ASSUME snap.mode \in -1..2, ex.stage = "ok" => ex.val \in Payloads,
         prog \in {"monitor", "status"}, NEW length
  PROVE  Mode(length) \in -1..2
<1>1. CASE ex.stage = "ok"
  <2>1. ex.val.mode \in 0..2
    BY <1>1 DEF Payloads
  <2>2. Mode(length) = TMODEMode(length)
    BY <1>1, Zenon DEF Mode
  <2> QED
    BY <2>1, <2>2 DEF TMODEMode
<1>2. CASE ex.stage # "ok" /\ prog = "status"
  <2>1. Mode(length) = -1
    BY <1>2 DEF Mode
  <2> QED
    BY <2>1
<1>3. CASE ex.stage # "ok" /\ prog = "monitor"
  <2>1. Mode(length) = snap.mode
    BY <1>3 DEF Mode
  <2> QED
    BY <2>1
<1> QED
  BY <1>1, <1>2, <1>3

LEMMA NotedInit == Init => NotedOnce
<1> SUFFICES ASSUME Init PROVE NotedOnce
  OBVIOUS
<1>1. phase = "start" /\ snap = Empty /\ published = Empty
  BY DEF Init
<1>2. 0 \in -1..2
  OBVIOUS
<1> QED
  BY <1>1, <1>2, EmptyShaped DEF NotedOnce

LEMMA NotedStep == Types /\ NotedOnce /\ [Next]_vars => NotedOnce'
<1> SUFFICES ASSUME Types, NotedOnce, [Next]_vars PROVE NotedOnce'
  OBVIOUS
<1>1. CASE UNCHANGED <<phase, prog, left, snap, published>>
  BY <1>1 DEF NotedOnce
<1>2. CASE UNCHANGED vars \/ World \/ (Exchange /\ UNCHANGED monVars) \/ Expire \/ Begin
  BY <1>1, <1>2 DEF vars, World, Expire, Begin, monVars
<1>3. CASE Start \/ Cycle
  <2>1. phase' \in {"probing", "dialing"}
    BY <1>3 DEF Start, Cycle, Connect
  <2>2. published' = published /\ (snap' = snap \/ snap' = Empty)
    BY <1>3 DEF Start, Cycle
  <2>3. 0 \in -1..2
    OBVIOUS
  <2> QED
    BY <2>1, <2>2, <2>3, EmptyShaped DEF NotedOnce
<1>4. CASE Probe
  <2>1. phase' \in {"idle", "off"} /\ UNCHANGED <<snap, published>>
    BY <1>4, ProbeStep DEF Types
  <2> QED
    BY <2>1 DEF NotedOnce
<1>5. CASE Open
  <2>1. phase = "dialing" /\ snap' = snap
    BY <1>5, OpenStep DEF Types
  <2>2. CASE phase' = "asking" /\ left' = <<"MON-VER">> /\ published' = published
    <3>1. snap = Empty
      BY <2>1 DEF Types, Asking
    <3>2. Once(<<"MON-VER">>)
      BY DEF Once
    <3> QED
      BY <2>1, <2>2, <3>1, <3>2 DEF NotedOnce
  <2>3. CASE phase' \in {"idle", "done"} /\ published' = [Empty EXCEPT !.transport = TRUE]
    <3>1. published'.errs = {}
      BY <2>3 DEF Empty
    <3> QED
      BY <2>1, <2>3, <3>1 DEF NotedOnce
  <2> QED
    BY <1>5, <2>2, <2>3, OpenStep DEF Types
<1>6. CASE Publish
  <2>1. /\ phase' \in {"idle", "done"} /\ snap' = snap
        /\ published' = WithReports(Overlay(snap)) \/ published' = WithReports(snap)
    BY <1>6, PublishStep DEF Types
  <2>2. PICK p : p = published'
    OBVIOUS
  <2>3. p.errs = snap.errs
    BY <2>1, <2>2, OverlayShows, ReportsShaped DEF Types, ShapeInv
  <2> QED
    BY <2>1, <2>2, <2>3 DEF NotedOnce
<1>7. CASE Identify \/ Collect
  <2>1. PICK item : item = ex.item
    OBVIOUS
  <2>2. PICK s : s = snap'
    OBVIOUS
  <2>3. /\ phase = "asking" /\ phase' \in {"asking", "done"} /\ prog \in {"monitor", "status"}
        /\ left # <<>> /\ left \in Seq(Items) /\ item = Head(left) /\ item \in Items
        /\ \E length \in Lengths : s = Reading(item, length)
        /\ published' = published \/ published' = s
        /\ \/ item # "MON-VER" /\ left' = Tail(left)
           \/ item = "MON-VER" /\ phase' = "done"
           \/ item = "MON-VER" /\ left' = Polls(IF Whole THEN ex.val ELSE "unknown")
    BY <1>7, <2>1, <2>2, AnsweredStep DEF Types, Asking, ShapeInv
  <2>4. PICK length \in Lengths : s = Reading(item, length)
    BY <2>3
  <2>5. /\ Shaped(s) /\ \A i \in Items \ {item} : s.got[i] = snap.got[i]
        /\ ~Ok(length) => s.got[item] = snap.got[item]
        /\ s.errs = snap.errs \/ (~Ok(length) /\ s.errs = snap.errs \cup {item})
        /\ s.mode = IF item = "TMODE" THEN Mode(length) ELSE snap.mode
    <3>1. NotesOf(s, item, length)
      BY <2>3, <2>4, ReadingIs DEF Types, ShapeInv
    <3> QED
      BY <3>1 DEF NotesOf
  <2>6. AnySeq(left)
    BY <2>3 DEF AnySeq
  <2>7. snap.got[item] = NoValue /\ item \notin snap.errs /\ Once(left)
    <3>1. CASE left = <<"MON-VER">> /\ snap = Empty
      BY <2>3, <3>1, EmptyShaped DEF NotedOnce
    <3>2. CASE \A i \in Elements(left) : snap.got[i] = NoValue /\ i \notin snap.errs
      <4>1. item \in Elements(left)
        BY <2>3, <2>6, ElementsTail
      <4> QED
        BY <2>3, <3>2, <4>1 DEF NotedOnce
    <3> QED
      BY <2>3, <3>1, <3>2 DEF NotedOnce
  <2>8. s.mode \in -1..2
    <3>1. CASE item = "TMODE"
      <4>1. ex.stage = "ok" => ex.val \in Values(item)
        BY <2>1 DEF Types, Asking
      <4>2. ex.stage = "ok" => ex.val \in Payloads
        BY <3>1, <4>1 DEF Values
      <4>3. Mode(length) \in -1..2
        BY <2>3, <4>2, ModeRange DEF NotedOnce
      <4> QED
        BY <2>5, <3>1, <4>3
    <3>2. CASE item # "TMODE"
      BY <2>5, <3>2 DEF NotedOnce
    <3> QED
      BY <3>1, <3>2
  <2>9. s.errs \subseteq Items /\ \A i \in s.errs : s.got[i] = NoValue
    <3>1. s.errs \subseteq Items
      BY <2>3, <2>5 DEF NotedOnce
    <3>2. ASSUME NEW i \in s.errs PROVE s.got[i] = NoValue
      <4>1. CASE i = item
        BY <2>5, <2>7, <3>2, <4>1
      <4>2. CASE i # item
        BY <2>5, <3>1, <3>2, <4>2 DEF NotedOnce
      <4> QED
        BY <4>1, <4>2
    <3> QED
      BY <3>1, <3>2
  <2>10. published'.errs \subseteq Items
    BY <2>3, <2>9 DEF NotedOnce
  <2>11. phase' = "asking" =>
           /\ Once(left')
           /\ "MON-VER" \notin Elements(left')
           /\ \A i \in Elements(left') : s.got[i] = NoValue /\ i \notin s.errs
    <3>1. ASSUME phase' = "asking", item # "MON-VER"
          PROVE  /\ Once(left') /\ "MON-VER" \notin Elements(left')
                 /\ \A i \in Elements(left') : s.got[i] = NoValue /\ i \notin s.errs
      <4>1. left # <<"MON-VER">>
        BY <2>3, <3>1
      <4>2. /\ "MON-VER" \notin Elements(left)
            /\ \A i \in Elements(left) : snap.got[i] = NoValue /\ i \notin snap.errs
        BY <2>3, <4>1 DEF NotedOnce
      <4>3. Elements(left) = {item} \cup Elements(Tail(left))
        BY <2>3, LeftTail
      <4>4. Once(Tail(left)) /\ item \notin Elements(Tail(left))
        BY <2>3, <2>6, <2>7, OnceTail
      <4>5. left' = Tail(left)
        BY <2>3, <3>1
      <4>6. Elements(left) \subseteq Items
        BY <2>3 DEF Elements
      <4>7. ASSUME NEW i \in Elements(Tail(left)) PROVE s.got[i] = NoValue /\ i \notin s.errs
        <5>1. i # item /\ i \in Items /\ i \in Elements(left)
          BY <4>3, <4>4, <4>6, <4>7
        <5> QED
          BY <2>5, <4>2, <5>1
      <4>8. Elements(left') = Elements(Tail(left)) /\ Once(left')
        BY <4>4, <4>5
      <4> QED
        BY <4>2, <4>3, <4>7, <4>8
    <3>2. ASSUME phase' = "asking", item = "MON-VER"
          PROVE  /\ Once(left') /\ "MON-VER" \notin Elements(left')
                 /\ \A i \in Elements(left') : s.got[i] = NoValue /\ i \notin s.errs
      <4>1. PICK gen : gen = IF Whole THEN ex.val ELSE "unknown"
        OBVIOUS
      <4>2. left' = Polls(gen)
        <5>1. left' = Polls(IF Whole THEN ex.val ELSE "unknown")
          BY <2>3, <3>2
        <5> QED
          BY <4>1, <5>1, Zenon
      <4>3. Once(Polls(gen)) /\ "MON-VER" \notin Elements(Polls(gen)) /\ Polls(gen) \in Seq(Items)
        BY <2>3, PollsOnce, PollsTyped
      <4>4. Once(left') /\ "MON-VER" \notin Elements(left') /\ left' \in Seq(Items)
        BY <4>2, <4>3
      <4>5. Elements(left') \subseteq Items
        BY <4>4 DEF Elements
      <4>6. snap = Empty
        <5>1. item \in Elements(left)
          BY <2>3, <2>6, ElementsTail
        <5> QED
          BY <2>3, <3>2, <5>1 DEF NotedOnce
      <4>7. ASSUME NEW i \in Elements(left') PROVE s.got[i] = NoValue /\ i \notin s.errs
        <5>1. i \in Items /\ i # item
          BY <3>2, <4>4, <4>5, <4>7
        <5> QED
          BY <2>5, <4>6, <5>1, EmptyShaped
      <4> QED
        BY <4>4, <4>7
    <3> QED
      BY <3>1, <3>2
  <2> QED
    BY <2>2, <2>3, <2>8, <2>9, <2>10, <2>11 DEF NotedOnce
<1> QED
  BY <1>2, <1>3, <1>4, <1>5, <1>6, <1>7 DEF Next, Work, Program

\* The state of the monitor and of its client is what it is declared to be: a
\* frame is dropped rather than let the channel grow (client.go, dispatchFrame),
\* and no field is shown as read and as failed at once (gpsmon.go, cycle).
THEOREM MonitorTyped == Spec => []MonitorTypeOK
<1>1. Init => ClientTypeOK /\ StreamTyped
  <2> SUFFICES ASSUME Init PROVE ClientTypeOK /\ StreamTyped
    OBVIOUS
  <2>1. ClientInit
    BY DEF Init
  <2>2. stream = <<>> /\ incoming = <<>>
    BY <2>1 DEF ClientInit
  <2>3. Elements(stream) = {}
    BY <2>2, ElementsEmpty
  <2>4. Len(incoming) <= QCap
    BY <2>2, GpsdAssumption
  <2>5. ClientTypeOK
    BY <2>1, <2>4 DEF ClientInit, ClientTypeOK
  <2> QED
    BY <2>3, <2>5 DEF StreamTyped
<1>2. Types /\ ClientTypeOK /\ StreamTyped /\ [Next]_vars => ClientTypeOK' /\ StreamTyped'
  BY ClientTyped DEF Types, LineTypes
<1>3. Types /\ ClientTypeOK /\ NotedOnce => MonitorTypeOK
  BY DEF Types, ShapeInv, Shaped, NotedOnce, MonitorTypeOK
<1> QED
  BY <1>1, <1>2, <1>3, NotedInit, NotedStep, TypesAlways, PTL DEF Spec

-----------------------------------------------------------------------------
(* The page of a fixed receiver. A mode that was read is one the receiver    *)
(* had, the one of the TMODE kept if one was; and without one the position   *)
(* is the survey's, which has one only if there was a survey.                *)

Surveyed == \E svin \in seen.was["SVIN"] : svin # "none"

PageInv ==
  /\ snap.mode = 2 => \E was \in seen.was["TMODE"] : was.mode = 2
  /\ snap.got["TMODE"] # NoValue => snap.mode = snap.got["TMODE"].mode
  /\ snap.pos = "zero" \/ (snap.pos = "surveyed" /\ Surveyed)

LEMMA EmptyPage ==
  ASSUME snap' = Empty
  PROVE  PageInv'
<1>1. "TMODE" \in Items
  BY DEF Items, ConfigItems
<1> QED
  BY <1>1, EmptyShaped DEF PageInv

LEMMA PageInit == Init => PageInv
<1> SUFFICES ASSUME Init PROVE PageInv
  OBVIOUS
<1>1. snap = Empty /\ "TMODE" \in Items
  BY DEF Init, Items, ConfigItems
<1> QED
  BY <1>1, EmptyShaped DEF PageInv

\* What was seen stays seen, until the next dial.
LEMMA PageKept ==
  ASSUME Types, PageInv, See, phase = "dialing" \/ phase' # "dialing", snap' = snap
  PROVE  PageInv'
<1>1. \A i \in Items : seen'.was[i] = seen.was[i] \cup {Setting(i)'}
  BY SeeKeeps DEF Types, Asking
<1>2. "TMODE" \in Items /\ "SVIN" \in Items
  BY DEF Items, ConfigItems
<1> QED
  BY <1>1, <1>2 DEF PageInv, Surveyed

\* The poll of TMODE comes once, so that before it there is no payload.
LEMMA AskedOnce ==
  ASSUME Types, NotedOnce, phase = "asking", left # <<>>, NEW item, item = Head(left)
  PROVE  snap.got[item] = NoValue
<1>1. left \in Seq(Items) /\ AnySeq(left)
  BY DEF Types, Asking, AnySeq
<1>2. item \in Elements(left) /\ item \in Items
  BY <1>1, ElementsTail
<1> QED
  BY <1>2, EmptyShaped DEF NotedOnce

LEMMA AnsweredPage ==
  ASSUME Types, Honest, NotedOnce, PageInv, See, Identify \/ Collect
  PROVE  PageInv'
<1>1. PICK item \in Items : item = ex.item
  BY AnsweredStep
<1>2. PICK s : s = snap'
  OBVIOUS
<1>3. /\ phase = "asking" /\ phase' # "dialing" /\ left # <<>> /\ item = Head(left)
      /\ prog \in {"monitor", "status"} /\ \E length \in Lengths : s = Reading(item, length)
  BY <1>1, <1>2, AnsweredStep DEF Types, ShapeInv
<1>4. PICK length \in Lengths : s = Reading(item, length)
  BY <1>3
<1>5. /\ \A i \in Items \ {item} : s.got[i] = snap.got[i]
      /\ Ok(length) => s.got[item] = ex.val
      /\ ~Ok(length) => s.got[item] = snap.got[item]
      /\ s.mode = IF item = "TMODE" THEN Mode(length) ELSE snap.mode
      /\ s.pos = IF item = "SVIN" /\ Ok(length) /\ ex.val # "none" THEN "surveyed" ELSE snap.pos
  <2>1. NotesOf(s, item, length)
    BY <1>4, ReadingIs DEF Types, ShapeInv
  <2> QED
    BY <2>1 DEF NotesOf
<1>6. snap.got[item] = NoValue
  BY <1>3, AskedOnce
<1>7. ex.stage = "ok" => ex.val \in seen.was[item]
  BY <1>1 DEF Honest
<1>8. \A i \in Items : seen'.was[i] = seen.was[i] \cup {Setting(i)'}
  BY <1>3, SeeKeeps DEF Types, Asking
<1>9. "TMODE" \in Items /\ "SVIN" \in Items /\ "TMODE" # "SVIN"
  BY DEF Items, ConfigItems
<1>10. item = "TMODE" =>
         /\ s.mode = 2 => snap.mode = 2 \/ (ex.stage = "ok" /\ ex.val.mode = 2)
         /\ Ok(length) => ex.stage = "ok" /\ s.mode = ex.val.mode
  <2>1. CASE ex.stage = "ok"
    <3>1. Mode(length) = TMODEMode(length)
      BY <2>1, Zenon DEF Mode
    <3>2. TMODEMode(length) = IF ex.short /\ length = "nothing" THEN -1 ELSE ex.val.mode
      BY DEF TMODEMode
    <3>3. Ok(length) => ~ex.short \/ length = "position"
      BY DEF Ok, Whole
    <3> QED
      BY <1>5, <2>1, <3>1, <3>2, <3>3
  <2>2. CASE ex.stage # "ok" /\ prog = "status"
    <3>1. Mode(length) = -1
      BY <2>2 DEF Mode
    <3> QED
      BY <1>5, <2>2, <3>1, OkIs
  <2>3. CASE ex.stage # "ok" /\ prog = "monitor"
    <3>1. Mode(length) = snap.mode
      BY <2>3 DEF Mode
    <3> QED
      BY <1>5, <2>3, <3>1, OkIs
  <2> QED
    BY <1>3, <2>1, <2>2, <2>3
<1>11. s.mode = 2 => \E was \in seen'.was["TMODE"] : was.mode = 2
  BY <1>5, <1>7, <1>8, <1>9, <1>10 DEF PageInv
<1>12. s.got["TMODE"] # NoValue => s.mode = s.got["TMODE"].mode
  <2>1. CASE item = "TMODE"
    BY <1>5, <1>6, <1>10, <2>1
  <2>2. CASE item # "TMODE"
    BY <1>5, <1>9, <2>2 DEF PageInv
  <2> QED
    BY <2>1, <2>2
<1>13. s.pos = "zero" \/ (s.pos = "surveyed" /\ Surveyed')
  <2>1. CASE item = "SVIN" /\ Ok(length) /\ ex.val # "none"
    <3>1. ex.val \in seen'.was["SVIN"]
      BY <1>7, <1>8, <1>9, <2>1, OkIs
    <3> QED
      BY <1>5, <2>1, <3>1 DEF Surveyed
  <2>2. CASE ~(item = "SVIN" /\ Ok(length) /\ ex.val # "none")
    <3>1. s.pos = snap.pos
      BY <1>5, <2>2
    <3>2. Surveyed => Surveyed'
      BY <1>8, <1>9 DEF Surveyed
    <3> QED
      BY <3>1, <3>2 DEF PageInv
  <2> QED
    BY <2>1, <2>2
<1> QED
  BY <1>2, <1>11, <1>12, <1>13 DEF PageInv

LEMMA PageStep == Types /\ Honest /\ NotedOnce /\ PageInv /\ [Next]_vars => PageInv'
<1> SUFFICES ASSUME Types, Honest, NotedOnce, PageInv, [Next]_vars PROVE PageInv'
  OBVIOUS
<1>1. CASE UNCHANGED vars
  BY <1>1 DEF vars, monVars, PageInv, Surveyed
<1>2. CASE Next
  <2>1. See
    BY <1>2 DEF Next
  <2>2. CASE World \/ (Exchange /\ UNCHANGED monVars) \/ Expire \/ Begin
    <3>1. UNCHANGED <<phase, snap>>
      BY <2>2 DEF World, Expire, Begin, monVars
    <3> QED
      BY <2>1, <3>1, PageKept
  <2>3. CASE Start \/ Cycle
    <3>1. snap' = Empty
      BY <2>3 DEF Start, Cycle, Types, Asking
    <3> QED
      BY <3>1, EmptyPage
  <2>4. CASE Probe \/ Open \/ Publish
    <3>1. snap' = snap /\ (phase = "dialing" \/ phase' # "dialing")
      BY <2>4, ProbeStep, OpenStep, PublishStep DEF Types
    <3> QED
      BY <2>1, <3>1, PageKept
  <2>5. CASE Identify \/ Collect
    BY <2>1, <2>5, AnsweredPage
  <2> QED
    BY <1>2, <2>2, <2>3, <2>4, <2>5 DEF Next, Work, Program
<1> QED
  BY <1>1, <1>2

\* What the page is made of, at a step that publishes.
LEMMA PageIs ==
  ASSUME Types, [Next]_vars, published' # published, prog = "monitor",
         handleGPSDetails'.body.mode = "fixed"
  PROVE  /\ published' = WithReports(Overlay(snap))
         /\ published'.mode = 2 /\ handleGPSDetails'.body.location = published'.pos
<1> DEFINE location == CASE published'.mode = 2 -> published'.pos
                         [] published'.mode = 1 -> published'.survey
                         [] OTHER -> "disabled"
           modeName == IF published'.mode \in 0..2 THEN tmodeNameInt[published'.mode] ELSE "unknown"
<1>1. phase' # "off" /\ (published' = WithReports(Overlay(snap)) \/ published'.mode = 0)
  <2>1. CASE Open /\ published' = [Empty EXCEPT !.transport = TRUE]
    <3>1. phase' \in {"asking", "idle", "done"}
      BY <2>1, OpenStep DEF Types
    <3> QED
      BY <2>1, <3>1, FailedShaped
  <2>2. CASE Publish
    BY <2>2, PublishStep DEF Types
  <2> QED
    BY <2>1, <2>2, PublishedIs
<1>2. handleGPSDetails'.body.mode = modeName /\ handleGPSDetails'.body.location = location
  BY <1>1 DEF handleGPSDetails, FromMonitor
<1>3. published'.mode = 2
  <2>1. published'.mode \in 0..2 /\ tmodeNameInt[published'.mode] = "fixed"
    BY <1>2
  <2> QED
    BY <2>1 DEF tmodeNameInt
<1>4. location = published'.pos
  BY <1>3
<1> QED
  BY <1>1, <1>2, <1>3, <1>4

LEMMA FixedIsShown ==
  ASSUME Types, Honest, PageInv, [Next]_vars, published' # published, prog = "monitor",
         handleGPSDetails'.body.mode = "fixed",
         NEW location, location = handleGPSDetails'.body.location,
         NEW fixedAt, fixedAt = {was.pos : was \in {v \in seen.was["TMODE"] : v.mode = 2}}
  PROVE  /\ fixedAt # {}
         /\ \/ location \in fixedAt \ {"LLH"}
            \/ location = "misread" /\ "LLH" \in fixedAt
            \/ published'.got["TMODE"] = NoValue /\ location = "zero"
            \/ published'.got["TMODE"] = NoValue /\ location = "surveyed"
                 /\ seen.was["SVIN"] # {"none"}
<1>1. /\ published' = WithReports(Overlay(snap))
      /\ published'.mode = 2 /\ location = published'.pos
  BY PageIs
<1>2. PICK t : t = published'
  OBVIOUS
<1>3. /\ t.got = snap.got /\ t.mode = snap.mode
      /\ t.pos = IF snap.mode = 2 /\ snap.got["TMODE"] # NoValue
                 THEN ExtractFixedModeECEF(snap.got["TMODE"]) ELSE snap.pos
  BY <1>1, <1>2, OverlayShows DEF Types, ShapeInv
<1>4. snap.mode = 2 /\ location = t.pos
  BY <1>1, <1>2, <1>3
<1>5. fixedAt # {}
  BY <1>4 DEF PageInv
<1>6. CASE snap.got["TMODE"] # NoValue
  <2>1. PICK was : was = snap.got["TMODE"]
    OBVIOUS
  <2>2. was \in seen.was["TMODE"] /\ was.mode = 2
    <3>1. "TMODE" \in Items
      BY DEF Items, ConfigItems
    <3> QED
      BY <1>4, <1>6, <2>1, <3>1 DEF Honest, PageInv
  <2>3. was.pos \in fixedAt
    BY <2>2
  <2>4. location = IF was.pos = "LLH" THEN "misread" ELSE was.pos
    BY <1>3, <1>4, <1>6, <2>1 DEF ExtractFixedModeECEF
  <2> QED
    BY <1>5, <2>3, <2>4
<1>7. CASE snap.got["TMODE"] = NoValue
  <2>1. location = snap.pos /\ published'.got["TMODE"] = NoValue
    BY <1>2, <1>3, <1>4, <1>7
  <2>2. Surveyed => seen.was["SVIN"] # {"none"}
    BY DEF Surveyed
  <2> QED
    BY <1>5, <2>1, <2>2 DEF PageInv
<1> QED
  BY <1>6, <1>7

\* A page that says "fixed" shows a position the receiver was fixed at in the
\* cycle the page is of, with one receiver on gpsd or frames that name theirs;
\* or it was set in degrees, or the TMODE was cut short before it (gpsmon.go,
\* cycle; tmode.go, ExtractFixedModeECEF; web.go, handleGPSDetailsPartial).
THEOREM FixedIsFixed ==
  ASSUME "bare" \notin Forms \/ Dev2 = Path
  PROVE  Spec => FixedPageShowsPosition
<1>1. OneReceiver
  BY DEF OneReceiver
<1>2. Types /\ Honest /\ [Next]_vars => Honest'
  BY <1>1, HonestStep
<1>3. Types /\ Honest /\ PageInv /\ [Next]_vars =>
        [published' # published /\ prog = "monitor" /\ handleGPSDetails'.body.mode = "fixed" =>
           LET location == handleGPSDetails'.body.location
               fixedAt  == {was.pos : was \in {v \in seen.was["TMODE"] : v.mode = 2}}
           IN /\ fixedAt # {}
              /\ \/ location \in fixedAt \ {"LLH"}
                 \/ location = "misread" /\ "LLH" \in fixedAt
                 \/ published'.got["TMODE"] = NoValue /\ location = "zero"
                 \/ published'.got["TMODE"] = NoValue /\ location = "surveyed"
                      /\ seen.was["SVIN"] # {"none"}]_vars
  BY FixedIsShown
<1> QED
  BY <1>2, <1>3, HonestInit, NotedInit, NotedStep, PageInit, PageStep, TypesAlways, PTL
     DEF Spec, FixedPageShowsPosition
=============================================================================
