------------------------ MODULE RadarcapeFeed_proofs ------------------------
(***************************************************************************)
(* Theorems about BeastServer, for any clients, frames and channel size:   *)
(* its types, the safety of its channels and connections, and that it      *)
(* implements ClientFeed; and about RadarcapeFeed, which composes it with  *)
(* the Radarcape state machine, for any number of messages: no GPS         *)
(* timestamp is encoded from a nil ref, and every frame is stamped in the  *)
(* mode that the frames before it announced.                               *)
(***************************************************************************)
EXTENDS RadarcapeFeed, SequenceTheorems, TLAPS

(***************************************************************************)
(* The server.  The inductive invariant adds two facts to the types.  A    *)
(* client that is not registered has had nothing done to it, so that the   *)
(* one registration there is meets an open, empty channel.  And a client's *)
(* pipe is whole: what was queued for it is what it was sent, then the     *)
(* frame being written, then what its channel holds.                       *)
(***************************************************************************)

Flight(fl) == IF fl = None THEN 0 ELSE 1

Piped(st, se, fl, q) ==
  /\ Len(st) = Len(se) + Flight(fl) + Len(q)
  /\ \A i \in 1..Len(se) : st[i] = se[i]
  /\ fl # None => st[Len(se) + 1] = fl
  /\ \A i \in 1..Len(q) : st[Len(se) + Flight(fl) + i] = q[i]

Untouched(c) == /\ c \notin clients /\ ~chClosed[c] /\ inflight[c] = None
                /\ ch[c] = <<>> /\ stream[c] = <<>> /\ sent[c] = <<>>

Served(c) ==
  /\ c \in clients => phase[c] \in {"spawn", "running", "failed"}
  /\ phase[c] \in {"spawn", "running", "failed"} => c \in clients \/ chClosed[c]
  /\ phase[c] = "ended" => conn[c] = "closed" \/ chClosed[c]

ClientInv(c) ==
  /\ phase[c] \in {"absent", "made"} => Untouched(c)
  /\ c \in clients => ~chClosed[c]
  /\ Served(c)
  /\ Piped(stream[c], sent[c], inflight[c], ch[c])

ServerInv == ServerTypeOK /\ \A c \in Clients : ClientInv(c)

----------------------------------------------------------------------------
(* The pipe of one client: what each operation on it does *)

LEMMA PipeStart ==
  ASSUME NEW w \in Seq(Frames)
  PROVE  Piped(w, <<>>, None, w) /\ Len(w) \in Nat
<1>1. Len(w) \in Nat /\ Len(<<>>) = 0
  OBVIOUS
<1> QED
  BY <1>1 DEF Piped, Flight

LEMMA AppendFacts ==
  ASSUME NEW s \in Seq(Frames), NEW f \in Frames
  PROVE  /\ Append(s, f) \in Seq(Frames) /\ Len(Append(s, f)) = Len(s) + 1
         /\ Append(s, f)[Len(s) + 1] = f
         /\ \A i \in 1..Len(s) : Append(s, f)[i] = s[i]
OBVIOUS

LEMMA PipeQueue ==
  ASSUME NEW st \in Seq(Frames), NEW se \in Seq(Frames), NEW q \in Seq(Frames),
         NEW fl, NEW f \in Frames, Piped(st, se, fl, q)
  PROVE  Piped(Append(st, f), se, fl, Append(q, f))
<1>1. PICK k \in 0..1 : k = Flight(fl) /\ (fl # None => k = 1)
  BY DEF Flight
<1>2. /\ Len(st) \in Nat /\ Len(se) \in Nat /\ Len(q) \in Nat
      /\ Len(st) = Len(se) + k + Len(q)
  BY <1>1 DEF Piped
<1>3. PICK t : t = Append(st, f)
  OBVIOUS
<1>4. PICK r : r = Append(q, f)
  OBVIOUS
<1>5. /\ Len(t) = Len(st) + 1 /\ t[Len(st) + 1] = f
      /\ \A i \in 1..Len(st) : t[i] = st[i]
  BY <1>3, AppendFacts
<1>6. /\ Len(r) = Len(q) + 1 /\ r[Len(q) + 1] = f
      /\ \A i \in 1..Len(q) : r[i] = q[i]
  BY <1>4, AppendFacts
<1>7. Len(t) = Len(se) + Flight(fl) + Len(r)
  BY <1>1, <1>2, <1>5, <1>6
<1>8. ASSUME NEW i \in 1..Len(se) PROVE t[i] = se[i]
  <2>1. i \in 1..Len(st) /\ st[i] = se[i]
    BY <1>1, <1>2 DEF Piped
  <2> QED
    BY <1>5, <2>1
<1>9. ASSUME fl # None PROVE t[Len(se) + 1] = fl
  <2>1. Len(se) + 1 \in 1..Len(st) /\ st[Len(se) + 1] = fl
    BY <1>1, <1>2, <1>9 DEF Piped
  <2> QED
    BY <1>5, <2>1
<1>10. ASSUME NEW i \in 1..Len(r) PROVE t[Len(se) + Flight(fl) + i] = r[i]
  <2>1. CASE i = Len(q) + 1
    <3>1. Len(se) + k + i = Len(st) + 1
      BY <1>1, <1>2, <2>1
    <3> QED
      BY <1>1, <1>5, <1>6, <2>1, <3>1
  <2>2. CASE i \in 1..Len(q)
    <3>1. Len(se) + k + i \in 1..Len(st)
      BY <1>1, <1>2, <2>2
    <3>2. st[Len(se) + k + i] = q[i]
      BY <1>1, <2>2 DEF Piped
    <3> QED
      BY <1>1, <1>5, <1>6, <2>2, <3>1, <3>2
  <2> QED
    BY <1>2, <1>6, <2>1, <2>2
<1> QED
  BY <1>3, <1>4, <1>7, <1>8, <1>9, <1>10 DEF Piped

LEMMA PipeTake ==
  ASSUME NEW st \in Seq(Frames), NEW se \in Seq(Frames), NEW q \in Seq(Frames),
         q # <<>>, Piped(st, se, None, q)
  PROVE  /\ Head(q) \in Frames /\ Tail(q) \in Seq(Frames)
         /\ Len(Tail(q)) < Len(q)
         /\ Piped(st, se, Head(q), Tail(q))
<1>1. PICK t : t = Tail(q)
  OBVIOUS
<1>2. PICK h : h = Head(q)
  OBVIOUS
<1>3. /\ h = q[1] /\ h \in Frames /\ t \in Seq(Frames)
      /\ Len(q) \in Nat \ {0} /\ Len(t) = Len(q) - 1
      /\ \A i \in 1..Len(t) : t[i] = q[i + 1]
  BY <1>1, <1>2
<1>4. Len(st) \in Nat /\ Len(se) \in Nat /\ Len(st) = Len(se) + Len(q)
  BY <1>3 DEF Piped, Flight
<1>5. \A i \in 1..Len(q) : st[Len(se) + i] = q[i]
  <2>1. Flight(None) = 0 /\ Len(se) + 0 = Len(se)
    BY <1>4 DEF Flight
  <2>2. \A i \in 1..Len(q) : st[Len(se) + 0 + i] = q[i]
    BY <2>1 DEF Piped
  <2> QED
    BY <2>1, <2>2
<1>6. h # None /\ Flight(h) = 1
  BY <1>3, ServerAssumption DEF Flight
<1>7. Len(st) = Len(se) + Flight(h) + Len(t)
  BY <1>3, <1>4, <1>6
<1>8. st[Len(se) + 1] = h
  BY <1>3, <1>5
<1>9. ASSUME NEW i \in 1..Len(t) PROVE st[Len(se) + Flight(h) + i] = t[i]
  <2>1. i + 1 \in 1..Len(q) /\ Len(se) + Flight(h) + i = Len(se) + (i + 1)
    BY <1>3, <1>4, <1>6
  <2>2. st[Len(se) + (i + 1)] = q[i + 1]
    BY <1>5, <2>1
  <2> QED
    BY <1>3, <2>1, <2>2
<1>10. Piped(st, se, h, t)
  BY <1>7, <1>8, <1>9 DEF Piped
<1>11. Len(t) < Len(q)
  BY <1>3
<1> QED
  BY <1>1, <1>2, <1>3, <1>10, <1>11

LEMMA PipeWrite ==
  ASSUME NEW st \in Seq(Frames), NEW se \in Seq(Frames), NEW q \in Seq(Frames),
         NEW fl \in Frames, Piped(st, se, fl, q)
  PROVE  /\ Piped(st, Append(se, fl), None, q)
         /\ Append(se, fl) = SubSeq(st, 1, Len(se) + 1)
         /\ se # st
<1>1. fl # None /\ Flight(fl) = 1 /\ Flight(None) = 0
  BY ServerAssumption DEF Flight
<1>2. /\ Len(st) \in Nat /\ Len(se) \in Nat /\ Len(q) \in Nat
      /\ Len(st) = Len(se) + 1 + Len(q) /\ st[Len(se) + 1] = fl
  BY <1>1 DEF Piped
<1>3. PICK a : a = Append(se, fl)
  OBVIOUS
<1>4. /\ a \in Seq(Frames) /\ Len(a) = Len(se) + 1 /\ a[Len(se) + 1] = fl
      /\ \A i \in 1..Len(se) : a[i] = se[i]
  BY <1>3, AppendFacts
<1>5. ASSUME NEW i \in 1..Len(a) PROVE st[i] = a[i]
  <2>1. CASE i = Len(se) + 1
    BY <1>2, <1>4, <2>1
  <2>2. CASE i \in 1..Len(se)
    <3>1. st[i] = se[i]
      BY <2>2 DEF Piped
    <3> QED
      BY <1>4, <2>2, <3>1
  <2> QED
    BY <1>2, <1>4, <2>1, <2>2
<1>6. Piped(st, a, None, q)
  <2>1. Len(st) = Len(a) + Flight(None) + Len(q)
    BY <1>1, <1>2, <1>4
  <2>2. ASSUME NEW i \in 1..Len(q) PROVE st[Len(a) + Flight(None) + i] = q[i]
    <3>1. Len(a) + Flight(None) + i = Len(se) + Flight(fl) + i
      BY <1>1, <1>2, <1>4
    <3> QED
      BY <3>1 DEF Piped
  <2> QED
    BY <1>5, <2>1, <2>2 DEF Piped
<1>7. PICK b : b = SubSeq(st, 1, Len(se) + 1)
  OBVIOUS
<1>8. /\ b \in Seq(Frames) /\ Len(b) = Len(se) + 1
      /\ \A i \in 1..(Len(se) + 1) : b[i] = st[i]
  BY <1>2, <1>7
<1>9. a = b
  <2>1. Len(a) = Len(b) /\ \A i \in 1..Len(a) : a[i] = b[i]
    BY <1>4, <1>5, <1>8
  <2> QED
    BY <1>4, <1>8, <2>1, SeqEqual
<1>10. se # st
  BY <1>2
<1> QED
  BY <1>3, <1>6, <1>7, <1>9, <1>10

----------------------------------------------------------------------------
(* The invariant: what each step does to the client it is about, and that   *)
(* it leaves the others alone *)

Same(c) ==
  /\ (c \in clients') = (c \in clients)
  /\ phase'[c] = phase[c] /\ chClosed'[c] = chClosed[c]
  /\ inflight'[c] = inflight[c] /\ conn'[c] = conn[c]
  /\ ch'[c] = ch[c] /\ stream'[c] = stream[c] /\ sent'[c] = sent[c]

LEMMA SameKeeps ==
  ASSUME NEW c \in Clients, ClientInv(c), Same(c)
  PROVE  ClientInv(c)'
BY DEF Same, ClientInv, Untouched, Served, Piped, Flight

LEMMA WelcomeFits ==
  ASSUME NEW w \in Welcomes \cup {<<>>}
  PROVE  w \in Seq(Frames) /\ Len(w) =< ClientBufSize
<1>1. <<>> \in Seq(Frames) /\ Len(<<>>) = 0 /\ ClientBufSize \in Nat
  BY EmptySeq, ServerAssumption
<1>2. CASE w = <<>>
  BY <1>1, <1>2
<1>3. CASE w \in Welcomes
  BY <1>3, ServerAssumption
<1> QED
  BY <1>2, <1>3

LEMMA InitServerInv ==
  ASSUME NEW w \in Welcomes \cup {<<>>}, ServerInit(w)
  PROVE  ServerInv
<1>1. ServerTypeOK
  <2>1. /\ <<>> \in Seq(Frames) /\ Len(<<>>) = 0 /\ 0 =< ClientBufSize
    BY ServerAssumption
  <2> QED
    BY <2>1 DEF ServerInit, ServerTypeOK, Phases
<1>2. ASSUME NEW c \in Clients PROVE ClientInv(c)
  <2>1. Piped(<<>>, <<>>, None, <<>>)
    <3>1. <<>> \in Seq(Frames)
      BY EmptySeq
    <3> QED
      BY <3>1, PipeStart
  <2> QED
    BY <2>1 DEF ServerInit, ClientInv, Untouched, Served
<1> QED
  BY <1>1, <1>2 DEF ServerInv

LEMMA StepServerType ==
  ASSUME ServerInv, [ServerNext]_serverVars
  PROVE  ServerTypeOK'
<1> USE DEF ServerTypeOK, Phases
<1>a. ServerTypeOK /\ \A c \in Clients : ClientInv(c)
  BY DEF ServerInv
<1>b. ClientBufSize \in Nat
  BY ServerAssumption
<1>1. ASSUME NEW w \in Welcomes, SetWelcome(w) PROVE ServerTypeOK'
  BY <1>a, <1>1 DEF SetWelcome, feeds
<1>2. ASSUME NEW f \in Frames, Broadcast(f) PROVE ServerTypeOK'
  <2>1. UNCHANGED <<welcome, clients, listening, done, stop, acceptor, phase,
                    chClosed, inflight, conn, sent>>
    BY <1>2 DEF Broadcast
  <2>2. log' \in Seq(Frames)
    BY <1>a, <1>2 DEF Broadcast
  <2>3. ASSUME NEW c \in Clients
        PROVE  /\ ch'[c] \in Seq(Frames) /\ Len(ch'[c]) <= ClientBufSize
               /\ stream'[c] \in Seq(Frames)
    <3>1. ch[c] \in Seq(Frames) /\ stream[c] \in Seq(Frames) /\ Len(ch[c]) \in Nat
          /\ Len(ch[c]) =< ClientBufSize
      BY <1>a
    <3>2. CASE c \in clients /\ HasRoom(c)
      <4>1. ch'[c] = Append(ch[c], f) /\ stream'[c] = Append(stream[c], f)
        BY <1>2, <3>2 DEF Broadcast
      <4>2. Len(ch[c]) < ClientBufSize
        BY <3>2 DEF HasRoom
      <4> QED
        BY <1>b, <3>1, <4>1, <4>2, AppendFacts
    <3>3. CASE ~(c \in clients /\ HasRoom(c))
      BY <1>2, <3>1, <3>3 DEF Broadcast
    <3> QED
      BY <3>2, <3>3
  <2>4. ch' \in [Clients -> Seq(Frames)] /\ stream' \in [Clients -> Seq(Frames)]
    BY <1>2, <2>3 DEF Broadcast
  <2> QED
    BY <1>a, <2>1, <2>2, <2>3, <2>4
<1>3. CASE AcceptFails
  BY <1>a, <1>3 DEF AcceptFails, feeds
<1>4. ASSUME NEW c \in Clients, Accept(c) \/ AddConn(c) PROVE ServerTypeOK'
  BY <1>a, <1>4 DEF Accept, AddConn, feeds
<1>5. ASSUME NEW c \in Clients, Register(c) PROVE ServerTypeOK'
  <2>1. Untouched(c) /\ welcome \in Welcomes \cup {<<>>}
    BY <1>a, <1>5 DEF Register, ClientInv
  <2>2. welcome \in Seq(Frames) /\ Len(welcome) =< ClientBufSize
    BY <2>1, WelcomeFits
  <2>3. <<>> \o welcome = welcome
    BY <2>2, ConcatEmptySeq
  <2>4. ch' = [ch EXCEPT ![c] = welcome] /\ stream' = [stream EXCEPT ![c] = welcome]
    BY <1>5, <2>1, <2>3 DEF Register, Untouched
  <2>5. /\ clients' = clients \cup {c} /\ phase' = [phase EXCEPT ![c] = "spawn"]
        /\ UNCHANGED <<welcome, listening, done, stop, acceptor, chClosed, inflight,
                       conn, sent, log>>
    BY <1>5 DEF Register
  <2>6. \A x \in Clients : Len(ch'[x]) =< ClientBufSize
    BY <1>a, <2>2, <2>4
  <2>7. ch' \in [Clients -> Seq(Frames)] /\ stream' \in [Clients -> Seq(Frames)]
    BY <1>a, <2>2, <2>4
  <2>8. clients' \subseteq Clients /\ phase' \in [Clients -> Phases]
    BY <1>a, <2>5
  <2> QED
    BY <1>a, <2>5, <2>6, <2>7, <2>8
<1>6. ASSUME NEW c \in Clients, StartWriter(c) PROVE ServerTypeOK'
  BY <1>a, <1>6 DEF StartWriter, feeds
<1>7. ASSUME NEW c \in Clients, Take(c) PROVE ServerTypeOK'
  <2>1. ch[c] # <<>> /\ inflight[c] = None
        /\ Piped(stream[c], sent[c], inflight[c], ch[c])
    BY <1>a, <1>7 DEF Take, ClientInv
  <2>2. stream[c] \in Seq(Frames) /\ sent[c] \in Seq(Frames) /\ ch[c] \in Seq(Frames)
        /\ Len(ch[c]) \in Nat
    BY <1>a
  <2>3. Head(ch[c]) \in Frames /\ Tail(ch[c]) \in Seq(Frames)
        /\ Len(Tail(ch[c])) < Len(ch[c]) /\ Len(Tail(ch[c])) \in Nat
    BY <2>1, <2>2, PipeTake
  <2>4. /\ inflight' = [inflight EXCEPT ![c] = Head(ch[c])]
        /\ ch' = [ch EXCEPT ![c] = Tail(ch[c])]
        /\ UNCHANGED <<welcome, clients, listening, done, stop, acceptor, phase,
                       chClosed, conn, stream, sent, log>>
    BY <1>7 DEF Take, feeds
  <2>5. \A x \in Clients : Len(ch'[x]) =< ClientBufSize
    <3> SUFFICES ASSUME NEW x \in Clients PROVE Len(ch'[x]) =< ClientBufSize
      OBVIOUS
    <3>1. Len(ch[c]) =< ClientBufSize
      BY <1>a
    <3>2. CASE x = c
      BY <1>a, <1>b, <2>2, <2>3, <2>4, <3>1, <3>2
    <3>3. CASE x # c
      BY <1>a, <2>4, <3>3
    <3> QED
      BY <3>2, <3>3
  <2>6. inflight' \in [Clients -> Frames \cup {None}] /\ ch' \in [Clients -> Seq(Frames)]
    BY <1>a, <2>3, <2>4
  <2> QED
    BY <1>a, <2>4, <2>5, <2>6
<1>8. ASSUME NEW c \in Clients, WriteOk(c) PROVE ServerTypeOK'
  <2>1. inflight[c] \in Frames /\ sent[c] \in Seq(Frames)
    BY <1>a, <1>8 DEF WriteOk
  <2>2. Append(sent[c], inflight[c]) \in Seq(Frames)
    BY <2>1, AppendFacts
  <2> QED
    BY <1>a, <1>8, <2>2 DEF WriteOk
<1>9. ASSUME NEW c \in Clients, WriteFails(c) \/ RemoveClient(c) \/ WriterEnds(c)
      PROVE  ServerTypeOK'
  BY <1>a, <1>9 DEF WriteFails, RemoveClient, WriterEnds, feeds
<1>10. CASE Stopper
  BY <1>a, <1>10 DEF Stopper, CloseDone, CloseListener, CloseClients, feeds
<1>11. CASE UNCHANGED serverVars
  BY <1>a, <1>11 DEF serverVars, feeds
<1> QED
  BY <1>1, <1>2, <1>3, <1>4, <1>5, <1>6, <1>7, <1>8, <1>9, <1>10, <1>11
  DEF ServerNext, ServerStep, Registrar, Writer

LEMMA StepClientInv ==
  ASSUME ServerInv, [ServerNext]_serverVars, NEW c \in Clients
  PROVE  ClientInv(c)'
<1>a. ClientInv(c) /\ Same(c) => ClientInv(c)'
  BY SameKeeps
<1>b. /\ ClientInv(c) /\ clients \subseteq Clients
      /\ ch \in [Clients -> Seq(Frames)] /\ stream \in [Clients -> Seq(Frames)]
      /\ sent \in [Clients -> Seq(Frames)] /\ phase \in [Clients -> Phases]
      /\ inflight \in [Clients -> Frames \cup {None}]
      /\ chClosed \in [Clients -> BOOLEAN]
      /\ conn \in [Clients -> {"none", "open", "closed"}]
      /\ welcome \in Welcomes \cup {<<>>}
  BY DEF ServerInv, ServerTypeOK
<1>1. ASSUME NEW w \in Welcomes, SetWelcome(w) PROVE ClientInv(c)'
  BY <1>a, <1>b, <1>1 DEF SetWelcome, Same, feeds
<1>2. ASSUME NEW f \in Frames, Broadcast(f) PROVE ClientInv(c)'
  <2>1. UNCHANGED <<clients, phase, chClosed, inflight, conn, sent>>
    BY <1>2 DEF Broadcast
  <2>2. CASE c \in clients /\ HasRoom(c)
    <3>1. ch'[c] = Append(ch[c], f) /\ stream'[c] = Append(stream[c], f)
      BY <1>2, <2>2 DEF Broadcast
    <3>2. Piped(stream[c], sent[c], inflight[c], ch[c])
      BY <1>b DEF ClientInv
    <3>3. Piped(stream'[c], sent'[c], inflight'[c], ch'[c])
      BY <1>b, <2>1, <3>1, <3>2, PipeQueue
    <3>4. phase[c] \notin {"absent", "made"}
      BY <1>b, <2>2 DEF ClientInv, Untouched
    <3> QED
      BY <1>b, <2>1, <3>3, <3>4 DEF ClientInv, Served
  <2>3. CASE ~(c \in clients /\ HasRoom(c))
    <3>1. ch'[c] = ch[c] /\ stream'[c] = stream[c]
      BY <1>b, <1>2, <2>3 DEF Broadcast
    <3> QED
      BY <1>a, <1>b, <2>1, <3>1 DEF Same
  <2> QED
    BY <2>2, <2>3
<1>3. CASE AcceptFails
  BY <1>a, <1>b, <1>3 DEF AcceptFails, Same, feeds
<1>4. ASSUME NEW d \in Clients, Accept(d) \/ AddConn(d) PROVE ClientInv(c)'
  <2>1. UNCHANGED <<clients, ch, chClosed, inflight, stream, sent>>
    BY <1>4 DEF Accept, AddConn, feeds
  <2>2. CASE c = d
    <3>1. phase[c] = "absent" /\ phase'[c] = "made"
      BY <1>b, <1>4, <2>2 DEF Accept, AddConn
    <3> QED
      BY <1>b, <2>1, <3>1 DEF ClientInv, Untouched, Served
  <2>3. CASE c # d
    BY <1>a, <1>b, <1>4, <2>1, <2>3 DEF Accept, AddConn, Same
  <2> QED
    BY <2>2, <2>3
<1>5. ASSUME NEW d \in Clients, Register(d) PROVE ClientInv(c)'
  <2>1. /\ ch' = [ch EXCEPT ![d] = ch[d] \o welcome]
        /\ stream' = [stream EXCEPT ![d] = stream[d] \o welcome]
        /\ clients' = clients \cup {d} /\ phase' = [phase EXCEPT ![d] = "spawn"]
        /\ phase[d] = "made"
        /\ UNCHANGED <<chClosed, inflight, conn, sent>>
    BY <1>5 DEF Register
  <2>2. CASE c = d
    <3>1. Untouched(c) /\ welcome \in Seq(Frames)
      BY <1>b, <2>1, <2>2, WelcomeFits DEF ClientInv
    <3>2. ch'[c] = welcome /\ stream'[c] = welcome /\ sent'[c] = <<>> /\ inflight'[c] = None
      BY <1>b, <2>1, <2>2, <3>1, ConcatEmptySeq DEF Untouched
    <3>3. Piped(stream'[c], sent'[c], inflight'[c], ch'[c])
      BY <3>1, <3>2, PipeStart
    <3>4. phase'[c] = "spawn" /\ c \in clients' /\ ~chClosed'[c]
      BY <1>b, <2>1, <2>2, <3>1 DEF Untouched
    <3> QED
      BY <3>3, <3>4 DEF ClientInv, Served
  <2>3. CASE c # d
    BY <1>a, <1>b, <2>1, <2>3 DEF Same
  <2> QED
    BY <2>2, <2>3
<1>6. ASSUME NEW d \in Clients, StartWriter(d) PROVE ClientInv(c)'
  <2>1. /\ UNCHANGED <<clients, ch, chClosed, inflight, conn, stream, sent>>
        /\ phase[d] = "spawn" /\ phase' = [phase EXCEPT ![d] = "running"]
    BY <1>6 DEF StartWriter, feeds
  <2>2. CASE c = d
    BY <1>b, <2>1, <2>2 DEF ClientInv, Served
  <2>3. CASE c # d
    BY <1>a, <1>b, <2>1, <2>3 DEF Same
  <2> QED
    BY <2>2, <2>3
<1>7. ASSUME NEW d \in Clients, Take(d) PROVE ClientInv(c)'
  <2>1. /\ UNCHANGED <<clients, phase, chClosed, conn, stream, sent>>
        /\ phase[d] = "running" /\ inflight[d] = None /\ ch[d] # <<>>
        /\ inflight' = [inflight EXCEPT ![d] = Head(ch[d])]
        /\ ch' = [ch EXCEPT ![d] = Tail(ch[d])]
    BY <1>7 DEF Take, feeds
  <2>2. CASE c = d
    <3>1. Piped(stream[c], sent[c], None, ch[c])
      BY <1>b, <2>1, <2>2 DEF ClientInv
    <3>2. Piped(stream[c], sent[c], Head(ch[c]), Tail(ch[c]))
      BY <1>b, <2>1, <2>2, <3>1, PipeTake
    <3>3. ch'[c] = Tail(ch[c]) /\ inflight'[c] = Head(ch[c])
      BY <1>b, <2>1, <2>2
    <3>4. Piped(stream'[c], sent'[c], inflight'[c], ch'[c])
      BY <2>1, <3>2, <3>3
    <3>5. phase'[c] = "running"
      BY <2>1, <2>2
    <3> QED
      BY <1>b, <2>1, <2>2, <3>4, <3>5 DEF ClientInv, Served
  <2>3. CASE c # d
    BY <1>a, <1>b, <2>1, <2>3 DEF Same
  <2> QED
    BY <2>2, <2>3
<1>8. ASSUME NEW d \in Clients, WriteOk(d) PROVE ClientInv(c)'
  <2>1. /\ UNCHANGED <<clients, phase, ch, chClosed, conn, stream>>
        /\ phase[d] = "running" /\ inflight[d] # None
        /\ sent' = [sent EXCEPT ![d] = Append(sent[d], inflight[d])]
        /\ inflight' = [inflight EXCEPT ![d] = None]
    BY <1>8 DEF WriteOk
  <2>2. CASE c = d
    <3>1. Piped(stream[c], sent[c], inflight[c], ch[c]) /\ inflight[c] \in Frames
      BY <1>b, <2>1, <2>2 DEF ClientInv
    <3>2. Piped(stream[c], Append(sent[c], inflight[c]), None, ch[c])
      BY <1>b, <3>1, PipeWrite
    <3>3. sent'[c] = Append(sent[c], inflight[c]) /\ inflight'[c] = None
      BY <1>b, <2>1, <2>2
    <3>4. Piped(stream'[c], sent'[c], inflight'[c], ch'[c])
      BY <2>1, <3>2, <3>3
    <3>5. phase'[c] = "running"
      BY <2>1, <2>2
    <3> QED
      BY <1>b, <2>1, <2>2, <3>4, <3>5 DEF ClientInv, Served
  <2>3. CASE c # d
    BY <1>a, <1>b, <2>1, <2>3 DEF Same
  <2> QED
    BY <2>2, <2>3
<1>9. ASSUME NEW d \in Clients, WriteFails(d) PROVE ClientInv(c)'
  <2>1. /\ UNCHANGED <<clients, ch, chClosed, inflight, conn, stream, sent>>
        /\ phase[d] = "running" /\ phase' = [phase EXCEPT ![d] = "failed"]
    BY <1>9 DEF WriteFails, feeds
  <2>2. CASE c = d
    BY <1>b, <2>1, <2>2 DEF ClientInv, Served
  <2>3. CASE c # d
    BY <1>a, <1>b, <2>1, <2>3 DEF Same
  <2> QED
    BY <2>2, <2>3
<1>10. ASSUME NEW d \in Clients, RemoveClient(d) PROVE ClientInv(c)'
  <2>1. /\ UNCHANGED <<ch, chClosed, inflight, stream, sent>>
        /\ phase[d] = "failed" /\ phase' = [phase EXCEPT ![d] = "ended"]
        /\ clients' = clients \ {d}
        /\ conn' = IF d \in clients THEN [conn EXCEPT ![d] = "closed"] ELSE conn
    BY <1>10 DEF RemoveClient, feeds
  <2>2. CASE c = d
    <3>1. phase'[c] = "ended" /\ c \notin clients'
      BY <1>b, <2>1, <2>2
    <3>2. conn'[c] = "closed" \/ chClosed'[c]
      BY <1>b, <2>1, <2>2 DEF ClientInv, Served
    <3>3. Piped(stream'[c], sent'[c], inflight'[c], ch'[c])
      BY <1>b, <2>1 DEF ClientInv
    <3> QED
      BY <3>1, <3>2, <3>3 DEF ClientInv, Served
  <2>3. CASE c # d
    BY <1>a, <1>b, <2>1, <2>3 DEF Same
  <2> QED
    BY <2>2, <2>3
<1>11. ASSUME NEW d \in Clients, WriterEnds(d) PROVE ClientInv(c)'
  <2>1. /\ UNCHANGED <<clients, ch, chClosed, inflight, stream, sent>>
        /\ phase[d] = "running" /\ chClosed[d]
        /\ phase' = [phase EXCEPT ![d] = "ended"]
        /\ conn' = [conn EXCEPT ![d] = "closed"]
    BY <1>11 DEF WriterEnds, feeds
  <2>2. CASE c = d
    BY <1>b, <2>1, <2>2 DEF ClientInv, Served
  <2>3. CASE c # d
    BY <1>a, <1>b, <2>1, <2>3 DEF Same
  <2> QED
    BY <2>2, <2>3
<1>12. CASE Stopper
  <2>1. CASE CloseDone \/ CloseListener
    BY <1>a, <1>b, <2>1 DEF CloseDone, CloseListener, Same, feeds
  <2>2. CASE CloseClients
    <3>1. /\ clients' = {} /\ UNCHANGED <<phase, ch, inflight, conn, stream, sent>>
          /\ chClosed'[c] = (chClosed[c] \/ c \in clients)
      BY <2>2 DEF CloseClients, feeds
    <3>2. Piped(stream'[c], sent'[c], inflight'[c], ch'[c])
      BY <1>b, <3>1 DEF ClientInv
    <3>3. phase'[c] \in {"absent", "made"} => Untouched(c)'
      BY <1>b, <3>1 DEF ClientInv, Untouched
    <3>4. Served(c)'
      BY <1>b, <3>1 DEF ClientInv, Served
    <3> QED
      BY <3>1, <3>2, <3>3, <3>4 DEF ClientInv
  <2> QED
    BY <1>12, <2>1, <2>2 DEF Stopper
<1>13. CASE UNCHANGED serverVars
  BY <1>a, <1>b, <1>13 DEF serverVars, Same, feeds
<1> QED
  BY <1>1, <1>2, <1>3, <1>4, <1>5, <1>6, <1>7, <1>8, <1>9, <1>10, <1>11, <1>12, <1>13
  DEF ServerNext, ServerStep, Registrar, Writer

LEMMA AlwaysServerInv == ServerSpec => []ServerInv
<1>1. ServerInit(<<>>) => ServerInv
  BY InitServerInv
<1>2. ServerInv /\ [ServerNext]_serverVars => ServerInv'
  BY StepServerType, StepClientInv DEF ServerInv
<1> QED
  BY <1>1, <1>2, PTL DEF ServerSpec

(* The state of the server is what its declarations say, the bound of the   *)
(* channels included.                                                       *)
THEOREM ServerTyped == ServerSpec => []ServerTypeOK
<1>1. ServerInv => ServerTypeOK
  BY DEF ServerInv
<1> QED
  BY <1>1, AlwaysServerInv, PTL

(* Broadcast never sends to a closed channel, and Stop closes none twice,   *)
(* whatever the order of registrations, failing writers and Stop.           *)
THEOREM NoPanic == ServerSpec => []MapHoldsOpenChannels
<1>1. ServerInv => MapHoldsOpenChannels
  BY DEF ServerInv, ServerTypeOK, ClientInv, MapHoldsOpenChannels
<1> QED
  BY <1>1, AlwaysServerInv, PTL

(* A client that was registered is in the map, or was let go of by Stop, or *)
(* its connection is closed.                                                *)
THEOREM NoClientForgotten == ServerSpec => []ServedOrClosed
<1>1. ServerInv => ServedOrClosed
  BY DEF ServerInv, ClientInv, Served, ServedOrClosed
<1> QED
  BY <1>1, AlwaysServerInv, PTL
----------------------------------------------------------------------------
(* The refinement *)

LEMMA StepImplementsFeed ==
  ASSUME ServerInv, [ServerNext]_serverVars
  PROVE  [Feeds!Next]_(Feeds!vars)
<1> DEFINE Stutters == UNCHANGED <<log, stream, sent, clients>>
<1>a. ServerTypeOK /\ \A c \in Clients : ClientInv(c)
  BY DEF ServerInv
<1>b. Stutters => [Feeds!Next]_(Feeds!vars)
  BY DEF Feeds!vars
<1>1. ASSUME NEW w \in Welcomes, SetWelcome(w) PROVE Stutters
  BY <1>1 DEF SetWelcome, feeds
<1>2. ASSUME NEW f \in Frames, Broadcast(f) PROVE Feeds!Next
  <2> DEFINE takers == {c \in clients : HasRoom(c)}
  <2>1. /\ log' = Append(log, f) /\ UNCHANGED <<clients, sent>>
        /\ stream' = [c \in Clients |->
                        IF c \in takers THEN Append(stream[c], f) ELSE stream[c]]
    BY <1>2 DEF Broadcast
  <2>2. takers \in SUBSET clients
    OBVIOUS
  <2>3. {c \in clients : Feeds!Room(c)} \subseteq takers
    <3> SUFFICES ASSUME NEW c \in clients, Feeds!Room(c) PROVE HasRoom(c)
      OBVIOUS
    <3>1. c \in Clients /\ ClientInv(c)
      BY <1>a DEF ServerTypeOK
    <3>2. /\ stream[c] \in Seq(Frames) /\ sent[c] \in Seq(Frames) /\ ch[c] \in Seq(Frames)
          /\ Len(stream[c]) = Len(sent[c]) + Flight(inflight[c]) + Len(ch[c])
          /\ Flight(inflight[c]) \in 0..1
      BY <1>a, <3>1 DEF ServerTypeOK, ClientInv, Piped, Flight
    <3>3. Len(stream[c]) \in Nat /\ Len(sent[c]) \in Nat /\ Len(ch[c]) \in Nat
      BY <3>2
    <3>4. Len(stream[c]) - Len(sent[c]) < ClientBufSize
      BY DEF Feeds!Room
    <3>5. ClientBufSize \in Nat
      BY ServerAssumption
    <3> QED
      BY <3>2, <3>3, <3>4, <3>5 DEF HasRoom
  <2>4. Feeds!Offer(f)
    BY <2>1, <2>2, <2>3 DEF Feeds!Offer
  <2> QED
    BY <2>4 DEF Feeds!Next
<1>3. CASE AcceptFails
  BY <1>3, <1>b DEF AcceptFails, feeds
<1>4. ASSUME NEW c \in Clients,
             \/ Accept(c) \/ AddConn(c) \/ StartWriter(c)
             \/ Take(c) \/ WriteFails(c) \/ WriterEnds(c)
      PROVE  Stutters
  BY <1>4 DEF Accept, AddConn, StartWriter, Take, WriteFails, WriterEnds, feeds
<1>5. ASSUME NEW c \in Clients, Register(c) PROVE Feeds!Next
  <2>1. /\ phase[c] = "made" /\ welcome \in Welcomes \cup {<<>>}
        /\ stream' = [stream EXCEPT ![c] = stream[c] \o welcome]
        /\ clients' = clients \cup {c} /\ UNCHANGED <<log, sent>>
    BY <1>a, <1>5 DEF Register, ServerTypeOK
  <2>2. c \notin clients /\ stream[c] = <<>>
    BY <1>a, <2>1 DEF ClientInv, Untouched
  <2>3. <<>> \o welcome = welcome
    BY <2>1, WelcomeFits, ConcatEmptySeq
  <2>4. Feeds!Join(c, welcome)
    BY <2>1, <2>2, <2>3 DEF Feeds!Join
  <2> QED
    BY <2>1, <2>4 DEF Feeds!Next
<1>6. ASSUME NEW c \in Clients, WriteOk(c) PROVE Feeds!Next
  <2>1. /\ inflight[c] # None /\ UNCHANGED <<log, stream, clients>>
        /\ sent' = [sent EXCEPT ![c] = Append(sent[c], inflight[c])]
    BY <1>6 DEF WriteOk
  <2>2. /\ stream[c] \in Seq(Frames) /\ sent[c] \in Seq(Frames) /\ ch[c] \in Seq(Frames)
        /\ inflight[c] \in Frames
        /\ Piped(stream[c], sent[c], inflight[c], ch[c])
    BY <1>a, <2>1 DEF ServerTypeOK, ClientInv
  <2>3. /\ Append(sent[c], inflight[c]) = SubSeq(stream[c], 1, Len(sent[c]) + 1)
        /\ sent[c] # stream[c]
    BY <2>2, PipeWrite
  <2>4. Feeds!Receive(c)
    BY <2>1, <2>3 DEF Feeds!Receive
  <2> QED
    BY <2>4 DEF Feeds!Next
<1>7. ASSUME NEW c \in Clients, RemoveClient(c) PROVE Feeds!Next
  <2>1. Feeds!Leave({c})
    BY <1>7 DEF RemoveClient, Feeds!Leave, feeds
  <2> QED
    BY <2>1 DEF Feeds!Next
<1>8. CASE CloseDone \/ CloseListener
  BY <1>8, <1>b DEF CloseDone, CloseListener, feeds
<1>9. CASE CloseClients
  <2>1. Feeds!Leave(clients)
    BY <1>9 DEF CloseClients, Feeds!Leave, feeds
  <2>2. clients \in SUBSET Clients
    BY <1>a DEF ServerTypeOK
  <2> QED
    BY <2>1, <2>2 DEF Feeds!Next
<1>10. CASE UNCHANGED serverVars
  BY <1>10, <1>b DEF serverVars, feeds
<1> HIDE DEF Stutters
<1> QED
  BY <1>b, <1>1, <1>2, <1>3, <1>4, <1>5, <1>6, <1>7, <1>8, <1>9, <1>10
  DEF ServerNext, ServerStep, Registrar, Writer, Stopper

(* "broadcasts to all", "Slow clients are skipped (frame dropped)": each    *)
(* client is sent its welcome frames and then a selection of the frames     *)
(* broadcast while it is in the map, in order, each once, and a frame       *)
(* passes it by only when it is ClientBufSize frames behind.                *)
THEOREM ServerImplementsFeed == ServerSpec => ImplementsFeed
<1>1. ServerInit(<<>>) => Feeds!Init
  BY DEF ServerInit, Feeds!Init
<1>2. ServerInv /\ [ServerNext]_serverVars => [Feeds!Next]_(Feeds!vars)
  BY StepImplementsFeed
<1> QED
  BY <1>1, <1>2, AlwaysServerInv, PTL DEF ServerSpec, ImplementsFeed, Feeds!Spec

----------------------------------------------------------------------------

(***************************************************************************)
(* The state machine.  Both theorems about it rest on what emit leaves     *)
(* behind at each of its stages.  Between calls the mode of the stream,    *)
(* currentMode and desiredMode agree, and in GPS mode the last good ref is *)
(* kept.  A control frame that waits to be broadcast is stamped in the     *)
(* mode of the stream and announces the current one.                       *)
(***************************************************************************)

(* The ref of the call of emit under way fits the mode it has chosen. *)
RefInv ==
  /\ currentMode \in Modes
  /\ currentMode = GPS => lastGoodRef = "synced"
  /\ pc # "poll" /\ currentMode = GPS => clockRef = "synced"
  /\ NeverEncodesNilRef

LEMMA InitRefInv == Init => RefInv
<1> SUFFICES ASSUME Init PROVE RefInv
  OBVIOUS
<1> QED
  BY RadarcapeAssumption
  DEF Init, RefInv, NeverEncodesNilRef, Modes, Refs, Desired, Crashes

LEMMA StepRefInv == RefInv /\ [Next]_vars => RefInv'
<1> SUFFICES ASSUME RefInv, [Next]_vars PROVE RefInv'
  OBVIOUS
<1> USE DEF RefInv, NeverEncodesNilRef
<1>1. ASSUME NEW ref \in Refs, NEW due \in BOOLEAN, EmitBegin(ref, due)
      PROVE  RefInv'
  <2>1. /\ currentMode' = Desired(ref) /\ clockRef' = ref
        /\ lastGoodRef' = LastGood(ref)
        /\ nilDeref' = (nilDeref \/ ControlFrames(ref, due).nil)
    BY <1>1 DEF EmitBegin
  <2>2. Desired(ref) \in Modes /\ (Desired(ref) = GPS <=> ref = "synced")
    BY RadarcapeAssumption DEF Desired, Modes
  <2>3. Desired(ref) = GPS => LastGood(ref) = "synced"
    BY <2>2 DEF LastGood
  <2>4. ControlFrames(ref, due).nil = FALSE
    <3>1. CASE Desired(ref) # currentMode
      <4> DEFINE tsRef == IF currentMode = GPS /\ ref # "synced" THEN LastGood(ref) ELSE ref
      <4>1. ControlFrames(ref, due).nil = Crashes(currentMode, tsRef)
        BY <3>1 DEF ControlFrames
      <4>2. currentMode = GPS => tsRef = "synced"
        BY DEF LastGood
      <4> QED
        BY <4>1, <4>2 DEF Crashes
    <3>2. CASE Desired(ref) = currentMode /\ due
      <4>1. ControlFrames(ref, due).nil = Crashes(Desired(ref), ref)
        BY <3>2 DEF ControlFrames
      <4> QED
        BY <4>1, <2>2 DEF Crashes
    <3>3. CASE Desired(ref) = currentMode /\ ~due
      BY <3>3 DEF ControlFrames
    <3> QED
      BY <3>1, <3>2, <3>3
  <2> QED
    BY <2>1, <2>2, <2>3, <2>4
<1>2. CASE EmitControl
  BY <1>2 DEF EmitControl
<1>3. CASE EmitWelcome
  BY <1>3 DEF EmitWelcome, Crashes
<1>4. CASE EmitData
  BY <1>4 DEF EmitData, Crashes
<1>5. ASSUME NEW c \in Clients, Joins(c) PROVE RefInv'
  BY <1>5 DEF Joins
<1>6. CASE ServerOwn \/ Shutdown \/ UNCHANGED vars
  BY <1>6 DEF ServerOwn, Shutdown, vars, rcVars
<1> QED
  BY <1>1, <1>2, <1>3, <1>4, <1>5, <1>6 DEF Next

(* beast.go:45-47: "ref must be non-nil" in GPS mode.  No order of good,    *)
(* bad and missing clock refs makes emit or emitControlFrames panic.        *)
THEOREM NilRefNeverEncoded == Spec => []NeverEncodesNilRef
<1>1. RefInv => NeverEncodesNilRef
  BY DEF RefInv
<1> QED
  BY <1>1, InitRefInv, StepRefInv, PTL DEF Spec

----------------------------------------------------------------------------

(* The stream is in the current mode, but for a control frame that waits    *)
(* to put it there.                                                         *)
Pending(f) == /\ f \in AllFrames /\ IsStatus(f)
              /\ f.mode = currentMode
              /\ InMode(log, Len(log), f.ts)

StreamInv ==
  /\ currentMode \in Modes
  /\ log \in Seq(AllFrames)
  /\ IF pc = "control" THEN \E f \in AllFrames : frames = <<f>> /\ Pending(f)
                       ELSE InMode(log, Len(log), currentMode)
  /\ BroadcastsParse

(* A frame more puts a decoder in the mode it announces, if it announces    *)
(* one, and leaves what was decoded before as it was.                       *)
LEMMA InModeAppend ==
  ASSUME NEW s \in Seq(AllFrames), NEW f \in AllFrames, NEW m
  PROVE  /\ IsStatus(f) => InMode(Append(s, f), Len(s) + 1, f.mode)
         /\ ~IsStatus(f) /\ InMode(s, Len(s), m) => InMode(Append(s, f), Len(s) + 1, m)
         /\ \A n \in 0..Len(s) : InMode(s, n, m) => InMode(Append(s, f), n, m)
<1> DEFINE t == Append(s, f)
<1>1. /\ t \in Seq(AllFrames) /\ Len(t) = Len(s) + 1
      /\ t[Len(s) + 1] = f
      /\ \A i \in 1..Len(s) : t[i] = s[i]
  OBVIOUS
<1>2. Len(s) \in Nat
  OBVIOUS
<1> HIDE DEF t
<1>3. ASSUME IsStatus(f) PROVE InMode(t, Len(s) + 1, f.mode)
  <2>1. Len(s) + 1 \in 1..(Len(s) + 1) /\ (Len(s) + 1 + 1)..(Len(s) + 1) = {}
    BY <1>2
  <2> QED
    BY <1>1, <1>3, <2>1 DEF InMode
<1>4. ASSUME ~IsStatus(f), InMode(s, Len(s), m) PROVE InMode(t, Len(s) + 1, m)
  <2>1. CASE m = startMode /\ \A i \in 1..Len(s) : ~IsStatus(s[i])
    <3>1. ASSUME NEW i \in 1..(Len(s) + 1) PROVE ~IsStatus(t[i])
      <4>1. i = Len(s) + 1 \/ i \in 1..Len(s)
        BY <1>2
      <4> QED
        BY <4>1, <1>1, <1>4, <2>1
    <3> QED
      BY <2>1, <3>1 DEF InMode
  <2>2. ASSUME NEW i \in 1..Len(s), IsStatus(s[i]), s[i].mode = m,
               \A j \in (i + 1)..Len(s) : ~IsStatus(s[j])
        PROVE  InMode(t, Len(s) + 1, m)
    <3>1. i \in 1..(Len(s) + 1) /\ t[i] = s[i]
      BY <1>1, <1>2
    <3>2. ASSUME NEW j \in (i + 1)..(Len(s) + 1) PROVE ~IsStatus(t[j])
      <4>1. j = Len(s) + 1 \/ (j \in (i + 1)..Len(s) /\ j \in 1..Len(s))
        BY <1>2
      <4> QED
        BY <4>1, <1>1, <1>4, <2>2
    <3> QED
      BY <2>2, <3>1, <3>2 DEF InMode
  <2> QED
    BY <1>4, <2>1, <2>2 DEF InMode
<1>5. ASSUME NEW n \in 0..Len(s), InMode(s, n, m) PROVE InMode(t, n, m)
  <2>1. 1..n \subseteq 1..Len(s) /\ \A i \in 1..n : (i + 1)..n \subseteq 1..Len(s)
    BY <1>2
  <2>2. \A i \in 1..n : t[i] = s[i] /\ \A j \in (i + 1)..n : t[j] = s[j]
    BY <1>1, <2>1
  <2> QED
    BY <1>5, <2>2 DEF InMode
<1> QED
  BY <1>3, <1>4, <1>5 DEF t

LEMMA FramesAre ==
  ASSUME NEW ts \in Modes, NEW m \in Modes
  PROVE  /\ Status(ts, m) \in AllFrames /\ IsStatus(Status(ts, m))
         /\ Status(ts, m).ts = ts /\ Status(ts, m).mode = m
         /\ Data(m) \in AllFrames /\ ~IsStatus(Data(m)) /\ Data(m).ts = m
<1>1. Status(ts, m) \in AllFrames
  BY DEF AllFrames
<1>2. Data(m) \in AllFrames
  BY DEF AllFrames
<1>3. /\ IsStatus(Status(ts, m))
      /\ Status(ts, m).ts = ts /\ Status(ts, m).mode = m
  BY DEF Status, IsStatus
<1>4. ~IsStatus(Data(m)) /\ Data(m).ts = m
  BY DEF Data, IsStatus
<1> QED
  BY <1>1, <1>2, <1>3, <1>4

LEMMA InitStreamInv == Init => StreamInv
<1> SUFFICES ASSUME Init PROVE StreamInv
  OBVIOUS
<1>1. /\ currentMode \in Modes /\ startMode = currentMode /\ pc = "poll"
      /\ log = <<>>
  BY DEF Init, ServerInit, Modes, Desired
<1>2. Len(log) = 0 /\ log \in Seq(AllFrames) /\ 1..0 = {}
  BY <1>1
<1> QED
  BY <1>1, <1>2 DEF StreamInv, InMode, BroadcastsParse

(* A frame that is broadcast in the mode of the stream keeps it parseable.  *)
LEMMA BroadcastParses ==
  ASSUME log \in Seq(AllFrames), BroadcastsParse, NEW f \in AllFrames,
         InMode(log, Len(log), f.ts), log' = Append(log, f), startMode' = startMode
  PROVE  log' \in Seq(AllFrames) /\ BroadcastsParse'
<1>1. /\ log' \in Seq(AllFrames) /\ Len(log') = Len(log) + 1 /\ Len(log) \in Nat
      /\ log'[Len(log) + 1] = f
      /\ \A i \in 1..Len(log) : log'[i] = log[i]
  OBVIOUS
<1>2. ASSUME NEW i \in 1..Len(log')
      PROVE  InMode(Append(log, f), i - 1, log'[i].ts)
  <2>1. CASE i = Len(log) + 1
    BY <1>1, <2>1, InModeAppend
  <2>2. CASE i \in 1..Len(log)
    <3>1. InMode(log, i - 1, log[i].ts) /\ i - 1 \in 0..Len(log)
      BY <1>1, <2>2 DEF BroadcastsParse
    <3> QED
      BY <1>1, <2>2, <3>1, InModeAppend
  <2> QED
    BY <1>1, <2>1, <2>2
<1> QED
  BY <1>1, <1>2 DEF BroadcastsParse, InMode

LEMMA StepStreamInv == StreamInv /\ [Next]_vars => StreamInv'
<1> SUFFICES ASSUME StreamInv, [Next]_vars PROVE StreamInv'
  OBVIOUS
<1>a. /\ currentMode \in Modes /\ log \in Seq(AllFrames) /\ BroadcastsParse
      /\ Len(log) \in Nat
  BY DEF StreamInv
<1>1. ASSUME NEW ref \in Refs, NEW due \in BOOLEAN, EmitBegin(ref, due)
      PROVE  StreamInv'
  <2>1. /\ currentMode' = Desired(ref) /\ frames' = ControlFrames(ref, due).frames
        /\ pc' = IF frames' # <<>> THEN "control" ELSE "data"
        /\ log' = log /\ startMode' = startMode
        /\ InMode(log, Len(log), currentMode)
    BY <1>1 DEF EmitBegin, StreamInv, serverVars, feeds
  <2>2. Desired(ref) \in Modes
    BY DEF Desired, Modes
  <2>3. BroadcastsParse'
    BY <1>a, <2>1 DEF BroadcastsParse, InMode
  <2>4. CASE Desired(ref) = currentMode /\ ~due
    <3>1. frames' = <<>>
      BY <2>1, <2>4 DEF ControlFrames
    <3>2. pc' = "data"
      BY <2>1, <3>1
    <3>3. InMode(log, Len(log), currentMode)'
      BY <2>1, <2>4 DEF InMode
    <3> QED
      BY <1>a, <2>1, <2>2, <2>3, <3>2, <3>3 DEF StreamInv
  <2>5. CASE Desired(ref) # currentMode \/ due
    <3>1. frames' = <<Status(currentMode, Desired(ref))>>
      BY <2>1, <2>5 DEF ControlFrames
    <3>2. pc' = "control"
      BY <2>1, <3>1
    <3>3. PICK f : f = Status(currentMode, Desired(ref))
      OBVIOUS
    <3>4. f \in AllFrames /\ IsStatus(f) /\ f.ts = currentMode /\ f.mode = Desired(ref)
      BY <1>a, <2>2, <3>3, FramesAre
    <3>5. Pending(f)'
      BY <2>1, <3>4 DEF Pending, InMode
    <3>6. frames' = <<f>>
      BY <3>1, <3>3
    <3> QED
      BY <1>a, <2>1, <2>2, <2>3, <3>2, <3>4, <3>5, <3>6 DEF StreamInv
  <2> QED
    BY <2>4, <2>5
<1>2. CASE EmitControl
  <2>1. PICK f \in AllFrames : frames = <<f>> /\ Pending(f)
    BY <1>2 DEF EmitControl, StreamInv
  <2>2. /\ log' = Append(log, f) /\ currentMode' = currentMode
        /\ startMode' = startMode /\ pc' = "welcome"
    BY <1>2, <2>1 DEF EmitControl, Broadcast
  <2>3. IsStatus(f) /\ f.mode = currentMode /\ InMode(log, Len(log), f.ts)
    BY <2>1 DEF Pending
  <2>4. log' \in Seq(AllFrames) /\ BroadcastsParse'
    BY <1>a, <2>2, <2>3, BroadcastParses
  <2>5. InMode(Append(log, f), Len(log) + 1, currentMode)
    BY <1>a, <2>3, InModeAppend
  <2>6. InMode(log, Len(log), currentMode)'
    BY <1>a, <2>2, <2>5 DEF InMode
  <2> QED
    BY <1>a, <2>2, <2>4, <2>6 DEF StreamInv
<1>3. CASE EmitWelcome
  BY <1>a, <1>3 DEF EmitWelcome, SetWelcome, feeds, StreamInv, BroadcastsParse, InMode
<1>4. CASE EmitData
  <2> DEFINE f == Data(currentMode)
  <2>1. /\ log' = Append(log, f) /\ currentMode' = currentMode
        /\ startMode' = startMode /\ pc' = "poll"
        /\ InMode(log, Len(log), currentMode)
    BY <1>4 DEF EmitData, Broadcast, StreamInv
  <2>2. f \in AllFrames /\ ~IsStatus(f) /\ f.ts = currentMode
    BY <1>a, FramesAre
  <2> HIDE DEF f
  <2>3. log' \in Seq(AllFrames) /\ BroadcastsParse'
    BY <1>a, <2>1, <2>2, BroadcastParses
  <2>4. InMode(Append(log, f), Len(log) + 1, currentMode)
    BY <1>a, <2>1, <2>2, InModeAppend
  <2>5. InMode(log, Len(log), currentMode)'
    BY <1>a, <2>1, <2>4 DEF InMode
  <2> QED
    BY <1>a, <2>1, <2>3, <2>5 DEF StreamInv
<1>5. CASE UNCHANGED <<currentMode, log, pc, frames, startMode>>
  BY <1>a, <1>5 DEF StreamInv, BroadcastsParse, InMode, Pending
<1>6. ASSUME NEW c \in Clients, Joins(c) PROVE StreamInv'
  <2>1. UNCHANGED <<currentMode, log, pc, frames, startMode>>
    BY <1>6 DEF Joins, Register
  <2> QED
    BY <2>1, <1>5
<1>7. CASE ServerOwn
  <2>1. UNCHANGED <<currentMode, pc, frames, startMode>>
    BY <1>7 DEF ServerOwn, rcVars
  <2>2. log' = log
    BY <1>7 DEF ServerOwn, AcceptFails, Accept, AddConn, StartWriter, Writer, Take,
       WriteOk, WriteFails, RemoveClient, WriterEnds, feeds
  <2> QED
    BY <2>1, <2>2, <1>5
<1>8. CASE Shutdown
  <2>1. UNCHANGED <<currentMode, pc, frames, startMode>>
    BY <1>8 DEF Shutdown, rcVars
  <2>2. log' = log
    BY <1>8 DEF Shutdown, Stopper, CloseDone, CloseListener, CloseClients, feeds
  <2> QED
    BY <2>1, <2>2, <1>5
<1>9. CASE UNCHANGED vars
  BY <1>9, <1>5 DEF vars, rcVars, serverVars, feeds
<1> QED
  BY <1>1, <1>2, <1>3, <1>4, <1>6, <1>7, <1>8, <1>9 DEF Next

(* emit: "status before data" of the stream itself.  Every frame broadcast, *)
(* a transition frame included, can be decoded in the mode that the frames  *)
(* before it announced.                                                     *)
THEOREM StreamParses == Spec => []BroadcastsParse
<1>1. StreamInv => BroadcastsParse
  BY DEF StreamInv
<1> QED
  BY <1>1, InitStreamInv, StepStreamInv, PTL DEF Spec

----------------------------------------------------------------------------

(* A stream puts a decoder in one mode.                                     *)
LEMMA OneMode ==
  ASSUME NEW s, Len(s) \in Nat, NEW m, InMode(s, Len(s), m),
         NEW k, InMode(s, Len(s), k)
  PROVE  m = k
<1>1. CASE \A i \in 1..Len(s) : ~IsStatus(s[i])
  BY <1>1 DEF InMode
<1>2. CASE \E i \in 1..Len(s) : IsStatus(s[i])
  <2>1. PICK i \in 1..Len(s) : /\ IsStatus(s[i]) /\ s[i].mode = m
                               /\ \A j \in (i + 1)..Len(s) : ~IsStatus(s[j])
    BY <1>2 DEF InMode
  <2>2. PICK n \in 1..Len(s) : /\ IsStatus(s[n]) /\ s[n].mode = k
                               /\ \A j \in (n + 1)..Len(s) : ~IsStatus(s[j])
    BY <1>2 DEF InMode
  <2>3. i = n
    BY <2>1, <2>2
  <2> QED
    BY <2>1, <2>2, <2>3
<1> QED
  BY <1>1, <1>2

LEMMA AnnouncedIs ==
  ASSUME NEW s, Len(s) \in Nat, NEW m \in Modes, InMode(s, Len(s), m)
  PROVE  Announced(s) = m
<1>1. Announced(s) \in Modes /\ InMode(s, Len(s), Announced(s))
  BY DEF Announced
<1> QED
  BY <1>1, OneMode

(* The welcome frame is a status frame in the mode of the stream, but while *)
(* a control frame has been broadcast and the welcome not yet been set.     *)
WelcomeInv ==
  \E m \in Modes : /\ welcome = <<Status(m, m)>>
                   /\ pc # "welcome" => InMode(log, Len(log), m)

LEMMA InitWelcomeInv == Init => WelcomeInv
<1> SUFFICES ASSUME Init PROVE WelcomeInv
  OBVIOUS
<1>1. currentMode \in Modes
  BY RadarcapeAssumption DEF Init, Desired, Modes
<1>2. welcome = <<Status(currentMode, currentMode)>> /\ log = <<>> /\ startMode = currentMode
  BY DEF Init, ServerInit
<1>3. InMode(log, Len(log), currentMode)
  BY <1>2 DEF InMode
<1> QED
  BY <1>1, <1>2, <1>3 DEF WelcomeInv

LEMMA StepWelcomeInv == StreamInv /\ WelcomeInv /\ [Next]_vars => WelcomeInv'
<1> SUFFICES ASSUME StreamInv, WelcomeInv, [Next]_vars PROVE WelcomeInv'
  OBVIOUS
<1>1. PICK m \in Modes : /\ welcome = <<Status(m, m)>>
                         /\ pc # "welcome" => InMode(log, Len(log), m)
  BY DEF WelcomeInv
<1>2. ASSUME UNCHANGED <<welcome, log, startMode>>, pc' # "welcome" => pc # "welcome"
      PROVE  WelcomeInv'
  BY <1>1, <1>2 DEF WelcomeInv, InMode
<1>3. ASSUME NEW ref \in Refs, NEW due \in BOOLEAN, EmitBegin(ref, due)
      PROVE  WelcomeInv'
  <2>1. UNCHANGED <<welcome, log, startMode>> /\ pc = "poll"
    BY <1>3 DEF EmitBegin, serverVars, feeds
  <2> QED
    BY <2>1, <1>2
<1>4. CASE EmitControl
  <2>1. frames' = <<>> /\ welcome' = welcome
    <3>1. PICK f \in AllFrames : frames = <<f>>
      BY <1>4 DEF EmitControl, StreamInv
    <3>2. Tail(<<f>>) = <<>>
      OBVIOUS
    <3> QED
      BY <1>4, <3>1, <3>2 DEF EmitControl, Broadcast, feeds
  <2>2. pc' = "welcome"
    BY <1>4, <2>1 DEF EmitControl
  <2> QED
    BY <1>1, <2>1, <2>2 DEF WelcomeInv
<1>5. CASE EmitWelcome
  <2>1. /\ welcome' = <<Status(currentMode, currentMode)>>
        /\ UNCHANGED <<log, startMode, currentMode>>
    BY <1>5 DEF EmitWelcome, SetWelcome, feeds
  <2>2. currentMode \in Modes /\ InMode(log, Len(log), currentMode)
    BY <1>5 DEF EmitWelcome, StreamInv
  <2> QED
    BY <2>1, <2>2 DEF WelcomeInv, InMode
<1>6. CASE EmitData
  <2> DEFINE f == Data(currentMode)
  <2>1. /\ log' = Append(log, f) /\ UNCHANGED <<welcome, startMode>>
        /\ log \in Seq(AllFrames) /\ currentMode \in Modes
        /\ InMode(log, Len(log), m)
    BY <1>1, <1>6 DEF EmitData, Broadcast, StreamInv
  <2>2. f \in AllFrames /\ ~IsStatus(f)
    BY <2>1, FramesAre
  <2> HIDE DEF f
  <2>3. InMode(Append(log, f), Len(log) + 1, m) /\ Len(Append(log, f)) = Len(log) + 1
    BY <2>1, <2>2, InModeAppend
  <2>4. InMode(log, Len(log), m)'
    BY <2>1, <2>3 DEF InMode
  <2> QED
    BY <1>1, <2>1, <2>4 DEF WelcomeInv
<1>7. ASSUME NEW c \in Clients, Joins(c) PROVE WelcomeInv'
  <2>1. UNCHANGED <<welcome, log, startMode, pc>>
    BY <1>7 DEF Joins, Register
  <2> QED
    BY <2>1, <1>2
<1>8. CASE ServerOwn
  <2>1. UNCHANGED <<pc, startMode>>
    BY <1>8 DEF ServerOwn, rcVars
  <2>2. UNCHANGED <<welcome, log>>
    BY <1>8 DEF ServerOwn, AcceptFails, Accept, AddConn, StartWriter, Writer, Take,
       WriteOk, WriteFails, RemoveClient, WriterEnds, feeds
  <2> QED
    BY <2>1, <2>2, <1>2
<1>9. CASE Shutdown
  <2>1. UNCHANGED <<pc, startMode>>
    BY <1>9 DEF Shutdown, rcVars
  <2>2. UNCHANGED <<welcome, log>>
    BY <1>9 DEF Shutdown, Stopper, CloseDone, CloseListener, CloseClients, feeds
  <2> QED
    BY <2>1, <2>2, <1>2
<1>10. CASE UNCHANGED vars
  BY <1>10, <1>2 DEF vars, rcVars, serverVars, feeds
<1> QED
  BY <1>3, <1>4, <1>5, <1>6, <1>7, <1>8, <1>9, <1>10 DEF Next

(* A client that joins is told the mode of the stream, except between the   *)
(* broadcast of a status frame and the update of the welcome frames; and    *)
(* between two messages that mode is the current one (emit).                *)
THEOREM WelcomeStaysCurrent == Spec => []WelcomeIsCurrent
<1>1. StreamInv /\ WelcomeInv => WelcomeIsCurrent
  <2> SUFFICES ASSUME StreamInv, WelcomeInv PROVE WelcomeIsCurrent
    OBVIOUS
  <2>1. PICK m \in Modes : /\ welcome = <<Status(m, m)>>
                           /\ pc # "welcome" => InMode(log, Len(log), m)
    BY DEF WelcomeInv
  <2>2. Len(log) \in Nat /\ currentMode \in Modes
    BY DEF StreamInv
  <2>3. Len(welcome) = 1 /\ IsStatus(welcome[1]) /\ welcome[1].mode = m
    BY <2>1 DEF Status, IsStatus
  <2>4. InMode(welcome, Len(welcome), m)
    BY <2>3 DEF InMode
  <2>5. Announced(welcome) = m
    <3>1. Len(welcome) \in Nat
      BY <2>3
    <3> QED
      BY <2>1, <2>4, <3>1, AnnouncedIs
  <2>6. ASSUME pc # "welcome" PROVE Announced(log) = m
    BY <2>1, <2>2, <2>6, AnnouncedIs
  <2>7. ASSUME pc = "poll" PROVE Announced(log) = currentMode
    <3>1. InMode(log, Len(log), currentMode)
      BY <2>7 DEF StreamInv
    <3> QED
      BY <2>2, <3>1, AnnouncedIs
  <2> QED
    BY <2>5, <2>6, <2>7 DEF WelcomeIsCurrent
<1> QED
  BY <1>1, InitStreamInv, StepStreamInv, InitWelcomeInv, StepWelcomeInv, PTL DEF Spec

----------------------------------------------------------------------------

(***************************************************************************)
(* The followers.  A client in the map that was not misled decodes in the  *)
(* mode of the stream of all broadcasts, whatever frames it lost: only a   *)
(* status frame that changes the mode matters, and losing one misleads it. *)
(***************************************************************************)
InStep(c) == \A m : InMode(log, Len(log), m) => InMode(stream[c], Len(stream[c]), m)

FollowInv ==
  /\ stream \in [Clients -> Seq(AllFrames)]
  /\ misled \in [Clients -> {"no", "join", "loss"}]
  /\ phase \in [Clients -> Phases]
  /\ clients \subseteq Clients
  /\ \A c \in Clients :
       /\ phase[c] \in {"absent", "made"} => c \notin clients /\ stream[c] = <<>>
       /\ c \in clients /\ misled[c] = "no" => InStep(c)

(* The mode a decoder starts in stays, so a step can be seen by its frames. *)
LEMMA InStepNext ==
  ASSUME startMode' = startMode, NEW c \in Clients
  PROVE  InStep(c)' <=> \A m : InMode(log', Len(log'), m) => InMode(stream'[c], Len(stream'[c]), m)
<1>1. ASSUME NEW m
      PROVE  /\ InMode(log, Len(log), m)' <=> InMode(log', Len(log'), m)
             /\ InMode(stream[c], Len(stream[c]), m)' <=> InMode(stream'[c], Len(stream'[c]), m)
  BY DEF InMode
<1> QED
  BY <1>1 DEF InStep

LEMMA InitFollowInv == Init => FollowInv
<1> SUFFICES ASSUME Init PROVE FollowInv
  OBVIOUS
<1>1. <<>> \in Seq(AllFrames)
  OBVIOUS
<1> QED
  BY <1>1 DEF Init, ServerInit, FollowInv, Phases

(* A frame in the mode of the log, of a kind that a client with no room may *)
(* miss or not, keeps the client in step.                                   *)
LEMMA BroadcastKeepsStep ==
  ASSUME log \in Seq(AllFrames), NEW f \in AllFrames, InMode(log, Len(log), f.ts),
         log' = Append(log, f), startMode' = startMode,
         NEW c \in Clients, stream[c] \in Seq(AllFrames), InStep(c),
         \/ stream'[c] = Append(stream[c], f)
         \/ stream'[c] = stream[c] /\ (IsStatus(f) => f.ts = f.mode)
  PROVE  InStep(c)'
<1> DEFINE s == stream[c]
<1>1. /\ Len(log) \in Nat /\ Len(s) \in Nat
      /\ Len(Append(log, f)) = Len(log) + 1 /\ Len(Append(s, f)) = Len(s) + 1
      /\ Append(log, f) \in Seq(AllFrames)
  OBVIOUS
<1>2. PICK m0 : m0 = f.ts
  OBVIOUS
<1>3. InMode(log, Len(log), m0) /\ InMode(s, Len(s), m0)
  BY <1>2 DEF InStep
<1>4. PICK m1 : m1 = IF IsStatus(f) THEN f.mode ELSE m0
  OBVIOUS
<1>5. InMode(Append(log, f), Len(log) + 1, m1) /\ InMode(Append(s, f), Len(s) + 1, m1)
  BY <1>3, <1>4, InModeAppend
<1>6. stream'[c] = s => m1 = m0 \/ stream'[c] = Append(s, f)
  BY <1>2, <1>4
<1>7. InMode(stream'[c], Len(stream'[c]), m1)
  BY <1>1, <1>3, <1>5, <1>6
<1>8. ASSUME NEW m, InMode(Append(log, f), Len(Append(log, f)), m)
      PROVE  m = m1
  <2>1. Len(Append(log, f)) \in Nat
    BY <1>1
  <2>2. InMode(Append(log, f), Len(Append(log, f)), m1)
    BY <1>1, <1>5
  <2> QED
    BY <1>8, <2>1, <2>2, OneMode
<1>9. \A m : InMode(log', Len(log'), m) => InMode(stream'[c], Len(stream'[c]), m)
  BY <1>7, <1>8
<1> QED
  BY <1>9, InStepNext

(* What a broadcast leaves in the queue and in misled, for the frame of any *)
(* of its three callers.                                                    *)
LEMMA BroadcastKeepsFollowInv ==
  ASSUME FollowInv, log \in Seq(AllFrames), NEW f \in AllFrames,
         InMode(log, Len(log), f.ts), Broadcast(f), startMode' = startMode,
         misled' = MisledBy(f)
  PROVE  FollowInv'
<1>1. /\ log' = Append(log, f)
      /\ stream' = [c \in Clients |-> IF c \in clients /\ HasRoom(c)
                                      THEN Append(stream[c], f) ELSE stream[c]]
      /\ clients' = clients /\ phase' = phase
  BY DEF Broadcast
<1>2. /\ stream \in [Clients -> Seq(AllFrames)] /\ clients \subseteq Clients
      /\ misled \in [Clients -> {"no", "join", "loss"}]
  BY DEF FollowInv
<1>3. stream' \in [Clients -> Seq(AllFrames)]
  <2>1. \A c \in Clients : stream[c] \in Seq(AllFrames) /\ Append(stream[c], f) \in Seq(AllFrames)
    BY <1>2
  <2> QED
    BY <1>1, <2>1, Zenon
<1>4. misled' \in [Clients -> {"no", "join", "loss"}]
  BY <1>2 DEF MisledBy
<1>5. ASSUME NEW c \in Clients, phase'[c] \in {"absent", "made"}
      PROVE  c \notin clients' /\ stream'[c] = <<>>
  BY <1>1, <1>5 DEF FollowInv
<1>6. ASSUME NEW c \in Clients, c \in clients', misled'[c] = "no"
      PROVE  InStep(c)'
  <2>1. misled'[c] = IF ~IsStatus(f) THEN misled[c] ELSE IF HasRoom(c) THEN "no"
                     ELSE IF f.ts # f.mode /\ misled[c] = "no" THEN "loss" ELSE misled[c]
    BY <1>1, <1>6 DEF MisledBy
  <2>2. stream[c] \in Seq(AllFrames) /\ c \in clients
    BY <1>1, <1>2, <1>6
  <2>3. CASE misled[c] = "no"
    <3>1. InStep(c)
      BY <2>2, <2>3 DEF FollowInv
    <3>2. \/ stream'[c] = Append(stream[c], f)
          \/ stream'[c] = stream[c] /\ (IsStatus(f) => f.ts = f.mode)
      BY <1>1, <1>6, <2>1, <2>2, <2>3
    <3> QED
      BY <1>1, <2>2, <3>1, <3>2, BroadcastKeepsStep
  <2>4. CASE misled[c] # "no"
    <3>1. IsStatus(f) /\ HasRoom(c)
      BY <1>6, <2>1, <2>4
    <3>2. stream'[c] = Append(stream[c], f)
      BY <1>1, <2>2, <3>1
    <3>3. /\ InMode(Append(stream[c], f), Len(stream[c]) + 1, f.mode)
          /\ InMode(Append(log, f), Len(log) + 1, f.mode)
      BY <2>2, <3>1, InModeAppend
    <3>4. /\ Len(Append(stream[c], f)) = Len(stream[c]) + 1 /\ Len(Append(log, f)) = Len(log) + 1
          /\ Len(Append(log, f)) \in Nat
      BY <2>2
    <3>5. ASSUME NEW m, InMode(Append(log, f), Len(Append(log, f)), m)
          PROVE  m = f.mode
      <4>1. InMode(Append(log, f), Len(Append(log, f)), f.mode)
        BY <3>3, <3>4
      <4> QED
        BY <3>4, <3>5, <4>1, OneMode
    <3>6. InMode(stream'[c], Len(stream'[c]), f.mode)
      BY <3>2, <3>3, <3>4
    <3>7. \A m : InMode(log', Len(log'), m) => InMode(stream'[c], Len(stream'[c]), m)
      BY <1>1, <3>5, <3>6
    <3> QED
      BY <3>7, InStepNext
  <2> QED
    BY <2>3, <2>4
<1> QED
  BY <1>1, <1>2, <1>3, <1>4, <1>5, <1>6 DEF FollowInv

(* A client that joins is in step if the welcome frame is not stale.        *)
LEMMA JoinKeepsFollowInv ==
  ASSUME FollowInv, StreamInv, WelcomeInv, NEW d \in Clients, Joins(d)
  PROVE  FollowInv'
<1>1. PICK w \in Modes : welcome = <<Status(w, w)>>
  BY DEF WelcomeInv
<1>2. /\ Status(w, w) \in AllFrames /\ IsStatus(Status(w, w)) /\ Status(w, w).mode = w
  BY FramesAre
<1>3. /\ welcome \in Seq(AllFrames) /\ Len(welcome) = 1 /\ welcome[1] = Status(w, w)
  BY <1>1, <1>2
<1>4. /\ stream \in [Clients -> Seq(AllFrames)] /\ clients \subseteq Clients
      /\ misled \in [Clients -> {"no", "join", "loss"}] /\ phase \in [Clients -> Phases]
  BY DEF FollowInv
<1>5. /\ phase[d] = "made" /\ UNCHANGED <<log, startMode>>
      /\ stream' = [stream EXCEPT ![d] = stream[d] \o welcome]
      /\ clients' = clients \cup {d} /\ phase' = [phase EXCEPT ![d] = "spawn"]
      /\ misled' = [misled EXCEPT ![d] = IF Announced(welcome) # Announced(log) THEN "join" ELSE @]
  BY DEF Joins, Register
<1>6. stream[d] = <<>> /\ d \notin clients
  BY <1>5 DEF FollowInv
<1>7. stream'[d] = welcome
  <2>1. <<>> \o welcome = welcome
    BY <1>3
  <2> QED
    BY <1>4, <1>5, <1>6, <2>1
<1>8. /\ stream' \in [Clients -> Seq(AllFrames)] /\ clients' \subseteq Clients
      /\ misled' \in [Clients -> {"no", "join", "loss"}] /\ phase' \in [Clients -> Phases]
  <2>1. stream[d] \o welcome \in Seq(AllFrames)
    BY <1>3, <1>4
  <2> QED
    BY <1>4, <1>5, <2>1 DEF Phases
<1>9. ASSUME NEW c \in Clients
      PROVE  /\ phase'[c] \in {"absent", "made"} => c \notin clients' /\ stream'[c] = <<>>
             /\ c \in clients' /\ misled'[c] = "no" => InStep(c)'
  <2>1. CASE c # d
    <3>1. /\ phase'[c] = phase[c] /\ stream'[c] = stream[c] /\ misled'[c] = misled[c]
          /\ c \in clients' <=> c \in clients
      BY <1>4, <1>5, <2>1
    <3> QED
      BY <1>5, <3>1, InStepNext DEF FollowInv, InStep
  <2>2. CASE c = d
    <3>1. phase'[c] = "spawn"
      BY <1>4, <1>5, <2>2
    <3>2. ASSUME misled'[c] = "no" PROVE InStep(c)'
      <4>1. Announced(welcome) = Announced(log)
        BY <1>4, <1>5, <2>2, <3>2
      <4>2. InMode(welcome, Len(welcome), w)
        BY <1>2, <1>3 DEF InMode
      <4>3. Announced(welcome) = w
        <5>1. Len(welcome) \in Nat
          BY <1>3
        <5> QED
          BY <4>2, <5>1, AnnouncedIs
      <4>4. PICK m0 \in Modes : InMode(log, Len(log), m0)
        BY DEF StreamInv, Pending, AllFrames, Status, Data, IsStatus
      <4>5. Len(log) \in Nat
        BY DEF StreamInv
      <4>6. Announced(log) = m0
        BY <4>4, <4>5, AnnouncedIs
      <4>7. ASSUME NEW m, InMode(log, Len(log), m) PROVE m = w
        BY <4>1, <4>3, <4>4, <4>5, <4>6, <4>7, OneMode
      <4> QED
        BY <1>5, <1>7, <2>2, <4>2, <4>7, InStepNext
    <3> QED
      BY <3>1, <3>2
  <2> QED
    BY <2>1, <2>2
<1> QED
  BY <1>8, <1>9 DEF FollowInv

(* The rest leaves what the clients were queued as it is.                   *)
LEMMA QuietKeepsFollowInv ==
  ASSUME FollowInv, UNCHANGED <<stream, misled, log, startMode>>,
         clients' \subseteq clients, phase' \in [Clients -> Phases],
         \A c \in Clients : phase'[c] \in {"absent", "made"} => phase[c] \in {"absent", "made"}
  PROVE  FollowInv'
<1>1. \A c \in Clients : InStep(c)' <=> InStep(c)
  BY InStepNext DEF InStep
<1> QED
  BY <1>1 DEF FollowInv

(* The frame of a broadcast is stamped in the mode of the log.              *)
LEMMA BroadcastFrame ==
  ASSUME StreamInv
  PROVE  /\ EmitControl => \E f \in AllFrames :
              Broadcast(f) /\ misled' = MisledBy(f) /\ InMode(log, Len(log), f.ts)
         /\ EmitData => \E f \in AllFrames :
              Broadcast(f) /\ ~IsStatus(f) /\ InMode(log, Len(log), f.ts)
<1>1. ASSUME EmitControl
      PROVE  \E f \in AllFrames :
               Broadcast(f) /\ misled' = MisledBy(f) /\ InMode(log, Len(log), f.ts)
  <2>1. PICK f \in AllFrames : frames = <<f>> /\ Pending(f)
    BY <1>1 DEF EmitControl, StreamInv
  <2>2. Head(frames) = f
    BY <2>1
  <2>3. Broadcast(f) /\ misled' = MisledBy(f)
    BY <1>1, <2>2 DEF EmitControl
  <2> QED
    BY <2>1, <2>3 DEF Pending
<1>2. ASSUME EmitData
      PROVE  \E f \in AllFrames : Broadcast(f) /\ ~IsStatus(f) /\ InMode(log, Len(log), f.ts)
  <2>1. Broadcast(Data(currentMode)) /\ InMode(log, Len(log), currentMode) /\ currentMode \in Modes
    BY <1>2 DEF EmitData, StreamInv
  <2>2. /\ Data(currentMode) \in AllFrames /\ ~IsStatus(Data(currentMode))
        /\ Data(currentMode).ts = currentMode
    BY <2>1, FramesAre
  <2> QED
    BY <2>1, <2>2
<1> QED
  BY <1>1, <1>2

LEMMA StepFollowInv ==
  FollowInv /\ StreamInv /\ WelcomeInv /\ [Next]_vars => FollowInv'
<1> SUFFICES ASSUME FollowInv, StreamInv, WelcomeInv, [Next]_vars PROVE FollowInv'
  OBVIOUS
<1>a. phase \in [Clients -> Phases] /\ log \in Seq(AllFrames)
  BY DEF FollowInv, StreamInv
<1>1. ASSUME NEW ref \in Refs, NEW due \in BOOLEAN, EmitBegin(ref, due) PROVE FollowInv'
  BY <1>a, <1>1, QuietKeepsFollowInv DEF EmitBegin, serverVars, feeds
<1>2. CASE EmitControl
  <2>1. PICK f \in AllFrames : Broadcast(f) /\ misled' = MisledBy(f) /\ InMode(log, Len(log), f.ts)
    BY <1>2, BroadcastFrame
  <2> QED
    BY <1>2, <1>a, <2>1, BroadcastKeepsFollowInv DEF EmitControl
<1>3. CASE EmitWelcome
  BY <1>a, <1>3, QuietKeepsFollowInv DEF EmitWelcome, SetWelcome, feeds
<1>4. CASE EmitData
  <2>1. PICK f \in AllFrames : Broadcast(f) /\ ~IsStatus(f) /\ InMode(log, Len(log), f.ts)
    BY <1>4, BroadcastFrame
  <2>2. misled' = misled /\ startMode' = startMode
    BY <1>4 DEF EmitData
  <2>3. MisledBy(f) = misled
    <3>1. MisledBy(f) = [c \in Clients |-> misled[c]]
      BY <2>1 DEF MisledBy
    <3> QED
      BY <3>1 DEF FollowInv
  <2> QED
    BY <1>a, <2>1, <2>2, <2>3, BroadcastKeepsFollowInv
<1>5. ASSUME NEW c \in Clients, Joins(c) PROVE FollowInv'
  BY <1>5, JoinKeepsFollowInv
<1>6. CASE ServerOwn
  <2>1. UNCHANGED <<misled, startMode>>
    BY <1>6 DEF ServerOwn, rcVars
  <2>2. /\ UNCHANGED <<stream, log>> /\ clients' \subseteq clients
        /\ \/ phase' = phase
           \/ \E c \in Clients, p \in Phases :
                phase' = [phase EXCEPT ![c] = p] /\ (p = "made" => phase[c] = "absent") /\ p # "absent"
    <3>1. CASE AcceptFails
      BY <3>1 DEF AcceptFails, feeds
    <3>2. ASSUME NEW c \in Clients, Accept(c) \/ AddConn(c) \/ StartWriter(c) \/ Writer(c)
          PROVE  /\ UNCHANGED <<stream, log>> /\ clients' \subseteq clients
                 /\ \/ phase' = phase
                    \/ \E p \in Phases : /\ phase' = [phase EXCEPT ![c] = p]
                                         /\ (p = "made" => phase[c] = "absent") /\ p # "absent"
      BY <3>2 DEF Accept, AddConn, StartWriter, Writer, Take, WriteOk, WriteFails,
         RemoveClient, WriterEnds, feeds, Phases
    <3> QED
      BY <1>6, <3>1, <3>2 DEF ServerOwn
  <2> QED
    BY <1>a, <2>1, <2>2, QuietKeepsFollowInv
<1>7. CASE Shutdown
  <2>1. UNCHANGED <<misled, startMode>>
    BY <1>7 DEF Shutdown, rcVars
  <2>2. UNCHANGED <<stream, log, phase>> /\ clients' \subseteq clients
    BY <1>7 DEF Shutdown, Stopper, CloseDone, CloseListener, CloseClients, feeds
  <2> QED
    BY <1>a, <2>1, <2>2, QuietKeepsFollowInv
<1>8. CASE UNCHANGED vars
  BY <1>a, <1>8, QuietKeepsFollowInv DEF vars, rcVars, serverVars, feeds
<1> QED
  BY <1>1, <1>2, <1>3, <1>4, <1>5, <1>6, <1>7, <1>8 DEF Next

LEMMA QueuedInBroadcast ==
  ASSUME FollowInv, StreamInv, [Next]_vars, NEW c \in Clients, Queues(c)
  PROVE  EmitControl \/ EmitData
<1>1. stream'[c] # stream[c] /\ c \in clients /\ phase[c] \notin {"absent", "made"}
  <2>1. Len(stream[c]) \in Nat
    BY DEF FollowInv
  <2> QED
    BY <2>1 DEF Queues, FollowInv
<1>2. ASSUME NEW d \in Clients, Joins(d) PROVE FALSE
  <2>1. stream' = [stream EXCEPT ![d] = stream[d] \o welcome] /\ phase[d] = "made"
    BY <1>2 DEF Joins, Register
  <2> QED
    BY <1>1, <2>1 DEF FollowInv
<1>3. CASE ServerOwn
  BY <1>1, <1>3 DEF ServerOwn, AcceptFails, Accept, AddConn, StartWriter, Writer, Take,
     WriteOk, WriteFails, RemoveClient, WriterEnds, feeds
<1>4. CASE Shutdown
  BY <1>1, <1>4 DEF Shutdown, Stopper, CloseDone, CloseListener, CloseClients, feeds
<1>5. CASE UNCHANGED vars
  BY <1>1, <1>5 DEF vars, serverVars, feeds
<1>6. ASSUME NEW ref \in Refs, NEW due \in BOOLEAN, EmitBegin(ref, due) PROVE FALSE
  BY <1>1, <1>6 DEF EmitBegin, serverVars, feeds
<1>7. CASE EmitWelcome
  BY <1>1, <1>7 DEF EmitWelcome, SetWelcome, feeds
<1> QED
  BY <1>2, <1>3, <1>4, <1>5, <1>6, <1>7 DEF Next

(* emit, the clients: one that joined on a current welcome frame and was    *)
(* told of each change of mode can decode every frame it is queued, however *)
(* many others its channel lost.                                            *)
THEOREM FollowersKeepUp == Spec => FollowersDecode
<1>1. FollowInv /\ StreamInv /\ [Next]_vars =>
        [\A c \in Clients : Queues(c) /\ misled[c] = "no" => Decodes(c)]_vars
  <2> SUFFICES ASSUME FollowInv, StreamInv, [Next]_vars,
                      NEW c \in Clients, Queues(c), misled[c] = "no"
               PROVE  Decodes(c)
    OBVIOUS
  <2>1. PICK f \in AllFrames : Broadcast(f) /\ InMode(log, Len(log), f.ts)
    BY QueuedInBroadcast, BroadcastFrame, Zenon
  <2>2. c \in clients /\ stream[c] \in Seq(AllFrames) /\ Len(stream'[c]) > Len(stream[c])
    BY DEF Queues, FollowInv
  <2>3. stream'[c] = Append(stream[c], f)
    <3>1. stream'[c] \in {stream[c], Append(stream[c], f)}
      BY <2>1 DEF Broadcast
    <3> QED
      BY <2>2, <3>1
  <2>4. Last(stream'[c]) = f
    BY <2>2, <2>3 DEF Last
  <2>5. f.ts \in Modes
    BY DEF AllFrames, Status, Data
  <2>6. InMode(stream[c], Len(stream[c]), f.ts)
    BY <2>1, <2>2 DEF FollowInv, InStep
  <2>7. Announced(stream[c]) = f.ts
    BY <2>2, <2>5, <2>6, AnnouncedIs
  <2> QED
    BY <2>4, <2>7 DEF Decodes
<1> QED
  BY <1>1, InitStreamInv, StepStreamInv, InitWelcomeInv, StepWelcomeInv,
     InitFollowInv, StepFollowInv, PTL DEF Spec, FollowersDecode

(***************************************************************************)
(* The composition.  Every step of emit and its clients is a step of the   *)
(* server or leaves it alone, so what holds of the server holds under it.  *)
(***************************************************************************)
LEMMA FeedStep == StreamInv /\ [Next]_vars => [ServerNext]_serverVars
<1> SUFFICES ASSUME StreamInv, [Next]_vars PROVE [ServerNext]_serverVars
  OBVIOUS
<1>1. ASSUME NEW ref \in Refs, NEW due \in BOOLEAN, EmitBegin(ref, due)
      PROVE  UNCHANGED serverVars
  BY <1>1 DEF EmitBegin
<1>2. CASE EmitControl
  <2>1. PICK f \in AllFrames : Broadcast(f)
    BY <1>2, BroadcastFrame
  <2> QED
    BY <2>1, FramesAssumption DEF ServerNext
<1>3. CASE EmitWelcome
  <2>1. PICK w \in AllWelcomes : SetWelcome(w)
    BY <1>3 DEF EmitWelcome, AllWelcomes, StreamInv
  <2> QED
    BY <2>1, FramesAssumption DEF ServerNext
<1>4. CASE EmitData
  <2>1. PICK f \in AllFrames : Broadcast(f)
    BY <1>4, BroadcastFrame
  <2> QED
    BY <2>1, FramesAssumption DEF ServerNext
<1>5. ASSUME NEW c \in Clients, Joins(c) PROVE ServerNext
  BY <1>5 DEF Joins, ServerNext, ServerStep, Registrar
<1>6. CASE ServerOwn
  BY <1>6 DEF ServerOwn, ServerNext, ServerStep, Registrar
<1>7. CASE Shutdown
  BY <1>7 DEF Shutdown, ServerNext, ServerStep
<1>8. CASE UNCHANGED vars
  BY <1>8 DEF vars
<1> QED
  BY <1>1, <1>2, <1>3, <1>4, <1>5, <1>6, <1>7, <1>8 DEF Next

LEMMA FeedInit == Init => ServerInv
<1> SUFFICES ASSUME Init PROVE ServerInv
  OBVIOUS
<1>1. PICK w \in AllWelcomes : ServerInit(w)
  BY DEF Init, AllWelcomes, Modes, Desired
<1> QED
  BY <1>1, FramesAssumption, InitServerInv

LEMMA FeedKeepsServerInv == Spec => []ServerInv
<1>1. ServerInv /\ [ServerNext]_serverVars => ServerInv'
  BY StepServerType, StepClientInv DEF ServerInv
<1> QED
  BY <1>1, FeedInit, FeedStep, InitStreamInv, StepStreamInv, PTL DEF Spec

(* main, with the server: under emit no channel is sent to or closed once   *)
(* it is closed, no client is forgotten, and each gets what ClientFeed      *)
(* promises, welcome frame first.                                           *)
THEOREM FeedUsesServer ==
  /\ Spec => [][ServerNext]_serverVars
  /\ Spec => [](MapHoldsOpenChannels /\ ServedOrClosed)
  /\ Spec => ImplementsFeed
<1>1. ServerInv => MapHoldsOpenChannels /\ ServedOrClosed
  BY DEF ServerInv, ServerTypeOK, ClientInv, Served, MapHoldsOpenChannels, ServedOrClosed
<1>2. Init => Feeds!Init
  BY DEF Init, ServerInit, Feeds!Init
<1>3. ServerInv /\ [ServerNext]_serverVars => [Feeds!Next]_(Feeds!vars)
  BY StepImplementsFeed
<1> QED
  BY <1>1, <1>2, <1>3, FeedKeepsServerInv, FeedStep, InitStreamInv, StepStreamInv, PTL
  DEF Spec, ImplementsFeed, Feeds!Spec

(* The state of emit, beside what its other invariants say of it.           *)
EmitTyped ==
  /\ desiredMode \in Modes /\ startMode \in Modes
  /\ lastGoodRef \in {"nil", "synced"} /\ clockRef \in Refs
  /\ pc \in {"poll", "control", "welcome", "data"}
  /\ pc # "control" => frames = <<>>
  /\ emitted \in 0..MaxEmits

LEMMA EmitTypedStep == StreamInv /\ EmitTyped /\ [Next]_vars => EmitTyped'
<1> SUFFICES ASSUME StreamInv, EmitTyped, [Next]_vars PROVE EmitTyped'
  OBVIOUS
<1>1. ASSUME NEW ref \in Refs, NEW due \in BOOLEAN, EmitBegin(ref, due)
      PROVE  EmitTyped'
  <2>1. /\ desiredMode' = Desired(ref) /\ lastGoodRef' = LastGood(ref) /\ clockRef' = ref
        /\ pc' = IF frames' # <<>> THEN "control" ELSE "data"
        /\ emitted' = emitted + 1 /\ emitted < MaxEmits /\ startMode' = startMode
    BY <1>1 DEF EmitBegin
  <2>2. Desired(ref) \in Modes /\ LastGood(ref) \in {"nil", "synced"}
    BY DEF Desired, LastGood, Modes, EmitTyped
  <2>3. emitted' \in 0..MaxEmits
    BY <2>1, RadarcapeAssumption DEF EmitTyped
  <2> QED
    BY <2>1, <2>2, <2>3 DEF EmitTyped
<1>2. CASE EmitControl
  <2>1. PICK f \in AllFrames : frames = <<f>>
    BY <1>2 DEF EmitControl, StreamInv
  <2>2. Tail(<<f>>) = <<>>
    OBVIOUS
  <2> QED
    BY <1>2, <2>1, <2>2 DEF EmitControl, EmitTyped
<1>3. CASE EmitWelcome \/ EmitData
  BY <1>3 DEF EmitWelcome, EmitData, EmitTyped
<1>4. ASSUME NEW c \in Clients, Joins(c) PROVE EmitTyped'
  BY <1>4 DEF Joins, EmitTyped
<1>5. CASE ServerOwn \/ Shutdown \/ UNCHANGED vars
  BY <1>5 DEF ServerOwn, Shutdown, vars, rcVars, EmitTyped
<1> QED
  BY <1>1, <1>2, <1>3, <1>4, <1>5 DEF Next

\* The state of emit and of the server is what it is declared to be (main.go).
THEOREM FeedTyped == Spec => []TypeOK
<1>1. Init => EmitTyped
  BY RadarcapeAssumption DEF Init, EmitTyped, Modes, Refs, Desired
<1>2. ServerInv /\ StreamInv /\ RefInv /\ FollowInv /\ EmitTyped => TypeOK
  <2> SUFFICES ASSUME ServerInv, StreamInv, RefInv, FollowInv, EmitTyped PROVE TypeOK
    OBVIOUS
  <2>1. frames \in Seq(AllFrames)
    <3>1. CASE pc = "control"
      <4>1. PICK f \in AllFrames : frames = <<f>>
        BY <3>1 DEF StreamInv
      <4> QED
        BY <4>1
    <3>2. CASE pc # "control"
      BY <3>2 DEF EmitTyped
    <3> QED
      BY <3>1, <3>2
  <2>2. nilDeref = FALSE
    BY DEF RefInv, NeverEncodesNilRef
  <2> QED
    BY <2>1, <2>2 DEF ServerInv, StreamInv, FollowInv, EmitTyped, TypeOK
<1> QED
  BY <1>1, <1>2, EmitTypedStep, FeedKeepsServerInv, InitStreamInv, StepStreamInv,
     InitRefInv, StepRefInv, InitWelcomeInv, StepWelcomeInv, InitFollowInv,
     StepFollowInv, PTL DEF Spec
=============================================================================
