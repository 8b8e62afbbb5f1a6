---------------------------- MODULE BeastServer ----------------------------
(***************************************************************************)
(* ps/internal/server/server.go: the TCP server that fans the Beast frames *)
(* out to its clients.                                                     *)
(*                                                                         *)
(* The processes are the goroutines of the code: the caller of Broadcast   *)
(* and SetWelcomeFrames (the feeder), the accept loop, callers of AddConn, *)
(* one writer per client, and the caller of Stop.  What runs under s.mu    *)
(* without blocking is one action.  The channel of a client is a bounded   *)
(* queue; the frame its writer has taken from it is in flight until the    *)
(* write to the connection returns, which may take as long as the peer     *)
(* likes.                                                                  *)
(***************************************************************************)
EXTENDS Integers, Sequences, FiniteSets, SequencesExt

CONSTANTS Clients,        \* connections that may be made
          External,       \* those handed to AddConn, the others are accepted
          Stuck,          \* those whose peer may stop reading for good
          Frames,         \* frames the feeder broadcasts
          Welcomes,       \* values of welcomeFrames: sequences of frames
          ClientBufSize,  \* clientBufSize
          MaxBroadcasts,  \* bound of the model: calls of Broadcast
          None

(* The welcome frames are pushed with a blocking send under s.mu, before   *)
(* the client has a writer: were they more than the channel holds, the     *)
(* server would stop for good.  The code sets at most two.                 *)
ASSUME ServerAssumption ==
  /\ External \subseteq Clients
  /\ Stuck \subseteq Clients
  /\ ClientBufSize \in Nat \ {0}
  /\ MaxBroadcasts \in Nat
  /\ Welcomes \subseteq Seq(Frames)
  /\ \A w \in Welcomes : Len(w) <= ClientBufSize
  /\ None \notin Clients \cup Frames

VARIABLES welcome,    \* welcomeFrames (<<>> stands for a nil pointer too)
          clients,    \* s.clients
          listening,  \* the listener is open
          done,       \* s.done is closed
          stop,       \* how far Stop has come
          acceptor,   \* the accept loop: idle, exited, or the client it handles
          phase,      \* [Clients -> how far the goroutine serving it has come]
          ch,         \* [Clients -> frames in c.ch]
          chClosed,   \* [Clients -> c.ch is closed]
          inflight,   \* [Clients -> the frame being written, or None]
          conn,       \* [Clients -> state of the connection]
          stream,     \* history: the frames queued for each client
          sent,       \* history: the frames written to each client
          log         \* history: the frames broadcast

feeds == <<stream, sent, log>>
serverVars == <<welcome, clients, listening, done, stop, acceptor, phase, ch,
                chClosed, inflight, conn, feeds>>

Phases == {"absent", "made", "spawn", "running", "failed", "ended"}

ServerTypeOK ==
  /\ welcome \in Welcomes \cup {<<>>}
  /\ clients \subseteq Clients
  /\ listening \in BOOLEAN
  /\ done \in BOOLEAN
  /\ stop \in {"idle", "listener", "clients", "stopped"}
  /\ acceptor \in Clients \cup {"idle", "exited"}
  /\ phase \in [Clients -> Phases]
  /\ ch \in [Clients -> Seq(Frames)]
  /\ \A c \in Clients : Len(ch[c]) <= ClientBufSize
  /\ chClosed \in [Clients -> BOOLEAN]
  /\ inflight \in [Clients -> Frames \cup {None}]
  /\ conn \in [Clients -> {"none", "open", "closed"}]
  /\ stream \in [Clients -> Seq(Frames)]
  /\ sent \in [Clients -> Seq(Frames)]
  /\ log \in Seq(Frames)

----------------------------------------------------------------------------

ServerInit(w) ==
  /\ welcome = w
  /\ clients = {}
  /\ listening = TRUE
  /\ done = FALSE
  /\ stop = "idle"
  /\ acceptor = "idle"
  /\ phase = [c \in Clients |-> "absent"]
  /\ ch = [c \in Clients |-> <<>>]
  /\ chClosed = [c \in Clients |-> FALSE]
  /\ inflight = [c \in Clients |-> None]
  /\ conn = [c \in Clients |-> "none"]
  /\ stream = [c \in Clients |-> <<>>]
  /\ sent = [c \in Clients |-> <<>>]
  /\ log = <<>>

(* SetWelcomeFrames: one atomic store, outside s.mu *)
SetWelcome(w) ==
  /\ welcome' = w
  /\ UNCHANGED <<clients, listening, done, stop, acceptor, phase, ch,
                 chClosed, inflight, conn, feeds>>

(* A send to the channel of a client in the map would panic, were it closed; *)
(* a full channel makes the select take its default case.                    *)
HasRoom(c) == Len(ch[c]) < ClientBufSize

(* Mutant: the send blocks while a client has no room. *)
BroadcastBlocks(f) ==
  /\ Len(log) < MaxBroadcasts
  /\ \A c \in clients : HasRoom(c)
  /\ log' = Append(log, f)
  /\ ch' = [c \in Clients |-> IF c \in clients THEN Append(ch[c], f) ELSE ch[c]]
  /\ stream' = [c \in Clients |->
                  IF c \in clients THEN Append(stream[c], f) ELSE stream[c]]
  /\ UNCHANGED <<welcome, clients, listening, done, stop, acceptor, phase,
                 chClosed, inflight, conn, sent>>

Broadcast(f) ==
  /\ Len(log) < MaxBroadcasts
  /\ log' = Append(log, f)
  /\ LET takers == {c \in clients : HasRoom(c)}
     IN /\ ch' = [c \in Clients |-> IF c \in takers THEN Append(ch[c], f) ELSE ch[c]]
        /\ stream' = [c \in Clients |->
                        IF c \in takers THEN Append(stream[c], f) ELSE stream[c]]
  /\ UNCHANGED <<welcome, clients, listening, done, stop, acceptor, phase,
                 chClosed, inflight, conn, sent>>

(* Mutant: the client is in the map before its welcome frames are pushed. *)
AcceptIntoMap(c) ==
  /\ acceptor = "idle"
  /\ listening
  /\ c \notin External /\ phase[c] = "absent"
  /\ acceptor' = c
  /\ clients' = clients \cup {c}
  /\ phase' = [phase EXCEPT ![c] = "made"]
  /\ conn' = [conn EXCEPT ![c] = "open"]
  /\ UNCHANGED <<welcome, listening, done, stop, ch, chClosed, inflight, feeds>>

(* The accept loop: a connection arrives while the listener is open, *)
Accept(c) ==
  /\ acceptor = "idle"
  /\ listening
  /\ c \notin External /\ phase[c] = "absent"
  /\ acceptor' = c
  /\ phase' = [phase EXCEPT ![c] = "made"]
  /\ conn' = [conn EXCEPT ![c] = "open"]
  /\ UNCHANGED <<welcome, clients, listening, done, stop, ch, chClosed,
                 inflight, feeds>>

(* or Accept fails: the loop ends if Stop was called, else it goes on.      *)
AcceptFails ==
  /\ acceptor = "idle"
  /\ ~listening
  /\ done
  /\ acceptor' = "exited"
  /\ UNCHANGED <<welcome, clients, listening, done, stop, phase, ch, chClosed,
                 inflight, conn, feeds>>

(* AddConn is called with a connection made elsewhere.                      *)
AddConn(c) ==
  /\ c \in External /\ phase[c] = "absent"
  /\ phase' = [phase EXCEPT ![c] = "made"]
  /\ conn' = [conn EXCEPT ![c] = "open"]
  /\ UNCHANGED <<welcome, clients, listening, done, stop, acceptor, ch,
                 chClosed, inflight, feeds>>

(* Mutant: no welcome frames. *)
RegisterOnly(c) ==
  /\ phase[c] = "made"
  /\ clients' = clients \cup {c}
  /\ phase' = [phase EXCEPT ![c] = "spawn"]
  /\ UNCHANGED <<welcome, listening, done, stop, acceptor, ch, chClosed,
                 inflight, conn, feeds>>

(* The critical section of acceptLoop and AddConn: the welcome frames go    *)
(* into the channel, then the client into the map.                          *)
Register(c) ==
  /\ phase[c] = "made"
  /\ ch' = [ch EXCEPT ![c] = ch[c] \o welcome]
  /\ stream' = [stream EXCEPT ![c] = stream[c] \o welcome]
  /\ clients' = clients \cup {c}
  /\ phase' = [phase EXCEPT ![c] = "spawn"]
  /\ UNCHANGED <<welcome, listening, done, stop, acceptor, chClosed, inflight,
                 conn, sent, log>>

(* go s.writeLoop(c); the accept loop returns to Accept *)
StartWriter(c) ==
  /\ phase[c] = "spawn"
  /\ phase' = [phase EXCEPT ![c] = "running"]
  /\ acceptor' = IF acceptor = c THEN "idle" ELSE acceptor
  /\ UNCHANGED <<welcome, clients, listening, done, stop, ch, chClosed,
                 inflight, conn, feeds>>

(* Mutant: the writers take turns, the lock held over the write. *)
TakeLocked(c) ==
  /\ phase[c] = "running"
  /\ \A x \in Clients : inflight[x] = None
  /\ ch[c] # <<>>
  /\ inflight' = [inflight EXCEPT ![c] = Head(ch[c])]
  /\ ch' = [ch EXCEPT ![c] = Tail(ch[c])]
  /\ UNCHANGED <<welcome, clients, listening, done, stop, acceptor, phase,
                 chClosed, conn, feeds>>

(* writeLoop: receive a frame, *)
Take(c) ==
  /\ phase[c] = "running"
  /\ inflight[c] = None
  /\ ch[c] # <<>>
  /\ inflight' = [inflight EXCEPT ![c] = Head(ch[c])]
  /\ ch' = [ch EXCEPT ![c] = Tail(ch[c])]
  /\ UNCHANGED <<welcome, clients, listening, done, stop, acceptor, phase,
                 chClosed, conn, feeds>>

(* write it, *)
WriteOk(c) ==
  /\ phase[c] = "running"
  /\ inflight[c] # None
  /\ sent' = [sent EXCEPT ![c] = Append(sent[c], inflight[c])]
  /\ inflight' = [inflight EXCEPT ![c] = None]
  /\ UNCHANGED <<welcome, clients, listening, done, stop, acceptor, phase, ch,
                 chClosed, conn, stream, log>>

(* or fail to, and call removeClient,                                       *)
WriteFails(c) ==
  /\ phase[c] = "running"
  /\ inflight[c] # None
  /\ phase' = [phase EXCEPT ![c] = "failed"]
  /\ UNCHANGED <<welcome, clients, listening, done, stop, acceptor, ch,
                 chClosed, inflight, conn, feeds>>

(* Mutant: the client leaves the map, its connection stays. *)
RemoveClientOnly(c) ==
  /\ phase[c] = "failed"
  /\ phase' = [phase EXCEPT ![c] = "ended"]
  /\ clients' = clients \ {c}
  /\ UNCHANGED <<welcome, listening, done, stop, acceptor, ch, chClosed,
                 inflight, conn, feeds>>

(* which closes the connection only of a client still in the map;           *)
RemoveClient(c) ==
  /\ phase[c] = "failed"
  /\ phase' = [phase EXCEPT ![c] = "ended"]
  /\ clients' = clients \ {c}
  /\ conn' = IF c \in clients THEN [conn EXCEPT ![c] = "closed"] ELSE conn
  /\ UNCHANGED <<welcome, listening, done, stop, acceptor, ch, chClosed,
                 inflight, feeds>>

(* or find the channel closed and drained.                                  *)
WriterEnds(c) ==
  /\ phase[c] = "running"
  /\ inflight[c] = None
  /\ ch[c] = <<>> /\ chClosed[c]
  /\ phase' = [phase EXCEPT ![c] = "ended"]
  /\ conn' = [conn EXCEPT ![c] = "closed"]
  /\ UNCHANGED <<welcome, clients, listening, done, stop, acceptor, ch,
                 chClosed, inflight, feeds>>

(* Mutant: s.done is left open. *)
CloseNothing ==
  /\ stop = "idle"
  /\ stop' = "listener"
  /\ UNCHANGED <<welcome, clients, listening, done, acceptor, phase, ch,
                 chClosed, inflight, conn, feeds>>

(* Stop, run once: close(s.done), s.listener.Close(), and its critical      *)
(* section.                                                                 *)
CloseDone ==
  /\ stop = "idle"
  /\ stop' = "listener"
  /\ done' = TRUE
  /\ UNCHANGED <<welcome, clients, listening, acceptor, phase, ch, chClosed,
                 inflight, conn, feeds>>

CloseListener ==
  /\ stop = "listener"
  /\ stop' = "clients"
  /\ listening' = FALSE
  /\ UNCHANGED <<welcome, clients, done, acceptor, phase, ch, chClosed,
                 inflight, conn, feeds>>

(* Mutant: the map is not emptied. *)
CloseClientsKeepsMap ==
  /\ stop = "clients"
  /\ stop' = "stopped"
  /\ chClosed' = [c \in Clients |-> chClosed[c] \/ c \in clients]
  /\ UNCHANGED <<welcome, clients, listening, done, acceptor, phase, ch,
                 inflight, conn, feeds>>

CloseClients ==
  /\ stop = "clients"
  /\ stop' = "stopped"
  /\ chClosed' = [c \in Clients |-> chClosed[c] \/ c \in clients]
  /\ clients' = {}
  /\ UNCHANGED <<welcome, listening, done, acceptor, phase, ch, inflight,
                 conn, feeds>>

Writer(c) == Take(c) \/ WriteOk(c) \/ WriteFails(c) \/ RemoveClient(c) \/ WriterEnds(c)
Registrar(c) == Accept(c) \/ AddConn(c) \/ Register(c) \/ StartWriter(c)
Stopper == CloseDone \/ CloseListener \/ CloseClients

(* Every step but those of the feeder *)
ServerStep ==
  \/ AcceptFails
  \/ \E c \in Clients : Registrar(c) \/ Writer(c)
  \/ Stopper

ServerNext ==
  \/ \E w \in Welcomes : SetWelcome(w)
  \/ \E f \in Frames : Broadcast(f)
  \/ ServerStep

(* Goroutines that can go on do.  A write returns in the end, because the   *)
(* peer reads or its connection fails, but for the peers in Stuck: the code *)
(* sets no write deadline.                                                  *)
ServerFairness ==
  /\ WF_serverVars(\E f \in Frames : Broadcast(f))
  /\ WF_serverVars(AcceptFails)
  /\ WF_serverVars(Stopper /\ stop # "idle")
  /\ \A c \in Clients :
       /\ WF_serverVars(Register(c) \/ StartWriter(c))
       /\ WF_serverVars(Take(c) \/ RemoveClient(c) \/ WriterEnds(c))
  /\ \A c \in Clients \ Stuck : WF_serverVars(WriteOk(c) \/ WriteFails(c))

ServerSpec == ServerInit(<<>>) /\ [][ServerNext]_serverVars
FairServerSpec == ServerSpec /\ ServerFairness

----------------------------------------------------------------------------

(* Broadcast sends only to channels that are open, and Stop closes none     *)
(* twice: either would panic and take the daemon down.                      *)
MapHoldsOpenChannels == \A c \in clients : ~chClosed[c]

(* The map holds a client from its registration until its writer fails or   *)
(* Stop lets go of it, and a connection the server made is closed when its  *)
(* writer ends, unless Stop had let go of the client before its last write  *)
(* failed: removeClient then closes nothing (server.go:120-127).            *)
ServedOrClosed ==
  \A c \in Clients :
    /\ c \in clients => phase[c] \in {"spawn", "running", "failed"}
    /\ phase[c] \in {"spawn", "running", "failed"} => c \in clients \/ chClosed[c]
    /\ phase[c] = "ended" => conn[c] = "closed" \/ chClosed[c]

(* What the clients are sent is what ClientFeed promises.                   *)
Feeds == INSTANCE ClientFeed
  WITH feed <- stream, received <- sent, open <- clients, Depth <- ClientBufSize
ImplementsFeed == Feeds!Spec

(* "Slow clients are skipped (frame dropped) rather than blocking"          *)
(* (server.go:108): a client that never reads holds up neither the feeder,  *)
(* which gets through all it has to broadcast,                              *)
BroadcastsGoOn == <>(Len(log) = MaxBroadcasts)

(* nor the others: each is sent whatever was queued for it, or fails.       *)
OthersAreServed ==
  \A c \in Clients \ Stuck :
    stream[c] # sent[c] ~> sent[c] = stream[c] \/ phase[c] = "ended"

(* Stop ends the accept loop and every client it found in the map, but for  *)
(* one whose peer neither reads nor goes away.                              *)
ShutdownCompletes ==
  /\ stop = "stopped" ~> acceptor = "exited"
  /\ \A c \in Clients \ Stuck : chClosed[c] ~> phase[c] = "ended"
=============================================================================
