----------------------------- MODULE ClientFeed -----------------------------
(***************************************************************************)
(* What the Beast server promises to its clients (server.go:28-33, 75-76,  *)
(* 107-108): the welcome frames first, then some of the frames broadcast   *)
(* while the client is connected, in the order of the broadcasts, each     *)
(* once; and what it has received is at any time a prefix of what was      *)
(* queued for it.  A broadcast passes a client by only when its queue is   *)
(* full.                                                                   *)
(***************************************************************************)
EXTENDS Integers, Sequences

CONSTANTS Clients,
          Frames,     \* the frames there are
          Welcomes,   \* the welcomes there may be
          Depth       \* frames that may be queued and not yet received

VARIABLES log,        \* the frames broadcast so far
          feed,       \* [Clients -> the frames queued for the client]
          received,   \* [Clients -> the frames the client received]
          open        \* the clients being served

vars == <<log, feed, received, open>>

Init ==
  /\ log = <<>>
  /\ feed = [c \in Clients |-> <<>>]
  /\ received = [c \in Clients |-> <<>>]
  /\ open = {}

Join(c, w) ==
  /\ c \notin open /\ feed[c] = <<>>
  /\ open' = open \cup {c}
  /\ feed' = [feed EXCEPT ![c] = w]
  /\ UNCHANGED <<log, received>>

Room(c) == Len(feed[c]) - Len(received[c]) < Depth

Offer(f) ==
  /\ log' = Append(log, f)
  /\ \E takers \in SUBSET open :
       /\ {c \in open : Room(c)} \subseteq takers
       /\ feed' = [c \in Clients |-> IF c \in takers THEN Append(feed[c], f) ELSE feed[c]]
  /\ UNCHANGED <<received, open>>

Receive(c) ==
  /\ received[c] # feed[c]
  /\ received' = [received EXCEPT ![c] = SubSeq(feed[c], 1, Len(received[c]) + 1)]
  /\ UNCHANGED <<log, feed, open>>

(* Clients leave one by one, or all at once when the server stops. *)
Leave(leavers) ==
  /\ open' = open \ leavers
  /\ UNCHANGED <<log, feed, received>>

Next ==
  \/ \E c \in Clients, w \in Welcomes \cup {<<>>} : Join(c, w)
  \/ \E f \in Frames : Offer(f)
  \/ \E c \in Clients : Receive(c)
  \/ \E leavers \in SUBSET Clients : Leave(leavers)

Spec == Init /\ [][Next]_vars
=============================================================================
