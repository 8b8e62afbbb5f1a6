----------------------------- MODULE FeederLoop -----------------------------
(***************************************************************************)
(* The poll loop of ps/cmd/plane-feeder/main.go: it drains the FPGA FIFO   *)
(* in bursts, checks address/parity frames against the ICAO filter         *)
(* (ps/internal/icao/filter.go), puts what it accepts through the reorder  *)
(* buffer, and flushes the buffer when the FIFO has been quiet.            *)
(*                                                                         *)
(* Time is the FPGA counter and the wall clock in one, in units of         *)
(* idlePollSleep.  A sleep takes a unit, to read a message or to flush the *)
(* buffer takes no more than one, and the other steps take none.  What the *)
(* emit closure does with a message is modelled in RadarcapeFeed; here it  *)
(* joins the reorder buffer's out.                                         *)
(***************************************************************************)
EXTENDS ReorderBuffer, Functions

CONSTANTS Addrs,        \* ICAO addresses
          TTL,          \* the filter's ttl
          Skew,         \* how late a message may reach the FIFO
          StatsPeriod,  \* time between two stats ticks
          MaxTime,      \* bound of the model: how long it runs
          MaxMessages,  \* bound of the model: messages received
          None

ASSUME LoopAssumption ==
  /\ {TTL, Skew, StatsPeriod, MaxTime, MaxMessages} \subseteq Nat
  /\ MaxMessages <= MaxPushes
  /\ TOAs = 0..MaxTime
  /\ None \notin Nat

(* "announce" is a frame that carries a validated address (DF11/17/18),     *)
(* "address" one whose address is known from its parity only (DF0/4/5/16/20 *)
(* /21), "phantom" a near-zero short one, "other" any other frame.          *)
Kinds == {"announce", "address", "phantom", "other"}
Message == [kind : Kinds, addr : Addrs, toa : TOAs]

VARIABLES now,          \* the time
          passed,       \* time has passed in this phase of the loop
          fifo,         \* the messages in the FPGA FIFO
          received,     \* messages that were put there
          pc,           \* where the loop is
          addrs,        \* filter.addrs: a partial function to times
          lastStats, lastReadAt,
          dropCount,
          announced     \* history: when each address was last announced

loopVars == <<now, passed, fifo, received, pc, addrs, lastStats, lastReadAt,
              dropCount, announced>>
allVars == <<vars, loopVars>>

LoopTypeOK ==
  /\ TypeOK
  /\ now \in 0..MaxTime
  /\ passed \in BOOLEAN
  /\ fifo \in Seq(Message)
  /\ received \in 0..MaxMessages
  /\ pc \in {"poll", "read", "push", "next", "flush", "sleep"}
  /\ DOMAIN addrs \subseteq Addrs /\ Range(addrs) \subseteq 0..MaxTime
  /\ {lastStats, dropCount} \subseteq Nat
  /\ lastReadAt \in 0..MaxTime \cup {None}
  /\ announced \in [Addrs -> 0..MaxTime \cup {None}]

----------------------------------------------------------------------------

LoopInit ==
  /\ Init
  /\ now = 0 /\ passed = FALSE
  /\ fifo = <<>> /\ received = 0
  /\ pc = "poll"
  /\ addrs = <<>>
  /\ lastStats = 0 /\ lastReadAt = None
  /\ dropCount = 0
  /\ announced = [a \in Addrs |-> None]

(* A unit of time, in which a message may arrive: decoders take longer for  *)
(* some than for others, so that they overtake each other.                  *)
Pass ==
  /\ now < MaxTime
  /\ pc \in {"read", "flush", "sleep"} /\ ~passed
  /\ passed' = TRUE
  /\ now' = now + 1
  /\ \/ UNCHANGED <<fifo, received>>
     \/ \E kind \in Kinds, a \in Addrs, toa \in {t \in TOAs : t <= now' /\ now' - t <= Skew} :
          /\ received < MaxMessages
          /\ fifo' = Append(fifo, [kind |-> kind, addr |-> a, toa |-> toa])
          /\ received' = received + 1
  /\ UNCHANGED <<vars, pc, addrs, lastStats, lastReadAt, dropCount,
                 announced>>

(* Filter.Expire *)
Expired(f) == Restrict(f, {a \in DOMAIN f : now - f[a] <= TTL})

\* Mutant: the buffer is flushed whenever the FIFO is empty.
QuietAtOnce == TRUE

\* Mutant: the window is taken in another unit.
QuietMuchLater == lastReadAt # None /\ now - lastReadAt >= 4 * MaxLateness

(* Nothing was read for the length of the window. *)
Quiet == lastReadAt # None /\ now - lastReadAt >= MaxLateness

(* The stats tick, when it is due, and the look at STATUS: a message to     *)
(* read, or a buffer to flush because nothing was read for the window, or   *)
(* a sleep.                                                                 *)
Poll ==
  /\ pc = "poll"
  /\ IF now - lastStats > StatsPeriod
     THEN addrs' = Expired(addrs) /\ lastStats' = now
     ELSE UNCHANGED <<addrs, lastStats>>
  /\ \/ /\ fifo # <<>>
        /\ pc' = "read"
        /\ UNCHANGED vars
     \/ /\ fifo = <<>>
        /\ items # {} /\ Quiet
        /\ pc' = "flush"
        /\ FlushAll
     \/ /\ fifo = <<>>
        /\ items = {} \/ ~Quiet
        /\ pc' = "sleep"
        /\ UNCHANGED vars
  /\ passed' = FALSE
  /\ UNCHANGED <<now, fifo, received, lastReadAt, dropCount,
                 announced>>

\* Mutant: an entry stays valid until a stats tick removes it.
TestPresence(f, a) == a \in DOMAIN f

(* Filter.Test, which also removes an entry it finds too old *)
Test(f, a) == a \in DOMAIN f /\ now - f[a] <= TTL

(* Filter.Add *)
Add(f, a) == [x \in DOMAIN f \cup {a} |-> IF x = a THEN now ELSE f[x]]

(* Decode the message at the head of the FIFO and reject it, *)
Reject(m) ==
  /\ dropCount' = dropCount + 1
  /\ pc' = "next"
  /\ UNCHANGED vars

(* or push it. *)
Accept(m) ==
  /\ Push(m.toa)
  /\ pc' = "push"
  /\ UNCHANGED dropCount

(* One message of the burst: any message read counts as activity. *)
ReadMessage ==
  /\ pc = "read"
  /\ LET m == Head(fifo)
     IN /\ \/ /\ m.kind = "announce"
              /\ addrs' = Add(addrs, m.addr)
              /\ announced' = [announced EXCEPT ![m.addr] = now]
              /\ Accept(m)
           \/ /\ m.kind = "address"
              /\ addrs' = IF Test(addrs, m.addr) THEN addrs
                          ELSE Restrict(addrs, DOMAIN addrs \ {m.addr})
              /\ IF Test(addrs, m.addr) THEN Accept(m) ELSE Reject(m)
              /\ UNCHANGED announced
           \/ /\ m.kind = "phantom"
              /\ Reject(m)
              /\ UNCHANGED <<addrs, announced>>
           \/ /\ m.kind = "other"
              /\ Accept(m)
              /\ UNCHANGED <<addrs, announced>>
        /\ fifo' = Tail(fifo)
        /\ lastReadAt' = now
  /\ passed' = FALSE
  /\ UNCHANGED <<now, received, lastStats>>

(* The messages that the push or the flush releases are emitted, *)
Emit ==
  /\ pc \in {"push", "flush"}
  /\ \E e \in items : PopReady(e) \/ PopAll(e)
  /\ UNCHANGED <<now, passed, fifo, received, pc, addrs, lastStats, lastReadAt, dropCount,
                 announced>>

(* until there are no more. *)
EmitDone ==
  /\ pc \in {"push", "flush"}
  /\ EndReady \/ EndAll
  /\ pc' = IF pc = "push" THEN "next" ELSE "sleep"
  /\ passed' = FALSE
  /\ UNCHANGED <<now, fifo, received, addrs, lastStats, lastReadAt, dropCount,
                 announced>>

(* The burst goes on while the FIFO has messages. *)
BurstNext ==
  /\ pc = "next"
  /\ pc' = IF fifo # <<>> THEN "read" ELSE "poll"
  /\ passed' = FALSE
  /\ UNCHANGED <<vars, now, fifo, received, addrs, lastStats, lastReadAt, dropCount,
                 announced>>

Sleep ==
  /\ pc = "sleep" /\ passed
  /\ pc' = "poll"
  /\ passed' = FALSE
  /\ UNCHANGED <<vars, now, fifo, received, addrs, lastStats, lastReadAt, dropCount,
                 announced>>

LoopStep == Poll \/ ReadMessage \/ Emit \/ EmitDone \/ BurstNext \/ Sleep
LoopNext == Pass \/ LoopStep

LoopSpec == LoopInit /\ [][LoopNext]_allVars

----------------------------------------------------------------------------

(* filter.go:5-7: an address frame is accepted if and only if its address   *)
(* was announced by a validated frame within the ttl, whatever entries the  *)
(* stats ticks and earlier tests have removed.                              *)
FilterIsExact ==
  [][pc = "read" /\ pc' # "read" /\ Head(fifo).kind = "address" =>
       LET last == announced[Head(fifo).addr]
       IN pc' = "push" <=> last # None /\ now - last <= TTL]_allVars

(* End to end, the clients get the messages in TOA order, as long as the    *)
(* window is no shorter than Skew: only a full buffer lets a message go     *)
(* before an earlier one.  A flush comes only when nothing earlier than     *)
(* what it releases can still arrive, whatever was rejected in between.     *)
StreamSorted ==
  \A i, j \in 1..Len(out) :
    i < j /\ out[i].toa > out[j].toa => out[i].cause = "capacity"

(* When no message of any kind was read for the window, and the time of a   *)
(* flush, none is held.                                                     *)
FlushedWhenQuiet ==
  items # {} => now - lastReadAt <= MaxLateness + 1
=============================================================================
