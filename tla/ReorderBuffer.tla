--------------------------- MODULE ReorderBuffer ---------------------------
(***************************************************************************)
(* ps/internal/reorder/reorder.go: the buffer that puts the messages read  *)
(* from the FPGA FIFO back into time-of-arrival (TOA) order.               *)
(*                                                                         *)
(* The eight decoders finish in any order, so a message may be read after  *)
(* a later one.  The buffer holds a message until one at least maxLateness *)
(* newer was pushed, or until more than maxBuffered messages are held.     *)
(*                                                                         *)
(* The heap is a set of entries, and heap.Pop takes one of the entries of  *)
(* least TOA (entries of equal TOA leave in any order).  A call of Push or *)
(* FlushAll is a start action followed by one step per loop iteration; the *)
(* buffer has one caller, so nothing happens between these steps but them. *)
(***************************************************************************)
EXTENDS Integers, Sequences, FiniteSets

CONSTANTS TOAs,         \* the TOA values messages may carry
          MaxLateness,  \* b.maxLateness, in TOA ticks
          MaxBuffered,  \* b.maxBuffered
          MaxPushes     \* bound of the model: calls of Push

ASSUME ReorderAssumption ==
  /\ TOAs \subseteq Nat
  /\ MaxLateness \in Nat
  /\ MaxBuffered \in Nat \ {0}
  /\ MaxPushes \in Nat

VARIABLES items,       \* the heap
          newestTOA,   \* greatest TOA pushed so far
          haveNewest,  \* a message was pushed
          loop,        \* the loop that is running: "none", "ready" or "all"
          pushed,      \* number of calls of Push; names the entries
          out,         \* history: the entries released, in order
          first        \* where the slice of the current or last call starts

vars == <<items, newestTOA, haveNewest, loop, pushed, out, first>>

(* An entry also records, for the properties, whether its message was      *)
(* already too late when it was pushed, and why it left: its window had    *)
(* passed, the buffer was over its capacity, or it was flushed.            *)
Causes   == {"window", "capacity", "flush"}
Entry    == [toa : TOAs, id : Nat, late : BOOLEAN]
Released == [toa : TOAs, id : Nat, late : BOOLEAN, cause : Causes]

TypeOK ==
  /\ items \subseteq Entry
  /\ IsFiniteSet(items)
  /\ newestTOA \in TOAs \cup {0}
  /\ haveNewest \in BOOLEAN
  /\ loop \in {"none", "ready", "all"}
  /\ pushed \in 0..MaxPushes
  /\ out \in Seq(Released)
  /\ first \in 1..(Len(out) + 1)

----------------------------------------------------------------------------

Init ==
  /\ items = {}
  /\ newestTOA = 0
  /\ haveNewest = FALSE
  /\ loop = "none"
  /\ pushed = 0
  /\ out = <<>>
  /\ first = 1

(* The window has passed for a message of this TOA. *)
Ready(toa) == haveNewest /\ toa + MaxLateness <= newestTOA

(* More messages are held than the buffer keeps. *)
Overflow == Cardinality(items) > MaxBuffered

\* Mutant: the heap is in the order of arrival.
IsFirstPushed(e) == e \in items /\ \A x \in items : e.id <= x.id

(* Less: what heap.Pop returns has a least TOA. *)
IsLeast(e) == e \in items /\ \A x \in items : e.toa <= x.toa

Cause(e) == IF Ready(e.toa) THEN "window"
            ELSE IF loop = "ready" THEN "capacity" ELSE "flush"

\* Mutant: messages keyed by TOA, so that equal TOAs overwrite each other.
PopByTOA(e) ==
  /\ IsLeast(e)
  /\ items' = {x \in items : x.toa # e.toa}
  /\ out' = Append(out, [toa |-> e.toa, id |-> e.id, late |-> e.late,
                         cause |-> Cause(e)])

(* heap.Pop, and the append to the slice the call returns *)
Pop(e) ==
  /\ IsLeast(e)
  /\ items' = items \ {e}
  /\ out' = Append(out, [toa |-> e.toa, id |-> e.id, late |-> e.late,
                         cause |-> Cause(e)])

Push(toa) ==
  /\ loop = "none"
  /\ pushed < MaxPushes
  /\ newestTOA' = IF ~haveNewest \/ toa > newestTOA THEN toa ELSE newestTOA
  /\ haveNewest' = TRUE
  /\ items' = items \cup {[toa |-> toa, id |-> pushed, late |-> Ready(toa)]}
  /\ pushed' = pushed + 1
  /\ loop' = "ready"
  /\ first' = Len(out) + 1
  /\ UNCHANGED out

(* flushReady: one iteration, and the end of the loop, which the code finds *)
(* at the least entry: when that one is not ready, none is.                 *)
PopReady(e) ==
  /\ loop = "ready"
  /\ Ready(e.toa) \/ Overflow
  /\ Pop(e)
  /\ UNCHANGED <<newestTOA, haveNewest, loop, pushed, first>>

EndReady ==
  /\ loop = "ready"
  /\ ~Overflow
  /\ \A e \in items : ~Ready(e.toa)
  /\ loop' = "none"
  /\ UNCHANGED <<items, newestTOA, haveNewest, pushed, out, first>>

FlushAll ==
  /\ loop = "none"
  /\ loop' = "all"
  /\ first' = Len(out) + 1
  /\ UNCHANGED <<items, newestTOA, haveNewest, pushed, out>>

PopAll(e) ==
  /\ loop = "all"
  /\ Pop(e)
  /\ UNCHANGED <<newestTOA, haveNewest, loop, pushed, first>>

EndAll ==
  /\ loop = "all"
  /\ items = {}
  /\ loop' = "none"
  /\ UNCHANGED <<items, newestTOA, haveNewest, pushed, out, first>>

Next ==
  \/ \E toa \in TOAs : Push(toa)
  \/ \E e \in items : PopReady(e)
  \/ EndReady
  \/ FlushAll
  \/ \E e \in items : PopAll(e)
  \/ EndAll

Spec == Init /\ [][Next]_vars

----------------------------------------------------------------------------

(* reorder.go:10-12: between calls, a message is held only while the window *)
(* has not passed for it, and at most maxBuffered of them are held.         *)
HoldBounded ==
  loop = "none" =>
    /\ \A e \in items : ~Ready(e.toa)
    /\ Cardinality(items) <= MaxBuffered

(* Every message pushed is held or was released, and only once: a loop of   *)
(* heap.Pop neither drops a message nor returns one twice.                  *)
NothingLostOrDuplicated ==
  /\ \A n \in 0..(pushed - 1) :
       (\E e \in items : e.id = n) \/ (\E i \in 1..Len(out) : out[i].id = n)
  /\ \A e \in items, i \in 1..Len(out) : e.id # out[i].id
  /\ \A i, j \in 1..Len(out) : out[i].id = out[j].id => i = j
  /\ \A d, e \in items : d.id = e.id => d = e

(* Over any number of calls, messages leave in TOA order, but for a message *)
(* that was pushed when its window had passed already and for those that    *)
(* overtook others because the buffer was full or was flushed.              *)
OrderedAcrossCalls ==
  \A i, j \in 1..Len(out) :
    i < j /\ out[i].toa > out[j].toa => out[i].cause # "window" \/ out[j].late

(* The slice one call returns is sorted, whatever was late or forced        *)
(* (reorder_test.go:47: FlushAll returns its messages sorted).              *)
CallSorted ==
  \A i, j \in first..Len(out) : i < j => out[i].toa <= out[j].toa

(* What the buffer is for: order within a call, and order across calls as   *)
(* far as lateness, the capacity and flushes allow.                         *)
OutputOrdered == CallSorted /\ OrderedAcrossCalls
=============================================================================
