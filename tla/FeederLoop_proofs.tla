------------------------- MODULE FeederLoop_proofs -------------------------
(***************************************************************************)
(* Theorems about ReorderBuffer, for every set of TOAs, window, capacity   *)
(* and number of pushes; and about FeederLoop, for every window, capacity, *)
(* ttl and period: the poll loop drives the reorder buffer only as its     *)
(* interface allows, so that what is proved of the buffer holds in the     *)
(* loop, and the properties of the loop itself hold.                       *)
(***************************************************************************)
EXTENDS FeederLoop, FiniteSetTheorems, TLAPS

(***************************************************************************)
(* The reorder buffer                                                      *)
(***************************************************************************)

(* Entries are named by the pushes made so far. *)
IdsBelowPushed ==
  /\ \A e \in items : e.id < pushed
  /\ \A i \in 1..Len(out) : out[i].id < pushed

(* An entry that left in time is at least a window older than the newest. *)
TimelyIsOld ==
  \A i \in 1..Len(out) : out[i].cause = "window" => Ready(out[i].toa)

(* What is still held is not older than what left in time, unless it came  *)
(* late, and never older than what the current call has returned.          *)
HeldIsNewer ==
  \A i \in 1..Len(out), e \in items :
    \/ out[i].cause # "window"
    \/ e.late
    \/ out[i].toa <= e.toa

HeldIsNewerInCall ==
  loop # "none" =>
    \A i \in first..Len(out), e \in items : out[i].toa <= e.toa

IInv ==
  /\ TypeOK
  /\ IdsBelowPushed
  /\ TimelyIsOld
  /\ HeldIsNewer
  /\ HeldIsNewerInCall
  /\ HoldBounded
  /\ NothingLostOrDuplicated
  /\ OrderedAcrossCalls
  /\ CallSorted

(* What heap.Pop and the append to the returned slice do to the state. *)
LEMMA PopEffect ==
  ASSUME TypeOK, NEW e \in items, Pop(e)
  PROVE  /\ e \in Entry
         /\ items' \subseteq items
         /\ IsFiniteSet(items')
         /\ \A x \in items : x = e \/ x \in items'
         /\ e \notin items'
         /\ Len(out') = Len(out) + 1
         /\ out' \in Seq(Released)
         /\ \A i \in 1..Len(out) : out'[i] = out[i]
         /\ out'[Len(out) + 1] = [toa |-> e.toa, id |-> e.id, late |-> e.late,
                                  cause |-> Cause(e)]
         /\ \A x \in items : e.toa <= x.toa
<1>1. e \in Entry
  BY DEF TypeOK
<1>2. [toa |-> e.toa, id |-> e.id, late |-> e.late,
       cause |-> Cause(e)] \in Released
  BY <1>1 DEF Entry, Released, Causes, Cause
<1>3. /\ Len(out') = Len(out) + 1
      /\ out' \in Seq(Released)
      /\ \A i \in 1..Len(out) : out'[i] = out[i]
      /\ out'[Len(out) + 1] = [toa |-> e.toa, id |-> e.id, late |-> e.late,
                               cause |-> Cause(e)]
  BY <1>2 DEF Pop, TypeOK
<1>4. IsFiniteSet(items')
  BY FS_RemoveElement DEF Pop, TypeOK
<1>5. QED
  BY <1>1, <1>3, <1>4 DEF Pop, IsLeast

LEMMA InitIInv == Init => IInv
<1> SUFFICES ASSUME Init PROVE IInv
  OBVIOUS
<1> USE ReorderAssumption DEF Init
<1>1. IsFiniteSet(items) /\ Cardinality(items) = 0
  BY FS_EmptySet
<1>2. out \in Seq(Released) /\ Len(out) = 0
  OBVIOUS
<1>3. TypeOK
  <2>1. items \subseteq Entry
    OBVIOUS
  <2>2. pushed \in 0..MaxPushes /\ first \in 1..(Len(out) + 1)
    BY <1>2
  <2>3. QED
    BY <1>1, <1>2, <2>1, <2>2 DEF TypeOK
<1>4. IdsBelowPushed /\ TimelyIsOld /\ HeldIsNewer /\ HeldIsNewerInCall
  BY <1>2 DEF IdsBelowPushed, TimelyIsOld, HeldIsNewer, HeldIsNewerInCall
<1>5. HoldBounded
  BY <1>1 DEF HoldBounded
<1>6. NothingLostOrDuplicated /\ OrderedAcrossCalls /\ CallSorted
  BY <1>2 DEF NothingLostOrDuplicated, OrderedAcrossCalls, CallSorted
<1>7. QED
  BY <1>3, <1>4, <1>5, <1>6 DEF IInv

(* A pop keeps every part of the invariant that does not speak of the loop. *)
LEMMA PopKeepsIInv ==
  ASSUME IInv, loop # "none", NEW e \in items, Pop(e),
         UNCHANGED <<newestTOA, haveNewest, loop, pushed, first>>
  PROVE  IInv'
<1> USE ReorderAssumption
<1>1. /\ TypeOK /\ IdsBelowPushed /\ TimelyIsOld /\ HeldIsNewer
      /\ HeldIsNewerInCall /\ NothingLostOrDuplicated /\ OrderedAcrossCalls
      /\ CallSorted
  BY DEF IInv
<1> DEFINE r == [toa |-> e.toa, id |-> e.id, late |-> e.late,
                 cause |-> Cause(e)]
           n == Len(out)
<1>2. /\ e \in Entry
      /\ items' \subseteq items
      /\ IsFiniteSet(items')
      /\ \A x \in items : x = e \/ x \in items'
      /\ e \notin items'
      /\ Len(out') = n + 1
      /\ out' \in Seq(Released)
      /\ \A i \in 1..n : out'[i] = out[i]
      /\ out'[n + 1] = r
      /\ \A x \in items : e.toa <= x.toa
  BY <1>1, PopEffect
<1>3. n \in Nat /\ first \in Nat /\ first \in 1..(n + 1)
  BY <1>1 DEF TypeOK
<1>4. 1..Len(out') = (1..n) \cup {n + 1}
  BY <1>2, <1>3
<1>5. first'..Len(out') = (first..n) \cup {n + 1}
  BY <1>2, <1>3
<1>6. r.toa = e.toa /\ r.id = e.id /\ r.late = e.late /\ (r.cause = "window" <=> Ready(e.toa))
  BY DEF Cause
<1> HIDE DEF r, n
<1>7. TypeOK'
  BY <1>1, <1>2, <1>3 DEF TypeOK, n
<1>8. IdsBelowPushed'
  BY <1>1, <1>2, <1>4, <1>6 DEF IdsBelowPushed, n
<1>9. TimelyIsOld'
  <2> SUFFICES ASSUME NEW i \in 1..Len(out'), out'[i].cause = "window"
               PROVE  Ready(out'[i].toa)
    BY DEF TimelyIsOld, Ready
  <2>1. CASE i = n + 1
    BY <2>1, <1>2, <1>6
  <2>2. CASE i \in 1..n
    BY <2>2, <1>1, <1>2 DEF TimelyIsOld, n
  <2>3. QED
    BY <2>1, <2>2, <1>4
<1>10. HeldIsNewer'
  BY <1>1, <1>2, <1>4, <1>6 DEF HeldIsNewer, n
<1>11. HeldIsNewerInCall'
  <2> SUFFICES ASSUME NEW i \in first'..Len(out'), NEW x \in items'
               PROVE  out'[i].toa <= x.toa
    BY DEF HeldIsNewerInCall
  <2>1. CASE i = n + 1
    BY <2>1, <1>2, <1>6
  <2>2. CASE i \in first..n
    BY <2>2, <1>1, <1>2, <1>3 DEF HeldIsNewerInCall, n
  <2>3. QED
    BY <2>1, <2>2, <1>5
<1>12. HoldBounded'
  BY DEF HoldBounded
<1>13. NothingLostOrDuplicated'
  <2>1. \A k \in 0..(pushed - 1) :
          (\E x \in items' : x.id = k) \/ (\E i \in 1..Len(out') : out'[i].id = k)
    <3> SUFFICES ASSUME NEW k \in 0..(pushed - 1)
                 PROVE  (\E x \in items' : x.id = k)
                        \/ (\E i \in 1..Len(out') : out'[i].id = k)
      OBVIOUS
    <3>1. CASE \E x \in items : x.id = k
      BY <3>1, <1>2, <1>4, <1>6
    <3>2. CASE \E i \in 1..n : out[i].id = k
      BY <3>2, <1>2, <1>4
    <3>3. QED
      BY <3>1, <3>2, <1>1 DEF NothingLostOrDuplicated, n
  <2>2. \A x \in items', i \in 1..Len(out') : x.id # out'[i].id
    <3> SUFFICES ASSUME NEW x \in items', NEW i \in 1..Len(out')
                 PROVE  x.id # out'[i].id
      OBVIOUS
    <3>1. CASE i \in 1..n
      BY <3>1, <1>1, <1>2 DEF NothingLostOrDuplicated, n
    <3>2. CASE i = n + 1
      BY <3>2, <1>1, <1>2, <1>6 DEF NothingLostOrDuplicated
    <3>3. QED
      BY <3>1, <3>2, <1>4
  <2>3. \A i, j \in 1..Len(out') : out'[i].id = out'[j].id => i = j
    <3>1. \A i, j \in 1..n : out'[i].id = out'[j].id => i = j
      BY <1>1, <1>2 DEF NothingLostOrDuplicated, n
    <3>2. \A i \in 1..n : out'[i].id # out'[n + 1].id
      BY <1>1, <1>2, <1>6 DEF NothingLostOrDuplicated, n
    <3>3. QED
      BY <3>1, <3>2, <1>4
  <2>4. \A d, x \in items' : d.id = x.id => d = x
    BY <1>1, <1>2 DEF NothingLostOrDuplicated
  <2>5. QED
    BY <2>1, <2>2, <2>3, <2>4 DEF NothingLostOrDuplicated
<1>14. OrderedAcrossCalls'
  <2> SUFFICES ASSUME NEW i \in 1..Len(out'), NEW j \in 1..Len(out'),
                      i < j, out'[i].toa > out'[j].toa
               PROVE  out'[i].cause # "window" \/ out'[j].late
    BY DEF OrderedAcrossCalls
  <2>1. i \in 1..n
    BY <1>3, <1>4
  <2>2. CASE j \in 1..n
    BY <2>1, <2>2, <1>1, <1>2 DEF OrderedAcrossCalls, n
  <2>3. CASE j = n + 1
    <3>1. out[i].cause # "window" \/ e.late \/ out[i].toa <= e.toa
      BY <2>1, <1>1 DEF HeldIsNewer, n
    <3>2. out[i].toa \in Nat /\ e.toa \in Nat
      <4>1. out[i] \in Released
        BY <2>1, <1>1 DEF TypeOK, n
      <4>2. QED
        BY <4>1, <1>2 DEF Released, Entry
    <3>3. out'[i] = out[i] /\ out'[j] = r
      BY <2>1, <2>3, <1>2
    <3>4. ~(out[i].toa <= e.toa)
      BY <3>2, <3>3, <1>6
    <3>5. QED
      BY <3>1, <3>3, <3>4, <1>6
  <2>4. QED
    BY <2>2, <2>3, <1>4
<1>15. CallSorted'
  <2> SUFFICES ASSUME NEW i \in first'..Len(out'), NEW j \in first'..Len(out'),
                      i < j
               PROVE  out'[i].toa <= out'[j].toa
    BY DEF CallSorted
  <2>1. i \in first..n
    BY <1>3, <1>5
  <2>2. CASE j \in first..n
    BY <2>1, <2>2, <1>1, <1>2, <1>3 DEF CallSorted, n
  <2>3. CASE j = n + 1
    BY <2>1, <2>3, <1>1, <1>2, <1>3, <1>6 DEF HeldIsNewerInCall, n
  <2>4. QED
    BY <2>2, <2>3, <1>5
<1>16. QED
  BY <1>7, <1>8, <1>9, <1>10, <1>11, <1>12, <1>13, <1>14, <1>15 DEF IInv

(* A push adds one entry, named by a number not used before.  The window    *)
(* only moves on: what was ready stays ready.                               *)
LEMMA PushKeepsIInv ==
  ASSUME IInv, NEW toa \in TOAs, Push(toa)
  PROVE  IInv'
<1> USE ReorderAssumption
<1>1. /\ TypeOK /\ IdsBelowPushed /\ TimelyIsOld /\ HeldIsNewer
      /\ NothingLostOrDuplicated /\ OrderedAcrossCalls /\ CallSorted
  BY DEF IInv
<1> DEFINE d == [toa |-> toa, id |-> pushed, late |-> Ready(toa)]
<1>2. /\ items' = items \cup {d}
      /\ out' = out
      /\ first' = Len(out) + 1
      /\ loop' = "ready"
      /\ pushed' = pushed + 1
      /\ haveNewest' = TRUE
      /\ newestTOA' = IF ~haveNewest \/ toa > newestTOA THEN toa ELSE newestTOA
      /\ pushed \in Nat
      /\ pushed < MaxPushes
  BY <1>1 DEF Push, TypeOK
<1>3. d \in Entry
  BY <1>2 DEF Entry, Ready
<1>4. d.toa = toa /\ d.id = pushed /\ d.late = Ready(toa)
  OBVIOUS
<1> HIDE DEF d
<1>5. newestTOA \in Nat /\ newestTOA' \in Nat /\ toa \in Nat
  BY <1>1, <1>2 DEF TypeOK
<1>6. \A i \in 1..Len(out) : out[i] \in Released /\ out[i].toa \in Nat
  <2>1. \A i \in 1..Len(out) : out[i] \in Released
    BY <1>1 DEF TypeOK
  <2>2. QED
    BY <2>1 DEF Released
<1>7. TypeOK'
  <2>1. IsFiniteSet(items')
    BY <1>1, <1>2, FS_AddElement DEF TypeOK
  <2>2. pushed' \in 0..MaxPushes
    BY <1>2
  <2>3. first' \in 1..(Len(out') + 1)
    BY <1>1, <1>2 DEF TypeOK
  <2>4. items' \subseteq Entry /\ newestTOA' \in TOAs \cup {0}
    BY <1>1, <1>2, <1>3 DEF TypeOK
  <2>5. out' \in Seq(Released) /\ haveNewest' \in BOOLEAN
    BY <1>1, <1>2 DEF TypeOK
  <2>6. QED
    BY <1>2, <2>1, <2>2, <2>3, <2>4, <2>5 DEF TypeOK
<1>8. IdsBelowPushed'
  <2>1. /\ \A x \in items : x.id \in Nat
        /\ \A i \in 1..Len(out) : out[i].id \in Nat
    BY <1>1, <1>6 DEF TypeOK, Entry, Released
  <2>2. QED
    BY <2>1, <1>1, <1>2, <1>4 DEF IdsBelowPushed
<1>9. TimelyIsOld'
  <2> SUFFICES ASSUME NEW i \in 1..Len(out), out[i].cause = "window"
               PROVE  haveNewest' /\ out[i].toa + MaxLateness <= newestTOA'
    BY <1>2 DEF TimelyIsOld, Ready
  <2>1. haveNewest /\ out[i].toa + MaxLateness <= newestTOA
    BY <1>1 DEF TimelyIsOld, Ready
  <2>2. newestTOA <= newestTOA'
    BY <2>1, <1>2, <1>5
  <2>3. QED
    BY <2>1, <2>2, <1>2, <1>5, <1>6
<1>10. HeldIsNewer'
  <2> SUFFICES ASSUME NEW i \in 1..Len(out), out[i].cause = "window", ~d.late
               PROVE  out[i].toa <= toa
    BY <1>1, <1>2, <1>4 DEF HeldIsNewer
  <2>1. haveNewest /\ out[i].toa + MaxLateness <= newestTOA
    BY <1>1 DEF TimelyIsOld, Ready
  <2>2. ~(toa + MaxLateness <= newestTOA)
    BY <2>1, <1>4 DEF Ready
  <2>3. QED
    BY <2>1, <2>2, <1>5, <1>6
<1>11. HeldIsNewerInCall' /\ CallSorted'
  <2>1. Len(out) \in Nat
    BY <1>1 DEF TypeOK
  <2>2. first'..Len(out') = {}
    BY <2>1, <1>2
  <2>3. QED
    BY <2>2 DEF HeldIsNewerInCall, CallSorted
<1>12. HoldBounded'
  BY <1>2 DEF HoldBounded
<1>13. NothingLostOrDuplicated'
  <2>1. \A k \in 0..(pushed' - 1) : k = pushed \/ k \in 0..(pushed - 1)
    BY <1>2
  <2>2. \A k \in 0..(pushed' - 1) :
          (\E x \in items' : x.id = k) \/ (\E i \in 1..Len(out') : out'[i].id = k)
    BY <2>1, <1>1, <1>2, <1>4 DEF NothingLostOrDuplicated
  <2>3. /\ \A x \in items : x.id # d.id
        /\ \A i \in 1..Len(out) : out[i].id # d.id
    BY <1>1, <1>2, <1>4 DEF IdsBelowPushed
  <2>4. QED
    BY <2>2, <2>3, <1>1, <1>2 DEF NothingLostOrDuplicated
<1>14. OrderedAcrossCalls'
  BY <1>1, <1>2 DEF OrderedAcrossCalls
<1>15. QED
  BY <1>7, <1>8, <1>9, <1>10, <1>11, <1>12, <1>13, <1>14 DEF IInv

LEMMA StepIInv == IInv /\ [Next]_vars => IInv'
<1> SUFFICES ASSUME IInv, [Next]_vars PROVE IInv'
  OBVIOUS
<1> USE ReorderAssumption
<1>1. ASSUME NEW toa \in TOAs, Push(toa) PROVE IInv'
  BY <1>1, PushKeepsIInv
<1>2. ASSUME NEW e \in items, PopReady(e) PROVE IInv'
  BY <1>2, PopKeepsIInv DEF PopReady
<1>3. ASSUME NEW e \in items, PopAll(e) PROVE IInv'
  BY <1>3, PopKeepsIInv DEF PopAll
<1>4. CASE EndReady
  <2>1. Cardinality(items) \in Nat /\ MaxBuffered \in Nat
    BY FS_CardinalityType DEF IInv, TypeOK
  <2>2. HoldBounded'
    BY <2>1, <1>4 DEF EndReady, Overflow, HoldBounded, Ready
  <2>3. QED
    BY <2>2, <1>4 DEF EndReady, IInv, TypeOK, IdsBelowPushed, TimelyIsOld,
       HeldIsNewer, HeldIsNewerInCall, NothingLostOrDuplicated,
       OrderedAcrossCalls, CallSorted, Ready
<1>5. CASE EndAll
  <2>1. Cardinality(items) = 0
    BY <1>5, FS_EmptySet DEF EndAll
  <2>2. HoldBounded'
    BY <2>1, <1>5 DEF EndAll, HoldBounded
  <2>3. QED
    BY <2>2, <1>5 DEF EndAll, IInv, TypeOK, IdsBelowPushed, TimelyIsOld,
       HeldIsNewer, HeldIsNewerInCall, NothingLostOrDuplicated,
       OrderedAcrossCalls, CallSorted, Ready
<1>6. CASE FlushAll
  <2>1. Len(out) \in Nat
    BY DEF IInv, TypeOK
  <2>2. first'..Len(out') = {} /\ first' \in 1..(Len(out') + 1)
    BY <2>1, <1>6 DEF FlushAll
  <2>3. HeldIsNewerInCall' /\ CallSorted'
    BY <2>2 DEF HeldIsNewerInCall, CallSorted
  <2>4. TypeOK'
    BY <2>2, <1>6 DEF FlushAll, IInv, TypeOK
  <2>5. QED
    BY <2>3, <2>4, <1>6 DEF FlushAll, IInv, IdsBelowPushed, TimelyIsOld,
       HeldIsNewer, NothingLostOrDuplicated, OrderedAcrossCalls, HoldBounded, Ready
<1>7. CASE UNCHANGED vars
  BY <1>7 DEF vars, IInv, TypeOK, IdsBelowPushed, TimelyIsOld, HeldIsNewer,
     HeldIsNewerInCall, HoldBounded, NothingLostOrDuplicated, OrderedAcrossCalls,
     CallSorted, Ready
<1>8. QED
  BY <1>1, <1>2, <1>3, <1>4, <1>5, <1>6, <1>7 DEF Next

LEMMA AlwaysIInv == Spec => []IInv
  BY InitIInv, StepIInv, PTL DEF Spec

(* The state of the buffer keeps its types. *)
THEOREM TypeCorrect == Spec => []TypeOK
<1>1. IInv => TypeOK
  BY DEF IInv
<1>2. QED
  BY <1>1, AlwaysIInv, PTL

(* reorder.go:10-12, for every window and capacity: between calls nothing   *)
(* is held past its window, and no more than the capacity.                  *)
THEOREM HoldIsBounded == Spec => []HoldBounded
<1>1. IInv => HoldBounded
  BY DEF IInv
<1>2. QED
  BY <1>1, AlwaysIInv, PTL

(* Every message pushed comes out exactly once or is still held.            *)
THEOREM Conservation == Spec => []NothingLostOrDuplicated
<1>1. IInv => NothingLostOrDuplicated
  BY DEF IInv
<1>2. QED
  BY <1>1, AlwaysIInv, PTL

(* What leaves the buffer is in TOA order, but for late messages and those  *)
(* that a full or flushed buffer let out early; one call always returns a   *)
(* sorted slice.                                                            *)
THEOREM Ordering == Spec => []OutputOrdered
<1>1. IInv => OutputOrdered
  BY DEF IInv, OutputOrdered
<1>2. QED
  BY <1>1, AlwaysIInv, PTL

----------------------------------------------------------------------------

(***************************************************************************)
(* The poll loop                                                           *)
(***************************************************************************)

(* Types of the loop, and how its place goes with that of the buffer.       *)
LoopInv ==
  /\ now \in Nat
  /\ passed \in BOOLEAN
  /\ fifo \in Seq(Message)
  /\ pc \in {"poll", "read", "push", "next", "flush", "sleep"}
  /\ pc = "read" => fifo # <<>>
  /\ pc = "push" <=> loop = "ready"
  /\ pc = "flush" <=> loop = "all"
  /\ lastReadAt \in Nat \cup {None}

LEMMA MessageType ==
  ASSUME NEW m \in Message
  PROVE  m.toa \in TOAs /\ m.toa \in Nat /\ m.addr \in Addrs
BY LoopAssumption DEF Message

LEMMA LoopInit1 == LoopInit => Init /\ LoopInv
<1> SUFFICES ASSUME LoopInit PROVE Init /\ LoopInv
  OBVIOUS
<1>1. Init /\ loop = "none" /\ pc = "poll"
  BY DEF LoopInit, Init
<1>2. fifo \in Seq(Message)
  <2>1. fifo = <<>>
    BY DEF LoopInit
  <2>2. QED
    BY <2>1
<1>3. now \in Nat /\ lastReadAt \in Nat \cup {None}
  BY DEF LoopInit
<1>4. passed \in BOOLEAN
  BY DEF LoopInit
<1>5. QED
  BY <1>1, <1>2, <1>3, <1>4 DEF LoopInv

(* A step of the loop is a step of the buffer or leaves it alone.           *)
LEMMA LoopStepIsBufferStep ==
  ASSUME LoopInv, [LoopNext]_allVars
  PROVE  [Next]_vars
<1>1. CASE Pass
  BY <1>1 DEF Pass
<1>2. CASE Poll
  BY <1>2 DEF Poll, Next
<1>3. CASE ReadMessage
  <2> DEFINE m == Head(fifo)
  <2>1. m \in Message
    BY <1>3 DEF ReadMessage, LoopInv
  <2>2. m.toa \in TOAs
    BY <2>1, MessageType
  <2> HIDE DEF m
  <2>3. Accept(m) \/ Reject(m)
    BY <1>3 DEF ReadMessage, m
  <2>4. QED
    BY <2>2, <2>3 DEF Accept, Reject, Next
<1>4. CASE Emit
  BY <1>4 DEF Emit, Next
<1>5. CASE EmitDone
  BY <1>5 DEF EmitDone, Next
<1>6. CASE BurstNext \/ Sleep \/ UNCHANGED allVars
  BY <1>6 DEF BurstNext, Sleep, allVars
<1>7. QED
  BY <1>1, <1>2, <1>3, <1>4, <1>5, <1>6 DEF LoopNext, LoopStep

LEMMA StepLoopInv == LoopInv /\ [LoopNext]_allVars => LoopInv'
<1> SUFFICES ASSUME LoopInv, [LoopNext]_allVars PROVE LoopInv'
  OBVIOUS
<1> USE LoopAssumption DEF LoopInv
<1>1. CASE Pass
  <2>1. now' \in Nat /\ pc' = pc /\ passed' = TRUE /\ loop' = loop /\ lastReadAt' = lastReadAt
    BY <1>1 DEF Pass, vars
  <2>2. CASE UNCHANGED fifo
    BY <2>1, <2>2
  <2>3. ASSUME NEW kind \in Kinds, NEW a \in Addrs, NEW toa \in TOAs,
               fifo' = Append(fifo, [kind |-> kind, addr |-> a, toa |-> toa])
        PROVE  LoopInv'
    <3>1. [kind |-> kind, addr |-> a, toa |-> toa] \in Message
      BY DEF Message
    <3>2. fifo' \in Seq(Message) /\ fifo' # <<>>
      BY <2>3, <3>1
    <3>3. QED
      BY <2>1, <3>2
  <2>4. QED
    BY <1>1, <2>2, <2>3 DEF Pass
<1>2. CASE Poll
  BY <1>2 DEF Poll, FlushAll, vars
<1>3. CASE ReadMessage
  <2>1. fifo' \in Seq(Message) /\ now' = now /\ lastReadAt' = now /\ passed' = FALSE
    BY <1>3 DEF ReadMessage
  <2>2. loop # "ready" /\ loop # "all"
    BY <1>3 DEF ReadMessage
  <2>3. \/ pc' = "push" /\ loop' = "ready"
        \/ pc' = "next" /\ loop' = loop
    BY <1>3 DEF ReadMessage, Accept, Reject, Push, vars
  <2>4. QED
    BY <2>1, <2>2, <2>3
<1>4. CASE Emit
  BY <1>4 DEF Emit, PopReady, PopAll
<1>5. CASE EmitDone
  BY <1>5 DEF EmitDone, EndReady, EndAll
<1>6. CASE BurstNext \/ Sleep \/ UNCHANGED allVars
  BY <1>6 DEF BurstNext, Sleep, allVars, loopVars, vars
<1>7. QED
  BY <1>1, <1>2, <1>3, <1>4, <1>5, <1>6 DEF LoopNext, LoopStep

LEMMA AlwaysLoopInv == LoopSpec => []LoopInv
  BY LoopInit1, StepLoopInv, PTL DEF LoopSpec

(* The loop uses the reorder buffer as its specification allows.            *)
THEOREM LoopUsesBuffer == LoopSpec => Spec
  BY LoopInit1, LoopStepIsBufferStep, AlwaysLoopInv, PTL DEF LoopSpec, Spec

(* In the loop too, the buffer holds no more than it may, loses and repeats *)
(* nothing, and releases out of order only what was late or left early.     *)
THEOREM LoopKeepsBuffer ==
  LoopSpec => [](HoldBounded /\ NothingLostOrDuplicated /\ OutputOrdered)
  BY LoopUsesBuffer, HoldIsBounded, Conservation, Ordering, PTL

-----------------------------------------------------------------------------
(* The filter.                                                               *)

(* An entry is the time its address was last announced; an address without  *)
(* one was not announced within the ttl.                                    *)
FilterInv ==
  /\ announced \in [Addrs -> Nat \cup {None}]
  /\ \A a \in Addrs : announced[a] # None => announced[a] <= now
  /\ DOMAIN addrs \subseteq Addrs
  /\ \A a \in DOMAIN addrs : announced[a] # None /\ addrs[a] = announced[a]
  /\ \A a \in Addrs \ DOMAIN addrs : announced[a] # None => now - announced[a] > TTL

LEMMA InitFilterInv == LoopInit => FilterInv
BY LoopAssumption DEF LoopInit, FilterInv

LEMMA StepFilterInv ==
  ASSUME LoopInv, FilterInv, [LoopNext]_allVars
  PROVE  FilterInv'
<1> USE LoopAssumption DEF LoopInv, FilterInv
<1>1. CASE Pass
  <2>1. now' = now + 1 /\ addrs' = addrs /\ announced' = announced
    BY <1>1 DEF Pass
  <2>2. QED
    BY <2>1
<1>2. CASE Poll
  <2>1. now' = now /\ announced' = announced /\ (addrs' = addrs \/ addrs' = Expired(addrs))
    BY <1>2 DEF Poll
  <2>2. CASE addrs' = addrs
    BY <2>1, <2>2
  <2>3. CASE addrs' = Expired(addrs)
    <3>1. /\ DOMAIN addrs' = {a \in DOMAIN addrs : now - addrs[a] <= TTL}
          /\ \A a \in DOMAIN addrs' : addrs'[a] = addrs[a]
      BY <2>3 DEF Expired, Restrict
    <3>2. ASSUME NEW a \in Addrs, a \notin DOMAIN addrs', announced[a] # None
          PROVE  now - announced[a] > TTL
      BY <3>1, <3>2
    <3>3. QED
      BY <2>1, <3>1, <3>2
  <2>4. QED
    BY <2>1, <2>2, <2>3
<1>3. CASE ReadMessage
  <2> DEFINE m == Head(fifo)
  <2>1. m \in Message /\ m.addr \in Addrs
    BY <1>3, MessageType DEF ReadMessage
  <2>2. now' = now
    BY <1>3 DEF ReadMessage
  <2> HIDE DEF m
  <2>3. CASE addrs' = Add(addrs, m.addr) /\ announced' = [announced EXCEPT ![m.addr] = now]
    BY <2>1, <2>2, <2>3 DEF Add
  <2>4. CASE /\ addrs' = Restrict(addrs, DOMAIN addrs \ {m.addr})
             /\ ~Test(addrs, m.addr) /\ announced' = announced
    <3>1. /\ DOMAIN addrs' = DOMAIN addrs \ {m.addr}
          /\ \A a \in DOMAIN addrs' : addrs'[a] = addrs[a]
      BY <2>4 DEF Restrict
    <3>2. announced[m.addr] # None => now - announced[m.addr] > TTL
      BY <2>1, <2>4 DEF Test
    <3>3. QED
      BY <2>2, <2>4, <3>1, <3>2
  <2>5. CASE addrs' = addrs /\ announced' = announced
    BY <2>2, <2>5
  <2>6. QED
    BY <1>3, <2>3, <2>4, <2>5 DEF ReadMessage, m
<1>4. CASE Emit \/ EmitDone \/ BurstNext \/ Sleep \/ UNCHANGED allVars
  <2>1. now' = now /\ addrs' = addrs /\ announced' = announced
    BY <1>4 DEF Emit, EmitDone, BurstNext, Sleep, allVars, loopVars
  <2>2. QED
    BY <2>1
<1>5. QED
  BY <1>1, <1>2, <1>3, <1>4 DEF LoopNext, LoopStep

LEMMA StepFilterExact ==
  ASSUME LoopInv, FilterInv, [LoopNext]_allVars,
         pc = "read", pc' # "read", Head(fifo).kind = "address"
  PROVE  pc' = "push" <=> LET last == announced[Head(fifo).addr]
                          IN last # None /\ now - last <= TTL
<1> DEFINE m == Head(fifo)
<1>1. ReadMessage
  BY DEF LoopNext, LoopStep, Pass, Poll, Emit, EmitDone, BurstNext, Sleep, allVars, loopVars
<1>2. m \in Message /\ m.addr \in Addrs
  BY MessageType DEF LoopInv
<1>3. pc' = "push" <=> Test(addrs, m.addr)
  BY <1>1 DEF ReadMessage, Accept, Reject
<1> HIDE DEF m
<1>4. Test(addrs, m.addr) <=> announced[m.addr] # None /\ now - announced[m.addr] <= TTL
  BY <1>2, LoopAssumption DEF Test, FilterInv, LoopInv
<1>5. QED
  BY <1>3, <1>4 DEF m

(* filter.go:5-7, for every ttl and stats period: an address frame is       *)
(* accepted if and only if its address was announced within the ttl.        *)
THEOREM FilterExact == LoopSpec => FilterIsExact
<1> DEFINE Exact ==
      pc = "read" /\ pc' # "read" /\ Head(fifo).kind = "address" =>
        LET last == announced[Head(fifo).addr]
        IN pc' = "push" <=> last # None /\ now - last <= TTL
<1>1. LoopInv /\ FilterInv /\ [LoopNext]_allVars => [Exact]_allVars
  BY StepFilterExact
<1>2. LoopSpec => []FilterInv
  BY InitFilterInv, StepFilterInv, AlwaysLoopInv, PTL DEF LoopSpec
<1>3. QED
  BY <1>1, <1>2, AlwaysLoopInv, PTL DEF LoopSpec, FilterIsExact

-----------------------------------------------------------------------------
(* The order of the stream, when the window is no shorter than Skew.         *)

(* No message pushed is newer than the last read, and none held is newer     *)
(* than the newest pushed.                                                   *)
NewestIsRead ==
  /\ haveNewest => lastReadAt # None /\ newestTOA <= lastReadAt
  /\ lastReadAt # None => lastReadAt <= now
  /\ items # {} => haveNewest
  /\ \A e \in items : e.toa <= newestTOA

(* The FIFO is out of order by no more than Skew, also against what was      *)
(* pushed.                                                                   *)
FifoAlmostSorted ==
  /\ \A k \in 1..Len(fifo) :
       fifo[k].toa <= now /\ (haveNewest => newestTOA <= fifo[k].toa + Skew)
  /\ \A j, k \in 1..Len(fifo) : j < k => fifo[j].toa <= fifo[k].toa + Skew

(* During a flush, what the FIFO may have received since is not older than   *)
(* what is flushed.                                                          *)
FlushIsSafe ==
  pc = "flush" =>
    /\ haveNewest /\ newestTOA + MaxLateness <= now
    /\ \A k \in 1..Len(fifo) : newestTOA <= fifo[k].toa

(* What was released, but not by the capacity, is not newer than anything    *)
(* that is held, in the FIFO or still to come.                               *)
OutIsBehind ==
  \A i \in 1..Len(out) : out[i].cause # "capacity" =>
    /\ out[i].toa + MaxLateness <= now
    /\ \A e \in items : out[i].toa <= e.toa
    /\ \A k \in 1..Len(fifo) : out[i].toa <= fifo[k].toa

OrderInv == NewestIsRead /\ FifoAlmostSorted /\ FlushIsSafe /\ OutIsBehind /\ StreamSorted

(* Types that the steps below need.                                          *)
LEMMA Typed ==
  ASSUME IInv, LoopInv
  PROVE  /\ newestTOA \in Nat /\ MaxLateness \in Nat /\ Skew \in Nat
         /\ \A e \in items : e \in Entry /\ e.toa \in Nat
         /\ \A i \in 1..Len(out) : out[i].toa \in Nat
         /\ \A k \in 1..Len(fifo) : fifo[k] \in Message /\ fifo[k].toa \in Nat
         /\ Len(out) \in Nat /\ Len(fifo) \in Nat
<1> USE ReorderAssumption, LoopAssumption
<1>1. newestTOA \in Nat /\ MaxLateness \in Nat /\ Skew \in Nat
  BY DEF IInv, TypeOK
<1>2. \A e \in items : e \in Entry /\ e.toa \in Nat
  BY DEF IInv, TypeOK, Entry
<1>3. ASSUME NEW i \in 1..Len(out) PROVE out[i].toa \in Nat
  <2>1. out[i] \in Released
    BY DEF IInv, TypeOK
  <2>2. QED
    BY <2>1 DEF Released
<1>4. ASSUME NEW k \in 1..Len(fifo) PROVE fifo[k] \in Message /\ fifo[k].toa \in Nat
  BY MessageType DEF LoopInv
<1>5. Len(out) \in Nat /\ Len(fifo) \in Nat
  BY DEF IInv, TypeOK, LoopInv
<1>6. QED
  BY <1>1, <1>2, <1>3, <1>4, <1>5

LEMMA InitOrderInv == LoopInit => OrderInv
<1> SUFFICES ASSUME LoopInit PROVE OrderInv
  OBVIOUS
<1>1. /\ items = {} /\ haveNewest = FALSE /\ out = <<>> /\ fifo = <<>> /\ pc = "poll"
      /\ lastReadAt = None
  BY DEF LoopInit, Init
<1>2. Len(out) = 0 /\ Len(fifo) = 0
  BY <1>1
<1>3. QED
  BY <1>1, <1>2 DEF OrderInv, NewestIsRead, FifoAlmostSorted, FlushIsSafe, OutIsBehind, StreamSorted

(* A message that arrives is at most Skew late, and so not older than        *)
(* anything that left in time.                                               *)
LEMMA PassKeepsOrder ==
  ASSUME IInv, LoopInv, OrderInv, Skew <= MaxLateness, Pass
  PROVE  OrderInv'
<1> USE DEF OrderInv
<1> DEFINE n == Len(fifo)
<1>1. /\ newestTOA \in Nat /\ MaxLateness \in Nat /\ Skew \in Nat /\ now \in Nat
      /\ \A i \in 1..Len(out) : out[i].toa \in Nat
      /\ \A k \in 1..n : fifo[k].toa \in Nat
      /\ n \in Nat /\ lastReadAt \in Nat \cup {None} /\ None \notin Nat
  BY Typed, LoopAssumption DEF LoopInv
<1>2. /\ now' = now + 1 /\ pc' = pc /\ lastReadAt' = lastReadAt
      /\ items' = items /\ out' = out /\ newestTOA' = newestTOA /\ haveNewest' = haveNewest
  BY DEF Pass, vars
<1>3. NewestIsRead'
  BY <1>1, <1>2 DEF NewestIsRead
<1>4. StreamSorted'
  BY <1>2 DEF StreamSorted
<1>5. CASE fifo' = fifo
  <2>1. FifoAlmostSorted'
    BY <1>1, <1>2, <1>5 DEF FifoAlmostSorted
  <2>2. FlushIsSafe'
    BY <1>1, <1>2, <1>5 DEF FlushIsSafe
  <2>3. OutIsBehind'
    BY <1>1, <1>2, <1>5 DEF OutIsBehind
  <2>4. QED
    BY <1>3, <1>4, <2>1, <2>2, <2>3
<1>6. ASSUME NEW m \in Message, m.toa <= now', now' - m.toa <= Skew, fifo' = Append(fifo, m)
      PROVE  OrderInv'
  <2>1. m.toa \in Nat
    BY MessageType
  <2>2. /\ Len(fifo') = n + 1
        /\ \A k \in 1..(n + 1) : IF k = n + 1 THEN fifo'[k] = m ELSE k \in 1..n /\ fifo'[k] = fifo[k]
    BY <1>1, <1>6 DEF LoopInv
  <2> HIDE DEF n
  <2>3. now < m.toa + Skew
    BY <1>1, <1>2, <1>6, <2>1
  <2>4. FifoAlmostSorted'
    <3>1. \A k \in 1..Len(fifo') :
            fifo'[k].toa <= now' /\ (haveNewest' => newestTOA' <= fifo'[k].toa + Skew)
      <4> SUFFICES ASSUME NEW k \in 1..(n + 1)
                   PROVE  fifo'[k].toa <= now' /\ (haveNewest => newestTOA <= fifo'[k].toa + Skew)
        BY <1>2, <2>2
      <4>1. CASE k = n + 1
        BY <1>1, <1>2, <1>6, <2>1, <2>2, <2>3, <4>1 DEF NewestIsRead
      <4>2. CASE k # n + 1
        BY <1>1, <1>2, <2>2, <4>2 DEF FifoAlmostSorted, n
      <4>3. QED
        BY <4>1, <4>2
    <3>2. ASSUME NEW j \in 1..(n + 1), NEW k \in 1..(n + 1), j < k
          PROVE  fifo'[j].toa <= fifo'[k].toa + Skew
      <4>1. j \in 1..n /\ fifo'[j] = fifo[j]
        BY <1>1, <2>2, <3>2
      <4>2. CASE k = n + 1
        <5>1. fifo[j].toa <= now /\ fifo[j].toa \in Nat
          BY <1>1, <4>1 DEF FifoAlmostSorted, n
        <5>2. fifo'[k] = m
          BY <2>2, <4>2
        <5>3. QED
          BY <1>1, <2>1, <2>3, <4>1, <5>1, <5>2
      <4>3. CASE k # n + 1
        BY <2>2, <3>2, <4>1, <4>3 DEF FifoAlmostSorted, n
      <4>4. QED
        BY <4>2, <4>3
    <3>3. QED
      BY <2>2, <3>1, <3>2 DEF FifoAlmostSorted
  <2>5. FlushIsSafe'
    <3> SUFFICES ASSUME pc = "flush"
                 PROVE  /\ haveNewest /\ newestTOA + MaxLateness <= now'
                        /\ \A k \in 1..(n + 1) : newestTOA <= fifo'[k].toa
      BY <1>2, <2>2 DEF FlushIsSafe
    <3>1. haveNewest /\ newestTOA + MaxLateness <= now
      BY DEF FlushIsSafe
    <3>2. newestTOA <= m.toa
      BY <1>1, <2>1, <2>3, <3>1
    <3>3. QED
      BY <1>1, <1>2, <2>2, <3>1, <3>2 DEF FlushIsSafe, n
  <2>6. OutIsBehind'
    <3> SUFFICES ASSUME NEW i \in 1..Len(out), out[i].cause # "capacity"
                 PROVE  /\ out[i].toa + MaxLateness <= now'
                        /\ \A e \in items : out[i].toa <= e.toa
                        /\ \A k \in 1..(n + 1) : out[i].toa <= fifo'[k].toa
      BY <1>2, <2>2 DEF OutIsBehind
    <3>1. out[i].toa + MaxLateness <= now /\ \A e \in items : out[i].toa <= e.toa
      BY DEF OutIsBehind
    <3>2. out[i].toa <= m.toa
      BY <1>1, <2>1, <2>3, <3>1
    <3>3. ASSUME NEW k \in 1..(n + 1) PROVE out[i].toa <= fifo'[k].toa
      <4>1. CASE k = n + 1
        BY <2>2, <3>2, <4>1
      <4>2. CASE k # n + 1
        BY <2>2, <4>2 DEF OutIsBehind, n
      <4>3. QED
        BY <4>1, <4>2
    <3>4. out[i].toa \in Nat
      BY <1>1
    <3>5. QED
      BY <1>1, <1>2, <3>1, <3>3, <3>4
  <2>7. QED
    BY <1>3, <1>4, <2>4, <2>5, <2>6
<1>7. QED
  <2>1. CASE UNCHANGED fifo
    BY <1>5, <2>1
  <2>2. ASSUME NEW kind \in Kinds, NEW a \in Addrs, NEW toa \in TOAs,
               toa <= now', now' - toa <= Skew,
               fifo' = Append(fifo, [kind |-> kind, addr |-> a, toa |-> toa])
        PROVE  OrderInv'
    <3>1. [kind |-> kind, addr |-> a, toa |-> toa] \in Message
      BY DEF Message
    <3>2. QED
      BY <1>6, <2>2, <3>1
  <2>3. QED
    BY <2>1, <2>2 DEF Pass

(* A pop takes a least entry. What leaves in time is a window older than the *)
(* newest, what is flushed has been waited for.                              *)
LEMMA EmitKeepsOrder ==
  ASSUME IInv, LoopInv, OrderInv, Skew <= MaxLateness, Emit
  PROVE  OrderInv'
<1> PICK e \in items : PopReady(e) \/ PopAll(e)
  BY DEF Emit
<1> USE DEF OrderInv
<1> DEFINE n == Len(out)
<1>1. /\ newestTOA \in Nat /\ MaxLateness \in Nat /\ Skew \in Nat /\ now \in Nat
      /\ \A k \in 1..Len(fifo) : fifo[k].toa \in Nat
      /\ e.toa \in Nat /\ n \in Nat
      /\ lastReadAt \in Nat \cup {None}
  BY Typed DEF LoopInv
<1>2. /\ now' = now /\ pc' = pc /\ lastReadAt' = lastReadAt /\ fifo' = fifo
      /\ newestTOA' = newestTOA /\ haveNewest' = haveNewest
      /\ Pop(e)
  BY DEF Emit, PopReady, PopAll
<1>3. /\ items' \subseteq items
      /\ Len(out') = n + 1
      /\ \A i \in 1..n : out'[i] = out[i]
      /\ out'[n + 1].toa = e.toa /\ out'[n + 1].cause = Cause(e)
      /\ \A x \in items : e.toa <= x.toa
  <2>1. TypeOK
    BY DEF IInv
  <2>2. /\ items' \subseteq items /\ Len(out') = n + 1
        /\ \A i \in 1..n : out'[i] = out[i]
        /\ out'[n + 1] = [toa |-> e.toa, id |-> e.id, late |-> e.late, cause |-> Cause(e)]
        /\ \A x \in items : e.toa <= x.toa
    BY <1>2, <2>1, PopEffect
  <2>3. QED
    BY <2>2
<1> HIDE DEF n
<1>4. \A i \in 1..(n + 1) : i = n + 1 \/ i \in 1..n
  BY <1>1
<1>5. ASSUME Cause(e) # "capacity"
      PROVE  e.toa + MaxLateness <= now /\ \A k \in 1..Len(fifo) : e.toa <= fifo[k].toa
  <2>1. CASE Ready(e.toa)
    <3>1. haveNewest /\ e.toa + MaxLateness <= newestTOA
      BY <2>1 DEF Ready
    <3>2. newestTOA <= now
      BY <1>1, <3>1 DEF NewestIsRead
    <3>3. \A k \in 1..Len(fifo) : newestTOA <= fifo[k].toa + Skew
      BY <3>1 DEF FifoAlmostSorted
    <3>4. QED
      BY <1>1, <3>1, <3>2, <3>3
  <2>2. CASE ~Ready(e.toa)
    <3>1. pc = "flush"
      BY <1>5, <2>2 DEF Cause, PopReady, PopAll, LoopInv
    <3>2. e.toa <= newestTOA
      BY DEF NewestIsRead
    <3>3. QED
      BY <1>1, <3>1, <3>2 DEF FlushIsSafe
  <2>3. QED
    BY <2>1, <2>2
<1>6. NewestIsRead' /\ FifoAlmostSorted' /\ FlushIsSafe'
  BY <1>2, <1>3 DEF NewestIsRead, FifoAlmostSorted, FlushIsSafe
<1>7. OutIsBehind'
  <2> SUFFICES ASSUME NEW i \in 1..(n + 1), out'[i].cause # "capacity"
               PROVE  /\ out'[i].toa + MaxLateness <= now
                      /\ \A x \in items : out'[i].toa <= x.toa
                      /\ \A k \in 1..Len(fifo) : out'[i].toa <= fifo[k].toa
    BY <1>2, <1>3 DEF OutIsBehind
  <2>1. CASE i = n + 1
    BY <1>3, <1>5, <2>1
  <2>2. CASE i \in 1..n
    BY <1>3, <2>2 DEF OutIsBehind, n
  <2>3. QED
    BY <1>4, <2>1, <2>2
<1>8. StreamSorted'
  <2> SUFFICES ASSUME NEW i \in 1..(n + 1), NEW j \in 1..(n + 1), i < j,
                      out'[i].toa > out'[j].toa, out'[i].cause # "capacity"
               PROVE  FALSE
    BY <1>3 DEF StreamSorted
  <2>1. i \in 1..n
    BY <1>1
  <2>2. CASE j = n + 1
    <3>1. out[i].toa <= e.toa
      BY <1>3, <2>1 DEF OutIsBehind, n
    <3>2. out[i].toa \in Nat /\ out[i].toa > e.toa
      BY <1>3, <2>1, <2>2, Typed DEF n
    <3>3. QED
      BY <1>1, <3>1, <3>2
  <2>3. CASE j \in 1..n
    BY <1>3, <2>1, <2>3 DEF StreamSorted, n
  <2>4. QED
    BY <1>4, <2>2, <2>3
<1>9. QED
  BY <1>6, <1>7, <1>8

(* The message read moves from the FIFO to the buffer or is dropped.         *)
LEMMA ReadKeepsOrder ==
  ASSUME IInv, LoopInv, OrderInv, ReadMessage
  PROVE  OrderInv'
<1> USE DEF OrderInv
<1> DEFINE n == Len(fifo)
           m == Head(fifo)
<1>1. /\ newestTOA \in Nat /\ MaxLateness \in Nat /\ Skew \in Nat /\ now \in Nat
      /\ \A k \in 1..n : fifo[k].toa \in Nat
      /\ n \in Nat /\ lastReadAt \in Nat \cup {None} /\ None \notin Nat
  BY Typed, LoopAssumption DEF LoopInv
<1>2. /\ now' = now /\ lastReadAt' = now /\ pc' \in {"push", "next"} /\ pc = "read"
      /\ fifo' = Tail(fifo) /\ out' = out
      /\ \/ Push(m.toa)
         \/ UNCHANGED vars
  BY DEF ReadMessage, Accept, Reject, Push, vars
<1>3. /\ Len(fifo') = n - 1 /\ 1 \in 1..n /\ m = fifo[1]
      /\ \A k \in 1..(n - 1) : fifo'[k] = fifo[k + 1] /\ k + 1 \in 1..n
  BY <1>1, <1>2 DEF LoopInv
<1>4. m.toa \in Nat /\ m.toa <= now
  BY <1>1, <1>3 DEF FifoAlmostSorted
<1> HIDE DEF n, m
<1>5. \A k \in 1..(n - 1) : m.toa <= fifo'[k].toa + Skew
  <2> SUFFICES ASSUME NEW k \in 1..(n - 1)
               PROVE  fifo[1].toa <= fifo[k + 1].toa + Skew
    BY <1>3
  <2>1. 1 \in 1..n /\ k + 1 \in 1..n /\ 1 < k + 1
    BY <1>1, <1>3
  <2>2. QED
    BY <2>1 DEF FifoAlmostSorted, n
<1>6. \A j, k \in 1..(n - 1) : j < k => fifo'[j].toa <= fifo'[k].toa + Skew
  <2> SUFFICES ASSUME NEW j \in 1..(n - 1), NEW k \in 1..(n - 1), j < k
               PROVE  fifo[j + 1].toa <= fifo[k + 1].toa + Skew
    BY <1>3
  <2>1. j + 1 \in 1..n /\ k + 1 \in 1..n /\ j + 1 < k + 1
    BY <1>1
  <2>2. QED
    BY <2>1 DEF FifoAlmostSorted, n
<1>7. /\ \A k \in 1..(n - 1) : fifo'[k].toa <= now /\ fifo'[k].toa \in Nat
      /\ haveNewest => newestTOA <= now
      /\ haveNewest => \A k \in 1..(n - 1) : newestTOA <= fifo'[k].toa + Skew
  <2>1. \A k \in 1..(n - 1) : fifo'[k].toa <= now /\ fifo'[k].toa \in Nat
    BY <1>1, <1>3 DEF FifoAlmostSorted, n
  <2>2. haveNewest => newestTOA <= now
    BY <1>1 DEF NewestIsRead
  <2>3. haveNewest => \A k \in 1..(n - 1) : newestTOA <= fifo'[k].toa + Skew
    BY <1>3 DEF FifoAlmostSorted, n
  <2>4. QED
    BY <2>1, <2>2, <2>3
<1>8. FlushIsSafe' /\ StreamSorted'
  BY <1>2 DEF FlushIsSafe, StreamSorted
<1>9. CASE UNCHANGED vars
  <2>1. items' = items /\ newestTOA' = newestTOA /\ haveNewest' = haveNewest
    BY <1>9 DEF vars
  <2>2. NewestIsRead'
    BY <1>1, <1>2, <1>7, <2>1 DEF NewestIsRead
  <2>3. FifoAlmostSorted'
    BY <1>2, <1>3, <1>6, <1>7, <2>1 DEF FifoAlmostSorted
  <2>4. OutIsBehind'
    BY <1>2, <1>3, <2>1 DEF OutIsBehind, n
  <2>5. QED
    BY <1>8, <2>2, <2>3, <2>4
<1>10. CASE Push(m.toa)
  <2>1. /\ newestTOA' = IF ~haveNewest \/ m.toa > newestTOA THEN m.toa ELSE newestTOA
        /\ haveNewest' = TRUE
        /\ \A x \in items' : x \in items \/ x.toa = m.toa
    BY <1>10 DEF Push
  <2>2. NewestIsRead'
    <3>1. newestTOA' <= now
      BY <1>4, <1>7, <2>1
    <3>2. ASSUME NEW x \in items' PROVE x.toa <= newestTOA'
      <4>1. CASE x.toa = m.toa
        BY <1>1, <1>4, <2>1, <4>1
      <4>2. CASE x \in items
        <5>1. x.toa <= newestTOA /\ haveNewest /\ x.toa \in Nat
          BY <4>2, Typed DEF NewestIsRead
        <5>2. QED
          BY <1>1, <1>4, <2>1, <5>1
      <4>3. QED
        BY <2>1, <4>1, <4>2
    <3>3. QED
      BY <1>1, <1>2, <2>1, <3>1, <3>2 DEF NewestIsRead
  <2>3. FifoAlmostSorted'
    <3>1. \A k \in 1..(n - 1) : newestTOA' <= fifo'[k].toa + Skew
      BY <1>5, <1>7, <2>1
    <3>2. QED
      BY <1>2, <1>3, <1>6, <1>7, <3>1 DEF FifoAlmostSorted
  <2>4. OutIsBehind'
    <3> SUFFICES ASSUME NEW i \in 1..Len(out), out[i].cause # "capacity"
                 PROVE  /\ out[i].toa + MaxLateness <= now
                        /\ \A x \in items' : out[i].toa <= x.toa
                        /\ \A k \in 1..(n - 1) : out[i].toa <= fifo'[k].toa
      BY <1>2, <1>3 DEF OutIsBehind
    <3>1. /\ out[i].toa + MaxLateness <= now
          /\ \A x \in items : out[i].toa <= x.toa
          /\ \A k \in 1..n : out[i].toa <= fifo[k].toa
      BY DEF OutIsBehind, n
    <3>2. out[i].toa <= m.toa
      BY <1>3, <3>1
    <3>3. QED
      BY <1>3, <2>1, <3>1, <3>2
  <2>5. QED
    BY <1>8, <2>2, <2>3, <2>4
<1>11. QED
  BY <1>2, <1>9, <1>10

LEMMA PollKeepsOrder ==
  ASSUME IInv, LoopInv, OrderInv, Poll
  PROVE  OrderInv'
<1> USE DEF OrderInv
<1>1. /\ now' = now /\ lastReadAt' = lastReadAt /\ fifo' = fifo
      /\ items' = items /\ out' = out /\ newestTOA' = newestTOA /\ haveNewest' = haveNewest
  BY DEF Poll, FlushAll, vars
<1>2. NewestIsRead' /\ FifoAlmostSorted' /\ OutIsBehind' /\ StreamSorted'
  BY <1>1 DEF NewestIsRead, FifoAlmostSorted, OutIsBehind, StreamSorted
<1>3. FlushIsSafe'
  <2> SUFFICES ASSUME pc' = "flush"
               PROVE  /\ haveNewest /\ newestTOA + MaxLateness <= now
                      /\ \A k \in 1..Len(fifo) : newestTOA <= fifo[k].toa
    BY <1>1 DEF FlushIsSafe
  <2>1. fifo = <<>> /\ items # {} /\ Quiet
    BY DEF Poll
  <2>2. haveNewest /\ newestTOA <= lastReadAt /\ now - lastReadAt >= MaxLateness /\ lastReadAt \in Nat
    BY <2>1 DEF NewestIsRead, Quiet, LoopInv
  <2>3. newestTOA + MaxLateness <= now
    BY <2>2, Typed DEF LoopInv
  <2>4. 1..Len(fifo) = {}
    BY <2>1
  <2>5. QED
    BY <2>2, <2>3, <2>4
<1>4. QED
  BY <1>2, <1>3

LEMMA StepOrderInv ==
  ASSUME IInv, LoopInv, OrderInv, Skew <= MaxLateness, [LoopNext]_allVars
  PROVE  OrderInv'
<1>1. CASE EmitDone \/ BurstNext \/ Sleep \/ UNCHANGED allVars
  <2>1. /\ now' = now /\ lastReadAt' = lastReadAt /\ fifo' = fifo
        /\ items' = items /\ out' = out /\ newestTOA' = newestTOA /\ haveNewest' = haveNewest
        /\ pc' = pc \/ pc' # "flush"
    BY <1>1 DEF EmitDone, EndReady, EndAll, BurstNext, Sleep, allVars, loopVars, vars
  <2>2. QED
    BY <2>1 DEF OrderInv, NewestIsRead, FifoAlmostSorted, FlushIsSafe, OutIsBehind, StreamSorted
<1>2. QED
  BY <1>1, PassKeepsOrder, PollKeepsOrder, ReadKeepsOrder, EmitKeepsOrder DEF LoopNext, LoopStep

LEMMA AlwaysBufferInv == LoopSpec => []IInv
  BY LoopUsesBuffer, AlwaysIInv, PTL

(* End to end, for every window that is no shorter than the lateness of      *)
(* messages: only a full buffer lets the stream get out of order.            *)
THEOREM StreamIsSorted ==
  ASSUME Skew <= MaxLateness
  PROVE  LoopSpec => []StreamSorted
<1>1. IInv /\ LoopInv /\ OrderInv /\ [LoopNext]_allVars => OrderInv'
  BY StepOrderInv
<1>2. OrderInv => StreamSorted
  BY DEF OrderInv
<1>3. QED
  BY <1>1, <1>2, InitOrderInv, AlwaysBufferInv, AlwaysLoopInv, PTL DEF LoopSpec

-----------------------------------------------------------------------------
(* The flush of a quiet buffer.                                              *)

(* How long ago the last read is at most, by the place of the loop, while    *)
(* messages are held.                                                        *)
QuietInv ==
  items # {} =>
    /\ lastReadAt \in Nat
    /\ pc \in {"push", "next"} => now = lastReadAt
    /\ pc = "poll" => now - lastReadAt <= MaxLateness
    /\ pc = "sleep" => now - lastReadAt < MaxLateness + (IF passed THEN 1 ELSE 0)
    /\ pc \in {"read", "flush"} => now - lastReadAt <= MaxLateness + (IF passed THEN 1 ELSE 0)

LEMMA StepQuietInv ==
  ASSUME LoopInv, QuietInv, [LoopNext]_allVars
  PROVE  QuietInv'
<1> USE LoopAssumption, ReorderAssumption DEF LoopInv
<1>1. CASE Pass
  <2>1. /\ now' = now + 1 /\ ~passed /\ passed' = TRUE /\ pc' = pc
        /\ lastReadAt' = lastReadAt /\ items' = items
        /\ pc \in {"read", "flush", "sleep"}
    BY <1>1 DEF Pass, vars
  <2>2. QED
    BY <2>1 DEF QuietInv
<1>2. CASE Poll
  <2>1. now' = now /\ passed' = FALSE /\ lastReadAt' = lastReadAt /\ items' = items /\ pc = "poll"
    BY <1>2 DEF Poll, FlushAll, vars
  <2>2. pc' \in {"read", "flush"} \/ (pc' = "sleep" /\ (items = {} \/ ~Quiet))
    BY <1>2 DEF Poll
  <2>3. QED
    BY <2>1, <2>2 DEF QuietInv, Quiet
<1>3. CASE ReadMessage
  <2>1. now' = now /\ lastReadAt' = now /\ pc' \in {"push", "next"}
    BY <1>3 DEF ReadMessage, Accept, Reject
  <2>2. QED
    BY <2>1 DEF QuietInv
<1>4. CASE Emit
  <2>1. /\ now' = now /\ passed' = passed /\ lastReadAt' = lastReadAt /\ pc' = pc
        /\ items' \subseteq items
    BY <1>4 DEF Emit, PopReady, PopAll, Pop
  <2>2. QED
    BY <2>1 DEF QuietInv
<1>5. CASE EmitDone
  <2>1. now' = now /\ lastReadAt' = lastReadAt /\ items' = items
    BY <1>5 DEF EmitDone, EndReady, EndAll
  <2>2. CASE pc = "push"
    BY <1>5, <2>1, <2>2 DEF EmitDone, QuietInv
  <2>3. CASE pc = "flush"
    BY <1>5, <2>1, <2>3 DEF EmitDone, EndReady, EndAll, QuietInv
  <2>4. QED
    BY <1>5, <2>2, <2>3 DEF EmitDone
<1>6. CASE BurstNext \/ Sleep
  <2>1. /\ now' = now /\ lastReadAt' = lastReadAt /\ items' = items /\ passed' = FALSE
        /\ \/ pc = "next" /\ pc' \in {"read", "poll"}
           \/ pc = "sleep" /\ passed /\ pc' = "poll"
    BY <1>6 DEF BurstNext, Sleep, vars
  <2>2. QED
    BY <2>1 DEF QuietInv
<1>7. CASE UNCHANGED allVars
  BY <1>7 DEF allVars, loopVars, vars, QuietInv
<1>8. QED
  BY <1>1, <1>2, <1>3, <1>4, <1>5, <1>6, <1>7 DEF LoopNext, LoopStep

(* For every window: no message is held for longer than the window and the   *)
(* time of a flush after the last read.                                      *)
THEOREM QuietIsFlushed == LoopSpec => []FlushedWhenQuiet
<1>1. LoopInit => QuietInv
  BY DEF LoopInit, Init, QuietInv
<1>2. LoopInv /\ QuietInv /\ [LoopNext]_allVars => QuietInv'
  BY StepQuietInv
<1>3. LoopInv /\ QuietInv => FlushedWhenQuiet
  BY ReorderAssumption DEF LoopInv, QuietInv, FlushedWhenQuiet
<1>4. QED
  BY <1>1, <1>2, <1>3, AlwaysLoopInv, PTL DEF LoopSpec
-----------------------------------------------------------------------------
(* The state of the loop, beside what LoopInv and FilterInv say of it.       *)
LoopBounds ==
  /\ now \in 0..MaxTime /\ received \in 0..MaxMessages
  /\ lastStats \in Nat /\ dropCount \in Nat
  /\ lastReadAt # None => lastReadAt <= now

LEMMA StepLoopBounds == LoopInv /\ LoopBounds /\ [LoopNext]_allVars => LoopBounds'
<1> SUFFICES ASSUME LoopInv, LoopBounds, [LoopNext]_allVars PROVE LoopBounds'
  OBVIOUS
<1> USE LoopAssumption DEF LoopBounds
<1>1. CASE Pass
  <2>1. /\ now' = now + 1 /\ now < MaxTime
        /\ UNCHANGED <<lastStats, dropCount, lastReadAt>>
    BY <1>1 DEF Pass
  <2>2. \/ received' = received
        \/ received < MaxMessages /\ received' = received + 1
    BY <1>1 DEF Pass
  <2>3. MaxTime \in Nat /\ MaxMessages \in Nat
    OBVIOUS
  <2>4. now' \in 0..MaxTime /\ (lastReadAt # None => lastReadAt <= now')
    BY <2>1, <2>3 DEF LoopInv
  <2>5. received' \in 0..MaxMessages
    BY <2>2, <2>3
  <2> QED
    BY <2>1, <2>4, <2>5
<1>2. CASE Poll
  BY <1>2 DEF Poll
<1>3. CASE ReadMessage
  <2>1. /\ UNCHANGED <<now, received, lastStats>> /\ lastReadAt' = now
    BY <1>3 DEF ReadMessage
  <2>2. dropCount' = dropCount \/ dropCount' = dropCount + 1
    BY <1>3 DEF ReadMessage, Accept, Reject
  <2> QED
    BY <2>1, <2>2
<1>4. CASE Emit \/ EmitDone \/ BurstNext \/ Sleep \/ UNCHANGED allVars
  BY <1>4 DEF Emit, EmitDone, BurstNext, Sleep, allVars, loopVars
<1> QED
  BY <1>1, <1>2, <1>3, <1>4 DEF LoopNext, LoopStep

\* The state of the poll loop is what it is declared to be: no time it keeps
\* is in the future, and the filter has times for addresses only (main.go;
\* filter.go, Filter.addrs).
THEOREM LoopTyped == LoopSpec => []LoopTypeOK
<1>1. LoopInit => LoopBounds
  BY LoopAssumption DEF LoopInit, LoopBounds
<1>2. TypeOK /\ LoopInv /\ FilterInv /\ LoopBounds => LoopTypeOK
  <2> SUFFICES ASSUME TypeOK, LoopInv, FilterInv, LoopBounds PROVE LoopTypeOK
    OBVIOUS
  <2>1. now \in 0..MaxTime /\ MaxTime \in Nat
    BY LoopAssumption DEF LoopBounds
  <2>2. \A t \in Nat : t <= now => t \in 0..MaxTime
    BY <2>1
  <2>3. ASSUME NEW a \in Addrs PROVE announced[a] \in 0..MaxTime \cup {None}
    BY <2>2 DEF FilterInv
  <2>4. announced \in [Addrs -> 0..MaxTime \cup {None}]
    BY <2>3 DEF FilterInv
  <2>5. \A a \in DOMAIN addrs : addrs[a] \in 0..MaxTime
    BY <2>3 DEF FilterInv
  <2>6. DOMAIN addrs \subseteq Addrs /\ Range(addrs) \subseteq 0..MaxTime
    BY <2>5 DEF FilterInv, Range
  <2>7. lastReadAt \in 0..MaxTime \cup {None}
    BY <2>2 DEF LoopInv, LoopBounds
  <2> QED
    BY <2>1, <2>4, <2>6, <2>7 DEF LoopInv, LoopBounds, LoopTypeOK
<1> QED
  BY <1>1, <1>2, StepLoopBounds, AlwaysLoopInv, LoopUsesBuffer, TypeCorrect, InitFilterInv,
     StepFilterInv, PTL DEF LoopSpec
=============================================================================
