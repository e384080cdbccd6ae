---------------------------- MODULE QueueProofs ----------------------------
(***************************************************************************)
(* Theorems about Queue for any number of producers, any depth limit, any  *)
(* item lengths and any priorities.                                        *)
(*                                                                         *)
(* The inductive invariant QInv adds to the properties the facts they need *)
(* from one step to the next: identifiers in use are below g_next_id,      *)
(* items without samples are files, and a batch is open while an item or a *)
(* gap is being played.                                                    *)
(***************************************************************************)
EXTENDS Queue, SequenceTheorems, WellFoundedInduction, TLAPS

IdsBelowNext ==
  /\ g_next_id > 0
  /\ \A i \in 1..Len(g_queue) : g_queue[i].id < g_next_id
  /\ g_draining => g_drain.id < g_next_id
  /\ \A b \in heap : b[1] < g_next_id

EmptyAreFiles == \A i \in 1..Len(g_queue) :
                   g_queue[i].n = 0 => g_queue[i].type = "file"

BatchCovers == /\ g_draining => g_batch_active
               /\ g_gap /\ ~gap_flushed => g_batch_active

QInv == /\ QueueTypeOK /\ CountIsDepth /\ DrainOwnsBuffer
        /\ NoDanglingBuffer /\ BuffersReclaimed /\ FairOrder
        /\ IdsBelowNext /\ EmptyAreFiles /\ BatchCovers

----------------------------------------------------------------------------
(* Numbers and sequences. *)

Less == {p \in Nat \X Nat : p[1] < p[2]}

\* The order of the natural numbers is well founded.
LEMMA LessWellFounded == IsWellFoundedOn(Less, Nat)
<1>1. IsWellFoundedOn(OpToRel(<, Nat), Nat)
  BY NatLessThanWellFounded
<1>2. QED
  BY <1>1 DEF OpToRel, Less

\* A non-empty set of natural numbers has a least element.
LEMMA LeastNumber ==
  ASSUME NEW T \in SUBSET Nat, T # {}
  PROVE  \E m \in T : \A k \in T : m <= k
<1>1. PICK x \in T : \A y \in T : ~(<<y, x>> \in Less)
  BY LessWellFounded, WFMin
<1>2. ASSUME NEW y \in T PROVE x <= y
  <2>1. x \in Nat /\ y \in Nat  OBVIOUS
  <2>2. ~(<<y, x>> \in Less)  BY <1>1
  <2>3. ~(y < x)  BY <2>1, <2>2 DEF Less
  <2> QED  BY <2>1, <2>3
<1>3. QED  BY <1>2

\* Before the first member of B, or before the end, the numbers 1, 2, ...
\* are all outside B: where a walk over a list of length n stops.
LEMMA FirstOf ==
  ASSUME NEW n \in Nat, NEW B \in SUBSET (1..n)
  PROVE  \E k \in 0..n : /\ \A j \in 1..k : j \notin B
                         /\ k < n => k + 1 \in B
<1> DEFINE T == {k \in 0..n : k = n \/ k + 1 \in B}
<1>1. T \in SUBSET Nat /\ n \in T  OBVIOUS
<1>2. PICK m \in T : \A k \in T : m <= k  BY <1>1, LeastNumber
<1>3. m \in 0..n /\ (m < n => m + 1 \in B)  OBVIOUS
<1>4. ASSUME NEW j \in 1..m PROVE j \notin B
  <2>1. j - 1 \in 0..n /\ (j - 1) + 1 = j /\ j - 1 < m  BY <1>3
  <2>2. j - 1 \notin T  BY <1>2, <1>3, <2>1
  <2> QED  BY <2>1, <2>2
<1> HIDE DEF T
<1>5. QED  BY <1>3, <1>4

\* A function on 1..n is a sequence of length n.
LEMMA FcnIsSeq ==
  ASSUME NEW S, NEW n \in Nat, NEW f \in [1..n -> S]
  PROVE  f \in Seq(S) /\ Len(f) = n
<1>1. f \in Seq(S)  OBVIOUS
<1>2. Len(f) = n  BY <1>1, LenProperties
<1>3. QED  BY <1>1, <1>2

\* The list under the type invariant.
LEMMA QueueElements ==
  ASSUME QueueTypeOK
  PROVE  /\ Len(g_queue) \in Nat
         /\ \A i \in 1..Len(g_queue) : g_queue[i] \in Items
  BY LenProperties, ElementOfSeq DEF QueueTypeOK

\* insert_item's walk stops where RunLength says.
LEMMA RunLengthIs ==
  ASSUME QueueTypeOK, NEW p \in Int
  PROVE  /\ RunLength(p) \in 0..Len(g_queue)
         /\ \A j \in 1..RunLength(p) : g_queue[j].priority >= p
         /\ RunLength(p) < Len(g_queue) => g_queue[RunLength(p) + 1].priority < p
<1>1. /\ Len(g_queue) \in Nat
      /\ \A i \in 1..Len(g_queue) : g_queue[i].priority \in Int
  BY QueueElements, QueueAssumption DEF Items
<1> DEFINE B == {i \in 1..Len(g_queue) : g_queue[i].priority < p}
<1>b. B \in SUBSET (1..Len(g_queue))  OBVIOUS
<1> HIDE DEF B
<1>2. PICK k \in 0..Len(g_queue) : /\ \A j \in 1..k : j \notin B
                                   /\ k < Len(g_queue) => k + 1 \in B
  BY <1>1, <1>b, FirstOf
<1>3. ASSUME NEW j \in 1..k PROVE g_queue[j].priority >= p
  BY <1>1, <1>2 DEF B
<1>4. k < Len(g_queue) => g_queue[k + 1].priority < p
  BY <1>2 DEF B
<1>5. \E m \in 0..Len(g_queue) :
        /\ \A j \in 1..m : g_queue[j].priority >= p
        /\ m < Len(g_queue) => g_queue[m + 1].priority < p
  BY <1>3, <1>4
<1>6. QED
  BY <1>5 DEF RunLength

\* load_next_item drops the leading run of items without samples.
LEMMA EmptyRunIs ==
  ASSUME QueueTypeOK
  PROVE  /\ EmptyRun \in 0..Len(g_queue)
         /\ \A j \in 1..EmptyRun : g_queue[j].n = 0
         /\ EmptyRun < Len(g_queue) => g_queue[EmptyRun + 1].n > 0
<1>1. /\ Len(g_queue) \in Nat
      /\ \A i \in 1..Len(g_queue) : g_queue[i].n \in 0..MaxFrames
  BY QueueElements DEF Items
<1>0. MaxFrames \in Nat  BY QueueAssumption
<1> DEFINE B == {i \in 1..Len(g_queue) : g_queue[i].n > 0}
<1>b. B \in SUBSET (1..Len(g_queue))  OBVIOUS
<1> HIDE DEF B
<1>2. PICK k \in 0..Len(g_queue) : /\ \A j \in 1..k : j \notin B
                                   /\ k < Len(g_queue) => k + 1 \in B
  BY <1>1, <1>b, FirstOf
<1>3. ASSUME NEW j \in 1..k PROVE g_queue[j].n = 0
  BY <1>0, <1>1, <1>2 DEF B
<1>4. k < Len(g_queue) => g_queue[k + 1].n > 0
  BY <1>2 DEF B
<1>5. \E m \in 0..Len(g_queue) :
        /\ \A j \in 1..m : g_queue[j].n = 0
        /\ m < Len(g_queue) => g_queue[m + 1].n > 0
  BY <1>3, <1>4
<1>6. QED
  BY <1>5 DEF EmptyRun

\* What linking an item behind the k-th does to the list.
LEMMA InsertedIs ==
  ASSUME QueueTypeOK, NEW item \in Items, NEW k \in 0..Len(g_queue)
  PROVE  /\ Inserted(k, item) \in Seq(Items)
         /\ Len(Inserted(k, item)) = Len(g_queue) + 1
         /\ \A i \in 1..(Len(g_queue) + 1) :
              /\ i <= k => i \in 1..Len(g_queue) /\ Inserted(k, item)[i] = g_queue[i]
              /\ i = k + 1 => Inserted(k, item)[i] = item
              /\ i > k + 1 => i - 1 \in 1..Len(g_queue)
                              /\ Inserted(k, item)[i] = g_queue[i - 1]
<1>1. /\ Len(g_queue) \in Nat
      /\ \A i \in 1..Len(g_queue) : g_queue[i] \in Items
  BY QueueElements
<1>2. Inserted(k, item) \in [1..(Len(g_queue) + 1) -> Items]
  BY <1>1 DEF Inserted
<1>3. Len(g_queue) + 1 \in Nat  BY <1>1
<1>4. /\ Inserted(k, item) \in Seq(Items)
      /\ Len(Inserted(k, item)) = Len(g_queue) + 1
  BY <1>2, <1>3, FcnIsSeq
<1>5. QED
  BY <1>1, <1>4 DEF Inserted

\* What popping k items does to the list.
LEMMA PoppedIs ==
  ASSUME QueueTypeOK, NEW k \in 0..Len(g_queue)
  PROVE  /\ Popped(k) \in Seq(Items)
         /\ Len(Popped(k)) = Len(g_queue) - k
         /\ \A i \in 1..(Len(g_queue) - k) :
              i + k \in 1..Len(g_queue) /\ Popped(k)[i] = g_queue[i + k]
<1>1. /\ Len(g_queue) \in Nat
      /\ \A i \in 1..Len(g_queue) : g_queue[i] \in Items
  BY QueueElements
<1>2. Popped(k) \in [1..(Len(g_queue) - k) -> Items]
  BY <1>1 DEF Popped
<1>3. Len(g_queue) - k \in Nat  BY <1>1
<1>4. Popped(k) \in Seq(Items) /\ Len(Popped(k)) = Len(g_queue) - k
  BY <1>2, <1>3, FcnIsSeq
<1>5. QED
  BY <1>1, <1>4 DEF Popped
----------------------------------------------------------------------------
(* What each kind of step does to the invariant, types apart. *)

QShape == /\ CountIsDepth /\ DrainOwnsBuffer /\ NoDanglingBuffer
          /\ BuffersReclaimed /\ FairOrder
          /\ IdsBelowNext /\ EmptyAreFiles /\ BatchCovers

InsertPoint(p) == IF AppendMode THEN Len(g_queue) ELSE RunLength(p)

\* An accepted item: linked at its place, counted, its buffer allocated.
LEMMA InsertKeepsShape ==
  ASSUME QInv, NEW item \in Items, item.id = g_next_id,
         item.n = 0 => item.type = "file",
         ~Full, insert_item(item), g_next_id' = g_next_id + 1,
         heap' = heap \cup {Buf(item)}, UNCHANGED <<drainVars, gap_flushed>>
  PROVE  QShape'
<1> DEFINE k == InsertPoint(item.priority)
<1>0. /\ QueueTypeOK /\ QShape /\ item.priority \in Int /\ item.id \in Nat
      /\ g_next_id \in Nat
  BY QueueAssumption DEF QInv, QShape, Items, QueueTypeOK
<1>1. /\ Len(g_queue) \in Nat
      /\ \A i \in 1..Len(g_queue) :
           /\ g_queue[i].id \in Nat /\ g_queue[i].priority \in Int
           /\ g_queue[i].type \in Types
  BY <1>0, QueueElements, QueueAssumption DEF Items
<1>2. k \in 0..Len(g_queue)
  BY <1>0, <1>1, RunLengthIs DEF InsertPoint
<1>3. g_queue' = Inserted(k, item) /\ g_count' = g_count + 1
  BY DEF insert_item, InsertPoint
<1> HIDE DEF k
<1>4. /\ Len(g_queue') = Len(g_queue) + 1
      /\ \A i \in 1..(Len(g_queue) + 1) :
           /\ i <= k => i \in 1..Len(g_queue) /\ g_queue'[i] = g_queue[i]
           /\ i = k + 1 => g_queue'[i] = item
           /\ i > k + 1 => i - 1 \in 1..Len(g_queue) /\ g_queue'[i] = g_queue[i - 1]
  BY <1>0, <1>2, <1>3, InsertedIs
<1>a. k + 1 \in 1..Len(g_queue') /\ g_queue'[k + 1] = item
  BY <1>1, <1>2, <1>4
<1>b. ASSUME NEW i \in 1..Len(g_queue'), i # k + 1
      PROVE  \E o \in 1..Len(g_queue) : /\ g_queue'[i] = g_queue[o]
                                        /\ i <= k => o = i
                                        /\ i > k + 1 => o = i - 1
  <2>1. CASE i <= k  BY <2>1, <1>1, <1>2, <1>4
  <2>2. CASE i > k + 1  BY <2>2, <1>1, <1>2, <1>4
  <2> QED  BY <2>1, <2>2, <1>b, <1>1, <1>2, <1>4
<1>c. \A i \in 1..Len(g_queue) :
        \E j \in 1..Len(g_queue') : g_queue'[j] = g_queue[i]
  <2> SUFFICES ASSUME NEW i \in 1..Len(g_queue)
               PROVE  \E j \in 1..Len(g_queue') : g_queue'[j] = g_queue[i]
    OBVIOUS
  <2>1. CASE i <= k  BY <2>1, <1>1, <1>2, <1>4
  <2>2. CASE i > k
    <3>1. i + 1 \in 1..Len(g_queue') /\ i + 1 > k + 1 /\ (i + 1) - 1 = i
      BY <2>2, <1>1, <1>2, <1>4
    <3> QED  BY <3>1, <1>4
  <2> QED  BY <2>1, <2>2, <1>1, <1>2
<1>5. CountIsDepth'
  BY <1>0, <1>1, <1>3, <1>4, QueueAssumption DEF QShape, CountIsDepth, Full
<1>6. DrainOwnsBuffer' /\ BatchCovers'
  BY <1>0 DEF QShape, DrainOwnsBuffer, BatchCovers, drainVars
<1>7. /\ \A i \in 1..Len(g_queue) : g_queue[i].id < item.id
      /\ g_draining => g_drain.id < item.id
  BY <1>0 DEF QShape, IdsBelowNext
<1>d. g_draining => g_drain.id \in Nat  BY <1>0 DEF QueueTypeOK, Drains
<1>8. NoDanglingBuffer'
  <2>1. ASSUME NEW i \in 1..Len(g_queue') PROVE Buf(g_queue'[i]) \in heap'
    <3>1. CASE i = k + 1  BY <3>1, <1>a
    <3>2. CASE i # k + 1
      <4>1. PICK o \in 1..Len(g_queue) : g_queue'[i] = g_queue[o]  BY <3>2, <1>b
      <4>2. Buf(g_queue[o]) \in heap  BY <1>0 DEF QShape, NoDanglingBuffer
      <4> QED  BY <4>1, <4>2
    <3> QED  BY <3>1, <3>2
  <2>2. ASSUME NEW i \in 1..Len(g_queue'), NEW j \in 1..Len(g_queue'), i # j
        PROVE  g_queue'[i].id # g_queue'[j].id
    <3>1. CASE i = k + 1
      <4>1. PICK o \in 1..Len(g_queue) : g_queue'[j] = g_queue[o]
        BY <3>1, <2>2, <1>b
      <4> QED  BY <3>1, <4>1, <1>a, <1>7, <1>1, <1>0
    <3>2. CASE j = k + 1
      <4>1. PICK o \in 1..Len(g_queue) : g_queue'[i] = g_queue[o]
        BY <3>2, <2>2, <1>b
      <4> QED  BY <3>2, <4>1, <1>a, <1>7, <1>1, <1>0
    <3>3. CASE i # k + 1 /\ j # k + 1
      <4>1. PICK o \in 1..Len(g_queue) : /\ g_queue'[i] = g_queue[o]
                                         /\ i <= k => o = i
                                         /\ i > k + 1 => o = i - 1
        BY <3>3, <1>b
      <4>2. PICK q \in 1..Len(g_queue) : /\ g_queue'[j] = g_queue[q]
                                         /\ j <= k => q = j
                                         /\ j > k + 1 => q = j - 1
        BY <3>3, <1>b
      <4>3. o # q  BY <4>1, <4>2, <3>3, <2>2, <1>1, <1>2, <1>4
      <4>4. g_queue[o].id # g_queue[q].id
        BY <4>3, <1>0 DEF QShape, NoDanglingBuffer
      <4> QED  BY <4>1, <4>2, <4>4
    <3> QED  BY <3>1, <3>2, <3>3
  <2>3. ASSUME g_draining PROVE g_drain.buf \in heap' /\ ~Queued(g_drain.id)'
    <3>1. g_drain.buf \in heap /\ ~Queued(g_drain.id)
      BY <2>3, <1>0 DEF QShape, NoDanglingBuffer
    <3>2. ASSUME NEW i \in 1..Len(g_queue') PROVE g_queue'[i].id # g_drain.id
      <4>1. CASE i = k + 1  BY <4>1, <1>a, <1>7, <1>d, <1>0, <2>3
      <4>2. CASE i # k + 1
        <5>1. PICK o \in 1..Len(g_queue) : g_queue'[i] = g_queue[o]  BY <4>2, <1>b
        <5> QED  BY <5>1, <3>1 DEF Queued
      <4> QED  BY <4>1, <4>2
    <3> QED  BY <3>1, <3>2 DEF Queued, drainVars
  <2> QED  BY <2>1, <2>2, <2>3 DEF NoDanglingBuffer, drainVars
<1>9. BuffersReclaimed'
  <2> SUFFICES ASSUME NEW b \in heap', b[2] = "buffer"
               PROVE  \/ \E i \in 1..Len(g_queue') : Buf(g_queue'[i]) = b
                      \/ g_drain.buf = b
    BY DEF BuffersReclaimed, drainVars
  <2>1. CASE b = Buf(item)  BY <2>1, <1>a
  <2>2. CASE b \in heap
    <3>1. CASE g_drain.buf = b  BY <3>1
    <3>2. ASSUME NEW i \in 1..Len(g_queue), Buf(g_queue[i]) = b
          PROVE  \E j \in 1..Len(g_queue') : Buf(g_queue'[j]) = b
      <4>1. PICK j \in 1..Len(g_queue') : g_queue'[j] = g_queue[i]  BY <1>c
      <4> QED  BY <3>2, <4>1
    <3> QED  BY <3>1, <3>2, <2>2, <1>0 DEF QShape, BuffersReclaimed
  <2> QED  BY <2>1, <2>2
<1>10. FairOrder'
  <2> SUFFICES ASSUME ~gap_flushed
               PROVE  FifoQueue' /\ (~AppendMode => SortedQueue')
    BY DEF FairOrder, AppendMode, drainVars
  <2>1. FifoQueue /\ (~AppendMode => SortedQueue)
    BY <1>0 DEF QShape, FairOrder
  <2>2. /\ AppendMode => k = Len(g_queue)
        /\ ~AppendMode => /\ \A j \in 1..k : g_queue[j].priority >= item.priority
                          /\ k < Len(g_queue) => g_queue[k + 1].priority < item.priority
    BY <1>0, RunLengthIs DEF k, InsertPoint
  <2>3. ASSUME ~AppendMode, NEW j \in 1..Len(g_queue), j > k
        PROVE  g_queue[j].priority < item.priority
    <3>1. k < Len(g_queue) /\ k + 1 \in 1..Len(g_queue)  BY <1>1, <1>2, <2>3
    <3>2. g_queue[k + 1].priority >= g_queue[j].priority
      <4>1. CASE j = k + 1  BY <4>1, <1>1
      <4>2. CASE j > k + 1  BY <4>2, <2>1, <2>3, <3>1, <1>1 DEF SortedQueue
      <4> QED  BY <4>1, <4>2, <2>3, <1>2, <1>1
    <3> QED  BY <2>2, <2>3, <3>1, <3>2, <1>0, <1>1
  <2>4. ASSUME NEW i \in 1..Len(g_queue'), NEW j \in 1..Len(g_queue'), i < j
        PROVE  /\ g_queue'[i].priority = g_queue'[j].priority
                    => g_queue'[i].id < g_queue'[j].id
               /\ ~AppendMode => g_queue'[i].priority >= g_queue'[j].priority
    <3>1. CASE j = k + 1
      <4>1. PICK o \in 1..Len(g_queue) : /\ g_queue'[i] = g_queue[o]
                                         /\ i <= k => o = i
        BY <3>1, <2>4, <1>b
      <4>2. o \in 1..k  BY <3>1, <2>4, <4>1, <1>2, <1>1
      <4> QED  BY <3>1, <4>1, <4>2, <1>a, <1>7, <2>2
    <3>2. CASE i = k + 1
      <4>1. PICK o \in 1..Len(g_queue) : /\ g_queue'[j] = g_queue[o]
                                         /\ j > k + 1 => o = j - 1
        BY <3>2, <2>4, <1>b
      <4>2. o > k /\ k < Len(g_queue)  BY <3>2, <2>4, <4>1, <1>2, <1>1
      <4>3. ~AppendMode  BY <4>2, <2>2, <1>1
      <4>4. g_queue[o].priority < item.priority  BY <2>3, <4>2, <4>3
      <4> QED  BY <3>2, <4>1, <4>4, <1>a, <1>0, <1>1
    <3>3. CASE i # k + 1 /\ j # k + 1
      <4>1. PICK o \in 1..Len(g_queue) : /\ g_queue'[i] = g_queue[o]
                                         /\ i <= k => o = i
                                         /\ i > k + 1 => o = i - 1
        BY <3>3, <1>b
      <4>2. PICK q \in 1..Len(g_queue) : /\ g_queue'[j] = g_queue[q]
                                         /\ j <= k => q = j
                                         /\ j > k + 1 => q = j - 1
        BY <3>3, <1>b
      <4>3. o < q  BY <4>1, <4>2, <3>3, <2>4, <1>1, <1>2, <1>4
      <4>4. /\ g_queue[o].priority = g_queue[q].priority
                 => g_queue[o].id < g_queue[q].id
            /\ ~AppendMode => g_queue[o].priority >= g_queue[q].priority
        BY <2>1, <4>3 DEF FifoQueue, SortedQueue
      <4> QED  BY <4>1, <4>2, <4>4
    <3> QED  BY <3>1, <3>2, <3>3
  <2> QED  BY <2>4 DEF FifoQueue, SortedQueue
<1>11. IdsBelowNext'
  <2>1. ASSUME NEW i \in 1..Len(g_queue') PROVE g_queue'[i].id < g_next_id'
    <3>1. CASE i = k + 1  BY <3>1, <1>a, <1>0
    <3>2. CASE i # k + 1
      <4>1. PICK o \in 1..Len(g_queue) : g_queue'[i] = g_queue[o]  BY <3>2, <1>b
      <4> QED  BY <4>1, <1>7, <1>1, <1>0
    <3> QED  BY <3>1, <3>2
  <2>2. g_draining => g_drain.id < g_next_id'  BY <1>7, <1>d, <1>0
  <2>3. ASSUME NEW b \in heap' PROVE b[1] < g_next_id'
    <3>1. CASE b = Buf(item)  BY <3>1, <1>0 DEF Buf
    <3>2. CASE b \in heap
      BY <3>2, <1>0 DEF QShape, IdsBelowNext, QueueTypeOK
    <3> QED  BY <3>1, <3>2
  <2> QED  BY <2>1, <2>2, <2>3, <1>0 DEF IdsBelowNext, drainVars, QShape
<1>12. EmptyAreFiles'
  <2> SUFFICES ASSUME NEW i \in 1..Len(g_queue'), g_queue'[i].n = 0
               PROVE  g_queue'[i].type = "file"
    BY DEF EmptyAreFiles
  <2>1. CASE i = k + 1  BY <2>1, <1>a
  <2>2. CASE i # k + 1
    <3>1. PICK o \in 1..Len(g_queue) : g_queue'[i] = g_queue[o]  BY <2>2, <1>b
    <3> QED  BY <3>1, <1>0 DEF QShape, EmptyAreFiles
  <2> QED  BY <2>1, <2>2
<1>13. QED
  BY <1>5, <1>6, <1>8, <1>9, <1>10, <1>11, <1>12 DEF QShape

\* The next item with samples is taken out of the list and its first frame
\* played; the buffer changes hands, or is freed if that was all of it.
LEMMA LoadKeepsShape ==
  ASSUME QInv, ~g_gap, ~MidItem, LoadAndPlay, UNCHANGED g_next_id
  PROVE  QShape' /\ g_drain' \in Drains /\ g_queue' \in Seq(Items)
<1> DEFINE k == EmptyRun
           item == g_queue[k + 1]
           last == item.n = 1
<1>0. QueueTypeOK /\ QShape  BY DEF QInv, QShape
<1>1. /\ Len(g_queue) \in Nat
      /\ \A i \in 1..Len(g_queue) : g_queue[i] \in Items
  BY <1>0, QueueElements
<1>2. /\ k \in 0..Len(g_queue) /\ k < Len(g_queue)
      /\ \A j \in 1..k : g_queue[j].n = 0
      /\ item.n > 0
  BY <1>0, EmptyRunIs DEF LoadAndPlay
<1>3. /\ g_queue' = Popped(k + 1)
      /\ g_count' = g_count - (k + 1)
      /\ g_drain' = IF last THEN NotDraining
                    ELSE [id |-> item.id, type |-> item.type, buf |-> Buf(item),
                          left |-> item.n - 1, wanted |-> item.wanted]
      /\ g_draining' = ~last
      /\ g_batch_active' = TRUE
      /\ heap' = IF last THEN FreeDrainBuf(heap) \ {Buf(item)}
                         ELSE FreeDrainBuf(heap)
      /\ gap_flushed' = (gap_flushed /\ Len(g_queue) > k + 1)
  BY DEF LoadAndPlay
<1>4. k + 1 \in 0..Len(g_queue) /\ k + 1 \in 1..Len(g_queue)  BY <1>1, <1>2
<1>5. /\ item \in Items /\ item.id \in Nat /\ item.type \in Types
      /\ item.n \in 1..MaxFrames /\ item.wanted \in AllTags
      /\ Buf(item) \in Nat \X Types
  BY <1>1, <1>2, <1>4, QueueAssumption DEF Items, Buf
<1> HIDE DEF k
<1>6. /\ g_queue' \in Seq(Items)
      /\ Len(g_queue') = Len(g_queue) - (k + 1)
      /\ \A i \in 1..Len(g_queue') : /\ i + (k + 1) \in 1..Len(g_queue)
                                     /\ g_queue'[i] = g_queue[i + (k + 1)]
  BY <1>0, <1>3, <1>4, PoppedIs
<1>7. ~g_draining /\ g_drain.buf = NoBuf /\ FreeDrainBuf(heap) = heap
  <2>1. ~g_draining  BY <1>0 DEF QShape, DrainOwnsBuffer, MidItem
  <2>2. g_drain.buf = NoBuf  BY <2>1, <1>0 DEF QShape, DrainOwnsBuffer
  <2>3. NoBuf \notin heap  BY <1>0, QueueAssumption DEF QueueTypeOK, Types
  <2> QED  BY <2>1, <2>2, <2>3 DEF FreeDrainBuf
<1>8. CountIsDepth'
  BY <1>0, <1>1, <1>2, <1>3, <1>6, QueueAssumption DEF QShape, CountIsDepth
<1>9. Buf(item) # NoBuf /\ Buf(item) = <<item.id, item.type>> /\ Buf(item)[1] = item.id
  BY <1>5, QueueAssumption DEF Buf, Types
<1>10. g_drain' \in Drains
  BY <1>3, <1>5, QueueAssumption DEF Drains, NotDraining, Types, AllTags
<1>11. DrainOwnsBuffer' /\ BatchCovers'
  <2>1. CASE last
    BY <2>1, <1>3 DEF DrainOwnsBuffer, BatchCovers, NotDraining
  <2>2. CASE ~last
    <3>1. item.n - 1 > 0  BY <2>2, <1>5
    <3> QED  BY <2>2, <3>1, <1>3, <1>9 DEF DrainOwnsBuffer, BatchCovers
  <2> QED  BY <2>1, <2>2
<1>12. \A i, j \in 1..Len(g_queue) : i # j => g_queue[i].id # g_queue[j].id
  BY <1>0 DEF QShape, NoDanglingBuffer
<1>13. ASSUME NEW i \in 1..Len(g_queue')
       PROVE  g_queue'[i].id # item.id
  <2>1. i + (k + 1) \in 1..Len(g_queue) /\ i + (k + 1) # k + 1
    BY <1>6, <1>2, <1>1
  <2> QED  BY <2>1, <1>4, <1>6, <1>12
<1>14. NoDanglingBuffer'
  <2>1. ASSUME NEW i \in 1..Len(g_queue') PROVE Buf(g_queue'[i]) \in heap'
    <3>1. Buf(g_queue'[i]) \in heap  BY <1>0, <1>6 DEF QShape, NoDanglingBuffer
    <3>2. Buf(g_queue'[i]) # Buf(item)  BY <1>13 DEF Buf
    <3> QED  BY <3>1, <3>2, <1>3, <1>7
  <2>2. ASSUME NEW i \in 1..Len(g_queue'), NEW j \in 1..Len(g_queue'), i # j
        PROVE  g_queue'[i].id # g_queue'[j].id
    <3>1. i + (k + 1) # j + (k + 1)  BY <2>2, <1>2
    <3> QED  BY <3>1, <1>6, <1>12
  <2>3. ASSUME g_draining' PROVE g_drain'.buf \in heap' /\ ~Queued(g_drain.id)'
    <3>1. ~last /\ g_drain'.id = item.id /\ g_drain'.buf = Buf(item)
      BY <2>3, <1>3
    <3>2. Buf(item) \in heap  BY <1>0, <1>4 DEF QShape, NoDanglingBuffer
    <3> QED  BY <3>1, <3>2, <1>3, <1>7, <1>13 DEF Queued
  <2> QED  BY <2>1, <2>2, <2>3 DEF NoDanglingBuffer
<1>15. BuffersReclaimed'
  <2> SUFFICES ASSUME NEW b \in heap', b[2] = "buffer"
               PROVE  \/ \E i \in 1..Len(g_queue') : Buf(g_queue'[i]) = b
                      \/ g_drain'.buf = b
    BY DEF BuffersReclaimed
  <2>1. b \in heap /\ b # NoBuf
    BY <1>0, <1>3, <1>7, QueueAssumption DEF QueueTypeOK, Types
  <2>2. PICK i \in 1..Len(g_queue) : Buf(g_queue[i]) = b
    BY <2>1, <1>0, <1>7 DEF QShape, BuffersReclaimed
  <2>3. CASE i <= k
    <3>1. g_queue[i].n = 0  BY <2>3, <1>2
    <3>2. g_queue[i].type = "file"  BY <3>1, <1>0 DEF QShape, EmptyAreFiles
    <3> QED  BY <3>2, <2>2 DEF Buf
  <2>4. CASE i = k + 1
    <3>1. ~last  BY <2>4, <2>2, <1>3
    <3> QED  BY <3>1, <2>4, <2>2, <1>3
  <2>5. CASE i > k + 1
    <3>1. i - (k + 1) \in 1..Len(g_queue') /\ (i - (k + 1)) + (k + 1) = i
      BY <2>5, <1>6, <1>1, <1>2
    <3> QED  BY <3>1, <2>2, <1>6
  <2> QED  BY <2>3, <2>4, <2>5, <1>2
<1>16. FairOrder'
  <2>1. AppendMode'  BY <1>3 DEF AppendMode
  <2>2. ASSUME ~gap_flushed' PROVE FifoQueue'
    <3>1. CASE gap_flushed
      <4>a. ~(Len(g_queue) > k + 1)  BY <3>1, <2>2, <1>3, Zenon
      <4>1. Len(g_queue') = 0  BY <4>a, <1>1, <1>2, <1>6
      <4> QED  BY <4>1 DEF FifoQueue
    <3>2. CASE ~gap_flushed
      <4>1. FifoQueue  BY <3>2, <1>0 DEF QShape, FairOrder
      <4> SUFFICES ASSUME NEW i \in 1..Len(g_queue'), NEW j \in 1..Len(g_queue'),
                          i < j, g_queue'[i].priority = g_queue'[j].priority
                   PROVE  g_queue'[i].id < g_queue'[j].id
        BY DEF FifoQueue
      <4>2. i + (k + 1) < j + (k + 1)  BY <1>2
      <4> QED  BY <4>1, <4>2, <1>6 DEF FifoQueue
    <3> QED  BY <3>1, <3>2
  <2> QED  BY <2>1, <2>2 DEF FairOrder
<1>17. IdsBelowNext'
  <2>1. ASSUME NEW i \in 1..Len(g_queue') PROVE g_queue'[i].id < g_next_id'
    BY <1>6, <1>0 DEF QShape, IdsBelowNext
  <2>2. item.id < g_next_id  BY <1>4, <1>0 DEF QShape, IdsBelowNext
  <2>3. g_draining' => g_drain'.id < g_next_id'  BY <2>2, <1>3
  <2>4. ASSUME NEW b \in heap' PROVE b[1] < g_next_id'
    BY <1>0, <1>3, <1>7 DEF QShape, IdsBelowNext
  <2> QED  BY <2>1, <2>3, <2>4, <1>0 DEF IdsBelowNext, QShape
<1>18. EmptyAreFiles'
  BY <1>6, <1>0 DEF QShape, EmptyAreFiles
<1>19. QED
  BY <1>6, <1>8, <1>10, <1>11, <1>14, <1>15, <1>16, <1>17, <1>18 DEF QShape

\* Emptying the list, with whatever is being played: flush, preempt, and a
\* load that finds no samples.  The buffers that stay are those of files.
LEMMA ClearKeepsShape ==
  ASSUME QInv, g_queue' = <<>>, g_count' = 0, ~g_draining', g_drain'.buf = NoBuf,
         heap' \subseteq heap,
         \A b \in heap' : b[2] # "buffer",
         g_gap' /\ ~gap_flushed' => g_batch_active',
         UNCHANGED g_next_id
  PROVE  QShape'
<1>0. QueueTypeOK /\ QShape /\ Len(g_queue') = 0  BY DEF QInv, QShape
<1>1. CountIsDepth'  BY <1>0, QueueAssumption DEF CountIsDepth
<1>2. DrainOwnsBuffer' /\ BatchCovers'
  BY DEF DrainOwnsBuffer, BatchCovers
<1>3. NoDanglingBuffer' /\ BuffersReclaimed' /\ EmptyAreFiles'
  BY <1>0 DEF NoDanglingBuffer, BuffersReclaimed, EmptyAreFiles
<1>4. FairOrder'  BY <1>0 DEF FairOrder, FifoQueue, SortedQueue
<1>5. IdsBelowNext'  BY <1>0 DEF QShape, IdsBelowNext
<1>6. QED  BY <1>1, <1>2, <1>3, <1>4, <1>5 DEF QShape

\* A buffer of rendered samples is freed with the item that owns it.
LEMMA FreedIsAll ==
  ASSUME QInv, NEW b \in heap, b[2] = "buffer", b \notin FreedWith(QueuedItems)
  PROVE  b = g_drain.buf
<1>1. ASSUME NEW i \in 1..Len(g_queue), Buf(g_queue[i]) = b PROVE FALSE
  <2>1. g_queue[i] \in QueuedItems /\ g_queue[i].type = "buffer"
    BY <1>1 DEF QueuedItems, Buf
  <2>2. b \in FreedWith(QueuedItems)  BY <2>1, <1>1 DEF FreedWith
  <2> QED  BY <2>2
<1>2. QED  BY <1>1 DEF QInv, BuffersReclaimed

\* flush frees what the list and the drain own; shutdown is a flush.
LEMMA FlushKeepsShape ==
  ASSUME QInv, kerchunk_queue_flush
  PROVE  QShape'
<1>1. /\ heap' = FreeDrainBuf(heap \ FreedWith(QueuedItems))
      /\ g_queue' = <<>> /\ g_count' = 0 /\ ~g_draining' /\ g_drain'.buf = NoBuf
      /\ gap_flushed' = g_gap /\ g_gap' = g_gap /\ g_next_id' = g_next_id
  BY DEF kerchunk_queue_flush, NotDraining
<1>2. heap' \subseteq heap  BY <1>1 DEF FreeDrainBuf
<1>3. ASSUME NEW b \in heap' PROVE b[2] # "buffer"
  BY <1>1, FreedIsAll DEF FreeDrainBuf
<1>4. g_gap' /\ ~gap_flushed' => g_batch_active'  BY <1>1, Zenon
<1>5. QED  BY <1>1, <1>2, <1>3, <1>4, ClearKeepsShape

\* preempt frees the drain buffer only while an item is drained, which is
\* enough because DrainOwnsBuffer says there is none otherwise.
LEMMA PreemptKeepsShape ==
  ASSUME QInv, kerchunk_queue_preempt
  PROVE  QShape'
<1>0. QueueTypeOK /\ DrainOwnsBuffer /\ BuffersReclaimed  BY DEF QInv
<1>1. /\ heap' = (IF g_draining THEN FreeDrainBuf(heap) ELSE heap)
                   \ FreedWith(QueuedItems)
      /\ g_queue' = <<>> /\ g_count' = 0 /\ ~g_draining'
      /\ g_drain' = IF g_draining THEN NotDraining ELSE g_drain
      /\ ~g_gap' /\ g_next_id' = g_next_id
  BY DEF kerchunk_queue_preempt
<1>2. heap' \subseteq heap  BY <1>1 DEF FreeDrainBuf
<1>3. ASSUME NEW b \in heap' PROVE b[2] # "buffer"
  <2>1. b # NoBuf  BY <1>0, <1>2, QueueAssumption DEF QueueTypeOK, Types
  <2>2. CASE g_draining  BY <2>2, <1>1, FreedIsAll DEF FreeDrainBuf
  <2>3. CASE ~g_draining
    <3>1. g_drain.buf = NoBuf  BY <2>3, <1>0 DEF DrainOwnsBuffer
    <3> QED  BY <3>1, <2>1, <2>3, <1>1, <1>2, FreedIsAll
  <2> QED  BY <2>2, <2>3
<1>4. g_drain'.buf = NoBuf
  BY <1>0, <1>1 DEF DrainOwnsBuffer, NotDraining
<1>5. QED  BY <1>1, <1>2, <1>3, <1>4, ClearKeepsShape

\* Only items without samples were left: they are files, and leak.
LEMMA LoadNothingKeepsShape ==
  ASSUME QInv, ~g_gap, ~MidItem, LoadNothing, UNCHANGED g_next_id
  PROVE  QShape'
<1>0. QueueTypeOK /\ QShape  BY DEF QInv, QShape
<1>1. /\ g_queue' = <<>> /\ g_count' = g_count - Len(g_queue)
      /\ g_drain' = IF g_queue = <<>> THEN g_drain ELSE NotDraining
      /\ heap' = IF g_queue = <<>> THEN heap ELSE FreeDrainBuf(heap)
      /\ ~g_draining' /\ g_gap' = g_gap
  BY DEF LoadNothing
<1>2. \A j \in 1..Len(g_queue) : g_queue[j].type = "file"
  <2>1. \A j \in 1..Len(g_queue) : g_queue[j].n = 0
    BY <1>0, EmptyRunIs DEF LoadNothing
  <2> QED  BY <2>1, <1>0 DEF QShape, EmptyAreFiles
<1>3. g_count' = 0
  BY <1>0, <1>1, QueueElements DEF QShape, CountIsDepth
<1>4. g_drain.buf = NoBuf /\ g_drain'.buf = NoBuf
  <2>1. ~g_draining  BY <1>0 DEF QShape, DrainOwnsBuffer, MidItem
  <2> QED  BY <2>1, <1>0, <1>1 DEF QShape, DrainOwnsBuffer, NotDraining
<1>5. heap' \subseteq heap  BY <1>1 DEF FreeDrainBuf
<1>6. ASSUME NEW b \in heap' PROVE b[2] # "buffer"
  <2>1. b \in heap /\ b # NoBuf
    BY <1>0, <1>5, QueueAssumption DEF QueueTypeOK, Types
  <2>2. ASSUME NEW j \in 1..Len(g_queue), Buf(g_queue[j]) = b, b[2] = "buffer"
        PROVE  FALSE
    BY <2>2, <1>2 DEF Buf
  <2> QED  BY <2>1, <2>2, <1>4, <1>0 DEF QShape, BuffersReclaimed
<1>7. QED
  BY <1>1, <1>3, <1>4, <1>5, <1>6, ClearKeepsShape

\* Frames in the middle or at the end of an item, and the gap.
LEMMA PlayKeepsShape ==
  ASSUME QInv, ~g_gap, MidItem, PlayFrame, UNCHANGED g_next_id
  PROVE  QShape' /\ g_drain' \in Drains
<1> DEFINE last == g_drain.left = 1
<1>0. QueueTypeOK /\ QShape /\ g_draining  BY DEF QInv, QShape, MidItem
<1>1. /\ g_drain' = IF last THEN NotDraining ELSE [g_drain EXCEPT !.left = @ - 1]
      /\ g_draining' = ~last
      /\ heap' = IF last THEN FreeDrainBuf(heap) ELSE heap
      /\ UNCHANGED <<g_queue, g_count, g_batch_active, gap_flushed>>
  BY DEF PlayFrame
<1>2. /\ g_drain.buf = <<g_drain.id, g_drain.type>> /\ g_drain.buf # NoBuf
      /\ g_drain.buf \in heap /\ ~Queued(g_drain.id) /\ g_batch_active
  BY <1>0 DEF QShape, DrainOwnsBuffer, NoDanglingBuffer, BatchCovers
<1>3. g_drain \in Drains /\ g_drain.left \in 1..MaxFrames
  BY <1>0, QueueAssumption DEF QueueTypeOK, Drains, MidItem
<1>4. g_drain' \in Drains
  <2>1. CASE last  BY <2>1, <1>1, QueueAssumption DEF NotDraining, Drains, Types, AllTags
  <2>2. CASE ~last
    <3>1. g_drain.left - 1 \in 0..MaxFrames  BY <1>3, QueueAssumption
    <3> QED  BY <2>2, <3>1, <1>1, <1>3 DEF Drains
  <2> QED  BY <2>1, <2>2
<1>5. CASE last
  <2>1. ~g_draining' /\ g_drain'.buf = NoBuf /\ heap' = heap \ {g_drain.buf}
    BY <1>5, <1>1 DEF NotDraining, FreeDrainBuf
  <2>2. CountIsDepth' /\ DrainOwnsBuffer' /\ EmptyAreFiles'
    BY <2>1, <1>0, <1>1 DEF QShape, CountIsDepth, DrainOwnsBuffer, EmptyAreFiles
  <2>3. BatchCovers'  BY <2>1, <1>1, <1>2 DEF BatchCovers
  <2>4. ASSUME NEW i \in 1..Len(g_queue) PROVE Buf(g_queue[i]) # g_drain.buf
    BY <1>2 DEF Buf, Queued
  <2>5. NoDanglingBuffer'
    BY <2>1, <2>4, <1>0, <1>1 DEF QShape, NoDanglingBuffer
  <2>6. BuffersReclaimed'
    BY <2>1, <1>0, <1>1 DEF QShape, BuffersReclaimed
  <2>7. FairOrder'
    BY <1>0, <1>1, <1>2 DEF QShape, FairOrder, AppendMode, FifoQueue
  <2>8. IdsBelowNext'
    BY <2>1, <1>0, <1>1 DEF QShape, IdsBelowNext
  <2> QED  BY <2>2, <2>3, <2>5, <2>6, <2>7, <2>8, <1>4 DEF QShape
<1>6. CASE ~last
  <2>a. g_draining' /\ heap' = heap  BY <1>6, <1>1
  <2>b. g_drain' = [g_drain EXCEPT !.left = @ - 1]  BY <1>6, <1>1
  <2>c. g_drain.left - 1 > 0  BY <1>6, <1>3, QueueAssumption
  <2>d. /\ g_drain'.buf = g_drain.buf /\ g_drain'.id = g_drain.id
        /\ g_drain'.type = g_drain.type /\ g_drain'.left = g_drain.left - 1
    BY <2>b, <1>3 DEF Drains
  <2>1. /\ g_draining' /\ g_drain'.buf = g_drain.buf /\ g_drain'.id = g_drain.id
        /\ g_drain'.type = g_drain.type /\ g_drain'.left > 0 /\ heap' = heap
    BY <2>a, <2>c, <2>d
  <2>2. CountIsDepth' /\ DrainOwnsBuffer' /\ EmptyAreFiles'
    BY <2>1, <1>0, <1>1, <1>2 DEF QShape, CountIsDepth, DrainOwnsBuffer, EmptyAreFiles
  <2>3. BatchCovers'  BY <2>1, <1>1, <1>2 DEF BatchCovers
  <2>5. NoDanglingBuffer'
    BY <2>1, <1>0, <1>1, <1>2 DEF QShape, NoDanglingBuffer, Queued
  <2>6. BuffersReclaimed'
    BY <2>1, <1>0, <1>1 DEF QShape, BuffersReclaimed
  <2>7. FairOrder'
    BY <1>0, <1>1, <1>2 DEF QShape, FairOrder, AppendMode, FifoQueue
  <2>8. IdsBelowNext'
    BY <2>1, <1>0, <1>1 DEF QShape, IdsBelowNext
  <2> QED  BY <2>2, <2>3, <2>5, <2>6, <2>7, <2>8, <1>4 DEF QShape
<1>7. QED  BY <1>5, <1>6

\* A silent frame ends the gap.  If a flush cut into it nothing is claimed
\* of the order; otherwise the batch is still open.
LEMMA GapKeepsShape ==
  ASSUME QInv, g_gap, GapFrame, UNCHANGED g_next_id
  PROVE  QShape'
<1>0. QShape  BY DEF QInv, QShape
<1>1. /\ UNCHANGED <<g_queue, g_count, g_draining, g_drain, g_drain_source,
                     g_batch_active, heap, gap_flushed>>
      /\ ~g_gap'
  BY DEF GapFrame
<1>2. CountIsDepth' /\ DrainOwnsBuffer' /\ EmptyAreFiles' /\ IdsBelowNext'
  BY <1>0, <1>1 DEF QShape, CountIsDepth, DrainOwnsBuffer, EmptyAreFiles, IdsBelowNext
<1>3. BatchCovers'  BY <1>0, <1>1 DEF QShape, BatchCovers
<1>4. NoDanglingBuffer' /\ BuffersReclaimed'
  BY <1>0, <1>1 DEF QShape, NoDanglingBuffer, BuffersReclaimed, Queued
<1>5. FairOrder'
  <2>1. ~gap_flushed => g_batch_active  BY <1>0 DEF QShape, BatchCovers
  <2> QED  BY <2>1, <1>0, <1>1 DEF QShape, FairOrder, AppendMode, FifoQueue
<1>6. QED  BY <1>2, <1>3, <1>4, <1>5 DEF QShape

\* A refused item leaves the list alone; if its samples came from a file
\* they stay allocated under an identifier nothing else uses.
LEMMA RefusedKeepsShape ==
  ASSUME QInv, NEW item \in Items, item.id = g_next_id,
         g_next_id' = g_next_id + 1,
         heap' = heap \cup ({Buf(item)} \ FreedWith({item})),
         UNCHANGED <<g_queue, g_count, drainVars, gap_flushed>>
  PROVE  QShape'
<1>0. /\ QueueTypeOK /\ QShape /\ g_next_id \in Nat /\ item.id \in Nat
      /\ item.type \in Types
  BY DEF QInv, QShape, QueueTypeOK, Items
<1>1. /\ CountIsDepth' /\ DrainOwnsBuffer' /\ EmptyAreFiles' /\ BatchCovers'
  BY <1>0 DEF QShape, CountIsDepth, DrainOwnsBuffer, EmptyAreFiles, BatchCovers,
              drainVars
<1>2. NoDanglingBuffer'
  BY <1>0 DEF QShape, NoDanglingBuffer, Queued, drainVars
<1>3. ASSUME NEW b \in heap', b[2] = "buffer" PROVE b \in heap
  <2>1. item.type = "buffer" => Buf(item) \in FreedWith({item})
    BY DEF FreedWith
  <2>2. Buf(item)[2] = item.type  BY DEF Buf
  <2> QED  BY <2>1, <2>2, <1>3
<1>4. BuffersReclaimed'
  BY <1>0, <1>3 DEF QShape, BuffersReclaimed, drainVars
<1>5. FairOrder'
  BY <1>0 DEF QShape, FairOrder, FifoQueue, SortedQueue, AppendMode, drainVars
<1>6. IdsBelowNext'
  <2>1. ASSUME NEW b \in heap' PROVE b[1] < g_next_id'
    <3>1. CASE b = Buf(item)  BY <3>1, <1>0 DEF Buf
    <3>2. CASE b \in heap
      BY <3>2, <1>0 DEF QShape, IdsBelowNext, QueueTypeOK
    <3> QED  BY <3>1, <3>2
  <2>2. ASSUME NEW i \in 1..Len(g_queue) PROVE g_queue[i].id < g_next_id'
    <3>1. g_queue[i].id \in Nat  BY <1>0, QueueElements DEF Items
    <3> QED  BY <3>1, <1>0 DEF QShape, IdsBelowNext
  <2>3. g_draining => g_drain.id < g_next_id'
    BY <1>0 DEF QShape, IdsBelowNext, QueueTypeOK, Drains
  <2> QED  BY <2>1, <2>2, <2>3, <1>0 DEF IdsBelowNext, QShape, drainVars
<1>7. QED  BY <1>1, <1>2, <1>4, <1>5, <1>6 DEF QShape

\* Tagging rewrites the source of one item at most and nothing the
\* invariant looks at.
LEMMA TagKeepsShape ==
  ASSUME QInv, NEW t \in Threads, kerchunk_queue_tag_item(t)
  PROVE  QShape' /\ g_queue' \in Seq(Items)
<1>0. QueueTypeOK /\ QShape  BY DEF QInv, QShape
<1>1. /\ Len(g_queue) \in Nat
      /\ \A i \in 1..Len(g_queue) : g_queue[i] \in Items
  BY <1>0, QueueElements
<1> DEFINE src == tagging[t].source
<1>2. src \in AllTags
  BY <1>0 DEF kerchunk_queue_tag_item, QueueTypeOK, AllTags
<1>3. g_queue' = [i \in 1..Len(g_queue) |->
                    IF g_queue[i].id = tagging[t].id
                      THEN [g_queue[i] EXCEPT !.source = src] ELSE g_queue[i]]
  BY DEF kerchunk_queue_tag_item
<1>4. UNCHANGED <<g_count, g_next_id, drainVars, heap, gap_flushed>>
  BY DEF kerchunk_queue_tag_item
<1> HIDE DEF src
<1>5. ASSUME NEW x \in Items
      PROVE  /\ [x EXCEPT !.source = src] \in Items
             /\ [x EXCEPT !.source = src].id = x.id
             /\ [x EXCEPT !.source = src].priority = x.priority
             /\ [x EXCEPT !.source = src].type = x.type
             /\ [x EXCEPT !.source = src].n = x.n
  BY <1>2 DEF Items
<1>6. g_queue' \in [1..Len(g_queue) -> Items]  BY <1>1, <1>3, <1>5
<1>7. g_queue' \in Seq(Items) /\ Len(g_queue') = Len(g_queue)
  BY <1>1, <1>6, FcnIsSeq
<1>8. ASSUME NEW i \in 1..Len(g_queue)
      PROVE  /\ g_queue'[i].id = g_queue[i].id
             /\ g_queue'[i].priority = g_queue[i].priority
             /\ g_queue'[i].type = g_queue[i].type
             /\ g_queue'[i].n = g_queue[i].n
             /\ Buf(g_queue'[i]) = Buf(g_queue[i])
  <2>1. CASE g_queue[i].id = tagging[t].id
    <3>1. g_queue'[i] = [g_queue[i] EXCEPT !.source = src]  BY <2>1, <1>3
    <3> QED  BY <3>1, <1>1, <1>5 DEF Buf
  <2>2. CASE g_queue[i].id # tagging[t].id
    <3>1. g_queue'[i] = g_queue[i]  BY <2>2, <1>3
    <3> QED  BY <3>1
  <2> QED  BY <2>1, <2>2
<1> HIDE DEF QShape
<1>9. /\ CountIsDepth' /\ DrainOwnsBuffer' /\ BatchCovers'
  BY <1>0, <1>4, <1>7 DEF QShape, CountIsDepth, DrainOwnsBuffer, BatchCovers,
                          drainVars
<1>10. EmptyAreFiles' /\ IdsBelowNext'
  BY <1>0, <1>4, <1>7, <1>8 DEF QShape, EmptyAreFiles, IdsBelowNext, drainVars
<1>11. NoDanglingBuffer'
  BY <1>0, <1>4, <1>7, <1>8 DEF QShape, NoDanglingBuffer, Queued, drainVars
<1>12. BuffersReclaimed'
  BY <1>0, <1>4, <1>7, <1>8 DEF QShape, BuffersReclaimed, drainVars
<1>13. /\ FifoQueue => FifoQueue'
       /\ SortedQueue => SortedQueue'
  BY <1>7, <1>8 DEF FifoQueue, SortedQueue
<1>14. FairOrder'
  BY <1>0, <1>4, <1>13 DEF QShape, FairOrder, AppendMode, drainVars
<1>15. QED
  BY <1>7, <1>9, <1>10, <1>11, <1>12, <1>14 DEF QShape
----------------------------------------------------------------------------
(* Types, the inductive step and the theorems. *)

\* An add of an item of the right shape, accepted or refused.
LEMMA AddKeepsQInv ==
  ASSUME QInv, NEW t \in Threads, NEW item \in Items,
         item.n = 0 => item.type = "file",
         AddItem(t, item)
  PROVE  QInv'
<1>0. QueueTypeOK /\ QShape  BY DEF QInv, QShape
<1>1. /\ item.id = g_next_id /\ g_next_id' = g_next_id + 1 /\ g_next_id \in Nat
      /\ UNCHANGED <<drainVars, polled, up, gap_flushed>>
  BY <1>0 DEF AddItem, QueueTypeOK
<1>2. Buf(item) \in Nat \X Types  BY DEF Items, Buf
<1>3. /\ g_draining' \in BOOLEAN /\ g_drain' \in Drains /\ g_drain_source' \in AllTags
      /\ g_batch_active' \in BOOLEAN /\ g_gap' \in BOOLEAN /\ polled' \in BOOLEAN
      /\ up' \in BOOLEAN /\ gap_flushed' \in BOOLEAN /\ g_next_id' \in Nat
  BY <1>0, <1>1 DEF QueueTypeOK, drainVars
<1>4. CASE Full
  <2>1. /\ heap' = heap \cup ({Buf(item)} \ FreedWith({item}))
        /\ UNCHANGED <<g_queue, g_count, tagging>>
    BY <1>4 DEF AddItem
  <2>2. QShape'  BY <2>1, <1>1, RefusedKeepsShape
  <2>3. QueueTypeOK'  BY <2>1, <1>0, <1>2, <1>3 DEF QueueTypeOK
  <2> QED  BY <2>2, <2>3 DEF QInv, QShape
<1>5. CASE ~Full
  <2>1. /\ insert_item(item) /\ heap' = heap \cup {Buf(item)}
        /\ tagging' = IF item.wanted = NoSource THEN tagging
                      ELSE [tagging EXCEPT ![t] =
                              [id |-> item.id, source |-> item.wanted]]
    BY <1>5 DEF AddItem
  <2>2. QShape'  BY <2>1, <1>1, <1>5, InsertKeepsShape
  <2>3. InsertPoint(item.priority) \in 0..Len(g_queue)
    <3>1. item.priority \in Int  BY QueueAssumption DEF Items
    <3> QED  BY <3>1, <1>0, QueueElements, RunLengthIs DEF InsertPoint
  <2>4. g_queue' \in Seq(Items) /\ g_count' \in Nat
    <3>1. g_queue' = Inserted(InsertPoint(item.priority), item)
      BY <2>1 DEF insert_item, InsertPoint
    <3>2. g_count' = g_count + 1  BY <2>1 DEF insert_item
    <3> QED  BY <3>1, <3>2, <2>3, <1>0, InsertedIs DEF QueueTypeOK
  <2>5. tagging' \in [Threads -> [id : Nat, source : Sources] \cup {NoTag}]
    <3>1. CASE item.wanted = NoSource  BY <3>1, <2>1, <1>0 DEF QueueTypeOK
    <3>2. CASE item.wanted # NoSource
      <4>1. item.id \in Nat /\ item.wanted \in Sources
        BY <3>2 DEF Items, AllTags
      <4>2. [id |-> item.id, source |-> item.wanted] \in [id : Nat, source : Sources]
        BY <4>1
      <4> QED  BY <4>2, <3>2, <2>1, <1>0 DEF QueueTypeOK
    <3> QED  BY <3>1, <3>2
  <2>6. heap' \subseteq Nat \X Types  BY <2>1, <1>0, <1>2 DEF QueueTypeOK
  <2>7. QueueTypeOK'  BY <2>4, <2>5, <2>6, <1>3 DEF QueueTypeOK
  <2> QED  BY <2>2, <2>7 DEF QInv, QShape
<1>6. QED  BY <1>4, <1>5

\* What flush, preempt and a load of nothing leave is well typed.
LEMMA ClearedTypes ==
  ASSUME QueueTypeOK, g_queue' = <<>>, g_count' = 0,
         g_drain' \in {g_drain, NotDraining}, heap' \subseteq heap,
         g_draining' = FALSE, g_batch_active' = FALSE, g_gap' \in BOOLEAN,
         gap_flushed' \in BOOLEAN, polled' \in BOOLEAN, up' \in BOOLEAN,
         UNCHANGED <<g_next_id, g_drain_source, tagging>>
  PROVE  QueueTypeOK'
<1>1. NotDraining \in Drains
  BY QueueAssumption DEF NotDraining, Drains, Types, AllTags
<1>2. <<>> \in Seq(Items)  OBVIOUS
<1>3. QED  BY <1>1, <1>2 DEF QueueTypeOK

\* A frame taken by the audio thread, whatever it finds.
LEMMA DrainKeepsQInv ==
  ASSUME QInv, kerchunk_queue_drain, polled' \in BOOLEAN, UNCHANGED <<tagging, up>>
  PROVE  QInv'
<1>0. QueueTypeOK /\ QShape  BY DEF QInv, QShape
<1>1. /\ UNCHANGED <<tagging, up, g_next_id>>
      /\ tagging' \in [Threads -> [id : Nat, source : Sources] \cup {NoTag}]
      /\ up' \in BOOLEAN /\ g_next_id' \in Nat
  BY <1>0 DEF kerchunk_queue_drain, QueueTypeOK
<1>2. CASE g_gap
  <2>1. GapFrame  BY <1>2 DEF kerchunk_queue_drain
  <2>2. QShape'  BY <2>1, <1>1, <1>2, GapKeepsShape
  <2>3. QueueTypeOK'  BY <2>1, <1>0, <1>1 DEF GapFrame, QueueTypeOK
  <2> QED  BY <2>2, <2>3 DEF QInv, QShape
<1>3. CASE ~g_gap /\ MidItem
  <2>1. PlayFrame  BY <1>3 DEF kerchunk_queue_drain
  <2>2. QShape' /\ g_drain' \in Drains  BY <2>1, <1>1, <1>3, PlayKeepsShape
  <2>3. /\ UNCHANGED <<g_queue, g_count, g_drain_source, g_batch_active, gap_flushed>>
        /\ heap' \subseteq heap
    BY <2>1 DEF PlayFrame, FreeDrainBuf
  <2>4. g_draining' \in BOOLEAN /\ g_gap' \in BOOLEAN  BY <2>1 DEF PlayFrame
  <2>5. QueueTypeOK'  BY <2>2, <2>3, <2>4, <1>0, <1>1 DEF QueueTypeOK
  <2> QED  BY <2>2, <2>5 DEF QInv, QShape
<1>4. CASE ~g_gap /\ ~MidItem /\ LoadAndPlay
  <2>1. QShape' /\ g_drain' \in Drains /\ g_queue' \in Seq(Items)
    BY <1>1, <1>4, LoadKeepsShape
  <2>2. /\ heap' \subseteq heap /\ g_batch_active' \in BOOLEAN
        /\ g_draining' \in BOOLEAN /\ g_gap' \in BOOLEAN
    BY <1>4 DEF LoadAndPlay, FreeDrainBuf
  <2>3. gap_flushed' \in BOOLEAN  BY <1>4, <1>0 DEF LoadAndPlay, QueueTypeOK
  <2>4. g_count' \in Nat
    <3>1. g_count' = Len(g_queue')  BY <2>1 DEF QShape, CountIsDepth
    <3> QED  BY <3>1, <2>1, LenProperties
  <2>5. g_drain_source' \in AllTags
    <3>1. EmptyRun + 1 \in 1..Len(g_queue)
      BY <1>0, <1>4, EmptyRunIs, QueueElements DEF LoadAndPlay
    <3>2. g_queue[EmptyRun + 1].source \in AllTags
      BY <3>1, <1>0, QueueElements DEF Items
    <3> QED  BY <3>2, <1>4 DEF LoadAndPlay
  <2>6. QueueTypeOK'
    BY <2>1, <2>2, <2>3, <2>4, <2>5, <1>0, <1>1 DEF QueueTypeOK
  <2> QED  BY <2>1, <2>6 DEF QInv, QShape
<1>5. CASE ~g_gap /\ ~MidItem /\ LoadNothing
  <2>1. QShape'  BY <1>1, <1>5, LoadNothingKeepsShape
  <2>2. /\ g_queue' = <<>> /\ g_drain' \in {g_drain, NotDraining}
        /\ heap' \subseteq heap /\ g_draining' = FALSE /\ g_batch_active' = FALSE
        /\ gap_flushed' = FALSE /\ UNCHANGED <<g_drain_source, g_gap>>
    BY <1>5 DEF LoadNothing, FreeDrainBuf
  <2>3. g_count' = 0
    BY <1>0, <1>5, QueueElements DEF LoadNothing, QShape, CountIsDepth
  <2>4. g_gap' \in BOOLEAN  BY <2>2, <1>0 DEF QueueTypeOK
  <2>5. QueueTypeOK'  BY <2>2, <2>3, <2>4, <1>0, <1>1, ClearedTypes
  <2> QED  BY <2>1, <2>5 DEF QInv, QShape
<1>6. QED
  BY <1>2, <1>3, <1>4, <1>5 DEF kerchunk_queue_drain

\* The invariant holds of the queue kerchunk_queue_init sets up.
LEMMA InitQInv ==
  ASSUME kerchunk_queue_init
  PROVE  QInv
<1>1. /\ g_queue = <<>> /\ Len(g_queue) = 0 /\ g_count = 0 /\ heap = {}
      /\ ~g_draining /\ ~g_gap /\ g_next_id = 1 /\ g_drain.buf = NoBuf
  BY DEF kerchunk_queue_init, NotDraining
<1>2. QueueTypeOK
  <2>1. NotDraining \in Drains
    BY QueueAssumption DEF NotDraining, Drains, Types, AllTags
  <2>2. <<>> \in Seq(Items)  OBVIOUS
  <2>3. NoSource \in AllTags  BY DEF AllTags
  <2> QED  BY <2>1, <2>2, <2>3 DEF kerchunk_queue_init, QueueTypeOK
<1>3. CountIsDepth /\ IdsBelowNext
  BY <1>1, QueueAssumption DEF CountIsDepth, IdsBelowNext
<1>4. DrainOwnsBuffer /\ BatchCovers  BY <1>1 DEF DrainOwnsBuffer, BatchCovers
<1>5. NoDanglingBuffer /\ BuffersReclaimed /\ EmptyAreFiles
  BY <1>1 DEF NoDanglingBuffer, BuffersReclaimed, EmptyAreFiles
<1>6. FairOrder  BY <1>1 DEF FairOrder, FifoQueue, SortedQueue
<1>7. QED  BY <1>2, <1>3, <1>4, <1>5, <1>6 DEF QInv

\* Every step of the producers, the main loop and the audio thread keeps it.
LEMMA NextQInv ==
  ASSUME QInv, [QueueNext]_queueVars
  PROVE  QInv'
<1>0. QueueTypeOK /\ QShape  BY DEF QInv, QShape
<1>1. ASSUME NEW t \in Threads, Add(t) PROVE QInv'
  <2>0. g_next_id \in Nat  BY <1>0 DEF QueueTypeOK
  <2>1. PICK p \in Priorities, n \in 0..MaxFrames, src \in AllTags :
           \/ kerchunk_queue_add_file(t, p, n, src)
           \/ kerchunk_queue_add_buffer(t, p, n, src)
    BY <1>1 DEF Add
  <2>2. CASE kerchunk_queue_add_file(t, p, n, src)
    <3>1. /\ NewItem("file", p, n, src) \in Items
          /\ NewItem("file", p, n, src).type = "file"
      BY <2>0 DEF NewItem, Items, Types, AllTags
    <3>2. AddItem(t, NewItem("file", p, n, src))
      BY <2>2 DEF kerchunk_queue_add_file
    <3> QED  BY <3>1, <3>2, AddKeepsQInv
  <2>3. CASE kerchunk_queue_add_buffer(t, p, n, src)
    <3>1. /\ NewItem("buffer", p, n, src) \in Items
          /\ NewItem("buffer", p, n, src).n = n
      BY <2>0 DEF NewItem, Items, Types, AllTags
    <3>2. n # 0 /\ AddItem(t, NewItem("buffer", p, n, src))
      BY <2>3 DEF kerchunk_queue_add_buffer
    <3> QED  BY <3>1, <3>2, AddKeepsQInv
  <2> QED  BY <2>1, <2>2, <2>3
<1>2. ASSUME NEW t \in Threads, kerchunk_queue_tag_item(t) PROVE QInv'
  <2>1. QShape' /\ g_queue' \in Seq(Items)  BY <1>2, TagKeepsShape
  <2>2. tagging' \in [Threads -> [id : Nat, source : Sources] \cup {NoTag}]
    BY <1>0, <1>2 DEF kerchunk_queue_tag_item, QueueTypeOK
  <2>3. QueueTypeOK'
    BY <2>1, <2>2, <1>0, <1>2 DEF kerchunk_queue_tag_item, QueueTypeOK, drainVars
  <2> QED  BY <2>1, <2>3 DEF QInv, QShape
<1>3. ASSUME kerchunk_queue_flush, UNCHANGED <<tagging, polled>>, up' \in BOOLEAN
      PROVE  QInv'
  <2>1. QShape'  BY <1>3, FlushKeepsShape
  <2>2. /\ g_queue' = <<>> /\ g_count' = 0 /\ g_drain' = NotDraining
        /\ heap' \subseteq heap /\ g_draining' = FALSE /\ g_batch_active' = FALSE
        /\ g_gap' = g_gap /\ gap_flushed' = g_gap
        /\ UNCHANGED <<g_next_id, g_drain_source, tagging>>
    BY <1>3 DEF kerchunk_queue_flush, FreeDrainBuf
  <2>3. g_gap' \in BOOLEAN /\ gap_flushed' \in BOOLEAN /\ polled' \in BOOLEAN
    BY <2>2, <1>0, <1>3 DEF QueueTypeOK
  <2>4. QueueTypeOK'  BY <2>2, <2>3, <1>0, <1>3, ClearedTypes
  <2> QED  BY <2>1, <2>4 DEF QInv, QShape
<1>4. CASE Flush
  <2>1. kerchunk_queue_flush /\ UNCHANGED <<tagging, polled>> /\ up' \in BOOLEAN
    BY <1>4, <1>0 DEF Flush, QueueTypeOK
  <2> QED  BY <2>1, <1>3
<1>5. CASE kerchunk_queue_shutdown
  <2>1. kerchunk_queue_flush /\ UNCHANGED <<tagging, polled>> /\ up' \in BOOLEAN
    BY <1>5 DEF kerchunk_queue_shutdown
  <2> QED  BY <2>1, <1>3
<1>6. CASE Preempt
  <2>1. QShape'  BY <1>6, PreemptKeepsShape DEF Preempt
  <2>2. /\ g_queue' = <<>> /\ g_count' = 0 /\ g_drain' \in {g_drain, NotDraining}
        /\ heap' \subseteq heap /\ g_draining' = FALSE /\ g_batch_active' = FALSE
        /\ g_gap' = FALSE /\ gap_flushed' = FALSE
        /\ UNCHANGED <<g_next_id, g_drain_source, tagging>>
    BY <1>6 DEF Preempt, kerchunk_queue_preempt, FreeDrainBuf
  <2>3. polled' \in BOOLEAN /\ up' \in BOOLEAN
    BY <1>6, <1>0 DEF Preempt, QueueTypeOK
  <2>4. QueueTypeOK'  BY <2>2, <2>3, <1>0, ClearedTypes
  <2> QED  BY <2>1, <2>4 DEF QInv, QShape
<1>7. CASE Drain  BY <1>7, DrainKeepsQInv DEF Drain
<1>8. CASE Poll \/ UNCHANGED queueVars
  <2>1. /\ UNCHANGED <<listVars, drainVars, heap, tagging, up, gap_flushed>>
        /\ polled' \in BOOLEAN
    BY <1>8, <1>0 DEF Poll, queueVars, QueueTypeOK
  <2>2. QueueTypeOK'
    BY <2>1, <1>0 DEF QueueTypeOK, listVars, drainVars
  <2>3. CountIsDepth' /\ DrainOwnsBuffer' /\ EmptyAreFiles' /\ BatchCovers'
    BY <2>1, <1>0 DEF QShape, CountIsDepth, DrainOwnsBuffer, EmptyAreFiles,
                      BatchCovers, listVars, drainVars
  <2>4. NoDanglingBuffer' /\ BuffersReclaimed' /\ IdsBelowNext'
    BY <2>1, <1>0 DEF QShape, NoDanglingBuffer, BuffersReclaimed, IdsBelowNext,
                      Queued, listVars, drainVars
  <2>5. FairOrder'
    BY <2>1, <1>0 DEF QShape, FairOrder, FifoQueue, SortedQueue, AppendMode,
                      listVars, drainVars
  <2> QED  BY <2>2, <2>3, <2>4, <2>5 DEF QInv
<1>9. QED
  BY <1>1, <1>2, <1>4, <1>5, <1>6, <1>7, <1>8 DEF QueueNext

\* The invariant is inductive.
LEMMA QueueInvariant == QueueSpec => []QInv
<1>1. kerchunk_queue_init => QInv  BY InitQInv
<1>2. QInv /\ [QueueNext]_queueVars => QInv'  BY NextQInv
<1>3. QED  BY <1>1, <1>2, PTL DEF QueueSpec

\* The state of kerchunk_queue.c keeps its types for any number of threads.
THEOREM QueueTypes == QueueSpec => []QueueTypeOK
<1>1. QInv => QueueTypeOK  BY DEF QInv
<1>2. QED  BY <1>1, QueueInvariant, PTL

\* g_count is the length of the list, which never exceeds the limit.
THEOREM QueueCountsItsItems == QueueSpec => []CountIsDepth
<1>1. QInv => CountIsDepth  BY DEF QInv
<1>2. QED  BY <1>1, QueueInvariant, PTL

\* Neither the list nor the drain ever points to freed samples, and no two
\* of their pointers share a buffer: no use after free and no double free.
THEOREM QueueNeverDangles == QueueSpec => []NoDanglingBuffer
<1>1. QInv => NoDanglingBuffer  BY DEF QInv
<1>2. QED  BY <1>1, QueueInvariant, PTL

\* Samples an item owns are freed on every path out of the queue.
THEOREM QueueReclaimsBuffers == QueueSpec => []BuffersReclaimed
<1>1. QInv => BuffersReclaimed  BY DEF QInv
<1>2. QED  BY <1>1, QueueInvariant, PTL

\* Items of one priority stay in the order in which they were added, and
\* the walk of insert_item by priority always meets a sorted list, unless a
\* flush cut into the gap between two items.
THEOREM QueueIsFair == QueueSpec => []FairOrder
<1>1. QInv => FairOrder  BY DEF QInv
<1>2. QED  BY <1>1, QueueInvariant, PTL
----------------------------------------------------------------------------
(* Tags. *)

\* A producer between its two critical sections: the identifier it will tag
\* is an old one, and the item that still carries it wants that tag.
TagsPending ==
  \A t \in Threads : tagging[t] # NoTag =>
    /\ tagging[t].id < g_next_id
    /\ \A i \in 1..Len(g_queue) :
         g_queue[i].id = tagging[t].id => g_queue[i].wanted = tagging[t].source

TagInv == TagsAreOwn /\ TagsPending

\* Steps that only take items away or move them.
LEMMA FewerItemsKeepTags ==
  ASSUME QueueTypeOK, TagInv,
         \A i \in 1..Len(g_queue') :
           \E j \in 1..Len(g_queue) : g_queue'[i] = g_queue[j],
         g_draining' => g_drain_source' \in {NoSource, g_drain'.wanted},
         UNCHANGED <<g_next_id, tagging>>
  PROVE  TagInv'
<1>1. TagsAreOwn'
  BY DEF TagInv, TagsAreOwn
<1>2. TagsPending'
  <2> SUFFICES ASSUME NEW t \in Threads, tagging[t] # NoTag,
                      NEW i \in 1..Len(g_queue'), g_queue'[i].id = tagging[t].id
               PROVE  g_queue'[i].wanted = tagging[t].source
    BY DEF TagInv, TagsPending
  <2>1. PICK j \in 1..Len(g_queue) : g_queue'[i] = g_queue[j]
    OBVIOUS
  <2> QED  BY <2>1 DEF TagInv, TagsPending
<1>3. QED  BY <1>1, <1>2 DEF TagInv

\* A new item is not tagged yet and has an identifier nobody waits to tag.
LEMMA AddKeepsTags ==
  ASSUME QInv, TagInv, NEW t \in Threads, NEW item \in Items,
         item.source = NoSource, AddItem(t, item)
  PROVE  TagInv'
<1>0. /\ QueueTypeOK /\ IdsBelowNext /\ TagsAreOwn /\ TagsPending
      /\ g_next_id \in Nat /\ Len(g_queue) \in Nat
      /\ \A i \in 1..Len(g_queue) : g_queue[i] \in Items /\ g_queue[i].id \in Nat
  BY QueueElements DEF QInv, TagInv, QueueTypeOK, Items
<1>1. /\ item.id = g_next_id /\ g_next_id' = g_next_id + 1
      /\ UNCHANGED <<g_draining, g_drain, g_drain_source>>
  BY DEF AddItem, drainVars
<1>2. \A u \in Threads : tagging[u] # NoTag => tagging[u].id \in Nat
  BY <1>0 DEF QueueTypeOK
<1>3. CASE Full
  <2>1. UNCHANGED <<g_queue, tagging>>
    BY <1>3 DEF AddItem
  <2>2. TagsAreOwn'
    BY <1>0, <1>1, <2>1 DEF TagsAreOwn
  <2>3. TagsPending'
    BY <1>0, <1>1, <1>2, <2>1 DEF TagsPending
  <2> QED  BY <2>2, <2>3 DEF TagInv
<1>4. CASE ~Full
  <2>1. /\ g_queue' = Inserted(InsertPoint(item.priority), item)
        /\ tagging' = IF item.wanted = NoSource THEN tagging
                      ELSE [tagging EXCEPT ![t] =
                              [id |-> item.id, source |-> item.wanted]]
    BY <1>4 DEF AddItem, insert_item, InsertPoint
  <2>2. InsertPoint(item.priority) \in 0..Len(g_queue)
    <3>1. item.priority \in Int  BY QueueAssumption DEF Items
    <3> QED  BY <3>1, <1>0, RunLengthIs DEF InsertPoint
  <2>3. \A i \in 1..Len(g_queue') :
          \/ g_queue'[i] = item
          \/ \E j \in 1..Len(g_queue) : g_queue'[i] = g_queue[j]
    <3> DEFINE k == InsertPoint(item.priority)
    <3> HIDE DEF k
    <3>1. /\ Len(g_queue') = Len(g_queue) + 1
          /\ \A i \in 1..(Len(g_queue) + 1) :
               /\ i <= k => i \in 1..Len(g_queue) /\ g_queue'[i] = g_queue[i]
               /\ i = k + 1 => g_queue'[i] = item
               /\ i > k + 1 => i - 1 \in 1..Len(g_queue)
                               /\ g_queue'[i] = g_queue[i - 1]
      BY <1>0, <2>1, <2>2, InsertedIs DEF k
    <3>2. k \in Nat  BY <1>0, <2>2 DEF k
    <3> QED  BY <1>0, <3>1, <3>2
  <2>4. TagsAreOwn'
    BY <1>0, <1>1, <2>3 DEF TagsAreOwn
  <2>5. TagsPending'
    <3> SUFFICES ASSUME NEW u \in Threads, tagging'[u] # NoTag
                 PROVE  /\ tagging'[u].id < g_next_id'
                        /\ \A i \in 1..Len(g_queue') : g_queue'[i].id = tagging'[u].id
                              => g_queue'[i].wanted = tagging'[u].source
      BY DEF TagsPending
    <3>1. CASE tagging'[u] = tagging[u]
      <4>1. tagging[u].id \in Nat /\ tagging[u].id < g_next_id
        BY <1>0, <1>2, <3>1 DEF TagsPending
      <4>2. ASSUME NEW i \in 1..Len(g_queue'), g_queue'[i].id = tagging[u].id
            PROVE  g_queue'[i].wanted = tagging[u].source
        <5>1. g_queue'[i] # item
          BY <1>0, <1>1, <4>1, <4>2
        <5>2. PICK j \in 1..Len(g_queue) : g_queue'[i] = g_queue[j]
          BY <2>3, <5>1
        <5> QED  BY <1>0, <3>1, <4>2, <5>2 DEF TagsPending
      <4> QED  BY <1>0, <1>1, <3>1, <4>1, <4>2
    <3>2. CASE tagging'[u] # tagging[u]
      <4>1. tagging'[u].id = item.id /\ tagging'[u].source = item.wanted
        BY <1>0, <2>1, <3>2 DEF QueueTypeOK
      <4>2. ASSUME NEW i \in 1..Len(g_queue'), g_queue'[i].id = item.id
            PROVE  g_queue'[i].wanted = item.wanted
        <5>1. \A j \in 1..Len(g_queue) : g_queue[j].id # item.id
          BY <1>0, <1>1 DEF IdsBelowNext
        <5> QED  BY <2>3, <4>2, <5>1
      <4> QED  BY <1>0, <1>1, <4>1, <4>2
    <3> QED  BY <3>1, <3>2
  <2> QED  BY <2>4, <2>5 DEF TagInv
<1>5. QED  BY <1>3, <1>4

\* The second critical section reaches the item it was meant for or none.
LEMMA TaggingKeepsTags ==
  ASSUME QInv, TagInv, NEW t \in Threads, kerchunk_queue_tag_item(t)
  PROVE  TagInv'
<1>0. /\ QueueTypeOK /\ TagsAreOwn /\ TagsPending /\ Len(g_queue) \in Nat
      /\ \A i \in 1..Len(g_queue) : g_queue[i] \in Items
      /\ tagging \in [Threads -> [id : Nat, source : Sources] \cup {NoTag}]
  BY QueueElements DEF QInv, TagInv, QueueTypeOK
<1>1. /\ tagging[t] # NoTag
      /\ g_queue' = [i \in 1..Len(g_queue) |->
                       IF g_queue[i].id = tagging[t].id
                         THEN [g_queue[i] EXCEPT !.source = tagging[t].source]
                         ELSE g_queue[i]]
      /\ tagging' = [tagging EXCEPT ![t] = NoTag]
      /\ UNCHANGED <<g_next_id, g_draining, g_drain, g_drain_source>>
  BY DEF kerchunk_queue_tag_item, drainVars
<1>2. Len(g_queue') = Len(g_queue)
  BY <1>0, <1>1, TagKeepsShape, LenProperties
<1>3. ASSUME NEW i \in 1..Len(g_queue)
      PROVE  /\ g_queue'[i].id = g_queue[i].id /\ g_queue'[i].wanted = g_queue[i].wanted
             /\ g_queue'[i].source \in {NoSource, g_queue'[i].wanted}
  <2>1. CASE g_queue[i].id = tagging[t].id
    <3>1. g_queue'[i] = [g_queue[i] EXCEPT !.source = tagging[t].source]
      BY <1>1, <2>1
    <3>2. /\ g_queue'[i].id = g_queue[i].id /\ g_queue'[i].wanted = g_queue[i].wanted
          /\ g_queue'[i].source = tagging[t].source
      BY <1>0, <3>1 DEF Items
    <3> QED  BY <1>0, <1>1, <2>1, <3>2 DEF TagsPending
  <2>2. CASE g_queue[i].id # tagging[t].id
    <3>1. g_queue'[i] = g_queue[i]  BY <1>1, <2>2
    <3> QED  BY <1>0, <3>1 DEF TagsAreOwn
  <2> QED  BY <2>1, <2>2
<1>4. TagsAreOwn'
  BY <1>0, <1>1, <1>2, <1>3 DEF TagsAreOwn
<1>5. TagsPending'
  <2> SUFFICES ASSUME NEW u \in Threads, tagging'[u] # NoTag
               PROVE  /\ tagging'[u].id < g_next_id'
                      /\ \A i \in 1..Len(g_queue') : g_queue'[i].id = tagging'[u].id
                            => g_queue'[i].wanted = tagging'[u].source
    BY DEF TagsPending
  <2>1. tagging'[u] = tagging[u]
    BY <1>0, <1>1
  <2> QED  BY <1>0, <1>1, <1>2, <1>3, <2>1 DEF TagsPending
<1>6. QED  BY <1>4, <1>5 DEF TagInv

LEMMA DrainKeepsTags ==
  ASSUME QInv, TagInv, Drain
  PROVE  TagInv'
<1>0. /\ QueueTypeOK /\ TagsAreOwn /\ Len(g_queue) \in Nat
  BY QueueElements DEF QInv, TagInv
<1>1. UNCHANGED <<g_next_id, tagging>>
  BY DEF Drain, kerchunk_queue_drain
<1>2. CASE GapFrame
  BY <1>0, <1>1, <1>2, FewerItemsKeepTags DEF GapFrame, TagsAreOwn
<1>3. CASE PlayFrame /\ MidItem
  <2>1. UNCHANGED <<g_queue, g_drain_source>>
    BY <1>3 DEF PlayFrame
  <2>2. g_draining' => g_drain'.wanted = g_drain.wanted
    BY <1>0, <1>3 DEF PlayFrame, QueueTypeOK, Drains
  <2>3. g_draining' => g_drain_source \in {NoSource, g_drain.wanted}
    BY <1>0, <1>3 DEF TagsAreOwn, MidItem
  <2> QED  BY <1>0, <1>1, <2>1, <2>2, <2>3, FewerItemsKeepTags
<1>4. CASE LoadAndPlay
  <2>1. EmptyRun \in 0..Len(g_queue) /\ EmptyRun + 1 \in 1..Len(g_queue)
    BY <1>0, <1>4, EmptyRunIs DEF LoadAndPlay
  <2>2. /\ g_queue' = Popped(EmptyRun + 1)
        /\ g_drain_source' = g_queue[EmptyRun + 1].source
        /\ g_draining' => g_drain'.wanted = g_queue[EmptyRun + 1].wanted
    BY <1>4 DEF LoadAndPlay
  <2>3. \A i \in 1..Len(g_queue') : \E j \in 1..Len(g_queue) : g_queue'[i] = g_queue[j]
    <3> DEFINE k == EmptyRun + 1
    <3>1. k \in 0..Len(g_queue)  BY <1>0, <2>1
    <3> HIDE DEF k
    <3>2. /\ Len(Popped(k)) = Len(g_queue) - k
          /\ \A i \in 1..(Len(g_queue) - k) :
               i + k \in 1..Len(g_queue) /\ Popped(k)[i] = g_queue[i + k]
      BY <1>0, <3>1, PoppedIs
    <3>3. g_queue' = Popped(k)  BY <2>2 DEF k
    <3> QED  BY <3>2, <3>3
  <2>4. g_draining' => g_drain_source' \in {NoSource, g_drain'.wanted}
    BY <1>0, <2>1, <2>2 DEF TagsAreOwn
  <2> QED  BY <1>0, <1>1, <2>3, <2>4, FewerItemsKeepTags
<1>5. CASE LoadNothing
  <2>1. g_queue' = <<>> /\ g_draining' = FALSE
    BY <1>5 DEF LoadNothing
  <2> QED  BY <1>0, <1>1, <2>1, FewerItemsKeepTags
<1>6. QED
  BY <1>2, <1>3, <1>4, <1>5 DEF Drain, kerchunk_queue_drain

LEMMA NextTags ==
  ASSUME QInv, TagInv, [QueueNext]_queueVars
  PROVE  TagInv'
<1>0. QueueTypeOK  BY DEF QInv
<1>1. ASSUME NEW t \in Threads, Add(t) PROVE TagInv'
  <2>1. PICK p \in Priorities, n \in 0..MaxFrames, src \in AllTags :
           \/ kerchunk_queue_add_file(t, p, n, src)
           \/ kerchunk_queue_add_buffer(t, p, n, src)
    BY <1>1 DEF Add
  <2>2. PICK type \in Types : AddItem(t, NewItem(type, p, n, src))
    BY <2>1 DEF kerchunk_queue_add_file, kerchunk_queue_add_buffer, Types
  <2>3. NewItem(type, p, n, src) \in Items /\ NewItem(type, p, n, src).source = NoSource
    BY <1>0 DEF QueueTypeOK, NewItem, Items, AllTags
  <2> QED  BY <2>2, <2>3, AddKeepsTags
<1>2. ASSUME NEW t \in Threads, kerchunk_queue_tag_item(t) PROVE TagInv'
  BY <1>2, TaggingKeepsTags
<1>3. CASE Flush \/ kerchunk_queue_shutdown \/ Preempt
  <2>1. g_queue' = <<>> /\ g_draining' = FALSE /\ UNCHANGED <<g_next_id, tagging>>
    BY <1>3 DEF Flush, kerchunk_queue_shutdown, kerchunk_queue_flush, Preempt,
                kerchunk_queue_preempt
  <2> QED  BY <1>0, <2>1, FewerItemsKeepTags
<1>4. CASE Drain
  BY <1>4, DrainKeepsTags
<1>5. CASE Poll \/ UNCHANGED queueVars
  <2>1. UNCHANGED <<listVars, drainVars, tagging>>
    BY <1>5 DEF Poll, queueVars
  <2> QED  BY <2>1 DEF listVars, drainVars, TagInv, TagsAreOwn, TagsPending
<1>6. QED
  BY <1>1, <1>2, <1>3, <1>4, <1>5 DEF QueueNext

\* The tag written in the second critical section of the add_*_src functions
\* never lands on a neighbour, and what is being drained owns its samples,
\* for any producers and whatever is inserted, drained or flushed meanwhile.
THEOREM QueueItemsAreOwn == QueueSpec => []ItemsAreOwn
<1>1. kerchunk_queue_init => QInv /\ TagInv
  <2>1. kerchunk_queue_init => TagInv
    BY DEF kerchunk_queue_init, TagInv, TagsAreOwn, TagsPending
  <2> QED  BY <2>1, InitQInv
<1>2. QInv /\ TagInv /\ [QueueNext]_queueVars => QInv' /\ TagInv'
  BY NextQInv, NextTags
<1>3. QInv /\ TagInv => ItemsAreOwn
  BY DEF QInv, TagInv, ItemsAreOwn
<1>4. QED  BY <1>1, <1>2, <1>3, PTL DEF QueueSpec
============================================================================
