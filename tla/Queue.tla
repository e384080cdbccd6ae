------------------------------- MODULE Queue -------------------------------
(***************************************************************************)
(* The outbound audio queue of src/kerchunk_queue.c.  Any thread adds      *)
(* items, flushes or preempts; the audio thread takes one 20 ms frame per  *)
(* tick.  Every entry point holds g_mutex for its whole effect, so each is *)
(* one step, with two exceptions the model keeps apart: the add_*_src      *)
(* functions insert and tag under two separate locks, and the audio thread *)
(* asks for the depth in one call and drains in a later one.               *)
(*                                                                         *)
(* Samples are counted in frames; the 10 ms gap is shorter than a frame,   *)
(* so g_gap_remaining is one bit.  A sample buffer is named by the id of   *)
(* the item it was made for and the item's type, which is all that         *)
(* free_item looks at (buffer.owns is 1 in every queued item).             *)
(***************************************************************************)
EXTENDS Integers, Sequences, FiniteSets

CONSTANTS
  Threads,          \* producers: main loop, web thread, module workers
  Priorities,
  Sources,          \* the tags modules give their items
  MAX_QUEUE_DEPTH,
  MaxFrames,        \* bound: the longest item, in frames
  MaxIds,           \* bound: items ever added
  NoSource,         \* the empty tag
  NoBuf,            \* the NULL pointer
  NoTag             \* a producer with no tagging outstanding

ASSUME QueueAssumption ==
  /\ Priorities \subseteq Int
  /\ MAX_QUEUE_DEPTH \in Nat \ {0}
  /\ MaxFrames \in Nat \ {0}
  /\ MaxIds \in Nat
  /\ NoBuf \notin Nat \X {"file", "buffer"}
  /\ NoTag \notin [id : Nat, source : Sources]

VARIABLES
  g_queue,          \* the list from g_head
  g_count,
  g_next_id,
  g_draining,
  g_drain,          \* the item being drained and its buffer
  g_drain_source,   \* the tag of the item drained now, or last
  g_batch_active,
  g_gap,            \* g_gap_remaining > 0
  heap,             \* sample buffers allocated and not freed
  tagging,          \* per producer: the tag it has still to write
  polled,           \* the audio thread saw work and is about to drain
  up,               \* between init and shutdown
  gap_flushed       \* auxiliary: a flush left the gap running

listVars  == <<g_queue, g_count, g_next_id>>
drainVars == <<g_draining, g_drain, g_drain_source, g_batch_active, g_gap>>
queueVars == <<listVars, drainVars, heap, tagging, polled, up, gap_flushed>>

Types    == {"file", "buffer"}
AllTags  == Sources \cup {NoSource}
Items    == [id : Nat, priority : Priorities, type : Types, n : 0..MaxFrames,
             source : AllTags, wanted : AllTags]
Buf(item) == <<item.id, item.type>>
Queued(id) == \E i \in 1..Len(g_queue) : g_queue[i].id = id
\* Of a finished item only g_drain_source is ever read again.
NotDraining == [id |-> 0, type |-> "buffer", buf |-> NoBuf, left |-> 0,
                wanted |-> NoSource]

kerchunk_queue_init ==
  /\ g_queue = <<>> /\ g_count = 0 /\ g_next_id = 1
  /\ g_draining = FALSE /\ g_drain = NotDraining
  /\ g_drain_source = NoSource
  /\ g_batch_active = FALSE /\ g_gap = FALSE
  /\ heap = {}
  /\ tagging = [t \in Threads |-> NoTag]
  /\ polled = FALSE /\ up = TRUE /\ gap_flushed = FALSE
----------------------------------------------------------------------------
(* Producers. *)

\* free_item only frees the samples of QUEUE_AUDIO_BUFFER items.
FreedWith(items) == {Buf(item) : item \in {x \in items : x.type = "buffer"}}
QueuedItems == {g_queue[i] : i \in 1..Len(g_queue)}

AppendMode == g_batch_active \/ g_draining \/ g_gap

\* Where the walk over the list stops: behind the last item of the leading
\* run whose priorities are at least p.
RunLength(p) == CHOOSE k \in 0..Len(g_queue) :
                  /\ \A j \in 1..k : g_queue[j].priority >= p
                  /\ k < Len(g_queue) => g_queue[k + 1].priority < p

Inserted(k, item) == [i \in 1..(Len(g_queue) + 1) |->
                        IF i <= k THEN g_queue[i]
                        ELSE IF i = k + 1 THEN item ELSE g_queue[i - 1]]

\* Mutant: the walk stops before the items of equal priority.
insert_item_Lifo(item) ==
  LET k == CHOOSE j \in 0..Len(g_queue) :
             /\ \A i \in 1..j : g_queue[i].priority > item.priority
             /\ j < Len(g_queue) => g_queue[j + 1].priority <= item.priority
  IN  /\ g_queue' = Inserted(IF AppendMode THEN Len(g_queue) ELSE k, item)
      /\ g_count' = g_count + 1

insert_item(item) ==
  /\ g_queue' = Inserted(IF AppendMode THEN Len(g_queue)
                                       ELSE RunLength(item.priority), item)
  /\ g_count' = g_count + 1

\* Mutant: the limit is tested after the item is linked.
Full_Late == g_count > MAX_QUEUE_DEPTH

Full == g_count >= MAX_QUEUE_DEPTH

\* A full queue refuses the item, which free_item then disposes of.
\* Tagging is a second critical section (kerchunk_queue_tag_item).
AddItem(t, item) ==
  /\ up /\ tagging[t] = NoTag
  /\ g_next_id <= MaxIds /\ item.id = g_next_id
  /\ g_next_id' = g_next_id + 1
  /\ IF Full
       THEN /\ heap' = heap \cup ({Buf(item)} \ FreedWith({item}))
            /\ UNCHANGED <<g_queue, g_count, tagging>>
       ELSE /\ insert_item(item)
            /\ heap' = heap \cup {Buf(item)}
            /\ tagging' = IF item.wanted = NoSource THEN tagging
                          ELSE [tagging EXCEPT ![t] =
                                  [id |-> item.id, source |-> item.wanted]]
  /\ UNCHANGED <<drainVars, polled, up, gap_flushed>>

NewItem(type, p, n, src) ==
  [id |-> g_next_id, priority |-> p, type |-> type, n |-> n,
   source |-> NoSource, wanted |-> src]

\* A file may hold no samples at all; it is queued like any other.
kerchunk_queue_add_file(t, p, n, src) == AddItem(t, NewItem("file", p, n, src))

\* add_buffer, add_tone and add_silence refuse what has no samples.
kerchunk_queue_add_buffer(t, p, n, src) ==
  n > 0 /\ AddItem(t, NewItem("buffer", p, n, src))

\* Mutant: tag_item writes the tag of whatever item is at the head.
kerchunk_queue_tag_item_Head(t) ==
  /\ tagging[t] # NoTag
  /\ g_queue' = [i \in 1..Len(g_queue) |->
                   IF i = 1
                     THEN [g_queue[i] EXCEPT !.source = tagging[t].source]
                     ELSE g_queue[i]]
  /\ tagging' = [tagging EXCEPT ![t] = NoTag]
  /\ UNCHANGED <<g_count, g_next_id, drainVars, heap, polled, up, gap_flushed>>

\* Nothing happens when the item has left the queue meanwhile.
kerchunk_queue_tag_item(t) ==
  /\ tagging[t] # NoTag
  /\ g_queue' = [i \in 1..Len(g_queue) |->
                   IF g_queue[i].id = tagging[t].id
                     THEN [g_queue[i] EXCEPT !.source = tagging[t].source]
                     ELSE g_queue[i]]
  /\ tagging' = [tagging EXCEPT ![t] = NoTag]
  /\ UNCHANGED <<g_count, g_next_id, drainVars, heap, polled, up, gap_flushed>>
----------------------------------------------------------------------------
(* Flush and preempt.  kerchunk_queue_flush forgets the running gap. *)

FreeDrainBuf(h) == h \ {g_drain.buf}

\* Mutant: flush forgets that the item being played owns a buffer.
kerchunk_queue_flush_KeepsDrain ==
  /\ g_queue' = <<>> /\ g_count' = 0
  /\ heap' = heap \ FreedWith(QueuedItems)
  /\ g_drain' = NotDraining
  /\ g_draining' = FALSE /\ g_batch_active' = FALSE
  /\ gap_flushed' = g_gap
  /\ UNCHANGED <<g_next_id, g_drain_source, g_gap>>

kerchunk_queue_flush ==
  /\ g_queue' = <<>> /\ g_count' = 0
  /\ heap' = FreeDrainBuf(heap \ FreedWith(QueuedItems))
  /\ g_drain' = NotDraining
  /\ g_draining' = FALSE /\ g_batch_active' = FALSE
  /\ gap_flushed' = g_gap
  /\ UNCHANGED <<g_next_id, g_drain_source, g_gap>>

\* Mutant: preempt frees the samples and lets the item play on.
kerchunk_queue_preempt_PlaysOn ==
  /\ g_queue' = <<>> /\ g_count' = 0
  /\ heap' = (IF g_draining THEN FreeDrainBuf(heap) ELSE heap)
               \ FreedWith(QueuedItems)
  /\ g_batch_active' = FALSE /\ g_gap' = FALSE /\ gap_flushed' = FALSE
  /\ UNCHANGED <<g_next_id, g_draining, g_drain, g_drain_source>>

\* The drain buffer is freed only if an item is being drained.
kerchunk_queue_preempt ==
  /\ g_queue' = <<>> /\ g_count' = 0
  /\ heap' = (IF g_draining THEN FreeDrainBuf(heap) ELSE heap)
               \ FreedWith(QueuedItems)
  /\ g_drain' = IF g_draining THEN NotDraining ELSE g_drain
  /\ g_draining' = FALSE /\ g_batch_active' = FALSE /\ g_gap' = FALSE
  /\ gap_flushed' = FALSE
  /\ UNCHANGED <<g_next_id, g_drain_source>>

\* At exit, when the threads that use the queue have ended.
kerchunk_queue_shutdown ==
  /\ up /\ ~polled /\ \A t \in Threads : tagging[t] = NoTag
  /\ kerchunk_queue_flush
  /\ up' = FALSE
  /\ UNCHANGED <<tagging, polled>>
----------------------------------------------------------------------------
(* The audio thread. *)

\* load_next_item drops the files without samples at the head of the list.
EmptyRun == CHOOSE k \in 0..Len(g_queue) :
              /\ \A j \in 1..k : g_queue[j].n = 0
              /\ k < Len(g_queue) => g_queue[k + 1].n > 0

Popped(k) == [i \in 1..(Len(g_queue) - k) |-> g_queue[i + k]]

\* load_next_item, then the first frame of what it loaded.  One frame may be
\* all there is: then the item is complete and its buffer freed at once.
LoadAndPlay ==
  LET k    == EmptyRun
      item == g_queue[k + 1]
      last == item.n = 1
  IN  /\ k < Len(g_queue)
      /\ g_queue' = Popped(k + 1)
      /\ g_count' = g_count - (k + 1)
      /\ g_drain' = IF last THEN NotDraining
                    ELSE [id |-> item.id, type |-> item.type, buf |-> Buf(item),
                          left |-> item.n - 1, wanted |-> item.wanted]
      /\ g_drain_source' = item.source
      /\ g_draining' = ~last
      /\ g_batch_active' = TRUE
      /\ g_gap' = (last /\ Len(g_queue) > k + 1 /\ item.type = "file")
      /\ heap' = IF last THEN FreeDrainBuf(heap) \ {Buf(item)}
                         ELSE FreeDrainBuf(heap)
      /\ gap_flushed' = (gap_flushed /\ Len(g_queue) > k + 1)

\* Nothing with samples is left: the batch is over.
LoadNothing ==
  /\ EmptyRun = Len(g_queue)
  /\ g_queue' = <<>> /\ g_count' = g_count - Len(g_queue)
  /\ g_drain' = IF g_queue = <<>> THEN g_drain ELSE NotDraining
  /\ heap' = IF g_queue = <<>> THEN heap ELSE FreeDrainBuf(heap)
  /\ g_draining' = FALSE
  /\ g_batch_active' = FALSE
  /\ gap_flushed' = FALSE
  /\ UNCHANGED <<g_drain_source, g_gap>>

PlayFrame ==
  LET last == g_drain.left = 1
  IN  /\ g_drain' = IF last THEN NotDraining
                            ELSE [g_drain EXCEPT !.left = @ - 1]
      /\ g_draining' = ~last
      /\ g_gap' = (last /\ g_queue # <<>> /\ g_drain.type = "file")
      /\ heap' = IF last THEN FreeDrainBuf(heap) ELSE heap
      /\ UNCHANGED <<g_queue, g_count, g_drain_source, g_batch_active, gap_flushed>>

\* Mutant: the remaining gap is not counted down.
GapFrame_Forever == /\ g_gap' = TRUE
                    /\ UNCHANGED <<g_queue, g_count, g_draining, g_drain,
                                   g_drain_source, g_batch_active, heap, gap_flushed>>

GapFrame == /\ g_gap' = FALSE
            /\ UNCHANGED <<g_queue, g_count, g_draining, g_drain,
                           g_drain_source, g_batch_active, heap, gap_flushed>>

MidItem == g_draining /\ g_drain.left > 0

kerchunk_queue_drain ==
  /\ IF g_gap THEN GapFrame
     ELSE IF MidItem THEN PlayFrame
     ELSE LoadAndPlay \/ LoadNothing
  /\ UNCHANGED g_next_id

\* Mutant: an item in the middle of its samples no longer counts.
HasWork_DepthOnly == g_count > 0

\* What kerchunk_audio_tick_tx looks at before it emits a DRAIN action.
HasWork == g_count > 0 \/ g_draining
----------------------------------------------------------------------------
(* The queue with its threads. *)

Add(t) == \E p \in Priorities, n \in 0..MaxFrames, src \in AllTags :
            \/ kerchunk_queue_add_file(t, p, n, src)
            \/ kerchunk_queue_add_buffer(t, p, n, src)

Flush == /\ up /\ kerchunk_queue_flush
         /\ UNCHANGED <<tagging, polled, up>>

\* A carrier appears: the main loop clears the queue if it has anything.
Preempt == /\ up /\ HasWork /\ kerchunk_queue_preempt
           /\ UNCHANGED <<tagging, polled, up>>

\* The two calls of an audio tick; anything may happen between them.
Poll  == /\ up /\ ~polled /\ HasWork /\ polled' = TRUE
         /\ UNCHANGED <<listVars, drainVars, heap, tagging, up, gap_flushed>>
Drain == /\ polled /\ kerchunk_queue_drain /\ polled' = FALSE
         /\ UNCHANGED <<tagging, up>>

QueueNext == \/ \E t \in Threads : Add(t) \/ kerchunk_queue_tag_item(t)
             \/ Flush \/ Preempt \/ Poll \/ Drain
             \/ kerchunk_queue_shutdown

QueueSpec == kerchunk_queue_init /\ [][QueueNext]_queueVars

\* The audio thread runs every 20 ms at real-time priority.
QueueFairSpec == QueueSpec /\ WF_queueVars(Poll) /\ WF_queueVars(Drain)
----------------------------------------------------------------------------
(* Properties. *)

Drains == [id : Nat, type : Types, buf : (Nat \X Types) \cup {NoBuf},
           left : 0..MaxFrames, wanted : AllTags]

\* The state of kerchunk_queue.c stays in its types: in particular the list
\* holds whole items and the counters never go negative.
QueueTypeOK ==
  /\ g_queue \in Seq(Items) /\ g_count \in Nat /\ g_next_id \in Nat
  /\ g_draining \in BOOLEAN /\ g_drain \in Drains
  /\ g_drain_source \in AllTags
  /\ g_batch_active \in BOOLEAN /\ g_gap \in BOOLEAN
  /\ heap \subseteq Nat \X Types
  /\ tagging \in [Threads -> [id : Nat, source : Sources] \cup {NoTag}]
  /\ polled \in BOOLEAN /\ up \in BOOLEAN /\ gap_flushed \in BOOLEAN

\* g_count, on which the limit and the audio thread rely, is the length of
\* the list whatever the order of inserts, pops, flushes and preempts, and
\* the list never outgrows MAX_QUEUE_DEPTH.
CountIsDepth == g_count = Len(g_queue) /\ Len(g_queue) <= MAX_QUEUE_DEPTH

\* g_drain_buf is set exactly while an item is being drained, which is why
\* preempt may test g_draining before it frees, and then has frames left.
DrainOwnsBuffer ==
  /\ g_draining <=> g_drain.buf # NoBuf
  /\ g_draining => g_drain.left > 0 /\ g_drain.buf = <<g_drain.id, g_drain.type>>

\* No use after free and no double free: every buffer the list or the drain
\* points to is allocated, and no two pointers share one.
NoDanglingBuffer ==
  /\ \A i \in 1..Len(g_queue) : Buf(g_queue[i]) \in heap
  /\ \A i, j \in 1..Len(g_queue) : i # j => g_queue[i].id # g_queue[j].id
  /\ g_draining => g_drain.buf \in heap /\ ~Queued(g_drain.id)

\* Samples rendered or copied into an item are freed on every path: played,
\* refused, flushed, preempted or shut down.  (Samples read from a file are
\* not: free_item skips their type, so those leak unless they are played.)
BuffersReclaimed ==
  \A b \in heap : b[2] = "buffer" =>
     \/ \E i \in 1..Len(g_queue) : Buf(g_queue[i]) = b
     \/ g_drain.buf = b

SortedQueue == \A i, j \in 1..Len(g_queue) :
                 i < j => g_queue[i].priority >= g_queue[j].priority
FifoQueue   == \A i, j \in 1..Len(g_queue) :
                 /\ i < j /\ g_queue[i].priority = g_queue[j].priority
                 => g_queue[i].id < g_queue[j].id

\* Items of one priority are played in the order they were added, and when
\* insert_item does walk by priority it walks a sorted list.  The exception
\* is a flush during the gap between two items, which clears the batch flag
\* and leaves g_gap_remaining: appends made in that gap are not sorted.
FairOrder == ~gap_flushed => FifoQueue /\ (~AppendMode => SortedQueue)

\* The second critical section of the add_*_src functions never tags an
\* item with what was meant for another, however the queue moved meanwhile.
TagsAreOwn ==
  /\ \A i \in 1..Len(g_queue) : g_queue[i].source \in {NoSource, g_queue[i].wanted}
  /\ g_draining => g_drain_source \in {NoSource, g_drain.wanted}

\* Whoever is played, tagged or freed is the item it was meant for: the
\* drain owns its buffer and no source tag goes to a neighbour.
ItemsAreOwn == DrainOwnsBuffer /\ TagsAreOwn

\* Every item leaves the queue, played or discarded: gaps, files without
\* samples and a flush between poll and drain do not stall the audio thread.
ItemsLeave == \A id \in 1..MaxIds : Queued(id) ~> ~Queued(id)
============================================================================
