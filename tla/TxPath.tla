------------------------------- MODULE TxPath -------------------------------
(***************************************************************************)
(* The transmit path: the audio thread of src/main.c with the pure tick    *)
(* functions of src/kerchunk_audio_tick.c, on top of the outbound queue    *)
(* and the PTT arbiter.                                                    *)
(*                                                                         *)
(* Every 20 ms the thread relays one received frame (RxTick), then makes   *)
(* up to three transmit passes.  A pass samples carrier, PTT, queue and    *)
(* playback ring and computes a list of actions (TxPass); the shell then   *)
(* carries the actions out one by one (TxAct).  Producers, the main loop   *)
(* and the sound card run between any two of these steps, so an action is  *)
(* carried out on a state the pass has not seen.                           *)
(*                                                                         *)
(* Samples are counted in frames.  DTMF decoding, taps and scramblers do   *)
(* not touch this state and are left out; so is the catch-up burst, which  *)
(* is only taken while nothing is transmitted.                             *)
(***************************************************************************)
EXTENDS Queue, Ptt

CONSTANTS
  TxDelay,          \* tx_delay, in frames
  TxTail,           \* tx_tail
  RelayDrain,       \* relay_drain
  RingFrames,       \* capacity of the playback ring
  ActionsMax        \* KERCHUNK_TX_ACTIONS_MAX

ASSUME TxAssumption ==
  /\ TxDelay \in Nat /\ TxTail \in Nat /\ RelayDrain \in Nat
  /\ RingFrames \in Nat \ {0} /\ ActionsMax \in Nat \ {0, 1}
  /\ {"queue", "repeater"} \subseteq Holders

VARIABLES
  software_relay,   \* configuration, fixed while the daemon runs
  cor,              \* is_receiving(), written by the main loop
  unkeyed,          \* the main loop has read PTT as free in this iteration
  ring,             \* frames pending in the playback ring
  a,                \* g_audio_state
  pc,               \* the audio thread: "rx", "pass" or "act"
  pass,             \* tx_pass
  acts,             \* actions of this pass still to be carried out
  rerun             \* rerun_this_tick

audioVars == <<ring, a, pc, pass, acts, rerun>>
txVars    == <<software_relay, cor, unkeyed, audioVars, queueVars, pttVars>>

ActionKinds == {"ASSERT_PTT", "SILENCE", "FIRE_DRAIN", "DRAIN",
                "FIRE_COMPLETE", "RELEASE_PTT"}
Least(m, n) == IF m <= n THEN m ELSE n

TxInit ==
  /\ kerchunk_queue_init /\ PttInit
  /\ software_relay \in BOOLEAN /\ cor = FALSE /\ unkeyed = FALSE /\ ring = 0
  /\ a = [relay_drain |-> 0, relay_was_active |-> FALSE,
          queue_ptt |-> FALSE, queue_fired_drain |-> FALSE,
          tx_delay_rem |-> 0, tx_tail_rem |-> -1, ptt_hold_ticks |-> 0]
  /\ pc = "rx" /\ pass = 0 /\ acts = <<>> /\ rerun = FALSE
-----------------------------------------------------------------------------
(* The receive sub-tick: relay one frame, count the relay drain down. *)

\* quiet: the frame is below the noise floor, which ends the drain early.
kerchunk_audio_tick_rx(quiet) ==
  LET drain    == IF software_relay /\ a.relay_was_active /\ ~cor
                    THEN RelayDrain ELSE a.relay_drain
      do_relay == /\ software_relay /\ g_ptt_active /\ ~a.queue_ptt
                  /\ cor \/ drain > 0
      writes   == do_relay /\ ring < RingFrames
  IN  /\ a' = [a EXCEPT !.relay_was_active = cor,
                 !.relay_drain = IF writes /\ ~cor /\ drain > 0
                                   THEN IF quiet THEN 0 ELSE drain - 1
                                   ELSE drain]
      /\ ring' = IF writes THEN ring + 1 ELSE ring

RxTick == /\ pc = "rx"
          /\ \E quiet \in BOOLEAN : kerchunk_audio_tick_rx(quiet)
          /\ pc' = "pass" /\ pass' = 0
          /\ UNCHANGED <<acts, rerun, software_relay, cor, unkeyed, queueVars, pttVars>>
-----------------------------------------------------------------------------
(* The transmit sub-tick.  Each operator is one numbered block of          *)
(* kerchunk_audio_tick_tx: from [s, acts, rerun] so far to the next.       *)

Silence(n) == [i \in 1..n |-> "SILENCE"]
Room(o)    == ActionsMax - Len(o.acts)
\* push_action drops what exceeds the list.
Push(o, more) == SubSeq(o.acts \o more, 1, Least(ActionsMax, Len(o.acts \o more)))

Paused == ~a.queue_ptt /\ (cor \/ a.relay_drain > 0)

AssertPtt ==
  IF ~Paused /\ ~a.queue_ptt /\ HasWork
    THEN [s |-> [a EXCEPT !.queue_ptt = TRUE, !.queue_fired_drain = FALSE,
                   !.tx_delay_rem = IF g_ptt_active THEN 0 ELSE TxDelay,
                   !.tx_tail_rem = -1],
          acts |-> <<"ASSERT_PTT">>, rerun |-> FALSE]
    ELSE [s |-> a, acts |-> <<>>, rerun |-> FALSE]

\* Frames of delay or tail silence that fit in the ring, counting the
\* silence this pass has already put there, and in the list.
Fits(o, rem) ==
  LET pushed == Cardinality({i \in 1..Len(o.acts) : o.acts[i] = "SILENCE"})
  IN  Least(Least(rem, RingFrames - ring - pushed), Room(o))

DelaySilence(o) ==
  LET n == IF ~Paused /\ o.s.queue_ptt /\ o.s.tx_delay_rem > 0
             THEN Fits(o, o.s.tx_delay_rem) ELSE 0
  IN  [o EXCEPT !.s.tx_delay_rem = @ - n, !.acts = Push(o, Silence(n))]

Draining(o) == /\ ~Paused /\ o.s.queue_ptt /\ o.s.tx_delay_rem <= 0
               /\ HasWork /\ Room(o) > 0

DrainFrame(o) ==
  IF Draining(o)
    THEN [o EXCEPT !.s.queue_fired_drain = TRUE,
           !.acts = Push(o, IF o.s.queue_fired_drain THEN <<"DRAIN">>
                            ELSE <<"FIRE_DRAIN", "DRAIN">>)]
    ELSE o

\* Mutant: every tick starts the hold again.
HoldTicks_Restarts(o) == IF o.s.tx_tail_rem <= 0 /\ ring = 0 THEN 1 ELSE 0

HoldTicks(o) ==
  IF o.s.tx_tail_rem <= 0 /\ ring = 0 THEN o.s.ptt_hold_ticks + 1 ELSE 0

Released(o) ==
  [o EXCEPT !.s.queue_ptt = FALSE, !.s.tx_tail_rem = -1,
            !.s.ptt_hold_ticks = 0, !.acts = Push(o, <<"RELEASE_PTT">>)]

\* Pass A fires QUEUE_COMPLETE and returns, so that what its subscribers
\* queue is seen first; otherwise feed the tail, hold three ticks with an
\* empty ring, release.
TailAndRelease(o) ==
  IF o.s.tx_tail_rem < 0 /\ o.s.queue_fired_drain
    THEN [s |-> [o.s EXCEPT !.tx_tail_rem = TxTail, !.queue_fired_drain = FALSE],
          acts |-> Push(o, <<"FIRE_COMPLETE">>), rerun |-> TRUE]
    ELSE LET rem == IF o.s.tx_tail_rem < 0 THEN TxTail ELSE o.s.tx_tail_rem
             n   == Fits(o, rem)
             fed == [o EXCEPT !.s.tx_tail_rem = rem - n,
                              !.acts = Push(o, Silence(n))]
         IN  IF HoldTicks(fed) >= 3 /\ Room(fed) > 0
               THEN Released(fed)
               ELSE [fed EXCEPT !.s.ptt_hold_ticks = HoldTicks(fed)]

AtEnd(o) == /\ ~Paused /\ ~Draining(o) /\ o.s.queue_ptt
            /\ o.s.tx_delay_rem <= 0 /\ ~HasWork

\* New items while the tail runs: forget this pass and run another.
TailCancel(o) ==
  IF ~Paused /\ o.s.queue_ptt /\ o.s.tx_tail_rem > 0 /\ g_count > 0
    THEN [s |-> [o.s EXCEPT !.tx_tail_rem = -1, !.queue_fired_drain = TRUE,
                            !.ptt_hold_ticks = 0],
          acts |-> <<>>, rerun |-> TRUE]
    ELSE o

\* The values of the steps are bound so that TLC evaluates each once.
kerchunk_audio_tick_tx ==
  \E keyed \in {DelaySilence(AssertPtt)} :
    \E fed \in {DrainFrame(keyed)} :
      \E out \in {IF AtEnd(keyed) THEN TailAndRelease(fed) ELSE TailCancel(fed)} :
        a' = out.s /\ acts' = out.acts /\ rerun' = out.rerun

TxPass == /\ pc = "pass"
          /\ kerchunk_audio_tick_tx
          /\ pc' = "act"
          /\ UNCHANGED <<pass, ring, software_relay, cor, unkeyed, queueVars, pttVars>>
-----------------------------------------------------------------------------
(* The shell carries out one action.  An event is delivered synchronously; *)
(* what its subscribers queue is an Add before the next step.              *)

Played == ring' = Least(ring + 1, RingFrames)

DoAssert  == core_request_ptt("queue") /\ UNCHANGED <<ring, queueVars>>
DoRelease == core_release_ptt("queue") /\ UNCHANGED <<ring, queueVars>>
DoSilence == Played /\ UNCHANGED <<queueVars, pttVars>>
DoEvent   == UNCHANGED <<ring, queueVars, pttVars>>
\* A preempted queue yields nothing, and nothing is written.
DoDrain   == /\ kerchunk_queue_drain
             /\ IF g_gap \/ MidItem \/ EmptyRun < Len(g_queue)
                  THEN Played ELSE ring' = ring
             /\ UNCHANGED <<tagging, polled, up, pttVars>>

TxAct ==
  /\ pc = "act" /\ acts # <<>>
  /\ CASE Head(acts) = "ASSERT_PTT"  -> DoAssert
       [] Head(acts) = "RELEASE_PTT" -> DoRelease
       [] Head(acts) = "SILENCE"     -> DoSilence
       [] Head(acts) = "DRAIN"       -> DoDrain
       [] OTHER                      -> DoEvent
  /\ acts' = Tail(acts)
  /\ UNCHANGED <<a, pc, pass, rerun, software_relay, cor, unkeyed>>

\* Another pass of this tick, at most three in all, or the next tick.
TxPassEnds ==
  /\ pc = "act" /\ acts = <<>>
  /\ IF rerun /\ pass < 2 THEN pc' = "pass" /\ pass' = pass + 1
                          ELSE pc' = "rx" /\ pass' = 0
  /\ rerun' = FALSE
  /\ UNCHANGED <<acts, a, ring, software_relay, cor, unkeyed, queueVars, pttVars>>

AudioThread == RxTick \/ TxPass \/ TxAct \/ TxPassEnds
-----------------------------------------------------------------------------
(* The rest of the daemon. *)

Producer == /\ \E t \in Threads : Add(t)
            /\ UNCHANGED <<software_relay, cor, unkeyed, audioVars, pttVars>>

Operator == /\ Flush
            /\ UNCHANGED <<software_relay, cor, unkeyed, audioVars, pttVars>>

\* One iteration of the main loop: it reads PTT, and only if that is free
\* may the carrier detector begin a session (Node); the transmitter may be
\* keyed between the two.
MainReadsPtt == /\ ~unkeyed /\ ~cor /\ ~g_ptt_active /\ unkeyed' = TRUE
                /\ UNCHANGED <<software_relay, cor, audioVars, queueVars, pttVars>>

NoCarrier == /\ unkeyed /\ unkeyed' = FALSE
             /\ UNCHANGED <<software_relay, cor, audioVars, queueVars, pttVars>>

CorBegin == /\ unkeyed /\ unkeyed' = FALSE
            /\ ~cor /\ cor' = TRUE
            /\ IF HasWork
                 THEN kerchunk_queue_preempt /\ UNCHANGED <<tagging, polled, up>>
                 ELSE UNCHANGED queueVars
            /\ UNCHANGED <<software_relay, audioVars, pttVars>>

CorEnd == /\ cor /\ cor' = FALSE
          /\ UNCHANGED <<software_relay, unkeyed, audioVars, queueVars, pttVars>>

\* Another holder: the repeater keys during a session and unkeys after it.
RepeaterKeys   == /\ cor /\ "repeater" \notin held
                  /\ core_request_ptt("repeater")
                  /\ UNCHANGED <<software_relay, cor, unkeyed, audioVars, queueVars>>
RepeaterUnkeys == /\ ~cor /\ "repeater" \in held
                  /\ core_release_ptt("repeater")
                  /\ UNCHANGED <<software_relay, cor, unkeyed, audioVars, queueVars>>

\* The sound card's callback takes a frame.
PlaybackCallback == /\ ring > 0 /\ ring' = ring - 1
                    /\ UNCHANGED <<software_relay, cor, unkeyed, a, pc, pass, acts,
                                   rerun, queueVars, pttVars>>

TxNext == \/ AudioThread \/ Producer \/ Operator
          \/ MainReadsPtt \/ NoCarrier \/ CorBegin \/ CorEnd \/ RepeaterKeys \/ RepeaterUnkeys
          \/ PlaybackCallback

TxSpec == TxInit /\ [][TxNext]_txVars

\* The audio thread runs every 20 ms, the sound card consumes as long as it
\* is open, and a person does not hold the key for ever.
TxFairSpec == /\ TxSpec
              /\ WF_txVars(AudioThread) /\ WF_txVars(PlaybackCallback)
              /\ WF_txVars(CorEnd)
-----------------------------------------------------------------------------
(* Properties. *)

AudioStates ==
  [relay_drain : 0..RelayDrain, relay_was_active : BOOLEAN,
   queue_ptt : BOOLEAN, queue_fired_drain : BOOLEAN,
   tx_delay_rem : 0..TxDelay, tx_tail_rem : -1..TxTail, ptt_hold_ticks : 0..2]

\* The countdowns of g_audio_state stay within their configured spans, the
\* action list within its array and the ring within its capacity.
TxTypeOK ==
  /\ QueueTypeOK /\ PttTypeOK
  /\ software_relay \in BOOLEAN /\ cor \in BOOLEAN /\ unkeyed \in BOOLEAN
  /\ ring \in 0..RingFrames
  /\ a \in AudioStates
  /\ pc \in {"rx", "pass", "act"} /\ pass \in 0..2 /\ rerun \in BOOLEAN
  /\ acts \in Seq(ActionKinds) /\ Len(acts) <= ActionsMax

Pending(k) == \E i \in 1..Len(acts) : acts[i] = k

\* queue_ptt is the queue's reference on the transmitter: it differs only
\* while the shell still has to carry out the ASSERT or the RELEASE.
QueueRefExact ==
  ("queue" \in held) <=> \/ a.queue_ptt /\ ~Pending("ASSERT_PTT")
                         \/ Pending("RELEASE_PTT")

\* While an item is being played the queue holds the transmitter, through
\* gaps, tail cancels, preempts and races with producers.
PlayingIsKeyed == g_draining => "queue" \in held

\* Without software relay every frame in the playback ring is the queue's
\* own: PTT is never dropped while the sound card still has audio to play.
AudioIsKeyed == ~software_relay /\ ring > 0 => g_ptt_active

\* The queue's claim on the transmitter is exact, lasts as long as there is
\* anything to send, and the tick never overruns its list of actions.
TransmitterIsKeyed == TxTypeOK /\ QueueRefExact /\ PlayingIsKeyed /\ AudioIsKeyed

\* The abstract transmitter, seen through the radio's PTT line.
T == INSTANCE Transmitter WITH holding <- held, keyed <- pin

\* The audio thread's claim and the repeater's, taken on either side of one
\* another, implement the abstract transmitter: the shell never asserts what
\* the queue holds and never releases what it does not, on whatever state the
\* list of actions is carried out (audio_thread_fn).
QueueImplementsTransmitter == T!Spec

\* The queue gives the transmitter back: no sequence of tail, cancel, hold
\* and preempt keeps the radio keyed for ever.
QueueReleases == a.queue_ptt ~> ~a.queue_ptt

\* With the radio's own relay, what is queued is played or discarded, also
\* when carriers come and go meanwhile.
QueueEmpties == (~software_relay /\ g_count > 0) ~> (g_count = 0)

\* Neither the queue waits for ever nor the radio for the queue.
QueueIsServed == QueueReleases /\ QueueEmpties

\* What the header states of the tick: QUEUE_COMPLETE is fired at the start
\* of the tail, so no transmission that fired QUEUE_DRAIN ends without it.
CompleteBeforeRelease == ~a.queue_ptt => ~a.queue_fired_drain

\* What insert_item's comment states: while the queue is idle (its PTT given
\* back and the tick over), items are kept in priority order.
IdleQueueSorted == pc = "rx" /\ "queue" \notin held => SortedQueue
=============================================================================
