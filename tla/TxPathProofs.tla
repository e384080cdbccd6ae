---------------------------- MODULE TxPathProofs ----------------------------
(***************************************************************************)
(* For any delays, ring, list of actions, queue and set of PTT holders:    *)
(* the transmit tick keeps the queue's claim on the transmitter exact.     *)
(*                                                                         *)
(* TxInv joins the invariants of the queue and of the arbiter to Claim,    *)
(* which says what the shell's list of actions may look like while it is   *)
(* carried out on a state the pass has not seen: ASSERT first, RELEASE     *)
(* alone and only when nothing is left to play, sound only behind a claim. *)
(***************************************************************************)
EXTENDS TxPath, QueueProofs, PttLemmas

\* The hold is counted when delay and tail are over.
HoldAfterTail(s) ==
  s.ptt_hold_ticks > 0 => s.queue_ptt /\ s.tx_delay_rem = 0 /\ s.tx_tail_rem = 0

\* Where an action may stand in the list: ASSERT first, RELEASE alone, and
\* sound only for a queue that has claimed the transmitter.
Placed(s, list) ==
  \A i \in 1..Len(list) :
    /\ list[i] = "ASSERT_PTT" => i = 1 /\ s.queue_ptt
    /\ list[i] \in {"SILENCE", "DRAIN"} => s.queue_ptt
    /\ list[i] = "RELEASE_PTT" => Len(list) = 1 /\ ~s.queue_ptt

In(k, list) == \E i \in 1..Len(list) : list[i] = k

\* The list brings the reference from what `was` claimed to what s claims.
Exact(was, s, list) ==
  was <=> \/ s.queue_ptt /\ ~In("ASSERT_PTT", list)
          \/ In("RELEASE_PTT", list)

\* What a release relies on: nothing plays and nothing is left in the ring
\* but relayed audio.
ReleaseIsSafe ==
  Pending("RELEASE_PTT") => ~g_draining /\ (~software_relay => ring = 0)

\* Without software relay the ring is filled by the queue alone.
RingIsQueues == ~software_relay /\ ring > 0 => "queue" \in held

AudioTypes ==
  /\ software_relay \in BOOLEAN /\ cor \in BOOLEAN /\ unkeyed \in BOOLEAN
  /\ ring \in 0..RingFrames
  /\ a \in AudioStates
  /\ pc \in {"rx", "pass", "act"} /\ pass \in 0..2 /\ rerun \in BOOLEAN
  /\ acts \in Seq(ActionKinds) /\ Len(acts) <= ActionsMax

PttCounts == PttTypeOK /\ CountIsHolders /\ ActiveIffHeld

Claim == /\ pc # "act" => acts = <<>>
         /\ HoldAfterTail(a) /\ Placed(a, acts) /\ ReleaseIsSafe
         /\ Exact("queue" \in held, a, acts)
         /\ PlayingIsKeyed /\ RingIsQueues

-----------------------------------------------------------------------------
(* Lists of actions. *)

Outs == [s : AudioStates, acts : Seq(ActionKinds), rerun : BOOLEAN]

\* Silence is a list of silences.
LEMMA SilenceIs ==
  ASSUME NEW n \in Nat
  PROVE  /\ Silence(n) \in Seq(ActionKinds) /\ Len(Silence(n)) = n
         /\ \A i \in 1..n : Silence(n)[i] = "SILENCE"
<1>1. Silence(n) \in [1..n -> ActionKinds]
  BY DEF Silence, ActionKinds
<1>2. Silence(n) \in Seq(ActionKinds)
  BY <1>1, FcnIsSeq
<1>3. Len(Silence(n)) = n
  BY <1>1, <1>2, LenProperties
<1> QED BY <1>2, <1>3 DEF Silence

\* A push keeps what is there, puts the new actions behind it and drops what
\* exceeds the list.
LEMMA PushIs ==
  ASSUME NEW o \in Outs, NEW more \in Seq(ActionKinds), Len(o.acts) <= ActionsMax
  PROVE  /\ Push(o, more) \in Seq(ActionKinds)
         /\ Len(Push(o, more)) = Least(ActionsMax, Len(o.acts) + Len(more))
         /\ \A i \in 1..Len(Push(o, more)) :
              Push(o, more)[i] = IF i <= Len(o.acts) THEN o.acts[i]
                                 ELSE more[i - Len(o.acts)]
<1> DEFINE both == o.acts \o more
           n == Least(ActionsMax, Len(both))
<1>1. o.acts \in Seq(ActionKinds)
  BY DEF Outs
<1>2. /\ both \in Seq(ActionKinds) /\ Len(both) = Len(o.acts) + Len(more)
      /\ \A i \in 1..Len(both) : both[i] = IF i <= Len(o.acts) THEN o.acts[i]
                                           ELSE more[i - Len(o.acts)]
  BY <1>1, ConcatProperties
<1>3. Len(o.acts) \in Nat /\ Len(more) \in Nat /\ ActionsMax \in Nat
  BY <1>1, TxAssumption, LenProperties
<1>4. n \in 0..Len(both)
  BY <1>2, <1>3 DEF Least
<1>5. /\ SubSeq(both, 1, n) \in Seq(ActionKinds)
      /\ Len(SubSeq(both, 1, n)) = n
      /\ \A i \in 1..n : SubSeq(both, 1, n)[i] = both[i]
  BY <1>2, <1>4, SubSeqProperties
<1>6. Push(o, more) = SubSeq(both, 1, n)
  BY DEF Push
<1>7. n = Least(ActionsMax, Len(o.acts) + Len(more))
  BY <1>2
<1>8. n <= Len(both)
  BY <1>2, <1>3 DEF Least
<1> HIDE DEF n, both
<1> QED
  <2>1. \A i \in 1..n : i \in 1..Len(both)
    BY <1>8, <1>4, <1>2, <1>3
  <2> QED BY <1>2, <1>5, <1>6, <1>7, <2>1

\* The same for silence: how long the list gets and what is new in it.
LEMMA PushSilenceIs ==
  ASSUME NEW o \in Outs, NEW n \in Nat, Len(o.acts) + n <= ActionsMax
  PROVE  LET new == Push(o, Silence(n))
         IN  /\ new \in Seq(ActionKinds)
             /\ Len(new) = Len(o.acts) + n
             /\ \A i \in 1..Len(new) :
                  new[i] = IF i <= Len(o.acts) THEN o.acts[i] ELSE "SILENCE"
<1> DEFINE new == Push(o, Silence(n))
<1>1. Silence(n) \in Seq(ActionKinds) /\ Len(Silence(n)) = n
  BY SilenceIs
<1>2. o.acts \in Seq(ActionKinds) /\ Len(o.acts) \in Nat /\ ActionsMax \in Nat
  <2>1. o.acts \in Seq(ActionKinds)
    BY DEF Outs
  <2> QED BY <2>1, TxAssumption, LenProperties
<1>3. Least(ActionsMax, Len(o.acts) + n) = Len(o.acts) + n
  BY <1>2 DEF Least
<1>4. Len(o.acts) <= ActionsMax
  BY <1>2
<1>5. /\ new \in Seq(ActionKinds) /\ Len(new) = Len(o.acts) + n
      /\ \A i \in 1..Len(new) : new[i] = IF i <= Len(o.acts) THEN o.acts[i]
                                         ELSE Silence(n)[i - Len(o.acts)]
  BY <1>1, <1>3, <1>4, PushIs
<1> HIDE DEF new
<1>6. ASSUME NEW i \in 1..Len(new), ~(i <= Len(o.acts))
      PROVE  Silence(n)[i - Len(o.acts)] = "SILENCE"
  <2>1. i - Len(o.acts) \in 1..n
    BY <1>2, <1>5, <1>6
  <2> QED BY <2>1, SilenceIs
<1>7. \A i \in 1..Len(new) :
        new[i] = IF i <= Len(o.acts) THEN o.acts[i] ELSE "SILENCE"
  BY <1>5, <1>6
<1> QED BY <1>5, <1>7 DEF new

\* A single action, or the pair that begins a drain, when it fits.
LEMMA PushOneIs ==
  ASSUME NEW o \in Outs, NEW k \in ActionKinds, Len(o.acts) < ActionsMax
  PROVE  /\ Push(o, <<k>>) \in Seq(ActionKinds)
         /\ Len(Push(o, <<k>>)) = Len(o.acts) + 1
         /\ \A i \in 1..Len(Push(o, <<k>>)) :
              Push(o, <<k>>)[i] = IF i <= Len(o.acts) THEN o.acts[i] ELSE k
<1>1. <<k>> \in Seq(ActionKinds) /\ Len(<<k>>) = 1 /\ <<k>>[1] = k
  OBVIOUS
<1>2. o.acts \in Seq(ActionKinds) /\ Len(o.acts) \in Nat /\ ActionsMax \in Nat
  <2>1. o.acts \in Seq(ActionKinds)
    BY DEF Outs
  <2> QED BY <2>1, TxAssumption, LenProperties
<1>3. Least(ActionsMax, Len(o.acts) + 1) = Len(o.acts) + 1
  BY <1>2 DEF Least
<1>4. Len(o.acts) <= ActionsMax
  BY <1>2
<1>5. /\ Push(o, <<k>>) \in Seq(ActionKinds) /\ Len(Push(o, <<k>>)) = Len(o.acts) + 1
      /\ \A i \in 1..Len(Push(o, <<k>>)) :
           Push(o, <<k>>)[i] = IF i <= Len(o.acts) THEN o.acts[i]
                               ELSE <<k>>[i - Len(o.acts)]
  BY <1>1, <1>3, <1>4, PushIs
<1>6. ASSUME NEW i \in 1..Len(Push(o, <<k>>)), ~(i <= Len(o.acts))
      PROVE  i - Len(o.acts) = 1
  BY <1>2, <1>5, <1>6
<1> QED BY <1>1, <1>5, <1>6

LEMMA PushDrainIs ==
  ASSUME NEW o \in Outs, NEW more \in {<<"DRAIN">>, <<"FIRE_DRAIN", "DRAIN">>},
         Len(o.acts) <= ActionsMax
  PROVE  /\ Push(o, more) \in Seq(ActionKinds)
         /\ Len(Push(o, more)) >= Len(o.acts) /\ Len(Push(o, more)) <= ActionsMax
         /\ \A i \in 1..Len(Push(o, more)) :
              \/ i <= Len(o.acts) /\ Push(o, more)[i] = o.acts[i]
              \/ i > Len(o.acts) /\ Push(o, more)[i] \in {"FIRE_DRAIN", "DRAIN"}
<1>1. /\ more \in Seq(ActionKinds) /\ Len(more) \in {1, 2}
      /\ \A j \in 1..Len(more) : more[j] \in {"FIRE_DRAIN", "DRAIN"}
  <2>1. CASE more = <<"DRAIN">>
    BY <2>1 DEF ActionKinds
  <2>2. CASE more = <<"FIRE_DRAIN", "DRAIN">>
    BY <2>2 DEF ActionKinds
  <2> QED BY <2>1, <2>2
<1>2. o.acts \in Seq(ActionKinds) /\ Len(o.acts) \in Nat /\ ActionsMax \in Nat
  <2>1. o.acts \in Seq(ActionKinds)
    BY DEF Outs
  <2> QED BY <2>1, TxAssumption, LenProperties
<1>3. /\ Push(o, more) \in Seq(ActionKinds)
      /\ Len(Push(o, more)) = Least(ActionsMax, Len(o.acts) + Len(more))
      /\ \A i \in 1..Len(Push(o, more)) :
           Push(o, more)[i] = IF i <= Len(o.acts) THEN o.acts[i]
                              ELSE more[i - Len(o.acts)]
  BY <1>1, PushIs
<1>4. /\ Len(Push(o, more)) \in Len(o.acts)..ActionsMax
      /\ Len(Push(o, more)) <= Len(o.acts) + Len(more)
  BY <1>1, <1>2, <1>3 DEF Least
<1>5. ASSUME NEW i \in 1..Len(Push(o, more)), ~(i <= Len(o.acts))
      PROVE  i - Len(o.acts) \in 1..Len(more)
  BY <1>1, <1>2, <1>4, <1>5
<1>6. ASSUME NEW i \in 1..Len(Push(o, more))
      PROVE  \/ i <= Len(o.acts) /\ Push(o, more)[i] = o.acts[i]
             \/ i > Len(o.acts) /\ Push(o, more)[i] \in {"FIRE_DRAIN", "DRAIN"}
  <2>1. CASE i <= Len(o.acts)
    BY <1>3, <2>1
  <2>2. CASE ~(i <= Len(o.acts))
    <3>1. Push(o, more)[i] = more[i - Len(o.acts)]
      BY <1>3, <2>2
    <3>2. i - Len(o.acts) \in 1..Len(more)
      BY <1>5, <2>2
    <3> QED BY <1>1, <1>2, <2>2, <3>1, <3>2
  <2> QED BY <2>1, <2>2
<1> QED BY <1>2, <1>3, <1>4, <1>6

\* What fits is a number between nothing and what is asked for, whenever the
\* silence of this pass is not more than the ring had room for.
LEMMA FitsIs ==
  ASSUME NEW o, NEW rem \in Nat, Len(o.acts) \in 0..ActionsMax,
         NEW pushed \in Nat,
         pushed = Cardinality({i \in 1..Len(o.acts) : o.acts[i] = "SILENCE"}),
         ring \in 0..RingFrames, ring + pushed <= RingFrames
  PROVE  /\ Fits(o, rem) \in 0..rem
         /\ Fits(o, rem) <= ActionsMax - Len(o.acts)
         /\ ring + pushed + Fits(o, rem) <= RingFrames
<1>1. ActionsMax \in Nat /\ RingFrames \in Nat /\ ring \in Nat /\ Len(o.acts) \in Nat
  BY TxAssumption
<1>2. Fits(o, rem) = Least(Least(rem, RingFrames - ring - pushed), ActionsMax - Len(o.acts))
  BY DEF Fits, Room
<1> QED BY <1>1, <1>2 DEF Least
-----------------------------------------------------------------------------
(* One pass, block by block. *)

\* PTT is claimed for work when nothing pauses the queue, and the claim is
\* then the first action.
LEMMA AssertIs ==
  ASSUME a \in AudioStates, HoldAfterTail(a)
  PROVE  LET o == AssertPtt
         IN  /\ o \in Outs /\ HoldAfterTail(o.s)
             /\ \/ /\ ~a.queue_ptt /\ o.s.queue_ptt /\ HasWork
                   /\ o.s.tx_tail_rem = -1 /\ o.acts = <<"ASSERT_PTT">>
                \/ o.s = a /\ o.acts = <<>>
<1>1. CASE ~Paused /\ ~a.queue_ptt /\ HasWork
  <2> DEFINE s == [a EXCEPT !.queue_ptt = TRUE, !.queue_fired_drain = FALSE,
                     !.tx_delay_rem = IF g_ptt_active THEN 0 ELSE TxDelay,
                     !.tx_tail_rem = -1]
  <2>1. (IF g_ptt_active THEN 0 ELSE TxDelay) \in 0..TxDelay /\ -1 \in -1..TxTail
    BY TxAssumption
  <2>2. s \in AudioStates /\ s.queue_ptt = TRUE /\ s.tx_tail_rem = -1
        /\ s.ptt_hold_ticks = a.ptt_hold_ticks
    BY <2>1 DEF AudioStates
  <2>3. a.ptt_hold_ticks = 0
    BY <1>1 DEF AudioStates, HoldAfterTail
  <2>4. AssertPtt = [s |-> s, acts |-> <<"ASSERT_PTT">>, rerun |-> FALSE]
    BY <1>1 DEF AssertPtt
  <2>5. <<"ASSERT_PTT">> \in Seq(ActionKinds)
    BY DEF ActionKinds
  <2> HIDE DEF s
  <2> QED BY <1>1, <2>2, <2>3, <2>4, <2>5 DEF Outs, HoldAfterTail
<1>2. CASE ~(~Paused /\ ~a.queue_ptt /\ HasWork)
  BY <1>2 DEF AssertPtt, Outs
<1> QED BY <1>1, <1>2

\* Delay silence comes behind the claim and not in a queue that counts its
\* hold; the ring has room for it.
LEMMA DelayIs ==
  ASSUME NEW o \in Outs, HoldAfterTail(o.s), ring \in 0..RingFrames,
         Len(o.acts) \in 0..1, \A i \in 1..Len(o.acts) : o.acts[i] # "SILENCE"
  PROVE  LET d == DelaySilence(o)
         IN  /\ d \in Outs /\ HoldAfterTail(d.s)
             /\ d.s.queue_ptt = o.s.queue_ptt /\ d.s.tx_tail_rem = o.s.tx_tail_rem
             /\ d.s.ptt_hold_ticks = o.s.ptt_hold_ticks
             /\ Len(d.acts) \in Len(o.acts)..ActionsMax
             /\ ring + (Len(d.acts) - Len(o.acts)) <= RingFrames
             /\ \A i \in 1..Len(d.acts) :
                  d.acts[i] = IF i <= Len(o.acts) THEN o.acts[i] ELSE "SILENCE"
             /\ Len(d.acts) > Len(o.acts) => o.s.queue_ptt /\ o.s.ptt_hold_ticks = 0
<1> DEFINE delays == ~Paused /\ o.s.queue_ptt /\ o.s.tx_delay_rem > 0
           n == IF delays THEN Fits(o, o.s.tx_delay_rem) ELSE 0
           none == {i \in 1..Len(o.acts) : o.acts[i] = "SILENCE"}
<1>0. /\ o.s \in AudioStates /\ o.acts \in Seq(ActionKinds)
      /\ o.s.tx_delay_rem \in 0..TxDelay /\ o.s.ptt_hold_ticks \in 0..2
  BY DEF Outs, AudioStates
<1>1. ActionsMax \in Nat /\ ActionsMax > 1 /\ RingFrames \in Nat /\ TxDelay \in Nat
  BY TxAssumption
<1>2. none = {}
  OBVIOUS
<1>3. Cardinality(none) = 0
  BY <1>2, FS_EmptySet
<1>4. /\ n \in 0..o.s.tx_delay_rem /\ n <= ActionsMax - Len(o.acts)
      /\ ring + n <= RingFrames
  <2>1. CASE delays
    <3>1. /\ Fits(o, o.s.tx_delay_rem) \in 0..o.s.tx_delay_rem
          /\ Fits(o, o.s.tx_delay_rem) <= ActionsMax - Len(o.acts)
          /\ ring + 0 + Fits(o, o.s.tx_delay_rem) <= RingFrames
      BY <1>0, <1>1, <1>3, FitsIs
    <3>2. n = Fits(o, o.s.tx_delay_rem)
      BY <2>1
    <3> HIDE DEF n
    <3> QED BY <1>0, <1>1, <3>1, <3>2
  <2>2. CASE ~delays
    <3>1. n = 0
      BY <2>2
    <3> HIDE DEF n
    <3> QED BY <1>0, <1>1, <3>1
  <2> QED BY <2>1, <2>2
<1>5. n \in Nat /\ Len(o.acts) + n <= ActionsMax
  BY <1>0, <1>1, <1>4
<1>6. n > 0 => o.s.queue_ptt /\ o.s.ptt_hold_ticks = 0
  BY <1>0, <1>1 DEF HoldAfterTail
<1>7. DelaySilence(o) = [o EXCEPT !.s.tx_delay_rem = @ - n, !.acts = Push(o, Silence(n))]
  BY DEF DelaySilence
<1> HIDE DEF n, delays, none
<1> DEFINE new == Push(o, Silence(n))
           s == [o.s EXCEPT !.tx_delay_rem = @ - n]
<1>8. /\ new \in Seq(ActionKinds) /\ Len(new) = Len(o.acts) + n
      /\ \A i \in 1..Len(new) : new[i] = IF i <= Len(o.acts) THEN o.acts[i] ELSE "SILENCE"
  BY <1>5, PushSilenceIs
<1> HIDE DEF new
<1>9. /\ s \in AudioStates /\ s.queue_ptt = o.s.queue_ptt
      /\ s.tx_tail_rem = o.s.tx_tail_rem /\ s.ptt_hold_ticks = o.s.ptt_hold_ticks
      /\ s.tx_delay_rem = o.s.tx_delay_rem - n
  <2>1. o.s.tx_delay_rem - n \in 0..TxDelay
    BY <1>0, <1>1, <1>4
  <2> QED BY <1>0, <2>1 DEF AudioStates
<1> HIDE DEF s
<1>10. DelaySilence(o) = [s |-> s, acts |-> new, rerun |-> o.rerun]
  BY <1>7 DEF Outs, s, new
<1>11. HoldAfterTail(s)
  BY <1>0, <1>1, <1>4, <1>9 DEF HoldAfterTail
<1>12. DelaySilence(o) \in Outs
  BY <1>8, <1>9, <1>10 DEF Outs
<1>13. /\ Len(new) \in Len(o.acts)..ActionsMax
       /\ ring + (Len(new) - Len(o.acts)) <= RingFrames
       /\ Len(new) > Len(o.acts) => n > 0
  BY <1>1, <1>4, <1>5, <1>8
<1>14. DelaySilence(o).s = s /\ DelaySilence(o).acts = new
  BY <1>10
<1> QED BY <1>6, <1>8, <1>9, <1>11, <1>12, <1>13, <1>14

\* A drain is added for work only, and by a queue that has claimed PTT.
LEMMA DrainIs ==
  ASSUME NEW o \in Outs, HoldAfterTail(o.s), Len(o.acts) <= ActionsMax
  PROVE  LET d == DrainFrame(o)
         IN  /\ d \in Outs /\ HoldAfterTail(d.s)
             /\ d.s.queue_ptt = o.s.queue_ptt /\ d.s.tx_tail_rem = o.s.tx_tail_rem
             /\ ~HasWork => d = o
             /\ Len(d.acts) >= Len(o.acts) /\ Len(d.acts) <= ActionsMax
             /\ \A i \in 1..Len(d.acts) :
                  \/ i <= Len(o.acts) /\ d.acts[i] = o.acts[i]
                  \/ /\ i > Len(o.acts) /\ o.s.queue_ptt
                     /\ d.acts[i] \in {"FIRE_DRAIN", "DRAIN"}
<1>0. o.s \in AudioStates /\ o.acts \in Seq(ActionKinds) /\ Len(o.acts) \in Nat
  <2>1. o.s \in AudioStates /\ o.acts \in Seq(ActionKinds)
    BY DEF Outs
  <2> QED BY <2>1, LenProperties
<1>1. CASE Draining(o)
  <2> DEFINE more == IF o.s.queue_fired_drain THEN <<"DRAIN">> ELSE <<"FIRE_DRAIN", "DRAIN">>
             new == Push(o, more)
             s == [o.s EXCEPT !.queue_fired_drain = TRUE]
  <2>1. more \in {<<"DRAIN">>, <<"FIRE_DRAIN", "DRAIN">>}
    OBVIOUS
  <2>2. DrainFrame(o) = [o EXCEPT !.s.queue_fired_drain = TRUE, !.acts = new]
    BY <1>1 DEF DrainFrame
  <2> HIDE DEF more
  <2>3. /\ new \in Seq(ActionKinds)
        /\ Len(new) >= Len(o.acts) /\ Len(new) <= ActionsMax
        /\ \A i \in 1..Len(new) :
             \/ i <= Len(o.acts) /\ new[i] = o.acts[i]
             \/ i > Len(o.acts) /\ new[i] \in {"FIRE_DRAIN", "DRAIN"}
    BY <2>1, PushDrainIs
  <2> HIDE DEF new
  <2>4. /\ s \in AudioStates /\ s.queue_ptt = o.s.queue_ptt
        /\ s.tx_tail_rem = o.s.tx_tail_rem /\ s.ptt_hold_ticks = o.s.ptt_hold_ticks
        /\ s.tx_delay_rem = o.s.tx_delay_rem
    BY <1>0 DEF AudioStates
  <2>5. DrainFrame(o) = [s |-> s, acts |-> new, rerun |-> o.rerun]
    BY <2>2 DEF Outs
  <2> HIDE DEF s
  <2>6. o.s.queue_ptt /\ HasWork
    BY <1>1 DEF Draining
  <2>7. DrainFrame(o) \in Outs /\ HoldAfterTail(s)
    BY <2>3, <2>4, <2>5 DEF Outs, HoldAfterTail
  <2>8. DrainFrame(o).s = s /\ DrainFrame(o).acts = new
    BY <2>5
  <2> QED BY <2>3, <2>4, <2>6, <2>7, <2>8
<1>2. CASE ~Draining(o)
  BY <1>0, <1>2 DEF DrainFrame
<1> QED BY <1>1, <1>2

\* Giving the claim back, or counting, is a state of the audio thread again.
LEMMA ReleasedIs ==
  ASSUME NEW s \in AudioStates
  PROVE  LET t == [s EXCEPT !.queue_ptt = FALSE, !.tx_tail_rem = -1, !.ptt_hold_ticks = 0]
         IN  t \in AudioStates /\ t.queue_ptt = FALSE /\ t.ptt_hold_ticks = 0
<1> DEFINE b == [s EXCEPT !.queue_ptt = FALSE]
           c == [b EXCEPT !.tx_tail_rem = -1]
           t == [c EXCEPT !.ptt_hold_ticks = 0]
<1>1. TxTail \in Nat /\ -1 \in -1..TxTail
  BY TxAssumption
<1>2. b \in AudioStates /\ b.queue_ptt = FALSE
  BY DEF AudioStates
<1>3. c \in AudioStates /\ c.queue_ptt = FALSE
  <2> HIDE DEF b
  <2> QED BY <1>1, <1>2 DEF AudioStates
<1>4. t \in AudioStates /\ t.queue_ptt = FALSE /\ t.ptt_hold_ticks = 0
  <2> HIDE DEF c
  <2> QED BY <1>3 DEF AudioStates
<1>5. t = [s EXCEPT !.queue_ptt = FALSE, !.tx_tail_rem = -1, !.ptt_hold_ticks = 0]
  BY DEF AudioStates
<1> QED BY <1>4, <1>5

LEMMA OutIs ==
  ASSUME NEW o \in Outs
  PROVE  o.s \in AudioStates /\ o.acts \in Seq(ActionKinds) /\ o.rerun \in BOOLEAN
BY DEF Outs

LEMMA FedIs ==
  ASSUME NEW o \in Outs, NEW m, NEW more, NEW r,
         r = [o EXCEPT !.s.tx_tail_rem = m, !.acts = more]
  PROVE  r = [s |-> [o.s EXCEPT !.tx_tail_rem = m], acts |-> more, rerun |-> o.rerun]
BY DEF Outs

\* At the end of the work the list gets the completion, or silence for the
\* tail, or the release alone, which waits for an empty ring.
LEMMA TailIs ==
  ASSUME NEW o \in Outs, HoldAfterTail(o.s), AtEnd(o), ring \in 0..RingFrames,
         Len(o.acts) <= ActionsMax, ring + Len(o.acts) <= RingFrames,
         \A i \in 1..Len(o.acts) : o.acts[i] = "SILENCE",
         o.s.ptt_hold_ticks > 0 => Len(o.acts) = 0
  PROVE  LET r == TailAndRelease(o)
         IN  /\ r \in Outs /\ HoldAfterTail(r.s) /\ Len(r.acts) <= ActionsMax
             /\ \/ /\ r.s.queue_ptt
                   /\ \A i \in 1..Len(r.acts) : r.acts[i] \in {"SILENCE", "FIRE_COMPLETE"}
                \/ /\ ~r.s.queue_ptt /\ ring = 0
                   /\ Len(r.acts) = 1 /\ r.acts[1] = "RELEASE_PTT"
<1>0. /\ o.s \in AudioStates /\ o.acts \in Seq(ActionKinds)
      /\ o.s.tx_tail_rem \in -1..TxTail /\ o.s.ptt_hold_ticks \in 0..2
      /\ o.s.tx_delay_rem \in 0..TxDelay /\ o.s.queue_ptt = TRUE
  BY DEF Outs, AudioStates, AtEnd
<1>1. /\ ActionsMax \in Nat /\ ActionsMax > 1 /\ RingFrames \in Nat
      /\ TxDelay \in Nat /\ TxTail \in Nat /\ Len(o.acts) \in Nat
  BY <1>0, TxAssumption, LenProperties
<1>2. o.s.tx_delay_rem = 0
  BY <1>0, <1>1 DEF AtEnd
<1>3. CASE o.s.tx_tail_rem < 0 /\ o.s.queue_fired_drain
  <2> DEFINE new == Push(o, <<"FIRE_COMPLETE">>)
             s == [o.s EXCEPT !.tx_tail_rem = TxTail, !.queue_fired_drain = FALSE]
  <2>1. TailAndRelease(o) = [s |-> s, acts |-> new, rerun |-> TRUE]
    BY <1>3 DEF TailAndRelease
  <2>2. <<"FIRE_COMPLETE">> \in Seq(ActionKinds) /\ Len(<<"FIRE_COMPLETE">>) = 1
        /\ \A j \in 1..1 : <<"FIRE_COMPLETE">>[j] = "FIRE_COMPLETE"
    BY DEF ActionKinds
  <2>3. /\ new \in Seq(ActionKinds)
        /\ Len(new) = Least(ActionsMax, Len(o.acts) + 1)
        /\ \A i \in 1..Len(new) : new[i] = IF i <= Len(o.acts) THEN o.acts[i]
                                           ELSE <<"FIRE_COMPLETE">>[i - Len(o.acts)]
    BY <2>2, PushIs
  <2> HIDE DEF new
  <2>4. Len(new) \in 0..ActionsMax /\ Len(new) <= Len(o.acts) + 1
    BY <1>1, <2>3 DEF Least
  <2>5. ASSUME NEW i \in 1..Len(new) PROVE new[i] \in {"SILENCE", "FIRE_COMPLETE"}
    <3>1. CASE i <= Len(o.acts)
      BY <1>1, <2>3, <3>1
    <3>2. CASE ~(i <= Len(o.acts))
      <4>1. i - Len(o.acts) \in 1..1
        BY <1>1, <2>4, <3>2
      <4> QED BY <2>2, <2>3, <3>2, <4>1
    <3> QED BY <3>1, <3>2
  <2>6. s \in AudioStates /\ s.queue_ptt = TRUE /\ s.ptt_hold_ticks = o.s.ptt_hold_ticks
    <3>1. TxTail \in -1..TxTail
      BY <1>1
    <3> QED BY <1>0, <3>1 DEF AudioStates
  <2>7. o.s.ptt_hold_ticks = 0
    BY <1>0, <1>1, <1>3 DEF HoldAfterTail
  <2> HIDE DEF s
  <2>8. TailAndRelease(o) \in Outs /\ TailAndRelease(o).s = s /\ TailAndRelease(o).acts = new
    BY <2>1, <2>3, <2>6 DEF Outs
  <2>9. HoldAfterTail(s)
    BY <2>6, <2>7 DEF HoldAfterTail
  <2> QED BY <2>4, <2>5, <2>6, <2>8, <2>9
<1>4. CASE ~(o.s.tx_tail_rem < 0 /\ o.s.queue_fired_drain)
  <2> DEFINE rem == IF o.s.tx_tail_rem < 0 THEN TxTail ELSE o.s.tx_tail_rem
             n == Fits(o, rem)
             new == Push(o, Silence(n))
             s == [o.s EXCEPT !.tx_tail_rem = rem - n]
             fed == [o EXCEPT !.s.tx_tail_rem = rem - n, !.acts = new]
             all == {i \in 1..Len(o.acts) : o.acts[i] = "SILENCE"}
  <2>1. TailAndRelease(o) = IF HoldTicks(fed) >= 3 /\ Room(fed) > 0
                              THEN Released(fed)
                              ELSE [fed EXCEPT !.s.ptt_hold_ticks = HoldTicks(fed)]
    BY <1>4 DEF TailAndRelease
  <2>2. rem \in 0..TxTail
    BY <1>0, <1>1
  <2>3. Len(o.acts) = Cardinality(all)
    <3>1. all = 1..Len(o.acts)
      OBVIOUS
    <3>2. Cardinality(1..Len(o.acts)) = Len(o.acts)
      BY <1>1, FS_Interval
    <3> QED BY <3>1, <3>2
  <2> HIDE DEF rem
  <2>4. n \in 0..rem /\ n <= ActionsMax - Len(o.acts)
    BY <1>1, <2>2, <2>3, FitsIs
  <2> HIDE DEF n
  <2>5. n \in Nat /\ Len(o.acts) + n <= ActionsMax /\ rem - n \in 0..TxTail
    BY <1>1, <2>2, <2>4
  <2>6. /\ new \in Seq(ActionKinds) /\ Len(new) = Len(o.acts) + n
        /\ \A i \in 1..Len(new) : new[i] = IF i <= Len(o.acts) THEN o.acts[i] ELSE "SILENCE"
    BY <2>5, PushSilenceIs
  <2> HIDE DEF new
  <2>7. /\ Len(new) \in 0..ActionsMax
        /\ \A i \in 1..Len(new) : new[i] = "SILENCE"
    BY <1>1, <2>5, <2>6
  <2>8. /\ s \in AudioStates /\ s.queue_ptt = TRUE /\ s.tx_delay_rem = 0
        /\ s.ptt_hold_ticks = o.s.ptt_hold_ticks /\ s.tx_tail_rem = rem - n
    <3>1. rem - n \in -1..TxTail
      BY <1>1, <2>5
    <3>2. s \in AudioStates /\ s.tx_tail_rem = rem - n
      BY <1>0, <3>1 DEF AudioStates
    <3>3. /\ s.queue_ptt = o.s.queue_ptt /\ s.tx_delay_rem = o.s.tx_delay_rem
          /\ s.ptt_hold_ticks = o.s.ptt_hold_ticks
      BY <1>0 DEF AudioStates
    <3> QED BY <1>0, <1>2, <3>2, <3>3
  <2>9. fed = [s |-> s, acts |-> new, rerun |-> o.rerun] /\ fed \in Outs
    <3>1. fed = [s |-> s, acts |-> new, rerun |-> o.rerun]
      BY FedIs
    <3>2. o.rerun \in BOOLEAN
      BY OutIs
    <3> HIDE DEF s, fed
    <3>3. [s |-> s, acts |-> new, rerun |-> o.rerun] \in Outs
      BY <2>6, <2>8, <3>2 DEF Outs
    <3> QED BY <3>1, <3>3
  <2>10. fed.s = s /\ fed.acts = new /\ fed.rerun = o.rerun
    BY <2>9
  <2> HIDE DEF s, fed
  <2>11. HoldTicks(fed) = IF rem - n <= 0 /\ ring = 0 THEN o.s.ptt_hold_ticks + 1 ELSE 0
    BY <2>8, <2>10 DEF HoldTicks
  <2>12. CASE HoldTicks(fed) >= 3
    <3>1. o.s.ptt_hold_ticks = 2 /\ ring = 0
      BY <1>0, <2>11, <2>12
    <3>2. Len(o.acts) = 0 /\ o.s.tx_tail_rem = 0
      BY <3>1 DEF HoldAfterTail
    <3>3. rem = 0
      BY <3>2 DEF rem
    <3>4. n = 0 /\ Len(new) = 0
      BY <2>4, <2>6, <3>2, <3>3
    <3>5. Room(fed) > 0
      BY <1>1, <2>10, <3>4 DEF Room
    <3>6. TailAndRelease(o) = Released(fed)
      BY <2>1, <2>12, <3>5
    <3> DEFINE last == Push(fed, <<"RELEASE_PTT">>)
               t == [s EXCEPT !.queue_ptt = FALSE, !.tx_tail_rem = -1, !.ptt_hold_ticks = 0]
    <3>7. Len(fed.acts) = 0 /\ Len(fed.acts) < ActionsMax
      BY <1>1, <2>10, <3>4
    <3>8. "RELEASE_PTT" \in ActionKinds
      BY DEF ActionKinds
    <3>9. last \in Seq(ActionKinds) /\ Len(last) = 1 /\ last[1] = "RELEASE_PTT"
      BY <2>9, <3>7, <3>8, PushOneIs
    <3> HIDE DEF last
    <3>10. t \in AudioStates /\ t.queue_ptt = FALSE /\ t.ptt_hold_ticks = 0
      BY <2>8, ReleasedIs
    <3>11. TailAndRelease(o) = [s |-> t, acts |-> last, rerun |-> o.rerun]
      <4>1. Released(fed) = [fed EXCEPT !.s.queue_ptt = FALSE, !.s.tx_tail_rem = -1,
                               !.s.ptt_hold_ticks = 0, !.acts = last]
        BY DEF Released, last
      <4>2. Released(fed) = [s |-> [s EXCEPT !.queue_ptt = FALSE, !.tx_tail_rem = -1,
                                      !.ptt_hold_ticks = 0],
                             acts |-> last, rerun |-> o.rerun]
        BY <2>9, <4>1
      <4> QED BY <3>6, <4>2
    <3> HIDE DEF t
    <3>12. /\ TailAndRelease(o) \in Outs /\ TailAndRelease(o).s = t
           /\ TailAndRelease(o).acts = last
      BY <3>9, <3>10, <3>11 DEF Outs
    <3>13. HoldAfterTail(t)
      BY <3>10 DEF HoldAfterTail
    <3>14. Len(last) <= ActionsMax
      BY <1>1, <3>9
    <3> QED BY <3>1, <3>9, <3>10, <3>12, <3>13, <3>14
  <2>13. CASE ~(HoldTicks(fed) >= 3)
    <3> DEFINE t == [s EXCEPT !.ptt_hold_ticks = HoldTicks(fed)]
    <3>1. HoldTicks(fed) \in 0..2
      BY <1>0, <2>11, <2>13
    <3>2. /\ t \in AudioStates /\ t.queue_ptt = TRUE /\ t.tx_delay_rem = 0
          /\ t.tx_tail_rem = rem - n /\ t.ptt_hold_ticks = HoldTicks(fed)
      BY <2>8, <3>1 DEF AudioStates
    <3>3. TailAndRelease(o) = [s |-> t, acts |-> new, rerun |-> o.rerun]
      BY <2>1, <2>9, <2>13
    <3> HIDE DEF t
    <3>4. /\ TailAndRelease(o) \in Outs /\ TailAndRelease(o).s = t
          /\ TailAndRelease(o).acts = new
      BY <2>6, <3>2, <3>3 DEF Outs
    <3>5. HoldTicks(fed) > 0 => rem - n = 0
      BY <1>1, <2>5, <2>11
    <3>6. HoldAfterTail(t)
      BY <3>2, <3>5 DEF HoldAfterTail
    <3> QED BY <2>7, <3>2, <3>4, <3>6
  <2> QED BY <2>12, <2>13
<1> QED BY <1>3, <1>4

Sounds == {"SILENCE", "FIRE_DRAIN", "DRAIN", "FIRE_COMPLETE"}

\* New items during the tail empty the list; nothing else changes the claim.
LEMMA CancelIs ==
  ASSUME NEW o \in Outs, HoldAfterTail(o.s)
  PROVE  LET r == TailCancel(o)
         IN  /\ r \in Outs /\ HoldAfterTail(r.s)
             /\ r.s.queue_ptt = o.s.queue_ptt
             /\ r = o \/ r.acts = <<>>
<1>1. CASE ~Paused /\ o.s.queue_ptt /\ o.s.tx_tail_rem > 0 /\ g_count > 0
  <2> DEFINE b == [o.s EXCEPT !.tx_tail_rem = -1]
             c == [b EXCEPT !.queue_fired_drain = TRUE]
             t == [c EXCEPT !.ptt_hold_ticks = 0]
  <2>0. TxTail \in Nat /\ -1 \in -1..TxTail /\ o.s \in AudioStates
    BY TxAssumption, OutIs
  <2>1. b \in AudioStates /\ b.queue_ptt = o.s.queue_ptt
    BY <2>0 DEF AudioStates
  <2>2. c \in AudioStates /\ c.queue_ptt = o.s.queue_ptt
    <3> HIDE DEF b
    <3> QED BY <2>1 DEF AudioStates
  <2>3. t \in AudioStates /\ t.queue_ptt = o.s.queue_ptt /\ t.ptt_hold_ticks = 0
    <3> HIDE DEF c
    <3> QED BY <2>2 DEF AudioStates
  <2> DEFINE u == [o.s EXCEPT !.tx_tail_rem = -1, !.queue_fired_drain = TRUE,
                              !.ptt_hold_ticks = 0]
  <2>4. TailCancel(o) = [s |-> u, acts |-> <<>>, rerun |-> TRUE]
    BY <1>1 DEF TailCancel
  <2>5. u = t
    OBVIOUS
  <2> HIDE DEF t, u
  <2>6. TailCancel(o) \in Outs
    BY <2>3, <2>4, <2>5 DEF Outs
  <2>7. HoldAfterTail(t)
    BY <2>3 DEF HoldAfterTail
  <2>8. TailCancel(o).s = t /\ TailCancel(o).acts = <<>>
    BY <2>4, <2>5
  <2> QED BY <2>3, <2>6, <2>7, <2>8
<1>2. CASE ~(~Paused /\ o.s.queue_ptt /\ o.s.tx_tail_rem > 0 /\ g_count > 0)
  BY <1>2 DEF TailCancel
<1> QED BY <1>1, <1>2

\* A list of sounds by a queue that has claimed PTT claims and gives nothing.
LEMMA SoundsArePlaced ==
  ASSUME NEW s, NEW list, \A i \in 1..Len(list) : list[i] \in Sounds /\ s.queue_ptt
  PROVE  /\ Placed(s, list)
         /\ ~In("ASSERT_PTT", list) /\ ~In("RELEASE_PTT", list)
<1>1. \A i \in 1..Len(list) : list[i] # "ASSERT_PTT" /\ list[i] # "RELEASE_PTT"
  BY DEF Sounds
<1> QED BY <1>1 DEF Placed, In

\* What a pass makes of the state: it claims PTT as the first action, gives
\* it back as the only one, and lets sound follow a claim only.
PassResult(r) ==
  /\ r \in Outs /\ Len(r.acts) <= ActionsMax
  /\ HoldAfterTail(r.s) /\ Placed(r.s, r.acts)
  /\ Exact(a.queue_ptt, r.s, r.acts)
  /\ In("RELEASE_PTT", r.acts) => ~HasWork /\ ring = 0

LEMMA PassClaims ==
  ASSUME AudioTypes, HoldAfterTail(a), a # AssertPtt.s
  PROVE  LET fed == DrainFrame(DelaySilence(AssertPtt))
         IN  ~AtEnd(DelaySilence(AssertPtt)) /\ PassResult(TailCancel(fed))
<1> DEFINE o == AssertPtt
           k == DelaySilence(o)
           f == DrainFrame(k)
           r == TailCancel(f)
<1>0. /\ a \in AudioStates /\ ring \in 0..RingFrames
      /\ ActionsMax \in Nat /\ ActionsMax > 1
  BY TxAssumption DEF AudioTypes
<1>1. /\ o \in Outs /\ HoldAfterTail(o.s)
      /\ ~a.queue_ptt /\ o.s.queue_ptt /\ HasWork
      /\ o.s.tx_tail_rem = -1 /\ o.acts = <<"ASSERT_PTT">>
  BY <1>0, AssertIs
<1> HIDE DEF o
<1>2. Len(o.acts) = 1 /\ o.acts[1] = "ASSERT_PTT"
  BY <1>1
<1>3. Len(o.acts) \in 0..1 /\ \A i \in 1..Len(o.acts) : o.acts[i] # "SILENCE"
  BY <1>2
<1>4. /\ k \in Outs /\ HoldAfterTail(k.s)
      /\ k.s.queue_ptt = o.s.queue_ptt /\ k.s.tx_tail_rem = o.s.tx_tail_rem
      /\ Len(k.acts) \in Len(o.acts)..ActionsMax
      /\ \A i \in 1..Len(k.acts) :
           k.acts[i] = IF i <= Len(o.acts) THEN o.acts[i] ELSE "SILENCE"
  BY <1>0, <1>1, <1>3, DelayIs
<1> HIDE DEF k
<1>5. Len(k.acts) \in 1..ActionsMax
  BY <1>0, <1>2, <1>4
<1>6. /\ f \in Outs /\ HoldAfterTail(f.s)
      /\ f.s.queue_ptt = k.s.queue_ptt /\ f.s.tx_tail_rem = k.s.tx_tail_rem
      /\ Len(f.acts) >= Len(k.acts) /\ Len(f.acts) <= ActionsMax
      /\ \A i \in 1..Len(f.acts) :
           \/ i <= Len(k.acts) /\ f.acts[i] = k.acts[i]
           \/ /\ i > Len(k.acts) /\ k.s.queue_ptt
              /\ f.acts[i] \in {"FIRE_DRAIN", "DRAIN"}
  BY <1>0, <1>4, <1>5, DrainIs
<1> HIDE DEF f
<1>7. ~AtEnd(k)
  BY <1>1 DEF AtEnd
<1>8. r = f
  BY <1>1, <1>4, <1>6 DEF TailCancel
<1>9. Len(f.acts) \in Nat
  BY <1>6, OutIs, LenProperties
<1>10. 1 \in 1..Len(f.acts) /\ f.acts[1] = "ASSERT_PTT"
  BY <1>2, <1>4, <1>5, <1>6, <1>9
<1>11. ASSUME NEW i \in 1..Len(f.acts), i # 1 PROVE f.acts[i] \in Sounds
  <2>1. i > Len(o.acts)
    BY <1>2, <1>9, <1>11
  <2>2. CASE i <= Len(k.acts)
    <3>1. i \in 1..Len(k.acts) /\ f.acts[i] = k.acts[i]
      BY <1>5, <1>6, <1>9, <2>2
    <3>2. k.acts[i] = "SILENCE"
      BY <1>2, <1>4, <1>9, <2>1, <3>1
    <3> QED BY <3>1, <3>2 DEF Sounds
  <2>3. CASE ~(i <= Len(k.acts))
    BY <1>6, <2>3 DEF Sounds
  <2> QED BY <2>2, <2>3
<1>12. f.s.queue_ptt
  BY <1>1, <1>4, <1>6
<1>13. Placed(f.s, f.acts)
  BY <1>10, <1>11, <1>12 DEF Placed, Sounds
<1>14. In("ASSERT_PTT", f.acts) /\ ~In("RELEASE_PTT", f.acts)
  BY <1>10, <1>11 DEF In, Sounds
<1>15. PassResult(f)
  BY <1>1, <1>6, <1>13, <1>14 DEF PassResult, Exact
<1> QED BY <1>7, <1>8, <1>15 DEF f, k, o

\* A pass that claims nothing: silence, a drained frame, the tail or the
\* release.
LEMMA PassGoesOn ==
  ASSUME AudioTypes, HoldAfterTail(a), a = AssertPtt.s
  PROVE  LET k == DelaySilence(AssertPtt)
             f == DrainFrame(k)
         IN  PassResult(IF AtEnd(k) THEN TailAndRelease(f) ELSE TailCancel(f))
<1> DEFINE o == AssertPtt
           k == DelaySilence(o)
           f == DrainFrame(k)
           tail == TailAndRelease(k)
           r == TailCancel(f)
<1>0. /\ a \in AudioStates /\ ring \in 0..RingFrames
      /\ ActionsMax \in Nat /\ ActionsMax > 1 /\ RingFrames \in Nat
  BY TxAssumption DEF AudioTypes
<1>1. o \in Outs /\ HoldAfterTail(o.s) /\ o.s = a /\ o.acts = <<>>
  BY <1>0, AssertIs
<1> HIDE DEF o
<1>2. Len(o.acts) = 0
  BY <1>1
<1>3. Len(o.acts) \in 0..1 /\ \A i \in 1..Len(o.acts) : o.acts[i] # "SILENCE"
  BY <1>2
<1>4. /\ k \in Outs /\ HoldAfterTail(k.s)
      /\ k.s.queue_ptt = o.s.queue_ptt
      /\ k.s.ptt_hold_ticks = o.s.ptt_hold_ticks
      /\ Len(k.acts) \in Len(o.acts)..ActionsMax
      /\ ring + (Len(k.acts) - Len(o.acts)) <= RingFrames
      /\ \A i \in 1..Len(k.acts) :
           k.acts[i] = IF i <= Len(o.acts) THEN o.acts[i] ELSE "SILENCE"
      /\ Len(k.acts) > Len(o.acts) => o.s.queue_ptt /\ o.s.ptt_hold_ticks = 0
  BY <1>0, <1>1, <1>3, DelayIs
<1> HIDE DEF k
<1>5. Len(k.acts) \in 0..ActionsMax /\ k.acts \in Seq(ActionKinds)
  BY <1>2, <1>4, OutIs
<1>6. \A i \in 1..Len(k.acts) : k.acts[i] = "SILENCE"
  BY <1>0, <1>2, <1>4, <1>5
<1>7. /\ k.s.queue_ptt = a.queue_ptt /\ ring + Len(k.acts) <= RingFrames
      /\ Len(k.acts) > 0 => a.queue_ptt /\ k.s.ptt_hold_ticks = 0
  BY <1>0, <1>1, <1>2, <1>4, <1>5
<1>8. a.queue_ptt \in BOOLEAN
  BY <1>0 DEF AudioStates
<1>9. /\ f \in Outs /\ HoldAfterTail(f.s)
      /\ f.s.queue_ptt = k.s.queue_ptt
      /\ ~HasWork => f = k
      /\ Len(f.acts) >= Len(k.acts) /\ Len(f.acts) <= ActionsMax
      /\ \A i \in 1..Len(f.acts) :
           \/ i <= Len(k.acts) /\ f.acts[i] = k.acts[i]
           \/ /\ i > Len(k.acts) /\ k.s.queue_ptt
              /\ f.acts[i] \in {"FIRE_DRAIN", "DRAIN"}
  BY <1>0, <1>4, <1>5, DrainIs
<1> HIDE DEF f
<1>10. CASE AtEnd(k)
  <2>1. ~HasWork /\ a.queue_ptt
    BY <1>7, <1>10 DEF AtEnd
  <2>2. f = k
    BY <1>9, <2>1
  <2>3. /\ Len(k.acts) <= ActionsMax
        /\ k.s.ptt_hold_ticks > 0 => Len(k.acts) = 0
    BY <1>0, <1>5, <1>7
  <2>4. /\ tail \in Outs /\ HoldAfterTail(tail.s) /\ Len(tail.acts) <= ActionsMax
        /\ \/ /\ tail.s.queue_ptt
              /\ \A i \in 1..Len(tail.acts) : tail.acts[i] \in {"SILENCE", "FIRE_COMPLETE"}
           \/ /\ ~tail.s.queue_ptt /\ ring = 0
              /\ Len(tail.acts) = 1 /\ tail.acts[1] = "RELEASE_PTT"
    BY <1>0, <1>4, <1>6, <1>7, <1>10, <2>3, TailIs
  <2> HIDE DEF tail
  <2>5. ASSUME tail.s.queue_ptt,
               \A i \in 1..Len(tail.acts) : tail.acts[i] \in {"SILENCE", "FIRE_COMPLETE"}
        PROVE  PassResult(tail)
    <3>1. \A i \in 1..Len(tail.acts) : tail.acts[i] \in Sounds /\ tail.s.queue_ptt
      BY <2>5 DEF Sounds
    <3>2. /\ Placed(tail.s, tail.acts)
          /\ ~In("ASSERT_PTT", tail.acts) /\ ~In("RELEASE_PTT", tail.acts)
      BY <3>1, SoundsArePlaced
    <3>3. Exact(a.queue_ptt, tail.s, tail.acts)
      BY <2>1, <2>5, <3>2 DEF Exact
    <3> QED BY <2>4, <3>2, <3>3 DEF PassResult
  <2>6. ASSUME ~tail.s.queue_ptt, ring = 0,
               Len(tail.acts) = 1, tail.acts[1] = "RELEASE_PTT"
        PROVE  PassResult(tail)
    <3>1. Placed(tail.s, tail.acts) /\ In("RELEASE_PTT", tail.acts)
      BY <2>6 DEF Placed, In
    <3>2. Exact(a.queue_ptt, tail.s, tail.acts)
      BY <2>1, <3>1 DEF Exact
    <3>3. ~HasWork /\ ring = 0
      BY <2>1, <2>6
    <3> QED BY <2>4, <3>1, <3>2, <3>3 DEF PassResult
  <2>7. PassResult(tail)
    BY <2>4, <2>5, <2>6
  <2> QED BY <1>10, <2>2, <2>7 DEF tail, f, k, o
<1>11. CASE ~AtEnd(k)
  <2>1. Len(f.acts) \in Nat
    BY <1>9, OutIs, LenProperties
  <2>2. ASSUME NEW i \in 1..Len(f.acts)
        PROVE  f.acts[i] \in Sounds /\ f.s.queue_ptt
    <3>1. CASE i <= Len(k.acts) /\ f.acts[i] = k.acts[i]
      <4>1. i \in 1..Len(k.acts) /\ Len(k.acts) > 0
        BY <1>0, <1>5, <2>1, <3>1
      <4> QED BY <1>6, <1>7, <1>9, <3>1, <4>1 DEF Sounds
    <3>2. CASE k.s.queue_ptt /\ f.acts[i] \in {"FIRE_DRAIN", "DRAIN"}
      BY <1>9, <3>2 DEF Sounds
    <3> QED BY <1>9, <3>1, <3>2
  <2>3. /\ r \in Outs /\ HoldAfterTail(r.s)
        /\ r.s.queue_ptt = f.s.queue_ptt
        /\ r = f \/ r.acts = <<>>
    BY <1>9, CancelIs
  <2> HIDE DEF r
  <2>4. Len(r.acts) <= ActionsMax
    BY <1>0, <1>9, <2>3
  <2>5. \A i \in 1..Len(r.acts) : r.acts[i] \in Sounds /\ r.s.queue_ptt
    BY <2>2, <2>3
  <2>6. /\ Placed(r.s, r.acts)
        /\ ~In("ASSERT_PTT", r.acts) /\ ~In("RELEASE_PTT", r.acts)
    BY <2>5, SoundsArePlaced
  <2>7. PassResult(r)
    BY <1>7, <1>9, <2>3, <2>4, <2>6 DEF PassResult, Exact
  <2> QED BY <1>11, <2>7 DEF r, f, k, o
<1> QED BY <1>10, <1>11

\* Whatever a pass finds, it keeps the claim exact.
LEMMA PassIs ==
  ASSUME AudioTypes, HoldAfterTail(a), kerchunk_audio_tick_tx
  PROVE  \E r : PassResult(r) /\ a' = r.s /\ acts' = r.acts /\ rerun' = r.rerun
<1> DEFINE k == DelaySilence(AssertPtt)
           f == DrainFrame(k)
           out == IF AtEnd(k) THEN TailAndRelease(f) ELSE TailCancel(f)
<1>1. a' = out.s /\ acts' = out.acts /\ rerun' = out.rerun
  BY DEF kerchunk_audio_tick_tx
<1>2. PassResult(out)
  <2>1. CASE a = AssertPtt.s
    BY <2>1, PassGoesOn
  <2>2. CASE a # AssertPtt.s
    BY <2>2, PassClaims
  <2> QED BY <2>1, <2>2
<1> HIDE DEF out
<1> QED BY <1>1, <1>2
-----------------------------------------------------------------------------
(* The arbiter, whatever becomes of the GPIO line. *)

LEMMA RequestKeepsCounts ==
  ASSUME PttCounts, NEW h \in Holders, h \notin held, core_request_ptt(h)
  PROVE  PttCounts' /\ held' = held \cup {h}
<1>1. PttTypeOK'
  BY PttStepTypes DEF PttCounts
<1>2. CountIsHolders'
  BY RequestCounts DEF PttCounts
<1>3. g_ptt_active' = TRUE /\ held' = held \cup {h}
  BY DEF core_request_ptt
<1>4. ActiveIffHeld'
  BY <1>3 DEF ActiveIffHeld
<1> QED BY <1>1, <1>2, <1>3, <1>4 DEF PttCounts

LEMMA ReleaseKeepsCounts ==
  ASSUME PttCounts, NEW h \in Holders, h \in held, core_release_ptt(h)
  PROVE  PttCounts' /\ held' = held \ {h}
<1>1. PttTypeOK'
  BY PttStepTypes DEF PttCounts
<1>2. CountIsHolders'
  BY ReleaseCounts DEF PttCounts
<1>3. g_ptt_refcount' = 0 <=> held' = {}
  BY LastRelease DEF PttCounts
<1>4. held' = held \ {h} /\ g_ptt_active
  BY DEF core_release_ptt, PttCounts, ActiveIffHeld
<1>5. g_ptt_active' <=> ~(g_ptt_refcount' = 0)
  BY <1>4, Zenon DEF core_release_ptt
<1>6. ActiveIffHeld'
  BY <1>3, <1>5 DEF ActiveIffHeld
<1> QED BY <1>1, <1>2, <1>4, <1>6 DEF PttCounts
-----------------------------------------------------------------------------
(* The steps. *)

\* The claim does not depend on producers, carriers, other holders or the
\* sound card: they do not start an item, fill the ring or touch the list.
LEMMA ClaimStays ==
  ASSUME AudioTypes, Claim, UNCHANGED <<pc, a, acts, software_relay>>,
         "queue" \in held' <=> "queue" \in held, g_draining' => g_draining,
         ring' \in 0..ring
  PROVE  Claim'
<1>1. ring \in Nat /\ ring' \in Nat /\ ring' <= ring
  BY TxAssumption DEF AudioTypes
<1>2. pc' # "act" => acts' = <<>>
  BY DEF Claim
<1>3. HoldAfterTail(a)' /\ Placed(a, acts)'
  BY DEF Claim, HoldAfterTail, Placed
<1>4. Exact("queue" \in held, a, acts)'
  BY DEF Claim, Exact, In
<1>5. ReleaseIsSafe'
  BY <1>1 DEF Claim, ReleaseIsSafe, Pending
<1>6. PlayingIsKeyed' /\ RingIsQueues'
  BY <1>1 DEF Claim, PlayingIsKeyed, RingIsQueues
<1> QED BY <1>2, <1>3, <1>4, <1>5, <1>6 DEF Claim

\* What those steps leave of the audio thread's types.
LEMMA AudioTypesStay ==
  ASSUME AudioTypes, UNCHANGED <<software_relay, a, pc, pass, acts, rerun>>,
         cor' \in BOOLEAN, unkeyed' \in BOOLEAN, ring' \in 0..ring
  PROVE  AudioTypes'
<1>1. ring' \in 0..RingFrames
  BY TxAssumption DEF AudioTypes
<1> QED BY <1>1 DEF AudioTypes

\* The receive sub-tick fills the ring under software relay only.
LEMMA RxTickKeeps ==
  ASSUME AudioTypes, Claim, RxTick
  PROVE  AudioTypes' /\ Claim'
<1>1. PICK quiet \in BOOLEAN : kerchunk_audio_tick_rx(quiet)
  BY DEF RxTick
<1> DEFINE drain == IF software_relay /\ a.relay_was_active /\ ~cor
                      THEN RelayDrain ELSE a.relay_drain
           do_relay == /\ software_relay /\ g_ptt_active /\ ~a.queue_ptt
                       /\ cor \/ drain > 0
           writes == do_relay /\ ring < RingFrames
           left == IF writes /\ ~cor /\ drain > 0 THEN IF quiet THEN 0 ELSE drain - 1
                   ELSE drain
           b == [a EXCEPT !.relay_was_active = cor]
           c == [b EXCEPT !.relay_drain = left]
<1>2. /\ a \in AudioStates /\ ring \in 0..RingFrames /\ RingFrames \in Nat
      /\ RelayDrain \in Nat /\ cor \in BOOLEAN
  BY TxAssumption DEF AudioTypes
<1>3. drain \in 0..RelayDrain
  BY <1>2 DEF AudioStates
<1>4. left \in 0..RelayDrain
  <2> HIDE DEF drain, writes
  <2> QED BY <1>2, <1>3
<1>5. a' = [a EXCEPT !.relay_was_active = cor, !.relay_drain = left]
  BY <1>1 DEF kerchunk_audio_tick_rx
<1>6. ring' = IF writes THEN ring + 1 ELSE ring
  BY <1>1 DEF kerchunk_audio_tick_rx
<1>7. writes => software_relay
  OBVIOUS
<1> HIDE DEF left, writes, drain
<1>8. /\ b \in AudioStates /\ b.queue_ptt = a.queue_ptt
      /\ b.ptt_hold_ticks = a.ptt_hold_ticks
      /\ b.tx_delay_rem = a.tx_delay_rem /\ b.tx_tail_rem = a.tx_tail_rem
  BY <1>2 DEF AudioStates
<1>9. /\ c \in AudioStates /\ c.queue_ptt = a.queue_ptt
      /\ c.ptt_hold_ticks = a.ptt_hold_ticks
      /\ c.tx_delay_rem = a.tx_delay_rem /\ c.tx_tail_rem = a.tx_tail_rem
  <2> HIDE DEF b
  <2> QED BY <1>4, <1>8 DEF AudioStates
<1>10. a' = c
  BY <1>5
<1> HIDE DEF c
<1>11. ring' \in 0..RingFrames /\ (~software_relay => ring' = ring)
  <2>1. CASE writes
    BY <1>2, <1>6, <1>7, <2>1 DEF writes
  <2>2. CASE ~writes
    BY <1>2, <1>6, <2>2
  <2> QED BY <2>1, <2>2
<1>12. /\ pc = "rx" /\ pc' = "pass" /\ pass' = 0
       /\ UNCHANGED <<acts, rerun, software_relay, cor, unkeyed, queueVars, pttVars>>
  BY DEF RxTick
<1>13. AudioTypes'
  BY <1>9, <1>10, <1>11, <1>12 DEF AudioTypes
<1>14. acts = <<>> /\ acts' = <<>> /\ Len(acts') = 0
  BY <1>12 DEF Claim
<1>15. HoldAfterTail(a)'
  BY <1>9, <1>10 DEF Claim, HoldAfterTail
<1>16. Placed(a, acts)' /\ ReleaseIsSafe'
  BY <1>14 DEF Placed, ReleaseIsSafe, Pending
<1>17. UNCHANGED <<held, g_draining>>
  BY <1>12 DEF queueVars, drainVars, pttVars
<1>18. Exact("queue" \in held, a, acts)'
  BY <1>9, <1>10, <1>14, <1>17 DEF Claim, Exact, In
<1>19. PlayingIsKeyed' /\ RingIsQueues'
  BY <1>11, <1>12, <1>17 DEF Claim, PlayingIsKeyed, RingIsQueues
<1> QED BY <1>13, <1>14, <1>15, <1>16, <1>18, <1>19 DEF Claim

\* A transmit pass brings the claim and the list in line with each other.
LEMMA TxPassKeeps ==
  ASSUME AudioTypes, Claim, TxPass
  PROVE  AudioTypes' /\ Claim'
<1>1. /\ pc = "pass" /\ pc' = "act" /\ kerchunk_audio_tick_tx
      /\ UNCHANGED <<pass, ring, software_relay, cor, unkeyed, queueVars, pttVars>>
  BY DEF TxPass
<1>2. PICK r : PassResult(r) /\ a' = r.s /\ acts' = r.acts /\ rerun' = r.rerun
  BY <1>1, PassIs DEF Claim
<1>3. /\ a' \in AudioStates /\ acts' \in Seq(ActionKinds) /\ rerun' \in BOOLEAN
      /\ Len(acts') <= ActionsMax
      /\ HoldAfterTail(a') /\ Placed(a', acts') /\ Exact(a.queue_ptt, a', acts')
      /\ In("RELEASE_PTT", acts') => ~HasWork /\ ring = 0
  BY <1>2, OutIs DEF PassResult
<1>4. AudioTypes'
  BY <1>1, <1>3 DEF AudioTypes
<1>5. UNCHANGED <<held, g_draining>>
  BY <1>1 DEF queueVars, drainVars, pttVars
<1>6. "queue" \in held <=> a.queue_ptt
  <2>1. acts = <<>> /\ Len(acts) = 0
    BY <1>1 DEF Claim
  <2> QED BY <2>1 DEF Claim, Exact, In
<1>7. "queue" \in held' <=> \/ a'.queue_ptt /\ ~In("ASSERT_PTT", acts')
                            \/ In("RELEASE_PTT", acts')
  BY <1>3, <1>5, <1>6 DEF Exact
<1>8. Exact("queue" \in held, a, acts)'
  BY <1>7 DEF Exact, In
<1>9. HoldAfterTail(a)' /\ Placed(a, acts)'
  BY <1>3 DEF HoldAfterTail, Placed
<1>10. ReleaseIsSafe'
  BY <1>1, <1>3, <1>5 DEF ReleaseIsSafe, Pending, In, HasWork
<1>11. PlayingIsKeyed' /\ RingIsQueues'
  BY <1>1, <1>5 DEF Claim, PlayingIsKeyed, RingIsQueues
<1> QED BY <1>1, <1>4, <1>8, <1>9, <1>10, <1>11 DEF Claim

\* What the list says of the reference when its head is carried out: an
\* ASSERT comes once and before the sound, a RELEASE comes alone.
LEMMA HeadIs ==
  ASSUME NEW s, NEW list \in Seq(ActionKinds), list # <<>>, NEW was,
         Placed(s, list), Exact(was, s, list)
  PROVE  /\ Placed(s, Tail(list))
         /\ ~In("ASSERT_PTT", Tail(list)) /\ ~In("RELEASE_PTT", Tail(list))
         /\ Head(list) = "ASSERT_PTT" => ~was /\ s.queue_ptt
         /\ Head(list) = "RELEASE_PTT" => was /\ ~s.queue_ptt
         /\ Head(list) \notin {"ASSERT_PTT", "RELEASE_PTT"} => (was <=> s.queue_ptt)
         /\ Head(list) \in {"SILENCE", "DRAIN"} => s.queue_ptt
<1>1. /\ Len(list) \in Nat /\ Len(list) >= 1 /\ Head(list) = list[1]
      /\ Len(Tail(list)) = Len(list) - 1
      /\ \A i \in 1..Len(Tail(list)) : Tail(list)[i] = list[i + 1]
  <2>1. Len(list) \in Nat /\ Len(list) # 0
    BY EmptySeq, LenProperties
  <2> QED BY <2>1, HeadTailProperties
<1>2. \A i \in 1..Len(list) :
        /\ list[i] = "ASSERT_PTT" => i = 1 /\ s.queue_ptt
        /\ list[i] \in {"SILENCE", "DRAIN"} => s.queue_ptt
        /\ list[i] = "RELEASE_PTT" => Len(list) = 1 /\ ~s.queue_ptt
  BY DEF Placed
<1>3. ASSUME NEW i \in 1..Len(Tail(list))
      PROVE  /\ Tail(list)[i] # "ASSERT_PTT" /\ Tail(list)[i] # "RELEASE_PTT"
             /\ Tail(list)[i] \in {"SILENCE", "DRAIN"} => s.queue_ptt
  <2>1. i + 1 \in 1..Len(list) /\ i + 1 # 1 /\ Len(list) # 1
    BY <1>1
  <2>2. Tail(list)[i] = list[i + 1]
    BY <1>1
  <2> QED BY <1>2, <2>1, <2>2
<1>4. Placed(s, Tail(list))
  BY <1>3 DEF Placed
<1>5. ~In("ASSERT_PTT", Tail(list)) /\ ~In("RELEASE_PTT", Tail(list))
  BY <1>3 DEF In
<1>6. 1 \in 1..Len(list)
  BY <1>1
<1>7. In("ASSERT_PTT", list) <=> Head(list) = "ASSERT_PTT"
  BY <1>1, <1>2, <1>6 DEF In
<1>8. In("RELEASE_PTT", list) <=> Head(list) = "RELEASE_PTT"
  <2>1. ASSUME NEW i \in 1..Len(list), list[i] = "RELEASE_PTT" PROVE i = 1
    BY <1>1, <1>2, <2>1
  <2> QED BY <1>1, <1>6, <2>1 DEF In
<1>9. /\ Head(list) = "ASSERT_PTT" => s.queue_ptt
      /\ Head(list) = "RELEASE_PTT" => ~s.queue_ptt
      /\ Head(list) \in {"SILENCE", "DRAIN"} => s.queue_ptt
  BY <1>1, <1>2, <1>6
<1>10. was <=> \/ s.queue_ptt /\ ~(Head(list) = "ASSERT_PTT")
               \/ Head(list) = "RELEASE_PTT"
  BY <1>7, <1>8 DEF Exact
<1> QED BY <1>4, <1>5, <1>9, <1>10

LEMMA QueueRests ==
  ASSUME QInv, UNCHANGED queueVars
  PROVE  QInv' /\ UNCHANGED <<up, g_draining>>
<1>1. QInv'
  BY NextQInv
<1>2. UNCHANGED <<up, g_draining>>
  BY DEF queueVars, drainVars
<1> QED BY <1>1, <1>2

LEMMA PttRests ==
  ASSUME PttCounts, UNCHANGED pttVars
  PROVE  PttCounts' /\ held' = held
BY DEF PttCounts, PttTypeOK, CountIsHolders, ActiveIffHeld, pttVars

\* The shell carries out the head of the list on whatever state it finds.
LEMMA TxActKeeps ==
  ASSUME up, QInv, PttCounts, AudioTypes, Claim, TxAct
  PROVE  up' /\ QInv' /\ PttCounts' /\ AudioTypes' /\ Claim'
<1> DEFINE k == Head(acts)
<1>1. /\ pc = "act" /\ acts # <<>> /\ acts' = Tail(acts)
      /\ UNCHANGED <<a, pc, pass, rerun, software_relay, cor, unkeyed>>
  BY DEF TxAct
<1>2. /\ Placed(a, Tail(acts))
      /\ ~In("ASSERT_PTT", Tail(acts)) /\ ~In("RELEASE_PTT", Tail(acts))
      /\ k = "ASSERT_PTT" => "queue" \notin held /\ a.queue_ptt
      /\ k = "RELEASE_PTT" => "queue" \in held /\ ~a.queue_ptt
      /\ k \notin {"ASSERT_PTT", "RELEASE_PTT"} => ("queue" \in held <=> a.queue_ptt)
      /\ k \in {"SILENCE", "DRAIN"} => a.queue_ptt
  BY <1>1, HeadIs DEF AudioTypes, Claim
<1>3. /\ acts' \in Seq(ActionKinds) /\ Len(acts') <= ActionsMax
      /\ Head(acts) = acts[1] /\ 1 \in 1..Len(acts)
  <2>1. acts \in Seq(ActionKinds) /\ Len(acts) <= ActionsMax /\ ActionsMax \in Nat
    BY TxAssumption DEF AudioTypes
  <2>2. Len(acts) \in Nat /\ Len(acts) # 0
    BY <1>1, <2>1, EmptySeq, LenProperties
  <2> QED BY <1>1, <2>1, <2>2, HeadTailProperties
<1>4. "queue" \in Holders
  BY TxAssumption
<1>5. ring \in 0..RingFrames /\ RingFrames \in Nat /\ polled \in BOOLEAN
  BY TxAssumption DEF AudioTypes, QInv, QueueTypeOK
<1>6. Least(ring + 1, RingFrames) \in 0..RingFrames
  BY <1>5 DEF Least
<1>7. k \in {"SILENCE", "DRAIN"} => "queue" \in held
  BY <1>2
<1>8. /\ up' /\ QInv' /\ PttCounts' /\ ring' \in 0..RingFrames
      /\ "queue" \in held' <=> a.queue_ptt
      /\ g_draining' => "queue" \in held'
      /\ ~software_relay /\ ring' > 0 => "queue" \in held'
  <2>1. CASE k = "ASSERT_PTT"
    <3>1. core_request_ptt("queue") /\ UNCHANGED <<ring, queueVars>>
      BY <2>1 DEF TxAct, DoAssert
    <3>2. PttCounts' /\ held' = held \cup {"queue"}
      BY <1>2, <1>4, <2>1, <3>1, RequestKeepsCounts
    <3>3. QInv' /\ up' /\ g_draining' = g_draining
      BY <3>1, QueueRests
    <3> QED BY <1>2, <1>5, <2>1, <3>1, <3>2, <3>3
  <2>2. CASE k = "RELEASE_PTT"
    <3>1. core_release_ptt("queue") /\ UNCHANGED <<ring, queueVars>>
      BY <2>2 DEF TxAct, DoRelease
    <3>2. PttCounts' /\ held' = held \ {"queue"}
      BY <1>2, <1>4, <2>2, <3>1, ReleaseKeepsCounts
    <3>3. QInv' /\ up' /\ g_draining' = g_draining
      BY <3>1, QueueRests
    <3>4. ~g_draining /\ (~software_relay => ring = 0)
      BY <1>3, <2>2 DEF Claim, ReleaseIsSafe, Pending
    <3> QED BY <1>2, <1>5, <2>2, <3>1, <3>2, <3>3, <3>4
  <2>3. CASE k = "SILENCE"
    <3>1. ring' = Least(ring + 1, RingFrames) /\ UNCHANGED <<queueVars, pttVars>>
      BY <2>3 DEF TxAct, DoSilence, Played
    <3>2. PttCounts' /\ held' = held /\ QInv' /\ up' /\ g_draining' = g_draining
      BY <3>1, QueueRests, PttRests
    <3> QED BY <1>2, <1>6, <1>7, <2>3, <3>1, <3>2
  <2>4. CASE k = "DRAIN"
    <3>1. /\ kerchunk_queue_drain /\ UNCHANGED <<tagging, polled, up, pttVars>>
          /\ ring' \in {ring, Least(ring + 1, RingFrames)}
      BY <2>4 DEF TxAct, DoDrain, Played
    <3>2. QInv'
      BY <1>5, <3>1, DrainKeepsQInv
    <3>3. PttCounts' /\ held' = held
      BY <3>1, PttRests
    <3> QED BY <1>2, <1>5, <1>6, <1>7, <2>4, <3>1, <3>2, <3>3
  <2>5. CASE k \notin {"ASSERT_PTT", "RELEASE_PTT", "SILENCE", "DRAIN"}
    <3>1. UNCHANGED <<ring, queueVars, pttVars>>
      BY <2>5 DEF TxAct, DoEvent
    <3>2. PttCounts' /\ held' = held /\ QInv' /\ up' /\ g_draining' = g_draining
      BY <3>1, QueueRests, PttRests
    <3> QED BY <1>2, <1>5, <2>5, <3>1, <3>2 DEF Claim, PlayingIsKeyed, RingIsQueues
  <2> QED BY <2>1, <2>2, <2>3, <2>4, <2>5
<1>9. AudioTypes'
  BY <1>1, <1>3, <1>8 DEF AudioTypes
<1>10. Placed(a, acts)' /\ HoldAfterTail(a)'
  BY <1>1, <1>2 DEF Claim, Placed, HoldAfterTail
<1>11. ~In("ASSERT_PTT", acts)' /\ ~In("RELEASE_PTT", acts)'
  BY <1>1, <1>2 DEF In
<1>12. Exact("queue" \in held, a, acts)'
  BY <1>1, <1>8, <1>11 DEF Exact
<1>13. ReleaseIsSafe'
  BY <1>11 DEF ReleaseIsSafe, Pending, In
<1>14. PlayingIsKeyed' /\ RingIsQueues'
  BY <1>1, <1>8 DEF PlayingIsKeyed, RingIsQueues
<1>15. pc' = "act"
  BY <1>1
<1> QED BY <1>8, <1>9, <1>10, <1>12, <1>13, <1>14, <1>15 DEF Claim

\* The end of a pass touches neither the claim nor the ring.
LEMMA TxPassEndsKeeps ==
  ASSUME AudioTypes, Claim, TxPassEnds
  PROVE  AudioTypes' /\ Claim'
<1>1. /\ acts = <<>> /\ pass' \in 0..2 /\ pc' \in {"pass", "rx"} /\ rerun' = FALSE
      /\ UNCHANGED <<acts, a, ring, software_relay, cor, unkeyed, queueVars, pttVars>>
  BY DEF TxPassEnds, AudioTypes
<1>2. AudioTypes'
  BY <1>1 DEF AudioTypes
<1>3. UNCHANGED <<held, g_draining>>
  BY <1>1 DEF queueVars, drainVars, pttVars
<1>4. Len(acts') = 0
  BY <1>1
<1>5. HoldAfterTail(a)' /\ Placed(a, acts)' /\ ReleaseIsSafe'
  BY <1>1, <1>4 DEF Claim, HoldAfterTail, Placed, ReleaseIsSafe, Pending
<1>6. Exact("queue" \in held, a, acts)'
  BY <1>1, <1>3 DEF Claim, Exact, In
<1>7. PlayingIsKeyed' /\ RingIsQueues'
  BY <1>1, <1>3 DEF Claim, PlayingIsKeyed, RingIsQueues
<1> QED BY <1>1, <1>2, <1>5, <1>6, <1>7 DEF Claim

\* The invariant of the transmit path.
TxInv == up /\ QInv /\ PttCounts /\ AudioTypes /\ Claim

\* Every step of the daemon keeps it.
LEMMA NextTxInv ==
  ASSUME TxInv, [TxNext]_txVars
  PROVE  TxInv'
<1>0. /\ up /\ QInv /\ PttCounts /\ AudioTypes /\ Claim
      /\ ring \in Nat /\ ring \in 0..ring
      /\ cor \in BOOLEAN /\ unkeyed \in BOOLEAN
  BY TxAssumption DEF TxInv, AudioTypes
<1>1. CASE RxTick
  <2>1. UNCHANGED queueVars /\ UNCHANGED pttVars
    BY <1>1 DEF RxTick
  <2> QED BY <1>0, <1>1, <2>1, RxTickKeeps, QueueRests, PttRests DEF TxInv
<1>2. CASE TxPass
  <2>1. UNCHANGED queueVars /\ UNCHANGED pttVars
    BY <1>2 DEF TxPass
  <2> QED BY <1>0, <1>2, <2>1, TxPassKeeps, QueueRests, PttRests DEF TxInv
<1>3. CASE TxAct
  BY <1>0, <1>3, TxActKeeps DEF TxInv
<1>4. CASE TxPassEnds
  <2>1. UNCHANGED queueVars /\ UNCHANGED pttVars
    BY <1>4 DEF TxPassEnds
  <2> QED BY <1>0, <1>4, <2>1, TxPassEndsKeeps, QueueRests, PttRests DEF TxInv
<1>5. CASE Producer
  <2>1. PICK t \in Threads : Add(t)
    BY <1>5 DEF Producer
  <2>2. QInv'
    BY <1>0, <2>1, NextQInv DEF QueueNext
  <2>3. UNCHANGED <<up, g_draining>>
    BY <2>1 DEF Add, kerchunk_queue_add_file, kerchunk_queue_add_buffer, AddItem, drainVars
  <2>4. UNCHANGED <<software_relay, cor, unkeyed, ring, a, pc, pass, acts, rerun, pttVars>>
    BY <1>5 DEF Producer, audioVars
  <2>5. PttCounts' /\ held' = held
    BY <1>0, <2>4, PttRests
  <2> QED BY <1>0, <2>2, <2>3, <2>4, <2>5, ClaimStays, AudioTypesStay DEF TxInv
<1>6. CASE Operator
  <2>1. Flush /\ QInv'
    BY <1>0, <1>6, NextQInv DEF Operator, QueueNext
  <2>2. up' /\ g_draining' = FALSE
    BY <1>0, <2>1 DEF Flush, kerchunk_queue_flush
  <2>3. UNCHANGED <<software_relay, cor, unkeyed, ring, a, pc, pass, acts, rerun, pttVars>>
    BY <1>6 DEF Operator, audioVars
  <2>4. PttCounts' /\ held' = held
    BY <1>0, <2>3, PttRests
  <2> QED BY <1>0, <2>1, <2>2, <2>3, <2>4, ClaimStays, AudioTypesStay DEF TxInv
<1>7. CASE MainReadsPtt \/ NoCarrier \/ CorEnd \/ UNCHANGED txVars
  <2>1. /\ UNCHANGED <<software_relay, ring, a, pc, pass, acts, rerun, queueVars, pttVars>>
        /\ cor' \in BOOLEAN /\ unkeyed' \in BOOLEAN
    BY <1>0, <1>7 DEF MainReadsPtt, NoCarrier, CorEnd, txVars, audioVars
  <2>2. PttCounts' /\ held' = held
    BY <1>0, <2>1, PttRests
  <2>3. QInv' /\ UNCHANGED <<up, g_draining>>
    BY <1>0, <2>1, QueueRests
  <2> QED BY <1>0, <2>1, <2>2, <2>3, ClaimStays, AudioTypesStay DEF TxInv
<1>8. CASE CorBegin
  <2>1. /\ UNCHANGED <<software_relay, ring, a, pc, pass, acts, rerun, pttVars>>
        /\ cor' \in BOOLEAN /\ unkeyed' \in BOOLEAN
    BY <1>8 DEF CorBegin, audioVars
  <2>2. PttCounts' /\ held' = held
    BY <1>0, <2>1, PttRests
  <2>3. QInv' /\ up' /\ (g_draining' => g_draining)
    <3>1. CASE HasWork
      <4>1. Preempt
        BY <1>0, <1>8, <3>1 DEF CorBegin, Preempt
      <4>2. up' = up /\ g_draining' = FALSE
        BY <4>1 DEF Preempt, kerchunk_queue_preempt
      <4> QED BY <1>0, <4>1, <4>2, NextQInv DEF QueueNext
    <3>2. CASE ~HasWork
      <4>1. UNCHANGED queueVars
        BY <1>8, <3>2 DEF CorBegin
      <4> QED BY <1>0, <4>1, QueueRests
    <3> QED BY <3>1, <3>2
  <2> QED BY <1>0, <2>1, <2>2, <2>3, ClaimStays, AudioTypesStay DEF TxInv
<1>9. CASE RepeaterKeys \/ RepeaterUnkeys
  <2>1. /\ UNCHANGED <<software_relay, cor, unkeyed, ring, a, pc, pass, acts, rerun>>
        /\ UNCHANGED queueVars
    BY <1>9 DEF RepeaterKeys, RepeaterUnkeys, audioVars
  <2>2. "repeater" \in Holders
    BY TxAssumption
  <2>3. PttCounts' /\ ("queue" \in held' <=> "queue" \in held)
    <3>1. CASE RepeaterKeys
      BY <1>0, <2>2, <3>1, RequestKeepsCounts DEF RepeaterKeys
    <3>2. CASE RepeaterUnkeys
      BY <1>0, <2>2, <3>2, ReleaseKeepsCounts DEF RepeaterUnkeys
    <3> QED BY <1>9, <3>1, <3>2
  <2>4. QInv' /\ UNCHANGED <<up, g_draining>>
    BY <1>0, <2>1, QueueRests
  <2> QED BY <1>0, <2>1, <2>3, <2>4, ClaimStays, AudioTypesStay DEF TxInv
<1>10. CASE PlaybackCallback
  <2>1. /\ UNCHANGED <<software_relay, cor, unkeyed, a, pc, pass, acts, rerun,
                       queueVars, pttVars>>
        /\ ring' \in 0..ring
    BY <1>0, <1>10 DEF PlaybackCallback
  <2>2. PttCounts' /\ held' = held
    BY <1>0, <2>1, PttRests
  <2>3. QInv' /\ UNCHANGED <<up, g_draining>>
    BY <1>0, <2>1, QueueRests
  <2> QED BY <1>0, <2>1, <2>2, <2>3, ClaimStays, AudioTypesStay DEF TxInv
<1> QED
  BY <1>1, <1>2, <1>3, <1>4, <1>5, <1>6, <1>7, <1>8, <1>9, <1>10
  DEF TxNext, AudioThread

\* It holds when the audio thread starts.
LEMMA InitTxInv ==
  ASSUME TxInit
  PROVE  TxInv
<1>1. QInv /\ up
  BY InitQInv DEF TxInit, kerchunk_queue_init
<1>2. PttCounts
  <2>1. Cardinality({}) = 0 /\ IsFiniteSet({})
    BY FS_EmptySet
  <2> QED BY <2>1 DEF TxInit, PttInit, PttCounts, PttTypeOK, CountIsHolders, ActiveIffHeld
<1>3. a \in AudioStates /\ a.queue_ptt = FALSE /\ a.ptt_hold_ticks = 0
  <2>1. 0 \in 0..RelayDrain /\ 0 \in 0..TxDelay /\ -1 \in -1..TxTail
    BY TxAssumption
  <2> QED BY <2>1 DEF TxInit, AudioStates
<1>4. acts = <<>> /\ Len(acts) = 0 /\ acts \in Seq(ActionKinds)
  BY DEF TxInit
<1>5. AudioTypes
  <2>1. 0 \in 0..RingFrames /\ Len(acts) <= ActionsMax
    BY <1>4, TxAssumption
  <2>2. ring = 0 /\ pc = "rx" /\ pass = 0
    BY DEF TxInit
  <2>3. /\ software_relay \in BOOLEAN /\ cor \in BOOLEAN /\ unkeyed \in BOOLEAN
        /\ rerun \in BOOLEAN
    BY DEF TxInit
  <2> QED BY <1>3, <1>4, <2>1, <2>2, <2>3 DEF AudioTypes
<1>6. Placed(a, acts) /\ ReleaseIsSafe /\ HoldAfterTail(a)
  BY <1>3, <1>4 DEF Placed, ReleaseIsSafe, Pending, HoldAfterTail
<1>7. Exact("queue" \in held, a, acts)
  BY <1>3, <1>4 DEF TxInit, PttInit, Exact, In
<1>8. PlayingIsKeyed /\ RingIsQueues
  BY DEF TxInit, kerchunk_queue_init, PlayingIsKeyed, RingIsQueues
<1> QED BY <1>1, <1>2, <1>4, <1>5, <1>6, <1>7, <1>8 DEF TxInv, Claim

\* For any delays, ring and list, any producers and any other holders of the
\* transmitter: the queue's reference is exact up to the action that is still
\* to be carried out, nothing is played unkeyed, and without software relay
\* the radio is keyed as long as the sound card has a frame to play.
THEOREM TransmitterAlwaysKeyed == TxSpec => []TransmitterIsKeyed
<1>1. TxInit => TxInv
  BY InitTxInv
<1>2. TxInv /\ [TxNext]_txVars => TxInv'
  BY NextTxInv
<1>3. TxInv => TransmitterIsKeyed
  <2> SUFFICES ASSUME TxInv PROVE TransmitterIsKeyed
    OBVIOUS
  <2>1. TxTypeOK
    BY DEF TxInv, QInv, PttCounts, AudioTypes, TxTypeOK
  <2>2. QueueRefExact
    BY DEF TxInv, Claim, Exact, In, QueueRefExact, Pending
  <2>3. PlayingIsKeyed /\ AudioIsKeyed
    BY DEF TxInv, Claim, PttCounts, RingIsQueues, AudioIsKeyed, ActiveIffHeld
  <2> QED BY <2>1, <2>2, <2>3 DEF TransmitterIsKeyed
<1> QED BY <1>1, <1>2, <1>3, PTL DEF TxSpec

\* Whoever drives the arbiter is disciplined: the shell asserts only what the
\* queue does not hold and releases only what it does, however stale the list.
LEMMA TxStepsAreDisciplined ==
  ASSUME TxInv, [TxNext]_txVars
  PROVE  PttStep
<1>0. "queue" \in Holders /\ "repeater" \in Holders
  BY TxAssumption
<1>1. CASE TxAct
  <2>1. acts # <<>> /\ acts \in Seq(ActionKinds)
    BY <1>1 DEF TxAct, TxInv, AudioTypes
  <2>2. /\ Head(acts) = "ASSERT_PTT" => "queue" \notin held
        /\ Head(acts) = "RELEASE_PTT" => "queue" \in held
    BY <2>1, HeadIs DEF TxInv, Claim
  <2>3. CASE Head(acts) = "ASSERT_PTT"
    <3>1. core_request_ptt("queue")
      BY <1>1, <2>3 DEF TxAct, DoAssert
    <3> QED BY <1>0, <2>2, <2>3, <3>1 DEF PttStep
  <2>4. CASE Head(acts) = "RELEASE_PTT"
    <3>1. core_release_ptt("queue")
      BY <1>1, <2>4 DEF TxAct, DoRelease
    <3> QED BY <1>0, <2>2, <2>4, <3>1 DEF PttStep
  <2>5. CASE Head(acts) \notin {"ASSERT_PTT", "RELEASE_PTT"}
    <3>1. UNCHANGED pttVars
      BY <1>1, <2>5 DEF TxAct, DoSilence, DoDrain, DoEvent
    <3> QED BY <3>1 DEF PttStep
  <2> QED BY <2>3, <2>4, <2>5
<1>2. CASE RepeaterKeys \/ RepeaterUnkeys
  BY <1>0, <1>2 DEF RepeaterKeys, RepeaterUnkeys, PttStep
<1>3. CASE \/ RxTick \/ TxPass \/ TxPassEnds \/ Producer \/ Operator
           \/ MainReadsPtt \/ NoCarrier \/ CorBegin \/ CorEnd
           \/ PlaybackCallback \/ UNCHANGED txVars
  <2>1. UNCHANGED pttVars
    BY <1>3 DEF RxTick, TxPass, TxPassEnds, Producer, Operator, MainReadsPtt,
                NoCarrier, CorBegin, CorEnd, PlaybackCallback, txVars
  <2> QED BY <2>1 DEF PttStep
<1> QED BY <1>1, <1>2, <1>3 DEF TxNext, AudioThread

\* A disciplined step of the exact arbiter is a step of the abstract
\* transmitter.
LEMMA TxStepSimulates ==
  ASSUME PttExact', PttStep
  PROVE  [T!Next]_<<held, pin>>
<1>0. pin' = (held' # {})
  <2>1. pin' \in BOOLEAN
    BY DEF PttExact, PttTypeOK
  <2> QED BY <2>1, Zenon DEF PttExact, ActiveIffHeld
<1>1. ASSUME NEW h \in Holders, h \notin held, core_request_ptt(h)
      PROVE  T!Acquire(h)
  <2>1. held' = held \cup {h}
    BY <1>1 DEF core_request_ptt
  <2> QED BY <1>0, <1>1, <2>1 DEF T!Acquire
<1>2. ASSUME NEW h \in Holders, h \in held, core_release_ptt(h)
      PROVE  T!Drop(h)
  <2>1. held' = held \ {h}
    BY <1>2 DEF core_release_ptt
  <2> QED BY <1>0, <1>2, <2>1 DEF T!Drop
<1>3. CASE UNCHANGED pttVars
  BY <1>3 DEF pttVars
<1> QED BY <1>1, <1>2, <1>3 DEF PttStep, T!Next

\* With an adapter whose writes arrive, the audio thread's stale lists and the
\* repeater's session together implement the abstract transmitter: the line is
\* keyed exactly while one of them has a reason.
THEOREM TxPathImplementsTransmitter ==
  ASSUME ~HidFails
  PROVE  TxSpec => QueueImplementsTransmitter
<1>1. TxInit => TxInv /\ PttExact /\ T!Init
  <2> SUFFICES ASSUME TxInit PROVE TxInv /\ PttExact /\ T!Init
    OBVIOUS
  <2>1. TxInv /\ PttExact
    BY InitTxInv, PttInitExact DEF TxInit
  <2>2. held = {} /\ pin = FALSE
    BY DEF TxInit, PttInit
  <2> QED BY <2>1, <2>2 DEF T!Init
<1>2. TxInv /\ PttExact /\ [TxNext]_txVars => TxInv' /\ PttExact'
  BY NextTxInv, TxStepsAreDisciplined, PttStepExact
<1>3. TxInv /\ PttExact' /\ [TxNext]_txVars => [T!Next]_<<held, pin>>
  BY TxStepsAreDisciplined, TxStepSimulates
<1> QED BY <1>1, <1>2, <1>3, PTL DEF TxSpec, QueueImplementsTransmitter, T!Spec
=============================================================================
