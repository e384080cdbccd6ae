----------------------------- MODULE TxActivity -----------------------------
(***************************************************************************)
(* src/kerchunk_txactivity.c: the detector that decides from the COS bit   *)
(* of the USB adapter and from the DTMF decoder whether a user is          *)
(* transmitting.  One tick is one iteration (20 ms) of the main loop.      *)
(*                                                                         *)
(* dtmf_seen_ago is only ever compared with the grace period, so here it   *)
(* saturates there instead of at INT_MAX / 2.                              *)
(***************************************************************************)
EXTENDS Integers

CONSTANTS
  EndSilence,       \* end_silence_ticks
  EndSilenceDtmf,   \* end_silence_dtmf_ticks
  DtmfGrace         \* dtmf_grace_ticks

\* kerchunk_txactivity_init clamps the three so.
ASSUME TxActivityAssumption ==
  /\ EndSilence \in Nat /\ EndSilenceDtmf \in Nat /\ DtmfGrace \in Nat
  /\ EndSilence <= EndSilenceDtmf

VARIABLES
  trust_cos_bit,
  published,
  silent_ticks,
  dtmf_seen_ago,
  cos_bit_sticky,
  cos_flapped_session

txactVars == <<trust_cos_bit, published, silent_ticks, dtmf_seen_ago,
               cos_bit_sticky, cos_flapped_session>>

NoData == -1        \* kerchunk_hid_read_cor: no report since the last call

kerchunk_txactivity_init ==
  /\ trust_cos_bit \in BOOLEAN
  /\ published = FALSE /\ silent_ticks = 0 /\ dtmf_seen_ago = DtmfGrace
  /\ cos_bit_sticky = FALSE /\ cos_flapped_session = FALSE

\* The silence that ends a session: the longer one soon after a DTMF tone,
\* and for the rest of a session in which the COS bit came back.
kerchunk_txactivity_active_silence_ticks(ago, flapped) ==
  IF ago < DtmfGrace \/ flapped THEN EndSilenceDtmf ELSE EndSilence

SeenAgo(dtmf_active) ==
  IF dtmf_active THEN 0
  ELSE IF dtmf_seen_ago < DtmfGrace THEN dtmf_seen_ago + 1 ELSE dtmf_seen_ago

\* Mutant: no report is taken for a report of no carrier.
CosBit_NoDataIsZero(cos_raw) == trust_cos_bit /\ cos_raw = 1

CosBit(cos_raw) ==
  trust_cos_bit /\ IF cos_raw = NoData THEN cos_bit_sticky ELSE cos_raw = 1

Present(cos, dtmf_active) == cos \/ dtmf_active

SilenceEnds(n, window) == n >= window

\* Mutant: silence is added up over the whole session.
SilentTicks_NeverReset(present, ends) ==
  IF published /\ ~present /\ ~ends THEN silent_ticks + 1
  ELSE IF ends THEN 0 ELSE silent_ticks

SilentTicks(present, ends) ==
  IF published /\ ~present /\ ~ends THEN silent_ticks + 1 ELSE 0

\* BEGIN is published going up, END is published going down.
kerchunk_txactivity_tick(cos_raw, dtmf_active) ==
  LET cos     == CosBit(cos_raw)
      flapped == cos_flapped_session \/ (published /\ ~cos_bit_sticky /\ cos)
      ago     == SeenAgo(dtmf_active)
      present == Present(cos, dtmf_active)
      window  == kerchunk_txactivity_active_silence_ticks(ago, flapped)
      ends    == published /\ ~present /\ SilenceEnds(silent_ticks + 1, window)
  IN  /\ cos_bit_sticky' = cos
      /\ dtmf_seen_ago' = ago
      /\ published' = (present \/ (published /\ ~ends))
      /\ silent_ticks' = SilentTicks(present, ends)
      /\ cos_flapped_session' = (flapped /\ ~ends)
      /\ UNCHANGED trust_cos_bit
-----------------------------------------------------------------------------
TxActivityTypeOK ==
  /\ trust_cos_bit \in BOOLEAN /\ published \in BOOLEAN
  /\ silent_ticks \in 0..EndSilenceDtmf
  /\ dtmf_seen_ago \in 0..DtmfGrace
  /\ cos_bit_sticky \in BOOLEAN /\ cos_flapped_session \in BOOLEAN
=============================================================================
