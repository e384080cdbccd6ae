-------------------------------- MODULE Node --------------------------------
(***************************************************************************)
(* The main loop of src/main.c from the receiver to the transmitter: the   *)
(* COS line of the radio, the USB adapter's reports, the PTT gate, the     *)
(* TX-activity detector and the repeater module with its timers.           *)
(*                                                                         *)
(* The adapter sends a report when the line changes; kerchunk_hid_read_cor *)
(* takes all reports that are waiting and returns the last, or -1.  While  *)
(* PTT is held the loop does not read: it tells the detector 0.  It        *)
(* samples PTT, COS and the DTMF flag first (Sample) and runs detector and *)
(* handlers then (Detect); the link worker, the audio thread and the user  *)
(* do not wait for it.                                                     *)
(***************************************************************************)
EXTENDS Repeater, TxActivity

VARIABLES
  line,       \* the radio's COS line: a user's carrier is received
  report,     \* what the waiting reports say: 0, 1 or NoData
  tone,       \* g_tx_dtmf_active, written by the audio thread
  main_pc,    \* the main loop: "sample", "detect"
  seen,       \* cos_raw and dtmf_active as sampled
  deaf,       \* auxiliary: PTT was held at a sample and no report read since
  calm,       \* auxiliary: ticks since a carrier the loop heard of, or a tone
  quiet       \* auxiliary: ticks since the line was last up, or a tone

radioVars == <<line, report, tone>>
auxVars   == <<deaf, calm, quiet>>
loopVars  == <<main_pc, seen, auxVars>>
nodeVars  == <<vars, txactVars, radioVars, loopVars>>

NodeInit == /\ Init /\ kerchunk_txactivity_init
            /\ line = FALSE /\ report = NoData /\ tone = FALSE
            /\ main_pc = "sample" /\ seen = [cos_raw |-> 0, dtmf |-> FALSE]
            /\ deaf = FALSE /\ calm = 0 /\ quiet = 0
-----------------------------------------------------------------------------
(* The radio and the audio thread. *)

Level(up) == IF up THEN 1 ELSE 0

UserKeys   == /\ ~line /\ line' = TRUE /\ report' = Level(TRUE)
              /\ UNCHANGED <<vars, txactVars, tone, loopVars>>
UserUnkeys == /\ line /\ line' = FALSE /\ report' = Level(FALSE)
              /\ UNCHANGED <<vars, txactVars, tone, loopVars>>

\* The decoder's view of the tone changes.
Tone == /\ tone' = ~tone
        /\ UNCHANGED <<vars, txactVars, line, report, loopVars>>
-----------------------------------------------------------------------------
(* The main loop. *)

Upto(n, cap) == IF n < cap THEN n + 1 ELSE n

Gated == g_ptt_active

\* Mutant: reports are read and dropped while the node transmits.
ReportsLeft_Discards == NoData

\* Without trust in the COS bit it is not read either.
ReportsLeft == IF trust_cos_bit /\ ~Gated THEN NoData ELSE report

Sample ==
  /\ main_pc = "sample" /\ main_pc' = "detect"
  /\ seen' = [cos_raw |-> IF trust_cos_bit /\ ~Gated THEN report ELSE 0,
              dtmf    |-> tone /\ ~Gated]
  /\ report' = ReportsLeft
  /\ deaf' = IF Gated \/ ~trust_cos_bit THEN TRUE ELSE deaf /\ report = NoData
  /\ calm' = IF seen'.dtmf \/ (line /\ ~deaf') THEN 0 ELSE Upto(calm, EndSilenceDtmf)
  /\ quiet' = IF tone \/ line THEN 0 ELSE Upto(quiet, EndSilence)
  /\ UNCHANGED <<vars, txactVars, line, tone>>

\* kerchunk_core_set_cor and the event, delivered at once.
Detect ==
  /\ main_pc = "detect" /\ main_pc' = "sample"
  /\ seen' = [cos_raw |-> 0, dtmf |-> FALSE]
  /\ kerchunk_txactivity_tick(seen.cos_raw, seen.dtmf)
  /\ IF published' # published
       THEN IF published' THEN on_cor_assert ELSE on_cor_drop
       ELSE UNCHANGED vars
  /\ UNCHANGED <<radioVars, auxVars>>

\* kerchunk_timer_tick, later in the same iteration.
Timers(s) == /\ main_pc = "sample" /\ TimerFires(s)
             /\ UNCHANGED <<txactVars, radioVars, loopVars>>

\* mod_link's worker and the other holders of the transmitter.
OtherThreads == /\ \/ link_rx_assert \/ link_rx_drop \/ link_change_state
                   \/ \E h \in Holders : OtherPtt(h)
                /\ UNCHANGED <<txactVars, radioVars, loopVars>>

NodeNext == \/ UserKeys \/ UserUnkeys \/ Tone \/ Sample \/ Detect
            \/ \E s \in TimerIds : Timers(s)
            \/ OtherThreads

NodeSpec == NodeInit /\ [][NodeNext]_nodeVars

\* The loop runs for ever, an armed timer comes due in one of its passes and
\* the link worker finishes its handler.  Nobody has to key or unkey.
NodeFairSpec ==
  /\ NodeSpec
  /\ WF_nodeVars(Sample) /\ WF_nodeVars(Detect)
  /\ \A s \in TimerIds : SF_nodeVars(Timers(s))
  /\ WF_nodeVars(link_change_state /\ UNCHANGED <<txactVars, radioVars, loopVars>>)
-----------------------------------------------------------------------------
(* Properties. *)

NodeTypeOK ==
  /\ TypeOK /\ TxActivityTypeOK
  /\ line \in BOOLEAN /\ report \in {0, 1, NoData} /\ tone \in BOOLEAN
  /\ main_pc \in {"sample", "detect"}
  /\ seen \in [cos_raw : {0, 1, NoData}, dtmf : BOOLEAN]
  /\ deaf \in BOOLEAN /\ calm \in 0..EndSilenceDtmf /\ quiet \in 0..EndSilence

\* No edge of the carrier is lost between line, reports and sticky bit: once
\* the reports are read the detector's bit is the line, except after a PTT
\* gate, which makes the loop deaf until the line next changes.
BitTracksLine ==
  main_pc = "sample" /\ report = NoData /\ ~deaf => (cos_bit_sticky <=> line)

\* The detector's counters stay in their windows and its sticky bit stays
\* with the line, through flaps, tones, gates and adaptive silence.
DetectorState == NodeTypeOK /\ BitTracksLine

\* A session ends only after an unbroken silence: of end_silence_dtmf ticks
\* soon after a tone or once the COS bit has come back within the session,
\* of end_silence ticks otherwise.  Silence is what the loop can hear: while
\* it transmits, or holds no report since, it feeds 0 to the detector, and
\* calm counts those ticks as well although the carrier may be up.  The
\* claim without this exclusion is EndNeedsQuiet below, which is violated.
EndIsPatient ==
  [][published /\ ~published' =>
       calm >= kerchunk_txactivity_active_silence_ticks(dtmf_seen_ago',
                                                        cos_flapped_session)
    ]_nodeVars

\* A user who keys up is noticed, if not at once because the node is just
\* transmitting then when the transmissions have ended.
KeyIsHeard ==
  <>[]~g_ptt_active =>
    ((line /\ report = 1 /\ trust_cos_bit) ~> (cor \/ ~line))

\* A user who unkeys frees the repeater: silence window, tail and hang run
\* out one after the other and the machine comes back to IDLE.
UnkeyEndsSession ==
  (~line /\ ~tone /\ g_state \in Session)
    ~> (line \/ tone \/ g_state \notin Session)

\* "Both must be quiet continuously for end_silence_ms before TX_END"
\* (kerchunk.conf.example:207).
EndNeedsQuiet == [][published /\ ~published' => quiet >= EndSilence]_nodeVars
=============================================================================
