----------------------------- MODULE NodeProofs -----------------------------
(***************************************************************************)
(* The main loop with its detector: for any windows of silence and any     *)
(* grace the detector's bit follows the line, and a session ends after an  *)
(* unbroken silence only.  Every step of the node is a step of the         *)
(* repeater, whose theorems therefore hold of the node.                    *)
(***************************************************************************)
EXTENDS Node, RepeaterProofs

\* What waits in the reports is what the line is now.
ReportIsLine == report # NoData => report = Level(line)

\* Between the sample and the detector: what was sampled is the line, unless
\* a newer report waits; and nobody is sampled who is not to be trusted.
SeenIsLine ==
  main_pc = "detect" /\ ~deaf /\ report = NoData =>
    /\ trust_cos_bit
    /\ seen.cos_raw = NoData => (cos_bit_sticky <=> line)
    /\ seen.cos_raw # NoData => seen.cos_raw = Level(line)

\* The silence counted by the detector is part of the silence there was.
SilenceWasCalm == silent_ticks <= calm

\* A sample in which the detector will find nobody is one more calm tick.
SampleWasCalm ==
  main_pc = "detect" =>
    \/ CosBit(seen.cos_raw) \/ seen.dtmf
    \/ calm >= Upto(silent_ticks, EndSilenceDtmf)

DetectorInv == /\ NodeTypeOK /\ BitTracksLine
               /\ ReportIsLine /\ SeenIsLine
               /\ main_pc = "sample" => SilenceWasCalm
               /\ SampleWasCalm
-----------------------------------------------------------------------------
(* The node is a repeater. *)

\* Whatever the loop and the other threads do is a step of the repeater.
LEMMA NodeStepIsRepeaterStep ==
  ASSUME [NodeNext]_nodeVars
  PROVE  [Next]_vars
<1>1. CASE UserKeys \/ UserUnkeys \/ Tone \/ Sample \/ UNCHANGED nodeVars
  BY <1>1 DEF UserKeys, UserUnkeys, Tone, Sample, nodeVars
<1>2. CASE Detect
  BY <1>2 DEF Detect, Next
<1>3. ASSUME NEW s \in TimerIds, Timers(s) PROVE [Next]_vars
  BY <1>3 DEF Timers, Next
<1>4. CASE OtherThreads
  BY <1>4 DEF OtherThreads, Next
<1> QED BY <1>1, <1>2, <1>3, <1>4 DEF NodeNext

\* The composition restricts the repeater and adds nothing to it: what is
\* proved of mod_repeater under any order of events holds behind the main
\* loop, its detector and its PTT gate.
THEOREM NodeImplementsRepeater == NodeSpec => Spec
<1>1. NodeInit => Init
  BY DEF NodeInit
<1>2. [NodeNext]_nodeVars => [Next]_vars
  BY NodeStepIsRepeaterStep
<1> QED BY <1>1, <1>2, PTL DEF NodeSpec, Spec

\* So timers, handles, carrier, bridge and PTT of a session that begins and
\* ends by the detector belong together, and it takes no steps of its own.
THEOREM NodeSessionsAreWhole ==
  ASSUME Orderly, ~HidFails
  PROVE  NodeSpec => []SessionIsWhole /\ SessionSteps
<1>1. Spec => []SessionIsWhole
  BY SessionAlwaysWhole
<1>2. Spec => SessionSteps
  BY SessionTakesItsSteps
<1> QED BY <1>1, <1>2, NodeImplementsRepeater, PTL
-----------------------------------------------------------------------------
(* The detector. *)

\* The numbers of the detector.
LEMMA Windows ==
  ASSUME NodeTypeOK
  PROVE  /\ EndSilence \in Nat /\ EndSilenceDtmf \in Nat /\ DtmfGrace \in Nat
         /\ EndSilence <= EndSilenceDtmf
         /\ silent_ticks \in Nat /\ silent_ticks <= EndSilenceDtmf
         /\ calm \in Nat /\ calm <= EndSilenceDtmf
         /\ quiet \in Nat /\ quiet <= EndSilence
         /\ dtmf_seen_ago \in 0..DtmfGrace
         /\ \A ago, flapped :
              kerchunk_txactivity_active_silence_ticks(ago, flapped)
                \in {EndSilence, EndSilenceDtmf}
<1>1. /\ EndSilence \in Nat /\ EndSilenceDtmf \in Nat /\ DtmfGrace \in Nat
      /\ EndSilence <= EndSilenceDtmf
  BY TxActivityAssumption
<1>2. /\ silent_ticks \in 0..EndSilenceDtmf /\ calm \in 0..EndSilenceDtmf
      /\ quiet \in 0..EndSilence /\ dtmf_seen_ago \in 0..DtmfGrace
  BY DEF NodeTypeOK, TxActivityTypeOK
<1>3. \A ago, flapped : kerchunk_txactivity_active_silence_ticks(ago, flapped)
                          \in {EndSilence, EndSilenceDtmf}
  BY DEF kerchunk_txactivity_active_silence_ticks
<1> QED BY <1>1, <1>2, <1>3

LEMMA UptoIs ==
  ASSUME NEW cap \in Nat, NEW n \in 0..cap
  PROVE  /\ Upto(n, cap) \in 0..cap
         /\ n < cap => Upto(n, cap) = n + 1
         /\ n = cap => Upto(n, cap) = cap
BY DEF Upto

\* One tick of the detector: the counter grows in silence only, and what
\* ends a session is the whole window.
LEMMA TickIs ==
  ASSUME NodeTypeOK, NEW raw, NEW dtmf \in BOOLEAN,
         kerchunk_txactivity_tick(raw, dtmf)
  PROVE  LET present == CosBit(raw) \/ dtmf
             window  == kerchunk_txactivity_active_silence_ticks(dtmf_seen_ago',
                                                                 cos_flapped_session)
         IN  /\ TxActivityTypeOK' /\ trust_cos_bit' = trust_cos_bit
             /\ cos_bit_sticky' = CosBit(raw)
             /\ silent_ticks' = 0 \/ (~present /\ silent_ticks' = silent_ticks + 1)
             /\ published /\ ~published' => ~present /\ silent_ticks + 1 >= window
<1> DEFINE cos == CosBit(raw)
           flapped == cos_flapped_session \/ (published /\ ~cos_bit_sticky /\ cos)
           ago == SeenAgo(dtmf)
           present == cos \/ dtmf
           window == kerchunk_txactivity_active_silence_ticks(ago, flapped)
           ends == published /\ ~present /\ silent_ticks + 1 >= window
<1>0. /\ trust_cos_bit \in BOOLEAN /\ published \in BOOLEAN /\ silent_ticks \in Nat
      /\ cos_bit_sticky \in BOOLEAN /\ cos_flapped_session \in BOOLEAN
      /\ EndSilence \in Nat /\ EndSilenceDtmf \in Nat /\ DtmfGrace \in Nat
      /\ EndSilence <= EndSilenceDtmf /\ silent_ticks <= EndSilenceDtmf
      /\ dtmf_seen_ago \in 0..DtmfGrace
  BY Windows DEF NodeTypeOK, TxActivityTypeOK
<1>1. cos \in BOOLEAN
  BY <1>0 DEF CosBit
<1>2. ago \in 0..DtmfGrace
  BY <1>0 DEF SeenAgo
<1>3. window \in {EndSilence, EndSilenceDtmf}
  BY Windows
<1>4. /\ cos_bit_sticky' = cos /\ dtmf_seen_ago' = ago
      /\ published' = (present \/ (published /\ ~ends))
      /\ silent_ticks' = IF published /\ ~present /\ ~ends THEN silent_ticks + 1 ELSE 0
      /\ cos_flapped_session' = (flapped /\ ~ends)
      /\ trust_cos_bit' = trust_cos_bit
  BY DEF kerchunk_txactivity_tick, Present, SilenceEnds, SilentTicks
<1>5. published /\ ~published' => ~present /\ ends
  BY <1>4
<1>6. ~present => (flapped <=> cos_flapped_session)
  OBVIOUS
<1>7. ends =>
        silent_ticks + 1 >= kerchunk_txactivity_active_silence_ticks(dtmf_seen_ago',
                                                                cos_flapped_session)
  BY <1>4, <1>6 DEF kerchunk_txactivity_active_silence_ticks
<1>8. ~present /\ published /\ ~ends => silent_ticks + 1 <= EndSilenceDtmf
  <2> HIDE DEF window, present
  <2> QED BY <1>0, <1>3
<1>9. silent_ticks' \in 0..EndSilenceDtmf
  <2> HIDE DEF ends, present
  <2> QED BY <1>0, <1>4, <1>8
<1>10. /\ published' \in BOOLEAN /\ cos_flapped_session' \in BOOLEAN
  <2> HIDE DEF ends, present, flapped
  <2> QED BY <1>4
<1>11. TxActivityTypeOK'
  <2> HIDE DEF cos, ago
  <2> QED BY <1>0, <1>1, <1>2, <1>4, <1>9, <1>10 DEF TxActivityTypeOK
<1> HIDE DEF ends
<1> QED BY <1>4, <1>5, <1>7, <1>11
-----------------------------------------------------------------------------
(* The steps. *)

\* The repeater's own state stays in its types in every step.
LEMMA RepeaterPart ==
  ASSUME NodeTypeOK, [NodeNext]_nodeVars
  PROVE  TypeOK'
BY NodeStepIsRepeaterStep, NextTypes DEF NodeTypeOK

\* The user's key: a new report waits, so nothing is claimed of old ones.
LEMMA KeyKeeps ==
  ASSUME DetectorInv, TypeOK', UserKeys \/ UserUnkeys
  PROVE  DetectorInv'
<1>1. /\ line' \in BOOLEAN /\ report' = Level(line') /\ report' \in {0, 1}
      /\ report' # NoData
      /\ UNCHANGED <<trust_cos_bit, published, silent_ticks, dtmf_seen_ago,
                     cos_bit_sticky, cos_flapped_session>>
      /\ UNCHANGED <<tone, main_pc, seen, deaf, calm, quiet>>
  <2>1. /\ line' \in BOOLEAN /\ report' = Level(line')
    BY DEF UserKeys, UserUnkeys, Level
  <2>2. report' \in {0, 1} /\ report' # NoData
    BY <2>1 DEF Level, NoData
  <2>3. /\ UNCHANGED <<trust_cos_bit, published, silent_ticks, dtmf_seen_ago,
                       cos_bit_sticky, cos_flapped_session>>
        /\ UNCHANGED <<tone, main_pc, seen, deaf, calm, quiet>>
    BY DEF UserKeys, UserUnkeys, txactVars, loopVars, auxVars
  <2> QED BY <2>1, <2>2, <2>3
<1>2. NodeTypeOK'
  BY <1>1 DEF DetectorInv, NodeTypeOK, TxActivityTypeOK
<1>3. BitTracksLine' /\ ReportIsLine' /\ SeenIsLine'
  BY <1>1 DEF BitTracksLine, ReportIsLine, SeenIsLine, Level
<1>4. (main_pc = "sample" => SilenceWasCalm)' /\ SampleWasCalm'
  BY <1>1 DEF DetectorInv, SilenceWasCalm, SampleWasCalm, CosBit, Upto
<1> QED BY <1>2, <1>3, <1>4 DEF DetectorInv

\* Timers, other threads and the decoder leave the detector alone.
LEMMA OthersKeep ==
  ASSUME DetectorInv, TypeOK', tone' \in BOOLEAN,
         UNCHANGED <<txactVars, line, report, loopVars>>
  PROVE  DetectorInv'
<1>1. /\ UNCHANGED <<trust_cos_bit, published, silent_ticks, dtmf_seen_ago,
                     cos_bit_sticky, cos_flapped_session>>
      /\ UNCHANGED <<line, report, main_pc, seen, deaf, calm, quiet>>
  BY DEF txactVars, loopVars, auxVars
<1>2. NodeTypeOK'
  BY <1>1 DEF DetectorInv, NodeTypeOK, TxActivityTypeOK
<1>3. BitTracksLine' /\ ReportIsLine' /\ SeenIsLine'
  BY <1>1 DEF DetectorInv, BitTracksLine, ReportIsLine, SeenIsLine, Level
<1>4. (main_pc = "sample" => SilenceWasCalm)' /\ SampleWasCalm'
  BY <1>1 DEF DetectorInv, SilenceWasCalm, SampleWasCalm, CosBit, Upto
<1> QED BY <1>2, <1>3, <1>4 DEF DetectorInv

\* The sample takes the reports and counts a tick of silence.
LEMMA SampleKeeps ==
  ASSUME DetectorInv, TypeOK', Sample
  PROVE  DetectorInv'
<1>0. /\ NodeTypeOK /\ BitTracksLine /\ ReportIsLine /\ silent_ticks <= calm
      /\ main_pc = "sample"
  BY DEF DetectorInv, Sample, SilenceWasCalm
<1>1. /\ trust_cos_bit \in BOOLEAN /\ cos_bit_sticky \in BOOLEAN
      /\ line \in BOOLEAN /\ tone \in BOOLEAN /\ deaf \in BOOLEAN
      /\ report \in {0, 1, NoData} /\ g_ptt_active \in BOOLEAN
  BY <1>0 DEF NodeTypeOK, TypeOK, PttTypeOK, TxActivityTypeOK
<1>2. /\ main_pc' = "detect"
      /\ UNCHANGED <<trust_cos_bit, published, silent_ticks, dtmf_seen_ago,
                     cos_bit_sticky, cos_flapped_session, line, tone>>
  BY DEF Sample, txactVars
<1> DEFINE reads == trust_cos_bit /\ ~g_ptt_active
<1>3. /\ report' = IF reads THEN NoData ELSE report
      /\ seen' = [cos_raw |-> IF reads THEN report ELSE 0,
                  dtmf    |-> tone /\ ~g_ptt_active]
      /\ deaf' = IF reads THEN deaf /\ report = NoData ELSE TRUE
  BY DEF Sample, ReportsLeft, Gated
<1>4. /\ calm' = IF seen'.dtmf \/ (line /\ ~deaf') THEN 0
                 ELSE Upto(calm, EndSilenceDtmf)
      /\ quiet' = IF tone \/ line THEN 0 ELSE Upto(quiet, EndSilence)
  BY DEF Sample
<1>5. /\ seen'.cos_raw = IF reads THEN report ELSE 0
      /\ seen'.dtmf = (tone /\ ~g_ptt_active)
  BY <1>3
<1>6. calm' \in 0..EndSilenceDtmf /\ quiet' \in 0..EndSilence
  <2>1. /\ calm \in 0..EndSilenceDtmf /\ quiet \in 0..EndSilence
        /\ EndSilence \in Nat /\ EndSilenceDtmf \in Nat
    BY <1>0, Windows DEF NodeTypeOK
  <2>2. /\ Upto(calm, EndSilenceDtmf) \in 0..EndSilenceDtmf
        /\ Upto(quiet, EndSilence) \in 0..EndSilence
    BY <2>1, UptoIs
  <2> HIDE DEF reads
  <2> QED BY <1>4, <2>1, <2>2
<1>7. NodeTypeOK'
  <2>1. seen' \in [cos_raw : {0, 1, NoData}, dtmf : BOOLEAN]
    BY <1>1, <1>3
  <2>2. report' \in {0, 1, NoData} /\ deaf' \in BOOLEAN
    BY <1>1, <1>3
  <2>3. TxActivityTypeOK'
    BY <1>0, <1>2 DEF NodeTypeOK, TxActivityTypeOK
  <2> QED BY <1>1, <1>2, <1>6, <2>1, <2>2, <2>3 DEF NodeTypeOK
<1>8. ReportIsLine'
  BY <1>0, <1>2, <1>3 DEF ReportIsLine
<1>9. SeenIsLine'
  <2> SUFFICES ASSUME ~deaf'
               PROVE  /\ trust_cos_bit
                      /\ seen'.cos_raw = NoData => (cos_bit_sticky <=> line)
                      /\ seen'.cos_raw # NoData => seen'.cos_raw = Level(line)
    BY <1>2 DEF SeenIsLine, Level
  <2>1. reads /\ ~(deaf /\ report = NoData)
    BY <1>1, <1>3
  <2>2. seen'.cos_raw = report
    BY <1>5, <2>1
  <2> QED BY <1>0, <2>1, <2>2 DEF BitTracksLine, ReportIsLine
<1>10. SampleWasCalm'
  <2>1. CASE seen'.dtmf
    BY <2>1 DEF SampleWasCalm
  <2>2. CASE line /\ ~deaf'
    <3>1. reads /\ seen'.cos_raw = report
      BY <1>3, <1>5, <2>2
    <3>2. CosBit(seen.cos_raw)'
      BY <1>0, <1>2, <1>3, <2>2, <3>1 DEF BitTracksLine, ReportIsLine, CosBit, Level
    <3> QED BY <3>2 DEF SampleWasCalm
  <2>3. CASE ~seen'.dtmf /\ ~(line /\ ~deaf')
    <3>1. calm' = Upto(calm, EndSilenceDtmf)
      BY <1>4, <2>3
    <3>2. Upto(silent_ticks, EndSilenceDtmf) <= Upto(calm, EndSilenceDtmf)
      BY <1>0, Windows DEF Upto
    <3>3. Upto(silent_ticks, EndSilenceDtmf)' = Upto(silent_ticks, EndSilenceDtmf)
      BY <1>2 DEF Upto
    <3> QED BY <3>1, <3>2, <3>3 DEF SampleWasCalm
  <2> QED BY <2>1, <2>2, <2>3
<1> QED
  <2>1. BitTracksLine' /\ (main_pc = "sample" => SilenceWasCalm)'
    BY <1>2 DEF BitTracksLine
  <2> QED BY <1>7, <1>8, <1>9, <1>10, <2>1 DEF DetectorInv

\* The detector takes what was sampled.
LEMMA DetectKeeps ==
  ASSUME DetectorInv, TypeOK', Detect
  PROVE  DetectorInv'
<1>0. /\ NodeTypeOK /\ ReportIsLine /\ SeenIsLine /\ SampleWasCalm
      /\ main_pc = "detect"
  BY DEF DetectorInv, Detect
<1>1. /\ main_pc' = "sample" /\ seen' = [cos_raw |-> 0, dtmf |-> FALSE]
      /\ kerchunk_txactivity_tick(seen.cos_raw, seen.dtmf)
      /\ UNCHANGED <<line, report, tone, deaf, calm, quiet>>
  BY DEF Detect, radioVars, auxVars
<1>2. seen.dtmf \in BOOLEAN
  BY <1>0 DEF NodeTypeOK
<1>3. /\ TxActivityTypeOK' /\ trust_cos_bit' = trust_cos_bit
      /\ cos_bit_sticky' = CosBit(seen.cos_raw)
      /\ \/ silent_ticks' = 0
         \/ /\ ~(CosBit(seen.cos_raw) \/ seen.dtmf)
            /\ silent_ticks' = silent_ticks + 1
  BY <1>0, <1>1, <1>2, TickIs
<1>4. NodeTypeOK'
  <2>1. seen' \in [cos_raw : {0, 1, NoData}, dtmf : BOOLEAN]
    BY <1>1
  <2> QED BY <1>0, <1>1, <1>3, <2>1 DEF NodeTypeOK
<1>5. BitTracksLine'
  <2> SUFFICES ASSUME report = NoData, ~deaf
               PROVE  CosBit(seen.cos_raw) <=> line
    BY <1>1, <1>3 DEF BitTracksLine
  <2>1. /\ trust_cos_bit
        /\ seen.cos_raw = NoData => (cos_bit_sticky <=> line)
        /\ seen.cos_raw # NoData => seen.cos_raw = Level(line)
    BY <1>0 DEF SeenIsLine
  <2> QED BY <2>1 DEF CosBit, Level
<1>6. ReportIsLine'
  BY <1>0, <1>1 DEF ReportIsLine, Level
<1>7. silent_ticks' <= calm'
  <2>1. /\ calm' = calm /\ calm \in Nat /\ silent_ticks \in Nat
        /\ EndSilenceDtmf \in Nat /\ silent_ticks' \in 0..EndSilenceDtmf
    BY <1>0, <1>1, <1>3, Windows DEF TxActivityTypeOK
  <2>2. CASE silent_ticks' = 0
    BY <2>1, <2>2
  <2>3. CASE /\ ~(CosBit(seen.cos_raw) \/ seen.dtmf)
             /\ silent_ticks' = silent_ticks + 1
    <3>1. calm >= Upto(silent_ticks, EndSilenceDtmf)
      BY <1>0, <2>3 DEF SampleWasCalm
    <3> QED BY <2>1, <2>3, <3>1 DEF Upto
  <2> QED BY <1>3, <2>2, <2>3
<1> QED
  <2>1. SeenIsLine' /\ SampleWasCalm' /\ SilenceWasCalm'
    BY <1>1, <1>7 DEF SeenIsLine, SampleWasCalm, SilenceWasCalm
  <2> QED BY <1>4, <1>5, <1>6, <2>1 DEF DetectorInv

LEMMA NextDetectorInv ==
  ASSUME DetectorInv, [NodeNext]_nodeVars
  PROVE  DetectorInv'
<1>0. TypeOK' /\ tone \in BOOLEAN
  BY RepeaterPart DEF DetectorInv, NodeTypeOK
<1>1. CASE UserKeys \/ UserUnkeys
  BY <1>0, <1>1, KeyKeeps
<1>2. CASE Sample
  BY <1>0, <1>2, SampleKeeps
<1>3. CASE Detect
  BY <1>0, <1>3, DetectKeeps
<1>4. CASE Tone \/ OtherThreads \/ (\E s \in TimerIds : Timers(s)) \/ UNCHANGED nodeVars
  <2>1. /\ tone' \in BOOLEAN
        /\ UNCHANGED <<txactVars, line, report, loopVars>>
    BY <1>0, <1>4 DEF Tone, OtherThreads, Timers, nodeVars, radioVars
  <2> QED BY <1>0, <2>1, OthersKeep
<1> QED BY <1>1, <1>2, <1>3, <1>4 DEF NodeNext

LEMMA InitDetectorInv ==
  ASSUME NodeInit
  PROVE  DetectorInv
<1>1. TypeOK
  BY InitIInv DEF NodeInit, IInv
<1>2. /\ EndSilence \in Nat /\ EndSilenceDtmf \in Nat /\ DtmfGrace \in Nat
  BY TxActivityAssumption
<1>3. /\ silent_ticks = 0 /\ calm = 0 /\ quiet = 0 /\ dtmf_seen_ago = DtmfGrace
      /\ trust_cos_bit \in BOOLEAN /\ published = FALSE
      /\ cos_bit_sticky = FALSE /\ cos_flapped_session = FALSE
      /\ line = FALSE /\ report = NoData /\ tone = FALSE /\ deaf = FALSE
      /\ main_pc = "sample" /\ seen = [cos_raw |-> 0, dtmf |-> FALSE]
  BY DEF NodeInit, kerchunk_txactivity_init
<1>4. NodeTypeOK
  <2>1. /\ silent_ticks \in 0..EndSilenceDtmf /\ dtmf_seen_ago \in 0..DtmfGrace
        /\ calm \in 0..EndSilenceDtmf /\ quiet \in 0..EndSilence
    BY <1>2, <1>3
  <2>2. TxActivityTypeOK
    BY <1>3, <2>1 DEF TxActivityTypeOK
  <2>3. seen \in [cos_raw : {0, 1, NoData}, dtmf : BOOLEAN]
    BY <1>3
  <2>4. line \in BOOLEAN /\ report \in {0, 1, NoData} /\ tone \in BOOLEAN
        /\ main_pc \in {"sample", "detect"} /\ deaf \in BOOLEAN
    BY <1>3
  <2> QED BY <1>1, <2>1, <2>2, <2>3, <2>4 DEF NodeTypeOK
<1> QED BY <1>3, <1>4 DEF DetectorInv, BitTracksLine, ReportIsLine, SeenIsLine,
                          SilenceWasCalm, SampleWasCalm

\* For any windows and grace: no edge of the carrier is lost between line,
\* reports and the detector's sticky bit, and its counters stay in range.
THEOREM DetectorAlwaysTracks == NodeSpec => []DetectorState
<1>1. NodeInit => DetectorInv
  BY InitDetectorInv
<1>2. DetectorInv /\ [NodeNext]_nodeVars => DetectorInv'
  BY NextDetectorInv
<1>3. DetectorInv => DetectorState
  BY DEF DetectorInv, DetectorState
<1> QED BY <1>1, <1>2, <1>3, PTL DEF NodeSpec

\* Only the detector ends a session, and only when the silence it counted,
\* which is part of the silence there was, fills the window.
LEMMA EndsArePatient ==
  ASSUME DetectorInv, [NodeNext]_nodeVars, published, ~published'
  PROVE  calm >= kerchunk_txactivity_active_silence_ticks(dtmf_seen_ago',
                                                          cos_flapped_session)
<1> DEFINE window == kerchunk_txactivity_active_silence_ticks(dtmf_seen_ago',
                                                              cos_flapped_session)
<1>1. Detect
  BY DEF NodeNext, UserKeys, UserUnkeys, Tone, Sample, Timers, OtherThreads,
         nodeVars, txactVars
<1>2. /\ NodeTypeOK /\ SampleWasCalm /\ main_pc = "detect" /\ seen.dtmf \in BOOLEAN
  BY <1>1 DEF DetectorInv, Detect, NodeTypeOK
<1>3. kerchunk_txactivity_tick(seen.cos_raw, seen.dtmf)
  BY <1>1 DEF Detect
<1>4. ~(CosBit(seen.cos_raw) \/ seen.dtmf) /\ silent_ticks + 1 >= window
  BY <1>2, <1>3, TickIs
<1>5. calm >= Upto(silent_ticks, EndSilenceDtmf)
  BY <1>2, <1>4 DEF SampleWasCalm
<1>6. /\ window \in {EndSilence, EndSilenceDtmf}
      /\ EndSilence \in Nat /\ EndSilenceDtmf \in Nat /\ EndSilence <= EndSilenceDtmf
      /\ calm \in Nat /\ silent_ticks \in Nat /\ silent_ticks <= EndSilenceDtmf
  BY <1>2, Windows
<1> HIDE DEF window
<1>7. calm >= window
  BY <1>4, <1>5, <1>6 DEF Upto
<1> QED BY <1>7 DEF window

\* For any windows and grace, through flaps, tones and PTT gates: a session
\* ends after an unbroken silence of the window that applies to it, where a
\* sample taken while the node's own PTT gates the detector, or before a report
\* after it, counts as silent whatever the line does.
THEOREM SessionsEndPatiently == NodeSpec => EndIsPatient
<1>1. NodeInit => DetectorInv
  BY InitDetectorInv
<1>2. DetectorInv /\ [NodeNext]_nodeVars => DetectorInv'
  BY NextDetectorInv
<1>3. DetectorInv /\ [NodeNext]_nodeVars
        => [published /\ ~published' =>
              calm >= kerchunk_txactivity_active_silence_ticks(dtmf_seen_ago',
                                                               cos_flapped_session)
           ]_nodeVars
  BY EndsArePatient
<1> QED BY <1>1, <1>2, <1>3, PTL DEF NodeSpec, EndIsPatient
=============================================================================
