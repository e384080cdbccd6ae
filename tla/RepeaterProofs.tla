--------------------------- MODULE RepeaterProofs ---------------------------
(***************************************************************************)
(* For every timer table, every set of configurations and every set of     *)
(* other PTT holders: the repeater's reference to the transmitter follows  *)
(* its state machine, as long as the circumstances are Orderly.            *)
(***************************************************************************)
EXTENDS Repeater, PttLemmas

\* The inductive invariant.  PttFollowsSession alone is not inductive:
\* tot_expired moves any state into the session, so the proof must know
\* that the time-out timer runs in RECEIVING only, and a link handler
\* writes the state it saw earlier.
IInv == /\ TypeOK
        /\ PttFollowsSession
        /\ TimersBelongToState
        /\ HandlesLive
        /\ NoTimerAfterUnload
        /\ ReceivingHasCarrier
        /\ LinkPending

\* A created timer is either no timer or a free one that no handle names.
LEMMA CreateFresh ==
  ASSUME NEW ms \in Int
  PROVE  LET i == kerchunk_timer_create(ms)
         IN  \/ i = NoTimer
             \/ /\ i \in TimerIds /\ g_timers[i] = "free"
                /\ i \notin {g_tail_timer, g_hang_timer, g_tot_timer,
                             g_debounce_timer}
<1>1. CASE ms <= 0 \/ FreeIds = {}
  BY <1>1 DEF kerchunk_timer_create
<1>2. CASE ~(ms <= 0 \/ FreeIds = {})
  <2>1. (CHOOSE i \in FreeIds : TRUE) \in FreeIds
    BY <1>2
  <2> QED BY <1>2, <2>1 DEF kerchunk_timer_create, FreeIds
<1> QED BY <1>1, <1>2

\* Configuration always lands in range, whatever the file says.
LEMMA ConfigureInRange ==
  ASSUME NEW raw \in RawConfigs
  PROVE  repeater_configure(raw) \in Configs
<1>1. /\ raw.tail_time \in Int /\ raw.hang_time \in Int
      /\ raw.timeout_time \in Int /\ raw.cor_debounce \in Int
      /\ raw.require_id \in BOOLEAN /\ raw.software_relay \in BOOLEAN
  BY ConfigAssumption
<1>2. /\ TailMax \in Nat /\ HangMax \in Nat /\ DebounceMax \in Nat
      /\ TotMin \in Int /\ TotMax \in Int /\ TotMin <= TotMax
  BY SMT DEF TailMax, HangMax, DebounceMax, TotMin, TotMax
<1>3. /\ Clamp(raw.tail_time, 0, TailMax) \in 0..TailMax
      /\ Clamp(raw.hang_time, 0, HangMax) \in 0..HangMax
      /\ Clamp(raw.timeout_time, TotMin, TotMax) \in TotMin..TotMax
      /\ Clamp(raw.cor_debounce, 0, DebounceMax) \in 0..DebounceMax
  BY <1>1, <1>2 DEF Clamp
<1> QED BY <1>1, <1>3 DEF repeater_configure, Configs

LEMMA ConfigInts ==
  ASSUME NEW c \in Configs
  PROVE  /\ c.tail_time \in Int /\ c.hang_time \in Int
         /\ c.timeout_time \in Int /\ c.cor_debounce \in Int
<1>1. /\ c.tail_time \in 0..TailMax /\ c.hang_time \in 0..HangMax
      /\ c.timeout_time \in TotMin..TotMax /\ c.cor_debounce \in 0..DebounceMax
  BY DEF Configs
<1>2. /\ TailMax \in Int /\ HangMax \in Int /\ DebounceMax \in Int
      /\ TotMin \in Int /\ TotMax \in Int
  BY SMT DEF TailMax, HangMax, DebounceMax, TotMin, TotMax
<1> QED BY <1>1, <1>2

LEMMA DefaultsInRange == Defaults \in Configs
<1>1. /\ TailDefault \in Nat /\ TailMax \in Nat /\ TailDefault <= TailMax
      /\ HangDefault \in Nat /\ HangMax \in Nat /\ HangDefault <= HangMax
  BY SMT DEF TailDefault, HangDefault, TailMax, HangMax
<1>2. /\ TotDefault \in Nat /\ TotMin \in Nat /\ TotMax \in Nat
      /\ TotMin <= TotDefault /\ TotDefault <= TotMax
  BY SMT DEF TotDefault, TotMin, TotMax
<1>3. /\ DebounceDefault \in Nat /\ DebounceMax \in Nat
      /\ DebounceDefault <= DebounceMax
  BY SMT DEF DebounceDefault, DebounceMax
<1> QED BY <1>1, <1>2, <1>3, SMT DEF Defaults, Configs

LEMMA InitIInv == Init => IInv
<1> SUFFICES ASSUME Init PROVE IInv
  OBVIOUS
<1>1. cfg \in Configs
  BY ConfigureInRange DEF Init
<1>2. TypeOK
  BY <1>1 DEF Init, PttInit, TypeOK, PttTypeOK, NoTimer, States
<1>3. PttFollowsSession /\ ReceivingHasCarrier /\ LinkPending
  BY DEF Init, PttInit, PttFollowsSession, ReceivingHasCarrier, LinkPending,
         Session
<1>4. TimersBelongToState /\ HandlesLive /\ NoTimerAfterUnload
  BY DEF Init, TimersBelongToState, HandlesLive, NoTimerAfterUnload
<1> QED BY <1>2, <1>3, <1>4 DEF IInv

----------------------------------------------------------------------------
(* Types.                                                                  *)

LEMMA RelayStepTypes ==
  ASSUME PttTypeOK, relay_request \/ relay_release
  PROVE  PttTypeOK'
<1>1. "repeater" \in Holders
  BY RepeaterAssumption
<1>2. CASE UNCHANGED pttVars
  BY <1>2 DEF pttVars, PttTypeOK
<1>3. CASE core_request_ptt("repeater") \/ core_release_ptt("repeater")
  BY <1>1, <1>3, PttStepTypes
<1> QED BY <1>2, <1>3 DEF relay_request, relay_release

\* Every value a created timer can take keeps the handles and the table typed.
LEMMA TimerTypes ==
  ASSUME TypeOK, NEW ms \in Int, NEW cb \in Callbacks, NEW old
  PROVE  LET i == kerchunk_timer_create(ms)
         IN  /\ i \in TimerIds \cup {NoTimer}
             /\ Armed(i, cb, old) \in [TimerIds -> Callbacks \cup {"free"}]
             /\ kerchunk_timer_cancel(old)
                  \in [TimerIds -> Callbacks \cup {"free"}]
<1>1. kerchunk_timer_create(ms) \in TimerIds \cup {NoTimer}
  BY CreateFresh
<1>2. g_timers \in [TimerIds -> Callbacks \cup {"free"}]
  BY DEF TypeOK
<1> QED BY <1>1, <1>2 DEF Armed, kerchunk_timer_cancel

LEMMA StartReceivingTypes ==
  ASSUME TypeOK, NEW old, start_receiving(old)
  PROVE  /\ PttTypeOK'
         /\ g_state' \in States
         /\ g_tot_timer' \in TimerIds \cup {NoTimer}
         /\ g_timers' \in [TimerIds -> Callbacks \cup {"free"}]
<1> DEFINE ms == IF g_emergency_active THEN 0 ELSE cfg.timeout_time
<1>1. ms \in Int
  BY ConfigInts DEF TypeOK
<1>2. relay_request /\ g_state' = "RECEIVING"
  BY DEF start_receiving
<1>3. /\ g_tot_timer' \in {g_tot_timer, kerchunk_timer_create(ms)}
      /\ g_timers' = Armed(kerchunk_timer_create(ms), "tot_expired", old)
  BY DEF start_receiving
<1>4. PttTypeOK'
  BY <1>2, RelayStepTypes DEF TypeOK
<1> HIDE DEF ms
<1> QED BY <1>1, <1>2, <1>3, <1>4, TimerTypes DEF TypeOK, States, Callbacks

\* The type invariant is inductive by itself.
LEMMA NextTypes ==
  ASSUME TypeOK, [Next]_vars
  PROVE  TypeOK'
<1> USE DEF handles, timers
<1>0. /\ PttTypeOK
      /\ NoTimer \in TimerIds \cup {NoTimer}
      /\ cfg.tail_time \in Int /\ cfg.hang_time \in Int
      /\ cfg.timeout_time \in Int /\ cfg.cor_debounce \in Int
  BY ConfigInts DEF TypeOK
<1>1. ASSUME NEW s \in TimerIds, tail_expired(s) PROVE TypeOK'
  <2>1. PttTypeOK'
    BY <1>0, <1>1, RelayStepTypes
       DEF tail_expired, TailEnds, HangEnds, pttVars, PttTypeOK
  <2>2. g_hang_timer' \in TimerIds \cup {NoTimer}
    BY <1>0, <1>1, TimerTypes
       DEF tail_expired, TailEnds, HangEnds, TypeOK, Callbacks
  <2>3. g_timers' \in [TimerIds -> Callbacks \cup {"free"}]
    BY <1>0, <1>1, TimerTypes
       DEF tail_expired, TailEnds, HangEnds, Callbacks
  <2>4. g_state' \in States
    BY <1>1 DEF tail_expired, TailEnds, HangEnds, TypeOK, States
  <2> QED BY <1>1, <2>1, <2>2, <2>3, <2>4 DEF tail_expired, TypeOK
<1>2. ASSUME NEW s \in TimerIds, debounce_expired(s) PROVE TypeOK'
  <2>1. CASE start_receiving(s)
    BY <1>2, <2>1, StartReceivingTypes DEF debounce_expired, TypeOK
  <2>2. CASE /\ g_timers' = kerchunk_timer_cancel(s)
             /\ UNCHANGED <<g_state, g_tot_timer, pttVars>>
    BY <1>0, <1>2, <2>2, TimerTypes
       DEF debounce_expired, TypeOK, pttVars, PttTypeOK, Callbacks
  <2> QED BY <1>2, <2>1, <2>2 DEF debounce_expired
<1>3. ASSUME NEW s \in TimerIds, tot_expired(s) PROVE TypeOK'
  BY <1>0, <1>3, TimerTypes
     DEF tot_expired, TypeOK, pttVars, PttTypeOK, Callbacks, States
<1>4. ASSUME on_cor_assert PROVE TypeOK'
  <2>0. /\ cor' \in BOOLEAN
        /\ UNCHANGED <<cfg, loaded, g_emergency_active, link_pc>>
    BY <1>4 DEF on_cor_assert
  <2>1. CASE KeyFromIdle
    <3>1. CASE StartDebounce
      <4> DEFINE ms == IF cfg.require_id /\ cfg.cor_debounce < 500
                         THEN 500 ELSE cfg.cor_debounce
      <4>0. ms \in Int
        BY <1>0, SMT
      <4>1. /\ g_debounce_timer' = kerchunk_timer_create(ms)
            /\ g_timers' = Armed(kerchunk_timer_create(ms),
                                 "debounce_expired", g_debounce_timer)
        BY <3>1, SMT DEF StartDebounce
      <4> HIDE DEF ms
      <4>2. UNCHANGED <<g_state, g_tot_timer, pttVars>>
        BY <3>1 DEF StartDebounce
      <4> QED BY <2>0, <2>1, <4>0, <4>1, <4>2, TimerTypes
              DEF KeyFromIdle, TypeOK, pttVars, PttTypeOK, Callbacks
    <3>2. CASE start_receiving(NoTimer) /\ UNCHANGED g_debounce_timer
      BY <2>0, <2>1, <3>2, StartReceivingTypes DEF KeyFromIdle, TypeOK
    <3> QED BY <2>1, <3>1, <3>2 DEF KeyFromIdle
  <2>2. CASE RekeyFromTail
    BY <1>0, <2>0, <2>2, TimerTypes
       DEF RekeyFromTail, TypeOK, pttVars, PttTypeOK, Callbacks, States
  <2>3. CASE RekeyFromHang
    BY <1>0, <2>0, <2>3, TimerTypes
       DEF RekeyFromHang, TypeOK, pttVars, PttTypeOK, Callbacks, States
  <2>4. CASE UNCHANGED <<g_state, timers, pttVars, g_caller_identified>>
    BY <2>0, <2>4 DEF TypeOK, pttVars, PttTypeOK
  <2> QED BY <1>4, <2>1, <2>2, <2>3, <2>4 DEF on_cor_assert
<1>5. ASSUME on_cor_drop PROVE TypeOK'
  <2>0. /\ cor' \in BOOLEAN
        /\ UNCHANGED <<g_hang_timer, cfg, g_caller_identified, loaded,
                       g_emergency_active, link_pc>>
    BY <1>5 DEF on_cor_drop
  <2>1. CASE KerchunkFiltered
    BY <1>0, <2>0, <2>1, TimerTypes
       DEF KerchunkFiltered, TypeOK, pttVars, PttTypeOK, Callbacks
  <2>2. CASE Unkey
    BY <1>0, <2>0, <2>2, TimerTypes
       DEF Unkey, TypeOK, pttVars, PttTypeOK, Callbacks, States
  <2>3. CASE UnkeyAfterTimeout
    BY <1>0, <2>0, <2>3, RelayStepTypes DEF UnkeyAfterTimeout, TypeOK, States
  <2>4. CASE UNCHANGED <<g_state, g_timers, g_tail_timer, g_tot_timer,
                         g_debounce_timer, pttVars>>
    BY <2>0, <2>4 DEF TypeOK, pttVars, PttTypeOK
  <2> QED BY <1>5, <2>1, <2>2, <2>3, <2>4 DEF on_cor_drop
<1>6. ASSUME link_rx_assert \/ link_rx_drop PROVE TypeOK'
  <2>1. PttTypeOK'
    BY <1>0, <1>6, PttStepTypes, RepeaterAssumption
       DEF link_rx_assert, link_rx_drop
  <2> QED BY <1>6, <2>1 DEF link_rx_assert, link_rx_drop, TypeOK
<1>7. ASSUME link_change_state PROVE TypeOK'
  BY <1>7 DEF link_change_state, TypeOK, pttVars, PttTypeOK, States
<1>8. ASSUME on_caller_identified \/ on_caller_cleared PROVE TypeOK'
  BY <1>8 DEF on_caller_identified, on_caller_cleared, TypeOK, pttVars,
              PttTypeOK
<1>9. ASSUME NEW on \in BOOLEAN, kerchunk_core_set_emergency(on)
      PROVE  TypeOK'
  BY <1>9 DEF kerchunk_core_set_emergency, TypeOK, pttVars, PttTypeOK
<1>10. ASSUME NEW h \in Holders, OtherPtt(h) PROVE TypeOK'
  <2>1. PttTypeOK'
    BY <1>0, <1>10, PttStepTypes DEF OtherPtt
  <2> QED BY <1>10, <2>1 DEF OtherPtt, TypeOK
<1>11. ASSUME NEW raw \in RawConfigs, Reload(raw) PROVE TypeOK'
  BY <1>11, ConfigureInRange DEF Reload, TypeOK, pttVars, PttTypeOK
<1>12. ASSUME repeater_unload PROVE TypeOK'
  <2>1. PttTypeOK'
    BY <1>0, <1>12, RelayStepTypes DEF repeater_unload, pttVars, PttTypeOK
  <2> QED BY <1>12, <2>1 DEF repeater_unload, TypeOK
<1>13. ASSUME repeater_load PROVE TypeOK'
  BY <1>13, DefaultsInRange
     DEF repeater_load, TypeOK, pttVars, PttTypeOK, States
<1>14. ASSUME CorUnheard PROVE TypeOK'
  BY <1>14 DEF CorUnheard, TypeOK, pttVars, PttTypeOK
<1>15. ASSUME UNCHANGED vars PROVE TypeOK'
  BY <1>15 DEF vars, TypeOK, pttVars, PttTypeOK
<1> QED BY <1>1, <1>2, <1>3, <1>4, <1>5, <1>6, <1>7, <1>8, <1>9, <1>10,
           <1>11, <1>12, <1>13, <1>14, <1>15 DEF Next, TimerFires
----------------------------------------------------------------------------
(* The step.                                                               *)

LEMMA RelayHeld ==
  /\ relay_request =>
       held' = IF cfg.software_relay THEN held \cup {"repeater"} ELSE held
  /\ relay_release =>
       held' = IF cfg.software_relay THEN held \ {"repeater"} ELSE held
BY DEF relay_request, relay_release, core_request_ptt, core_release_ptt, pttVars

\* Entering a reception arms at most the time-out timer, which no handle
\* and no other callback used, and clears the timer that led here.
LEMMA StartReceivingEffect ==
  ASSUME TypeOK, NEW old, start_receiving(old)
  PROVE  /\ g_state' = "RECEIVING"
         /\ held' = IF cfg.software_relay THEN held \cup {"repeater"} ELSE held
         /\ \A s \in TimerIds :
              \/ g_timers'[s] = "tot_expired" /\ s = g_tot_timer'
              \/ g_timers'[s] = "free"
              \/ g_timers'[s] = g_timers[s] /\ s # old
         /\ \/ g_tot_timer' \in {g_tot_timer, NoTimer}
            \/ g_timers'[g_tot_timer'] = "tot_expired"
         /\ g_debounce_timer \in TimerIds \ {old} =>
              \/ g_timers[g_debounce_timer] = "free"
              \/ g_timers'[g_debounce_timer] = g_timers[g_debounce_timer]
<1> DEFINE ms == IF g_emergency_active THEN 0 ELSE cfg.timeout_time
           i  == kerchunk_timer_create(ms)
<1>1. /\ relay_request /\ g_state' = "RECEIVING"
      /\ g_tot_timer' = IF g_emergency_active THEN g_tot_timer ELSE i
      /\ g_timers' = Armed(i, "tot_expired", old)
  BY DEF start_receiving
<1>2. g_emergency_active => i = NoTimer
  BY SMT DEF kerchunk_timer_create
<1>3. NoTimer \notin TimerIds
  BY RepeaterAssumption, SMT DEF NoTimer
<1>4. ms \in Int
  BY ConfigInts DEF TypeOK
<1>5. i = NoTimer \/ (i \in TimerIds /\ g_timers[i] = "free")
  BY <1>4, CreateFresh
<1> HIDE DEF i
<1> QED BY <1>1, <1>2, <1>3, <1>5, RelayHeld DEF Armed

LEMMA NextIInv ==
  ASSUME Orderly, IInv, [Next]_vars
  PROVE  IInv'
<1> USE DEF handles, timers
<1> DEFINE Rest == /\ PttFollowsSession /\ TimersBelongToState /\ HandlesLive
                   /\ NoTimerAfterUnload /\ ReceivingHasCarrier /\ LinkPending
<1>a. TypeOK /\ Rest /\ TypeOK'
  BY NextTypes DEF IInv
<1>b. NoTimer \notin TimerIds
  BY RepeaterAssumption, SMT DEF NoTimer
<1>c. /\ cfg.tail_time \in Int /\ cfg.hang_time \in Int
      /\ cfg.timeout_time \in Int /\ cfg.cor_debounce \in Int
  BY <1>a, ConfigInts DEF TypeOK
<1> USE <1>a
<1>1. ASSUME NEW s \in TimerIds, tail_expired(s) PROVE Rest'
  <2>0. /\ loaded /\ link_pc = "idle" /\ g_tail_timer' = NoTimer
        /\ UNCHANGED <<g_tot_timer, g_debounce_timer, cfg, loaded, cor, link_pc>>
        /\ g_timers[s] = "tail_expired"
    BY <1>1 DEF tail_expired, MainLoop, Orderly
  <2>1. CASE TailEnds(s)
    <3>1. /\ g_state = "TAIL_WAIT" /\ g_state' = "HANG_WAIT" /\ held' = held
          /\ g_hang_timer' = kerchunk_timer_create(cfg.hang_time)
          /\ g_timers' = Armed(g_hang_timer', "tail_expired", s)
      BY <2>1 DEF TailEnds, pttVars
    <3>a. g_hang_timer' = NoTimer \/ g_hang_timer' \in TimerIds
      BY <1>c, <3>1, CreateFresh
    <3>2. TimersBelongToState' /\ HandlesLive'
      BY <1>b, <2>0, <3>1, <3>a DEF TimersBelongToState, HandlesLive, TypeOK, Armed
    <3> QED BY <2>0, <3>1, <3>2
            DEF PttFollowsSession, NoTimerAfterUnload, ReceivingHasCarrier,
                LinkPending, Session
  <2>2. CASE HangEnds(s)
    <3>1. /\ g_state = "HANG_WAIT" /\ g_state' = "IDLE"
          /\ g_hang_timer' = NoTimer
          /\ g_timers' = kerchunk_timer_cancel(s)
          /\ held' = IF cfg.software_relay THEN held \ {"repeater"} ELSE held
      BY <2>2, RelayHeld DEF HangEnds
    <3>2. TimersBelongToState' /\ HandlesLive'
      BY <2>0, <3>1 DEF TimersBelongToState, HandlesLive, TypeOK, kerchunk_timer_cancel
    <3> QED BY <2>0, <3>1, <3>2
            DEF PttFollowsSession, NoTimerAfterUnload, ReceivingHasCarrier,
                LinkPending, Session
  <2>3. g_state \in {"TAIL_WAIT", "HANG_WAIT"}
    BY <2>0 DEF TimersBelongToState, HandlesLive, TypeOK
  <2> QED BY <1>1, <2>1, <2>2, <2>3 DEF tail_expired
<1>2. ASSUME NEW s \in TimerIds, debounce_expired(s) PROVE Rest'
  <2>0. /\ loaded /\ link_pc = "idle" /\ g_debounce_timer' = NoTimer
        /\ UNCHANGED <<g_tail_timer, g_hang_timer, cfg, loaded, cor, link_pc>>
        /\ g_timers[s] = "debounce_expired"
    BY <1>2 DEF debounce_expired, MainLoop, Orderly
  <2>1. s = g_debounce_timer /\ g_state \in {"IDLE", "BRIDGING"} /\ cor
    BY <2>0 DEF TimersBelongToState, HandlesLive, TypeOK
  <2>2. CASE g_state = "IDLE" /\ start_receiving(s)
    <3>1. TimersBelongToState' /\ HandlesLive'
      BY <2>0, <2>1, <2>2, StartReceivingEffect DEF TimersBelongToState, HandlesLive, TypeOK
    <3> QED BY <2>0, <2>1, <2>2, <3>1, StartReceivingEffect
            DEF PttFollowsSession, NoTimerAfterUnload, ReceivingHasCarrier,
                LinkPending, Session
  <2>3. CASE /\ g_timers' = kerchunk_timer_cancel(s)
             /\ UNCHANGED <<g_state, g_tot_timer, pttVars>>
    <3>1. TimersBelongToState' /\ HandlesLive'
      BY <2>0, <2>1, <2>3 DEF TimersBelongToState, HandlesLive, TypeOK, kerchunk_timer_cancel
    <3> QED BY <2>0, <2>3, <3>1
            DEF PttFollowsSession, NoTimerAfterUnload, ReceivingHasCarrier,
                LinkPending, Session, pttVars
  <2> QED BY <1>2, <2>2, <2>3 DEF debounce_expired
<1>3. ASSUME NEW s \in TimerIds, tot_expired(s) PROVE Rest'
  <2>1. /\ loaded /\ link_pc = "idle" /\ g_timers[s] = "tot_expired"
        /\ g_timers' = kerchunk_timer_cancel(s)
        /\ g_tot_timer' = NoTimer
        /\ g_state' \in {g_state, "RX_TIMEOUT"}
        /\ UNCHANGED <<held, g_tail_timer, g_hang_timer, g_debounce_timer, cfg,
                       loaded, cor, link_pc>>
    BY <1>3 DEF tot_expired, MainLoop, Orderly, pttVars
  <2>2. g_state = "RECEIVING" /\ s = g_tot_timer
    BY <2>1 DEF TimersBelongToState, HandlesLive, TypeOK
  <2>3. TimersBelongToState' /\ HandlesLive'
    BY <2>1, <2>2 DEF TimersBelongToState, HandlesLive, TypeOK, kerchunk_timer_cancel
  <2> QED BY <2>1, <2>2, <2>3
          DEF PttFollowsSession, NoTimerAfterUnload, ReceivingHasCarrier,
              LinkPending, Session
<1>4. ASSUME on_cor_assert PROVE Rest'
  <2>0. /\ loaded /\ link_pc = "idle" /\ ~cor /\ cor' = TRUE
        /\ UNCHANGED <<cfg, loaded, link_pc>>
    BY <1>4 DEF on_cor_assert, MainLoop, Orderly
  <2>1. CASE KeyFromIdle
    <3>0. g_state = "IDLE" /\ UNCHANGED <<g_tail_timer, g_hang_timer>>
      BY <2>1 DEF KeyFromIdle
    <3>1. CASE StartDebounce
      <4>1. /\ g_timers' = Armed(g_debounce_timer', "debounce_expired",
                                 g_debounce_timer)
            /\ UNCHANGED <<g_state, g_tot_timer, held>>
        BY <3>1 DEF StartDebounce, pttVars
      <4>2. TimersBelongToState' /\ HandlesLive'
        BY <1>b, <2>0, <3>0, <4>1 DEF TimersBelongToState, HandlesLive, TypeOK, Armed
      <4> QED BY <2>0, <3>0, <4>1, <4>2
              DEF PttFollowsSession, NoTimerAfterUnload, ReceivingHasCarrier,
                  LinkPending, Session
    <3>2. CASE start_receiving(NoTimer) /\ UNCHANGED g_debounce_timer
      <4>1. TimersBelongToState' /\ HandlesLive'
        BY <2>0, <3>0, <3>2, StartReceivingEffect DEF TimersBelongToState, HandlesLive, TypeOK
      <4> QED BY <2>0, <3>0, <3>2, <4>1, StartReceivingEffect
              DEF PttFollowsSession, NoTimerAfterUnload, ReceivingHasCarrier,
                  LinkPending, Session
    <3> QED BY <2>1, <3>1, <3>2 DEF KeyFromIdle
  <2>2. CASE RekeyFromTail
    <3>1. /\ g_state = "TAIL_WAIT" /\ g_state' = "RECEIVING"
          /\ g_timers' = kerchunk_timer_cancel(g_tail_timer)
          /\ g_tail_timer' = NoTimer
          /\ UNCHANGED <<g_hang_timer, g_tot_timer, g_debounce_timer, held>>
      BY <2>2 DEF RekeyFromTail, pttVars
    <3>2. TimersBelongToState' /\ HandlesLive'
      BY <2>0, <3>1 DEF TimersBelongToState, HandlesLive, TypeOK, kerchunk_timer_cancel
    <3> QED BY <2>0, <3>1, <3>2
            DEF PttFollowsSession, NoTimerAfterUnload, ReceivingHasCarrier,
                LinkPending, Session
  <2>3. CASE RekeyFromHang
    <3>1. /\ g_state = "HANG_WAIT" /\ g_state' = "RECEIVING"
          /\ g_timers' = [s \in TimerIds |->
                            IF s = g_tot_timer' THEN "tot_expired"
                            ELSE IF s \in {g_hang_timer, g_tot_timer}
                                 THEN "free" ELSE g_timers[s]]
          /\ g_hang_timer' = NoTimer
          /\ UNCHANGED <<g_tail_timer, g_debounce_timer, held>>
      BY <2>3 DEF RekeyFromHang, pttVars
    <3>a. \/ g_tot_timer' = NoTimer
          \/ g_tot_timer' \in TimerIds /\ g_timers[g_tot_timer'] = "free"
      BY <1>c, <2>3, CreateFresh DEF RekeyFromHang
    <3>2. TimersBelongToState' /\ HandlesLive'
      BY <2>0, <3>1, <3>a DEF TimersBelongToState, HandlesLive, TypeOK
    <3> QED BY <2>0, <3>1, <3>2
            DEF PttFollowsSession, NoTimerAfterUnload, ReceivingHasCarrier,
                LinkPending, Session
  <2>4. CASE UNCHANGED <<g_state, timers, pttVars, g_caller_identified>>
    BY <2>0, <2>4
       DEF PttFollowsSession, TimersBelongToState, HandlesLive, NoTimerAfterUnload,
           ReceivingHasCarrier, LinkPending, pttVars
  <2> QED BY <1>4, <2>1, <2>2, <2>3, <2>4 DEF on_cor_assert
<1>5. ASSUME on_cor_drop PROVE Rest'
  <2>0. /\ loaded /\ link_pc = "idle" /\ cor /\ cor' = FALSE
        /\ UNCHANGED <<g_hang_timer, cfg, loaded, link_pc>>
    BY <1>5 DEF on_cor_drop, MainLoop, Orderly
  <2>1. CASE KerchunkFiltered
    <3>1. /\ g_timers' = kerchunk_timer_cancel(g_debounce_timer)
          /\ g_debounce_timer # NoTimer /\ g_debounce_timer' = NoTimer
          /\ UNCHANGED <<g_state, g_tail_timer, g_tot_timer, held>>
      BY <2>1 DEF KerchunkFiltered, pttVars
    <3>2. TimersBelongToState' /\ HandlesLive'
      BY <2>0, <3>1 DEF TimersBelongToState, HandlesLive, TypeOK, kerchunk_timer_cancel
    <3>3. g_state \notin {"RECEIVING", "RX_TIMEOUT"}
      BY <2>0, <3>1 DEF HandlesLive
    <3> QED BY <2>0, <3>1, <3>2, <3>3
            DEF PttFollowsSession, NoTimerAfterUnload, ReceivingHasCarrier,
                LinkPending, Session
  <2>2. CASE Unkey
    <3>1. /\ g_state = "RECEIVING" /\ g_state' = "TAIL_WAIT"
          /\ g_timers' = Armed(g_tail_timer', "tail_expired", g_tot_timer)
          /\ g_debounce_timer = NoTimer /\ g_tot_timer' = NoTimer
          /\ UNCHANGED <<g_debounce_timer, held>>
      BY <2>2 DEF Unkey, pttVars
    <3>a. \/ g_tail_timer' = NoTimer
          \/ g_tail_timer' \in TimerIds /\ g_timers[g_tail_timer'] = "free"
      BY <1>c, <2>2, CreateFresh DEF Unkey
    <3>2. TimersBelongToState' /\ HandlesLive'
      BY <1>b, <2>0, <3>1, <3>a DEF TimersBelongToState, HandlesLive, TypeOK, Armed
    <3> QED BY <2>0, <3>1, <3>2
            DEF PttFollowsSession, NoTimerAfterUnload, ReceivingHasCarrier,
                LinkPending, Session
  <2>3. CASE UnkeyAfterTimeout
    <3>1. /\ g_state = "RX_TIMEOUT" /\ g_state' = "IDLE"
          /\ held' = IF cfg.software_relay THEN held \ {"repeater"} ELSE held
          /\ UNCHANGED <<g_timers, g_tail_timer, g_tot_timer, g_debounce_timer>>
      BY <2>3, RelayHeld DEF UnkeyAfterTimeout
    <3>2. TimersBelongToState' /\ HandlesLive'
      BY <2>0, <3>1 DEF TimersBelongToState, HandlesLive, TypeOK
    <3> QED BY <2>0, <3>1, <3>2
            DEF PttFollowsSession, NoTimerAfterUnload, ReceivingHasCarrier,
                LinkPending, Session
  <2>4. CASE /\ g_debounce_timer = NoTimer
             /\ g_state \notin {"RECEIVING", "RX_TIMEOUT"}
             /\ UNCHANGED <<g_state, g_timers, g_tail_timer, g_tot_timer,
                            g_debounce_timer, pttVars>>
    BY <1>b, <2>0, <2>4
       DEF PttFollowsSession, TimersBelongToState, HandlesLive, NoTimerAfterUnload,
           ReceivingHasCarrier, LinkPending, pttVars
  <2> QED BY <1>5, <2>1, <2>2, <2>3, <2>4 DEF on_cor_drop
<1>6. ASSUME link_rx_assert \/ link_rx_drop PROVE Rest'
  <2>1. /\ "repeater" \in held' <=> "repeater" \in held
        /\ UNCHANGED <<g_state, timers, cfg, loaded, cor>>
    BY <1>6 DEF link_rx_assert, link_rx_drop, core_request_ptt,
                core_release_ptt
  <2>2. LinkPending'
    BY <1>6, <2>1 DEF link_rx_assert, link_rx_drop, LinkPending
  <2> QED BY <2>1, <2>2
          DEF PttFollowsSession, TimersBelongToState, HandlesLive,
              NoTimerAfterUnload, ReceivingHasCarrier
<1>7. ASSUME link_change_state PROVE Rest'
  <2>0. link_pc = "assert" \/ link_pc = "drop"
    BY <1>7 DEF link_change_state, TypeOK
  <2>1. /\ link_pc' = "idle"
        /\ UNCHANGED <<held, timers, cfg, loaded, cor>>
        /\ g_state' = IF link_pc = "assert" THEN "BRIDGING" ELSE "IDLE"
    BY <1>7 DEF link_change_state, pttVars
  <2>2. loaded /\ g_state = IF link_pc = "assert" THEN "IDLE" ELSE "BRIDGING"
    BY <2>0 DEF LinkPending
  <2> QED BY <2>1, <2>2
          DEF PttFollowsSession, TimersBelongToState, HandlesLive,
              NoTimerAfterUnload, ReceivingHasCarrier, LinkPending, Session
<1>8. ASSUME \/ on_caller_identified \/ on_caller_cleared
             \/ \E on \in BOOLEAN : kerchunk_core_set_emergency(on)
             \/ UNCHANGED vars
      PROVE  Rest'
  <2>1. UNCHANGED <<held, g_state, timers, cfg, loaded, cor, link_pc>>
    BY <1>8 DEF on_caller_identified, on_caller_cleared,
                kerchunk_core_set_emergency, pttVars, vars
  <2> QED BY <2>1
          DEF PttFollowsSession, TimersBelongToState, HandlesLive,
              NoTimerAfterUnload, ReceivingHasCarrier, LinkPending
<1>9. ASSUME NEW h \in Holders, OtherPtt(h) PROVE Rest'
  <2>1. /\ "repeater" \in held' <=> "repeater" \in held
        /\ UNCHANGED <<g_state, timers, cfg, loaded, cor, link_pc>>
    BY <1>9 DEF OtherPtt, core_request_ptt, core_release_ptt
  <2> QED BY <2>1
          DEF PttFollowsSession, TimersBelongToState, HandlesLive,
              NoTimerAfterUnload, ReceivingHasCarrier, LinkPending
<1>10. ASSUME NEW raw \in RawConfigs, Reload(raw) PROVE Rest'
  <2>1. /\ UNCHANGED <<held, g_state, timers, loaded, cor, link_pc>>
        /\ cfg'.software_relay = cfg.software_relay \/ g_state \notin Session
    BY <1>10 DEF Reload, Orderly, pttVars
  <2> QED BY <2>1
          DEF PttFollowsSession, TimersBelongToState, HandlesLive,
              NoTimerAfterUnload, ReceivingHasCarrier, LinkPending
<1>11. ASSUME repeater_unload PROVE Rest'
  <2>1. /\ loaded /\ loaded' = FALSE /\ link_pc' = "idle"
        /\ g_state # "RX_TIMEOUT"
        /\ g_timers' = [s \in TimerIds |->
                          IF s \in {g_tail_timer, g_hang_timer, g_tot_timer,
                                    g_debounce_timer}
                            THEN "free" ELSE g_timers[s]]
    BY <1>11 DEF repeater_unload, MainLoop, Orderly
  <2>2. \A s \in TimerIds : g_timers'[s] = "free"
    BY <2>1 DEF TimersBelongToState, TypeOK, Callbacks
  <2>3. "repeater" \notin held'
    BY <1>11, <2>1, RelayHeld
       DEF repeater_unload, PttFollowsSession, Session, pttVars
  <2> QED BY <2>1, <2>2, <2>3
          DEF PttFollowsSession, TimersBelongToState, HandlesLive,
              NoTimerAfterUnload, ReceivingHasCarrier, LinkPending
<1>12. ASSUME repeater_load PROVE Rest'
  <2>1. /\ ~loaded /\ g_state' = "IDLE"
        /\ g_tail_timer' = NoTimer /\ g_hang_timer' = NoTimer
        /\ g_tot_timer' = NoTimer  /\ g_debounce_timer' = NoTimer
        /\ loaded' = TRUE
        /\ UNCHANGED <<held, g_timers, link_pc>>
    BY <1>12 DEF repeater_load, pttVars
  <2> QED BY <2>1
          DEF PttFollowsSession, TimersBelongToState, HandlesLive,
              NoTimerAfterUnload, ReceivingHasCarrier, LinkPending, Session
<1>13. ASSUME CorUnheard PROVE Rest'
  <2>1. ~loaded /\ UNCHANGED <<held, g_state, timers, cfg, loaded, link_pc>>
    BY <1>13 DEF CorUnheard, pttVars
  <2> QED BY <2>1
          DEF PttFollowsSession, TimersBelongToState, HandlesLive,
              NoTimerAfterUnload, ReceivingHasCarrier, LinkPending
<1>14. Rest'
  BY <1>1, <1>2, <1>3, <1>4, <1>5, <1>6, <1>7, <1>8, <1>9, <1>10, <1>11,
     <1>12, <1>13 DEF Next, TimerFires
<1> QED BY <1>14 DEF IInv
----------------------------------------------------------------------------
\* In every behaviour, whatever the configuration and the other holders do,
\* the repeater holds exactly one PTT reference during a relayed session and
\* none outside, and no timer outlives the state that armed it.
THEOREM PttAlwaysFollowsSession ==
  ASSUME Orderly
  PROVE  Spec => [](PttFollowsSession /\ TimersBelongToState
                      /\ HandlesLive /\ ReceivingHasCarrier)
<1>1. Init => IInv
  BY InitIInv
<1>2. IInv /\ [Next]_vars => IInv'
  BY NextIInv
<1>3. IInv => PttFollowsSession /\ TimersBelongToState /\ HandlesLive
                /\ ReceivingHasCarrier
  BY DEF IInv
<1> QED BY <1>1, <1>2, <1>3, PTL DEF Spec

\* Every behaviour is type-correct, races and operator errors included.
THEOREM RepeaterTypes == Spec => []TypeOK
<1>1. Init => TypeOK
  BY InitIInv DEF IInv
<1>2. TypeOK /\ [Next]_vars => TypeOK'
  BY NextTypes
<1> QED BY <1>1, <1>2, PTL DEF Spec
----------------------------------------------------------------------------
\* No handler requests a reference it already has or returns one it lacks.
LEMMA StepsAreDisciplined ==
  ASSUME Orderly, IInv, [Next]_vars
  PROVE  PttStep
<1> DEFINE R == "repeater"
<1>0. /\ R \in Holders /\ "link" \in Holders
      /\ R \in held <=> loaded /\ cfg.software_relay /\ g_state \in Session
  BY RepeaterAssumption DEF IInv, PttFollowsSession
<1>1. ASSUME loaded, g_state = "IDLE", relay_request PROVE PttStep
  BY <1>0, <1>1 DEF relay_request, PttStep, Session
<1>2. ASSUME loaded, g_state \in Session, relay_release PROVE PttStep
  BY <1>0, <1>2 DEF relay_release, PttStep
<1>3. ASSUME UNCHANGED pttVars PROVE PttStep
  BY <1>3 DEF PttStep
<1>4. ASSUME NEW s \in TimerIds, TimerFires(s) PROVE PttStep
  BY <1>1, <1>2, <1>3, <1>4
     DEF TimerFires, tail_expired, TailEnds, HangEnds, debounce_expired,
         tot_expired, start_receiving, MainLoop, Session
<1>5. ASSUME on_cor_assert PROVE PttStep
  BY <1>1, <1>3, <1>5
     DEF on_cor_assert, KeyFromIdle, StartDebounce, RekeyFromTail,
         RekeyFromHang, start_receiving, MainLoop
<1>6. ASSUME on_cor_drop PROVE PttStep
  BY <1>2, <1>3, <1>6
     DEF on_cor_drop, KerchunkFiltered, Unkey, UnkeyAfterTimeout, MainLoop,
         Session
<1>7. ASSUME link_rx_assert \/ link_rx_drop PROVE PttStep
  BY <1>0, <1>7 DEF link_rx_assert, link_rx_drop, PttStep
<1>8. ASSUME NEW h \in Holders, OtherPtt(h) PROVE PttStep
  BY <1>8 DEF OtherPtt, PttStep
<1>9. ASSUME repeater_unload PROVE PttStep
  BY <1>2, <1>3, <1>9 DEF repeater_unload, MainLoop, Session
<1>10. ASSUME \/ link_change_state \/ on_caller_identified
              \/ on_caller_cleared \/ repeater_load \/ CorUnheard
              \/ \E on \in BOOLEAN : kerchunk_core_set_emergency(on)
              \/ \E raw \in RawConfigs : Reload(raw)
              \/ UNCHANGED vars
       PROVE  PttStep
  BY <1>3, <1>10
     DEF link_change_state, on_caller_identified, on_caller_cleared,
         repeater_load, CorUnheard, kerchunk_core_set_emergency, Reload, vars
<1> QED BY <1>4, <1>5, <1>6, <1>7, <1>8, <1>9, <1>10 DEF Next

\* A disciplined step of the exact arbiter is a step of the abstract
\* transmitter.
LEMMA StepSimulates ==
  ASSUME PttExact', PttStep
  PROVE  [T!Next]_<<held, pin>>
<1>0. pin' = (held' # {})
  <2>1. pin' \in BOOLEAN
    BY DEF PttExact, PttTypeOK
  <2> QED BY <2>1, Zenon DEF PttExact, ActiveIffHeld
<1>1. ASSUME NEW h \in Holders, h \notin held, core_request_ptt(h)
      PROVE  T!Acquire(h)
  <2>1. held' = held \cup {h}
    BY <1>1 DEF core_request_ptt
  <2> QED BY <1>0, <1>1, <2>1 DEF T!Acquire
<1>2. ASSUME NEW h \in Holders, h \in held, core_release_ptt(h)
      PROVE  T!Drop(h)
  <2>1. held' = held \ {h}
    BY <1>2 DEF core_release_ptt
  <2> QED BY <1>0, <1>2, <2>1 DEF T!Drop
<1>3. CASE UNCHANGED pttVars
  BY <1>3 DEF pttVars
<1> QED BY <1>1, <1>2, <1>3 DEF PttStep, T!Next

\* The core's anonymous reference count, driven by the repeater, the link
\* and any other holders, implements the abstract transmitter: the radio is
\* keyed exactly while somebody has a reason (kerchunk_core.c:105-146).
THEOREM RepeaterImplementsTransmitter ==
  ASSUME Orderly, ~HidFails
  PROVE  Spec => ImplementsTransmitter
<1>1. Init => IInv /\ PttExact /\ T!Init
  <2> SUFFICES ASSUME Init PROVE IInv /\ PttExact /\ T!Init
    OBVIOUS
  <2>1. IInv /\ PttExact
    BY InitIInv, PttInitExact DEF Init
  <2>2. held = {} /\ pin = FALSE
    BY DEF Init, PttInit
  <2> QED BY <2>1, <2>2 DEF T!Init
<1>2. IInv /\ PttExact /\ [Next]_vars => IInv' /\ PttExact'
  BY NextIInv, StepsAreDisciplined, PttStepExact
<1>3. IInv /\ PttExact' /\ [Next]_vars => [T!Next]_<<held, pin>>
  BY StepsAreDisciplined, StepSimulates
<1> QED BY <1>1, <1>2, <1>3, PTL DEF Spec, ImplementsTransmitter, T!Spec
----------------------------------------------------------------------------
(* The session as a whole.                                                 *)

\* mod_link's two events go in step with its reference, so BRIDGING does.
Bridge == /\ BridgeFollowsLink
          /\ link_pc = "assert" => "link" \in held

\* Only mod_link's own two steps touch its reference.
LEMMA LinkKeepsPtt ==
  ASSUME NEW h, h # "link",
         \/ core_request_ptt(h) \/ core_release_ptt(h)
         \/ UNCHANGED pttVars
  PROVE  "link" \in held' <=> "link" \in held
BY DEF core_request_ptt, core_release_ptt, pttVars

LEMMA NextBridge ==
  ASSUME TypeOK, Bridge, [Next]_vars
  PROVE  Bridge'
<1> USE DEF Bridge, BridgeFollowsLink
<1>1. CASE link_rx_assert \/ link_rx_drop
  <2>1. UNCHANGED <<g_state, loaded>>
    BY <1>1 DEF link_rx_assert, link_rx_drop
  <2>2. CASE link_rx_assert
    BY <2>1, <2>2 DEF link_rx_assert, core_request_ptt
  <2>3. CASE link_rx_drop
    <3>1. link_pc' = IF loaded /\ g_state = "BRIDGING" THEN "drop" ELSE "idle"
      BY <2>3, Zenon DEF link_rx_drop
    <3> QED BY <2>1, <3>1
  <2> QED BY <1>1, <2>2, <2>3
<1>2. CASE link_change_state
  BY <1>2 DEF link_change_state, TypeOK, pttVars
<1>3. CASE repeater_load
  BY <1>3 DEF repeater_load, pttVars
<1>4. ASSUME /\ "link" \in held' <=> "link" \in held
             /\ link_pc' = link_pc
             /\ loaded' => loaded
             /\ g_state' = "BRIDGING" => g_state = "BRIDGING"
      PROVE  Bridge'
  BY <1>4
<1>5. relay_request \/ relay_release => ("link" \in held' <=> "link" \in held)
  BY LinkKeepsPtt DEF relay_request, relay_release
<1>6. ASSUME NEW s \in TimerIds, TimerFires(s) PROVE Bridge'
  <2>1. "link" \in held' <=> "link" \in held
    BY <1>5, <1>6
       DEF TimerFires, tail_expired, TailEnds, HangEnds, debounce_expired,
           start_receiving, tot_expired, pttVars
  <2>2. /\ link_pc' = link_pc /\ loaded' = loaded
        /\ g_state' = "BRIDGING" => g_state = "BRIDGING"
    BY <1>6 DEF TimerFires, tail_expired, TailEnds, HangEnds, debounce_expired,
                start_receiving, tot_expired
  <2> QED BY <1>4, <2>1, <2>2
<1>7. CASE on_cor_assert \/ on_cor_drop
  <2>1. "link" \in held' <=> "link" \in held
    BY <1>5, <1>7
       DEF on_cor_assert, KeyFromIdle, StartDebounce, start_receiving,
           RekeyFromTail, RekeyFromHang, on_cor_drop, KerchunkFiltered, Unkey,
           UnkeyAfterTimeout, pttVars
  <2>2. /\ link_pc' = link_pc /\ loaded' = loaded
        /\ g_state' = "BRIDGING" => g_state = "BRIDGING"
    BY <1>7
       DEF on_cor_assert, KeyFromIdle, StartDebounce, start_receiving,
           RekeyFromTail, RekeyFromHang, on_cor_drop, KerchunkFiltered, Unkey,
           UnkeyAfterTimeout
  <2> QED BY <1>4, <2>1, <2>2
<1>8. ASSUME NEW h \in Holders, OtherPtt(h) PROVE Bridge'
  BY <1>4, <1>8, LinkKeepsPtt DEF OtherPtt
<1>9. CASE repeater_unload
  <2>1. "link" \in held' <=> "link" \in held
    BY <1>5, <1>9 DEF repeater_unload, pttVars
  <2> QED BY <1>4, <1>9, <2>1 DEF repeater_unload
<1>10. CASE \/ on_caller_identified \/ on_caller_cleared \/ CorUnheard
            \/ \E on \in BOOLEAN : kerchunk_core_set_emergency(on)
            \/ \E raw \in RawConfigs : Reload(raw)
            \/ UNCHANGED vars
  BY <1>4, <1>10
     DEF on_caller_identified, on_caller_cleared, CorUnheard,
         kerchunk_core_set_emergency, Reload, vars, pttVars
<1> QED BY <1>1, <1>2, <1>3, <1>6, <1>7, <1>8, <1>9, <1>10 DEF Next

\* State, timers, handles, carrier, link and count tell one story of the
\* session in every behaviour, for every timer table and configuration
\* (mod_repeater.c, kerchunk_core.c, the link's helpers in mod_link.c).
THEOREM SessionAlwaysWhole ==
  ASSUME Orderly, ~HidFails
  PROVE  Spec => []SessionIsWhole
<1> DEFINE WInv == IInv /\ PttExact /\ Bridge
<1>1. Init => WInv
  <2> SUFFICES ASSUME Init PROVE WInv
    OBVIOUS
  <2>1. IInv /\ PttExact
    BY InitIInv, PttInitExact DEF Init
  <2>2. Bridge
    BY DEF Init, Bridge, BridgeFollowsLink
  <2> QED BY <2>1, <2>2
<1>2. WInv /\ [Next]_vars => WInv'
  <2>1. IInv => TypeOK
    BY DEF IInv
  <2> QED BY <2>1, NextIInv, NextBridge, StepsAreDisciplined, PttStepExact
<1>3. WInv => SessionIsWhole
  BY DEF IInv, PttExact, Bridge, SessionIsWhole
<1> QED BY <1>1, <1>2, <1>3, PTL DEF Spec

\* A session is entered from IDLE or resumed by a rekey, a bridge and a
\* session never overlay each other (change_state's callers in
\* mod_repeater.c): no callback of an earlier state moves the machine.
THEOREM SessionTakesItsSteps ==
  ASSUME Orderly
  PROVE  Spec => SessionSteps
<1> DEFINE Pairs == {<<"IDLE", "RECEIVING">>, <<"RECEIVING", "TAIL_WAIT">>,
          <<"TAIL_WAIT", "HANG_WAIT">>, <<"HANG_WAIT", "IDLE">>,
          <<"TAIL_WAIT", "RECEIVING">>, <<"HANG_WAIT", "RECEIVING">>,
          <<"RECEIVING", "RX_TIMEOUT">>, <<"RX_TIMEOUT", "IDLE">>,
          <<"IDLE", "BRIDGING">>, <<"BRIDGING", "IDLE">>}
           Step == g_state' # g_state /\ loaded /\ loaded'
                     => <<g_state, g_state'>> \in Pairs
<1>1. Init => IInv
  BY InitIInv
<1>2. IInv /\ [Next]_vars => IInv'
  BY NextIInv
<1>3. IInv /\ [Next]_vars => [Step]_vars
  <2> SUFFICES ASSUME IInv, Next PROVE Step
    OBVIOUS
  <2>1. ASSUME NEW s \in TimerIds, TimerFires(s) PROVE Step
    <3>1. g_timers[s] = "tot_expired" => g_state = "RECEIVING"
      BY DEF IInv, TimersBelongToState
    <3> QED BY <2>1, <3>1
            DEF TimerFires, tail_expired, TailEnds, HangEnds, debounce_expired,
                start_receiving, tot_expired
  <2>2. CASE on_cor_assert \/ on_cor_drop
    BY <2>2
       DEF on_cor_assert, KeyFromIdle, StartDebounce, start_receiving,
           RekeyFromTail, RekeyFromHang, on_cor_drop, KerchunkFiltered, Unkey,
           UnkeyAfterTimeout
  <2>3. CASE link_change_state
    BY <2>3 DEF link_change_state, IInv, TypeOK, LinkPending
  <2>4. CASE repeater_load
    BY <2>4 DEF repeater_load
  <2>5. CASE \/ link_rx_assert \/ link_rx_drop \/ repeater_unload \/ CorUnheard
             \/ on_caller_identified \/ on_caller_cleared
             \/ \E on \in BOOLEAN : kerchunk_core_set_emergency(on)
             \/ \E h \in Holders : OtherPtt(h)
             \/ \E raw \in RawConfigs : Reload(raw)
    BY <2>5
       DEF link_rx_assert, link_rx_drop, repeater_unload, CorUnheard,
           on_caller_identified, on_caller_cleared,
           kerchunk_core_set_emergency, OtherPtt, Reload
  <2> QED BY <2>1, <2>2, <2>3, <2>4, <2>5 DEF Next
<1> QED BY <1>1, <1>2, <1>3, PTL DEF Spec, SessionSteps
=============================================================================
