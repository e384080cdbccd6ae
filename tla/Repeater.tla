------------------------------ MODULE Repeater ------------------------------
(***************************************************************************)
(* modules/mod_repeater.c: the receive state machine of the repeater, on   *)
(* top of the core's PTT arbiter (Ptt) and the timer table of              *)
(* src/kerchunk_timer.c.                                                   *)
(*                                                                         *)
(* Handlers run on the main loop: carrier (COR) events, timer callbacks,   *)
(* configuration reload, module load and unload.  The two link handlers    *)
(* run on mod_link's worker thread, which calls kerchevt_fire itself; they *)
(* read g_state, and write it a moment later (link_pc is the program       *)
(* counter between the two).  LinkRaces says whether the main loop may     *)
(* run in between.                                                         *)
(***************************************************************************)
EXTENDS Ptt

CONSTANTS
  TimerIds,        \* timer identifiers: when none is free, the table is full
  RawConfigs,      \* what the [repeater] section of the file may say
  UnloadStates,    \* the states in which the operator unloads the module
  RelayEdits,      \* may a reload flip software_relay during a session?
  LinkRaces        \* may the main loop run between a link handler's two steps?

NoTimer == -1

States == {"IDLE", "RECEIVING", "TAIL_WAIT", "HANG_WAIT", "RX_TIMEOUT",
           "BRIDGING"}

\* The states of a local session: the repeater relays the user's audio.
Session == {"RECEIVING", "TAIL_WAIT", "HANG_WAIT", "RX_TIMEOUT"}

Callbacks == {"tail_expired", "tot_expired", "debounce_expired"}

ASSUME RepeaterAssumption ==
  /\ TimerIds \subseteq Nat
  /\ UnloadStates \subseteq States
  /\ RelayEdits \in BOOLEAN
  /\ LinkRaces \in BOOLEAN
  /\ {"repeater", "link"} \subseteq Holders

ASSUME ConfigAssumption ==
  \A c \in RawConfigs :
    /\ c.tail_time \in Int /\ c.hang_time \in Int
    /\ c.timeout_time \in Int /\ c.cor_debounce \in Int
    /\ c.require_id \in BOOLEAN /\ c.software_relay \in BOOLEAN

VARIABLES
  g_state,
  g_tail_timer, g_hang_timer, g_tot_timer, g_debounce_timer,
  g_timers,              \* id -> the callback it will run, or "free"
  cfg,                   \* the module's configuration statics
  g_caller_identified,
  loaded,
  cor,                   \* the carrier the core last reported
  g_emergency_active,
  link_pc                \* between the two halves of a link handler

handles == <<g_tail_timer, g_hang_timer, g_tot_timer, g_debounce_timer>>
timers  == <<handles, g_timers>>
vars == <<pttVars, g_state, timers, cfg, g_caller_identified, loaded, cor,
          g_emergency_active, link_pc>>
----------------------------------------------------------------------------
(* src/kerchunk_timer.c.  The code counts identifiers up for ever; here a  *)
(* dead one is reused, but only when no handle still remembers it.         *)

FreeIds == {i \in TimerIds :
              /\ g_timers[i] = "free"
              /\ i \notin {g_tail_timer, g_hang_timer, g_tot_timer,
                           g_debounce_timer}}

\* The handle kerchunk_timer_create returns.
kerchunk_timer_create(ms) ==
  IF ms <= 0 \/ FreeIds = {} THEN NoTimer ELSE CHOOSE i \in FreeIds : TRUE

\* The table after creating timer i for cb, when old has been cancelled.
Armed(i, cb, old) ==
  [s \in TimerIds |-> IF s = i THEN cb ELSE IF s = old THEN "free" ELSE g_timers[s]]

kerchunk_timer_cancel(i) ==
  [s \in TimerIds |-> IF s = i THEN "free" ELSE g_timers[s]]
----------------------------------------------------------------------------
(* Configuration: durations are clamped, on/off words are compared.        *)

TailMax     == 30000
HangMax     == 10000
TotMin      == 10000
TotMax      == 600000
DebounceMax == 5000

Configs == [tail_time : 0..TailMax, hang_time : 0..HangMax,
            timeout_time : TotMin..TotMax, cor_debounce : 0..DebounceMax,
            require_id : BOOLEAN, software_relay : BOOLEAN]

Clamp(x, lo, hi) == IF x < lo THEN lo ELSE IF x > hi THEN hi ELSE x

\* Mutant: the upper bounds are not applied.
repeater_configure_NoCap(raw) ==
  [raw EXCEPT !.timeout_time = Clamp(@, TotMin, TotMax),
              !.cor_debounce = Clamp(@, 0, DebounceMax)]

repeater_configure(raw) ==
  [tail_time      |-> Clamp(raw.tail_time, 0, TailMax),
   hang_time      |-> Clamp(raw.hang_time, 0, HangMax),
   timeout_time   |-> Clamp(raw.timeout_time, TotMin, TotMax),
   cor_debounce   |-> Clamp(raw.cor_debounce, 0, DebounceMax),
   require_id     |-> raw.require_id,
   software_relay |-> raw.software_relay]

\* The initial values of the statics, in force until the first configure.
TailDefault     == 2000
HangDefault     == 500
TotDefault      == 180000
DebounceDefault == 150

Defaults == [tail_time |-> TailDefault, hang_time |-> HangDefault,
             timeout_time |-> TotDefault, cor_debounce |-> DebounceDefault,
             require_id |-> FALSE, software_relay |-> FALSE]

Init ==
  /\ PttInit
  /\ g_state = "IDLE"
  /\ g_tail_timer = NoTimer /\ g_hang_timer = NoTimer
  /\ g_tot_timer = NoTimer  /\ g_debounce_timer = NoTimer
  /\ g_timers = [s \in TimerIds |-> "free"]
  /\ cfg \in {repeater_configure(raw) : raw \in RawConfigs}
  /\ g_caller_identified = FALSE
  /\ loaded = TRUE
  /\ cor = FALSE
  /\ g_emergency_active = FALSE
  /\ link_pc = "idle"

\* A handler of the module that runs on the main loop.
MainLoop == /\ loaded
            /\ ~LinkRaces => link_pc = "idle"
----------------------------------------------------------------------------
(* Shared pieces of the handlers.                                          *)

relay_request == IF cfg.software_relay THEN core_request_ptt("repeater")
                                       ELSE UNCHANGED pttVars

\* Mutant: the session ends and keeps its reference.
relay_release_Forgets == UNCHANGED pttVars

relay_release == IF cfg.software_relay THEN core_release_ptt("repeater")
                                       ELSE UNCHANGED pttVars

\* old is a debounce timer its caller cancelled or consumed first.
start_receiving(old) ==
  LET ms == IF g_emergency_active THEN 0 ELSE cfg.timeout_time
      i  == kerchunk_timer_create(ms)
  IN  /\ relay_request
      /\ g_state' = "RECEIVING"
      /\ g_tot_timer' = IF g_emergency_active THEN g_tot_timer ELSE i
      /\ g_timers' = Armed(i, "tot_expired", old)
----------------------------------------------------------------------------
(* Timer callbacks.  kerchunk_timer_tick frees the slot of a one-shot      *)
(* timer, then calls back; tail_expired serves the tail and the hang timer.*)

\* Mutant: the hang timer is never started.
TailEnds_NoHang(s) ==
  /\ g_state = "TAIL_WAIT" /\ g_state' = "HANG_WAIT"
  /\ g_hang_timer' = NoTimer
  /\ g_timers' = kerchunk_timer_cancel(s)
  /\ UNCHANGED pttVars

TailEnds(s) ==
  /\ g_state = "TAIL_WAIT" /\ g_state' = "HANG_WAIT"
  /\ LET i == kerchunk_timer_create(cfg.hang_time)
     IN  g_hang_timer' = i /\ g_timers' = Armed(i, "tail_expired", s)
  /\ UNCHANGED pttVars

HangEnds(s) ==
  /\ g_state = "HANG_WAIT" /\ g_state' = "IDLE"
  /\ g_hang_timer' = NoTimer
  /\ g_timers' = kerchunk_timer_cancel(s)
  /\ relay_release

tail_expired(s) ==
  /\ MainLoop /\ g_timers[s] = "tail_expired"
  /\ g_tail_timer' = NoTimer
  /\ IF g_state \in {"TAIL_WAIT", "HANG_WAIT"}
       THEN TailEnds(s) \/ HangEnds(s)
       ELSE /\ g_timers' = kerchunk_timer_cancel(s)
            /\ UNCHANGED <<g_state, g_hang_timer, pttVars>>
  /\ UNCHANGED <<g_tot_timer, g_debounce_timer, cfg, g_caller_identified,
                 loaded, cor, g_emergency_active, link_pc>>

debounce_expired(s) ==
  /\ MainLoop /\ g_timers[s] = "debounce_expired"
  /\ g_debounce_timer' = NoTimer
  /\ IF g_state = "IDLE" /\ (cfg.require_id => g_caller_identified)
       THEN start_receiving(s)
       ELSE /\ g_timers' = kerchunk_timer_cancel(s)  \* maybe "Access denied."
            /\ UNCHANGED <<g_state, g_tot_timer, pttVars>>
  /\ UNCHANGED <<g_tail_timer, g_hang_timer, cfg, g_caller_identified, loaded,
                 cor, g_emergency_active, link_pc>>

tot_expired(s) ==
  /\ MainLoop /\ g_timers[s] = "tot_expired"
  /\ g_tot_timer' = NoTimer
  /\ g_timers' = kerchunk_timer_cancel(s)
  /\ g_state' = IF g_emergency_active THEN g_state ELSE "RX_TIMEOUT"
  /\ UNCHANGED <<pttVars, g_tail_timer, g_hang_timer, g_debounce_timer, cfg,
                 g_caller_identified, loaded, cor, g_emergency_active, link_pc>>
----------------------------------------------------------------------------
(* Carrier events.  The detector of the main loop publishes them in turn.  *)

StartDebounce ==
  LET ms == IF cfg.require_id /\ cfg.cor_debounce < 500
              THEN 500 ELSE cfg.cor_debounce
      i  == kerchunk_timer_create(ms)
  IN  /\ cfg.cor_debounce > 0 \/ cfg.require_id
      /\ g_debounce_timer' = i
      /\ g_timers' = Armed(i, "debounce_expired", g_debounce_timer)
      /\ UNCHANGED <<g_state, g_tot_timer, pttVars>>

KeyFromIdle ==
  /\ g_state = "IDLE"
  /\ g_caller_identified' = FALSE
  /\ \/ StartDebounce
     \/ /\ ~(cfg.cor_debounce > 0 \/ cfg.require_id)
        /\ start_receiving(NoTimer)
        /\ UNCHANGED g_debounce_timer
  /\ UNCHANGED <<g_tail_timer, g_hang_timer>>

RekeyFromTail ==
  /\ g_state = "TAIL_WAIT" /\ g_state' = "RECEIVING"
  /\ g_tail_timer' = NoTimer
  /\ g_timers' = kerchunk_timer_cancel(g_tail_timer)
  /\ UNCHANGED <<g_hang_timer, g_tot_timer, g_debounce_timer, pttVars,
                 g_caller_identified>>

RekeyFromHang ==
  /\ g_state = "HANG_WAIT" /\ g_state' = "RECEIVING"
  /\ g_hang_timer' = NoTimer
  /\ LET i == kerchunk_timer_create(cfg.timeout_time)
     IN  /\ g_tot_timer' = i
         /\ g_timers' = [s \in TimerIds |->
                           IF s = i THEN "tot_expired"
                           ELSE IF s \in {g_hang_timer, g_tot_timer}
                                THEN "free" ELSE g_timers[s]]
  /\ UNCHANGED <<g_tail_timer, g_debounce_timer, pttVars, g_caller_identified>>

on_cor_assert ==
  /\ MainLoop /\ ~cor /\ cor' = TRUE
  /\ \/ KeyFromIdle
     \/ RekeyFromTail
     \/ RekeyFromHang
     \/ /\ g_state \in {"RECEIVING", "RX_TIMEOUT", "BRIDGING"}
        /\ UNCHANGED <<g_state, timers, pttVars, g_caller_identified>>
  /\ UNCHANGED <<cfg, loaded, g_emergency_active, link_pc>>

KerchunkFiltered ==
  /\ g_debounce_timer # NoTimer
  /\ g_debounce_timer' = NoTimer
  /\ g_timers' = kerchunk_timer_cancel(g_debounce_timer)
  /\ UNCHANGED <<g_state, g_tail_timer, g_tot_timer, pttVars>>

\* Mutant: the time-out timer survives the end of the reception.
Unkey_TotSurvives ==
  /\ g_debounce_timer = NoTimer
  /\ g_state = "RECEIVING" /\ g_state' = "TAIL_WAIT"
  /\ LET i == kerchunk_timer_create(cfg.tail_time)
     IN  g_tail_timer' = i /\ g_timers' = Armed(i, "tail_expired", NoTimer)
  /\ UNCHANGED <<g_tot_timer, g_debounce_timer, pttVars>>

Unkey ==
  /\ g_debounce_timer = NoTimer
  /\ g_state = "RECEIVING" /\ g_state' = "TAIL_WAIT"
  /\ g_tot_timer' = NoTimer
  /\ LET i == kerchunk_timer_create(cfg.tail_time)
     IN  g_tail_timer' = i /\ g_timers' = Armed(i, "tail_expired", g_tot_timer)
  /\ UNCHANGED <<g_debounce_timer, pttVars>>

UnkeyAfterTimeout ==
  /\ g_debounce_timer = NoTimer
  /\ g_state = "RX_TIMEOUT" /\ g_state' = "IDLE"
  /\ relay_release
  /\ UNCHANGED <<g_timers, g_tail_timer, g_tot_timer, g_debounce_timer>>

on_cor_drop ==
  /\ MainLoop /\ cor /\ cor' = FALSE
  /\ \/ KerchunkFiltered
     \/ Unkey
     \/ UnkeyAfterTimeout
     \/ /\ g_debounce_timer = NoTimer
        /\ g_state \notin {"RECEIVING", "RX_TIMEOUT"}
        /\ UNCHANGED <<g_state, g_timers, g_tail_timer, g_tot_timer,
                       g_debounce_timer, pttVars>>
  /\ UNCHANGED <<g_hang_timer, cfg, g_caller_identified, loaded,
                 g_emergency_active, link_pc>>
----------------------------------------------------------------------------
(* mod_link's worker thread: PTT, then the event; the module's handler     *)
(* tests g_state and then calls change_state.                              *)

\* Mutant: the handler does not ask whether the repeater is idle.
link_rx_assert_Always ==
  /\ link_pc = "idle" /\ "link" \notin held
  /\ core_request_ptt("link")
  /\ link_pc' = IF loaded THEN "assert" ELSE "idle"
  /\ UNCHANGED <<g_state, timers, cfg, g_caller_identified, loaded, cor,
                 g_emergency_active>>

link_rx_assert ==
  /\ link_pc = "idle" /\ "link" \notin held
  /\ core_request_ptt("link")
  /\ link_pc' = IF loaded /\ g_state = "IDLE" THEN "assert" ELSE "idle"
  /\ UNCHANGED <<g_state, timers, cfg, g_caller_identified, loaded, cor,
                 g_emergency_active>>

link_rx_drop ==
  /\ link_pc = "idle" /\ "link" \in held
  /\ core_release_ptt("link")
  /\ link_pc' = IF loaded /\ g_state = "BRIDGING" THEN "drop" ELSE "idle"
  /\ UNCHANGED <<g_state, timers, cfg, g_caller_identified, loaded, cor,
                 g_emergency_active>>

\* change_state(RPT_BRIDGING) or change_state(RPT_IDLE) of the link handlers.
link_change_state ==
  /\ link_pc # "idle"
  /\ g_state' = IF link_pc = "assert" THEN "BRIDGING" ELSE "IDLE"
  /\ link_pc' = "idle"
  /\ UNCHANGED <<pttVars, timers, cfg, g_caller_identified, loaded, cor,
                 g_emergency_active>>
----------------------------------------------------------------------------
(* Callers (mod_caller), emergency mode (mod_emergency), other holders.    *)

on_caller_identified ==
  /\ MainLoop
  /\ g_caller_identified' = TRUE
  /\ UNCHANGED <<pttVars, g_state, timers, cfg, loaded, cor,
                 g_emergency_active, link_pc>>

on_caller_cleared ==
  /\ MainLoop
  /\ g_state = "IDLE" /\ g_caller_identified' = FALSE
  /\ UNCHANGED <<pttVars, g_state, timers, cfg, loaded, cor,
                 g_emergency_active, link_pc>>

kerchunk_core_set_emergency(on) ==
  /\ g_emergency_active' = on
  /\ UNCHANGED <<pttVars, g_state, timers, cfg, g_caller_identified, loaded,
                 cor, link_pc>>

\* The queue, mod_freeswitch, mod_poc, ... each release what they requested.
OtherPtt(h) ==
  /\ h \notin {"repeater", "link"}
  /\ IF h \in held THEN core_release_ptt(h) ELSE core_request_ptt(h)
  /\ UNCHANGED <<g_state, timers, cfg, g_caller_identified, loaded, cor,
                 g_emergency_active, link_pc>>
----------------------------------------------------------------------------
(* Module lifecycle.                                                       *)

\* SIGHUP or `config reload`: the statics change, the session does not.
Reload(raw) ==
  /\ MainLoop
  /\ cfg' = repeater_configure(raw)
  /\ g_state \in Session /\ ~RelayEdits
       => cfg'.software_relay = cfg.software_relay
  /\ UNCHANGED <<pttVars, g_state, timers, g_caller_identified, loaded, cor,
                 g_emergency_active, link_pc>>

repeater_unload ==
  /\ MainLoop /\ g_state \in UnloadStates
  /\ loaded' = FALSE
  /\ g_timers' = [s \in TimerIds |-> IF s \in {g_tail_timer, g_hang_timer,
                                               g_tot_timer, g_debounce_timer}
                                       THEN "free" ELSE g_timers[s]]
  /\ IF g_state \in {"RECEIVING", "TAIL_WAIT", "HANG_WAIT"}
       THEN relay_release ELSE UNCHANGED pttVars
  /\ UNCHANGED <<g_state, handles, cfg, g_caller_identified, cor,
                 g_emergency_active, link_pc>>

\* dlopen maps fresh statics: every handle is -1 and the configuration is
\* the default until the reload the command also requests has run.
repeater_load ==
  /\ ~loaded /\ loaded' = TRUE
  /\ g_state' = "IDLE"
  /\ g_tail_timer' = NoTimer /\ g_hang_timer' = NoTimer
  /\ g_tot_timer' = NoTimer  /\ g_debounce_timer' = NoTimer
  /\ cfg' = Defaults
  /\ g_caller_identified' = FALSE
  /\ UNCHANGED <<pttVars, g_timers, cor, g_emergency_active, link_pc>>

\* The carrier changes while the module is not loaded.
CorUnheard == /\ ~loaded
              /\ cor' = ~cor
              /\ UNCHANGED <<pttVars, g_state, timers, cfg,
                             g_caller_identified, loaded, g_emergency_active,
                             link_pc>>
----------------------------------------------------------------------------
TimerFires(s) == tail_expired(s) \/ debounce_expired(s) \/ tot_expired(s)

Next == \/ \E s \in TimerIds : TimerFires(s)
        \/ on_cor_assert \/ on_cor_drop
        \/ link_rx_assert \/ link_rx_drop \/ link_change_state
        \/ on_caller_identified \/ on_caller_cleared
        \/ \E on \in BOOLEAN : kerchunk_core_set_emergency(on)
        \/ \E h \in Holders : OtherPtt(h)
        \/ \E raw \in RawConfigs : Reload(raw)
        \/ repeater_unload \/ repeater_load \/ CorUnheard

Spec == Init /\ [][Next]_vars
----------------------------------------------------------------------------
\* The circumstances under which the module keeps its promises: link events
\* do not interleave with the main loop, software_relay is not edited during
\* a session, and the module is not unloaded in the receive time-out.
Orderly == /\ LinkRaces = FALSE
           /\ RelayEdits = FALSE
           /\ "RX_TIMEOUT" \notin UnloadStates

TypeOK ==
  /\ PttTypeOK
  /\ g_state \in States
  /\ g_tail_timer \in TimerIds \cup {NoTimer}
  /\ g_hang_timer \in TimerIds \cup {NoTimer}
  /\ g_tot_timer \in TimerIds \cup {NoTimer}
  /\ g_debounce_timer \in TimerIds \cup {NoTimer}
  /\ g_timers \in [TimerIds -> Callbacks \cup {"free"}]
  /\ cfg \in Configs
  /\ g_caller_identified \in BOOLEAN
  /\ loaded \in BOOLEAN
  /\ cor \in BOOLEAN
  /\ g_emergency_active \in BOOLEAN
  /\ link_pc \in {"idle", "assert", "drop"}

\* The repeater's PTT reference and its state machine never drift: it holds
\* exactly one reference during a relayed session, and none otherwise.  A
\* missed release keeps the transmitter keyed for ever; one too many takes
\* another module's reference off the air.  The session the code keeps the
\* reference for includes the time-out: it goes with the COR drop
\* (mod_repeater.c:265-269), not with tot_expired as ARCHITECTURE.md:348-349
\* has it; TimeoutReleasesPtt below states that claim and is violated.
PttFollowsSession ==
  "repeater" \in held <=> loaded /\ cfg.software_relay /\ g_state \in Session

\* Every armed timer is the one its handle names and belongs to the state
\* the machine is in, so no callback of an earlier session can fire into a
\* later one (tot_expired does not look at g_state at all).
TimersBelongToState ==
  \A s \in TimerIds :
    /\ g_timers[s] = "tail_expired" =>
         \/ s = g_tail_timer /\ g_state = "TAIL_WAIT"
         \/ s = g_hang_timer /\ g_state = "HANG_WAIT"
    /\ g_timers[s] = "tot_expired" =>
         s = g_tot_timer /\ g_state = "RECEIVING"
    /\ g_timers[s] = "debounce_expired" =>
         s = g_debounce_timer /\ g_state \in {"IDLE", "BRIDGING"} /\ cor

\* The machine receives, or sits out a time-out, only while the carrier is
\* there: nothing but the next COR drop leads out of these two states.
ReceivingHasCarrier ==
  loaded /\ g_state \in {"RECEIVING", "RX_TIMEOUT"} => cor

\* A handle that is set names a timer that is still armed, of its own kind
\* and in its own state: timer_cancel never hits a stranger and on_cor_drop
\* never mistakes an old debounce for a kerchunk.
HandlesLive ==
  loaded =>
    /\ g_tail_timer # NoTimer =>
         g_timers[g_tail_timer] = "tail_expired" /\ g_state = "TAIL_WAIT"
    /\ g_hang_timer # NoTimer =>
         g_timers[g_hang_timer] = "tail_expired" /\ g_state = "HANG_WAIT"
    /\ g_tot_timer # NoTimer =>
         g_timers[g_tot_timer] = "tot_expired" /\ g_state = "RECEIVING"
    /\ g_debounce_timer # NoTimer =>
         /\ g_timers[g_debounce_timer] = "debounce_expired"
         /\ g_state \in {"IDLE", "BRIDGING"}

\* Once unloaded, the module leaves no timer behind whose callback would
\* jump into unmapped code (repeater_unload).
NoTimerAfterUnload == ~loaded => \A s \in TimerIds : g_timers[s] = "free"

\* The machine shows BRIDGING only while mod_link really keys the radio,
\* or is about to take it back: "Always fire the event in lockstep with the
\* request/release_ptt pair so the two never drift" (mod_link.c:439-440).
BridgeFollowsLink ==
  loaded /\ g_state = "BRIDGING" => "link" \in held \/ link_pc = "drop"

\* State, timers, handles, carrier, link and reference count tell one story
\* of the session: what no callback, cancel, rekey, bridge, reload or unload
\* may leave behind for the next one.
SessionIsWhole ==
  /\ TimersBelongToState /\ HandlesLive /\ NoTimerAfterUnload
  /\ ReceivingHasCarrier /\ CountIsHolders /\ BridgeFollowsLink

\* Between the halves of a link handler the state it tested still stands.
LinkPending == /\ link_pc = "assert" => loaded /\ g_state = "IDLE"
               /\ link_pc = "drop"   => loaded /\ g_state = "BRIDGING"

\* A session is only entered from IDLE through debounce, or resumed by a
\* rekey; a bridge is never overlaid on a session nor a session on a bridge.
\* The second half is what on_cor_assert does, not what the comments beside
\* it say: it ignores a key-up in BRIDGING, where mod_repeater.c:30-32 lets
\* the carrier win.  CarrierWins below states that claim and is violated.
SessionSteps ==
  [][g_state' # g_state /\ loaded /\ loaded' =>
       <<g_state, g_state'>> \in
         {<<"IDLE", "RECEIVING">>, <<"RECEIVING", "TAIL_WAIT">>,
          <<"TAIL_WAIT", "HANG_WAIT">>, <<"HANG_WAIT", "IDLE">>,
          <<"TAIL_WAIT", "RECEIVING">>, <<"HANG_WAIT", "RECEIVING">>,
          <<"RECEIVING", "RX_TIMEOUT">>, <<"RX_TIMEOUT", "IDLE">>,
          <<"IDLE", "BRIDGING">>, <<"BRIDGING", "IDLE">>}]_vars

\* The abstract transmitter, seen through the radio's PTT line.
T == INSTANCE Transmitter WITH holding <- held, keyed <- pin

\* The repeater, the link and the other holders together implement the
\* abstract transmitter: the line is keyed exactly while somebody has a
\* reason, and every step takes or returns at most one reason.
ImplementsTransmitter == T!Spec
----------------------------------------------------------------------------
(* What the documentation says and some configuration or interleaving      *)
(* contradicts; each is the one property of a run of its own.              *)

\* "TOT (timeout_time, default 180s) - max continuous receive"
\* (README.md:356): outside emergency mode a reception is always timed.
ReceptionIsTimed ==
  loaded /\ g_state = "RECEIVING" /\ ~g_emergency_active
     => g_tot_timer # NoTimer

\* "start_receiving() asserts PTT on COR and it's normally released on the
\* transition back to IDLE" (mod_repeater.c:385-386).
IdleHoldsNoPtt == loaded /\ g_state = "IDLE" => "repeater" \notin held

\* "TIMEOUT: fires after timeout_time in RECEIVING -> releases PTT"
\* (ARCHITECTURE.md:348-349): whoever talks too long is taken off the air.
\* tot_expired only changes the state; the next COR drop releases PTT.
TimeoutReleasesPtt ==
  loaded /\ g_state = "RX_TIMEOUT" => "repeater" \notin held

\* "If both fire (local user keys up while link audio is playing) COR wins -
\* RECEIVING takes precedence" (mod_repeater.c:30-31): a key-up during a
\* bridge begins a reception or its debounce.
CarrierWins ==
  [][loaded /\ g_state = "BRIDGING" /\ ~cor /\ cor' =>
       g_state' = "RECEIVING" \/ g_debounce_timer' # NoTimer]_vars
=============================================================================
