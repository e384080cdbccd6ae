----------------------------- MODULE Autopatch -----------------------------
(***************************************************************************)
(* mod_freeswitch: one telephone call at a time over an event socket (ESL) *)
(* to a FreeSWITCH server.  The call owns three timers, two audio taps, a  *)
(* pair of UDP sockets and, while the telephone speaks, a PTT reference.   *)
(* The server is external: it answers, refuses and hangs up when it likes, *)
(* and its events arrive in order, but late.                               *)
(*                                                                         *)
(* A command of the web page or of mod_ai runs on that thread               *)
(* (kerchunk_dispatch_command), with no lock against the handlers of the     *)
(* main loop: dialling, hanging up and the voice's PTT are two steps each.   *)
(***************************************************************************)
EXTENDS Integers, Sequences

CONSTANTS MaxFsCalls,                 \* bound: channels the server ever opens
          MaxFsInputs,                \* bound: carriers, reloads, connection failures
          ESL_MAX_RECONNECT_ATTEMPTS

VARIABLES call,     \* the call and what it owns
          esl,      \* "down", "open" (g_esl_fd), "authed" (g_esl_authed)
          esl_in,   \* events on their way
          esl_failures, esl_circuit_open, esl_backoff,
          chan,     \* the server's channels
          hand,     \* of each thread: the half of a handler that is still to come
          overlap,  \* history: a command of another thread and a handler overlapped
          fs_loaded, fs_enabled, fs_admin_only, fs_cor, fs_inputs

fsVars == <<call, esl, esl_in, esl_failures, esl_circuit_open, esl_backoff, chan, hand, overlap,
            fs_loaded, fs_enabled, fs_admin_only, fs_cor, fs_inputs>>
fsConfVars == <<fs_loaded, fs_enabled, fs_admin_only, fs_cor>>
eslVars == <<esl, esl_in, esl_failures, esl_circuit_open, esl_backoff>>

Channels == 1..MaxFsCalls
NoUuid == 0
Kinds == {"dial", "call", "inactivity"}       \* of timers

\* armed counts the timers of a kind; handles are those whose id is kept,
\* refused those that kerchunk_timer_create refused.
NoCall == [state |-> "idle", uuid |-> NoUuid, active |-> FALSE, armed |-> [k \in Kinds |-> 0],
           handles |-> {}, refused |-> {}, taps |-> 0, udp |-> FALSE, vox_ptt_held |-> FALSE, ptt |-> 0]

FsInit ==
    /\ call = NoCall
    /\ esl = "down" /\ esl_in = <<>> /\ esl_failures = 0 /\ esl_circuit_open = FALSE /\ esl_backoff = FALSE
    /\ chan = [c \in Channels |-> "none"]
    /\ hand = [t \in {"main", "other"} |-> "none"] /\ overlap = FALSE
    /\ fs_loaded = TRUE /\ fs_enabled = TRUE /\ fs_admin_only \in BOOLEAN /\ fs_cor = FALSE /\ fs_inputs = 0

FsInput == fs_inputs < MaxFsInputs /\ fs_inputs' = fs_inputs + 1

(* ------------------------------- the call ------------------------------- *)

Cancelled(c, kinds) ==
    [c EXCEPT !.armed = [k \in Kinds |-> IF k \in kinds \cap c.handles THEN @[k] - 1 ELSE @[k]],
              !.handles = @ \ kinds]
Fired(c, kind) == [c EXCEPT !.armed[kind] = @ - 1, !.handles = @ \ {kind}]

\* kerchunk_timer_create answers -1 to a time of 0 and to a full table.
Created(c, kind) == {[c EXCEPT !.armed[kind] = @ + 1, !.handles = @ \cup {kind}],
                     [c EXCEPT !.handles = @ \ {kind}, !.refused = @ \cup {kind}]}

\* Everything the call owns is given back: the timers, then the rest.
Dropped(c) ==
    [NoCall EXCEPT !.armed = c.armed, !.handles = c.handles,
                   !.ptt = IF c.vox_ptt_held THEN c.ptt - 1 ELSE c.ptt]
call_teardown(c) == Dropped(Cancelled(c, Kinds))

Connected(c) == [c EXCEPT !.state = "connected", !.udp = TRUE, !.taps = @ + 1, !.active = TRUE,
                          !.vox_ptt_held = FALSE, !.refused = {}]

(* Mutant: the answered call keeps its dial timer.                          *)
call_setup_audio_KeepsDialTimer(c) ==
    {call_teardown(c)} \cup UNION {Created(d, "inactivity") : d \in Created(Connected(c), "call")}

\* The answer: sockets, taps, the two timers of a call; or, when a socket
\* cannot be had, autopatch_hangup.
call_setup_audio(c) ==
    {call_teardown(c)} \cup
    UNION {Created(d, "inactivity") : d \in Created(Cancelled(Connected(c), {"dial"}), "call")}

\* uuid_kill reaches the server over an authenticated connection.
Kill(u) == chan' = IF u # NoUuid /\ esl = "authed" /\ chan[u] \in {"trying", "ringing", "up"}
                   THEN [chan EXCEPT ![u] = "killed"] ELSE chan

\* Refused: switched off, busy, not authenticated, admin only, a forbidden
\* number, or a command that cannot be sent.  The dial timer is still to come.
autopatch_dial(thread) == \E c \in Channels :
    /\ fs_loaded /\ fs_enabled /\ call.state = "idle" /\ esl = "authed" /\ ~fs_admin_only
    /\ chan[c] = "none" /\ \A d \in Channels : d < c => chan[d] # "none"
    /\ chan' = [chan EXCEPT ![c] = "trying"]
    /\ call' = [call EXCEPT !.state = "dialing", !.uuid = NoUuid]
    /\ hand' = [hand EXCEPT ![thread] = "dial"]
    /\ UNCHANGED <<eslVars, fsConfVars, fs_inputs>>

DialTimer(thread) ==
    /\ hand[thread] = "dial" /\ hand' = [hand EXCEPT ![thread] = "none"]
    /\ call' \in Created(call, "dial")
    /\ UNCHANGED <<eslVars, chan, fsConfVars, fs_inputs>>

\* "0#" without digits and the end of the daemon.  The channel is killed only
\* when its uuid is known: from the answer on.
autopatch_hangup ==
    /\ fs_loaded /\ call.state # "idle"
    /\ Kill(call.uuid) /\ call' = call_teardown(call)
    /\ UNCHANGED <<eslVars, hand, fsConfVars, fs_inputs>>

\* `freeswitch hangup` on the web page: the same, but between the timers and
\* the rest the main loop may run.
CliHangup ==
    /\ fs_loaded /\ call.state # "idle"
    /\ Kill(call.uuid) /\ call' = Cancelled(call, Kinds)
    /\ hand' = [hand EXCEPT !["other"] = "hangup"]
    /\ UNCHANGED <<eslVars, fsConfVars, fs_inputs>>

CliHungUp ==
    /\ hand["other"] = "hangup" /\ hand' = [hand EXCEPT !["other"] = "none"]
    /\ call' = Dropped(call)
    /\ UNCHANGED <<eslVars, chan, fsConfVars, fs_inputs>>

on_call_timeout ==
    /\ call.armed["call"] > 0 /\ Kill(call.uuid)
    /\ call' = call_teardown(Fired(call, "call"))
    /\ UNCHANGED <<eslVars, hand, fsConfVars, fs_inputs>>

on_dial_timeout ==
    /\ call.armed["dial"] > 0 /\ Kill(call.uuid)
    /\ call' = call_teardown(Fired(call, "dial"))
    /\ UNCHANGED <<eslVars, hand, fsConfVars, fs_inputs>>

on_inactivity_timeout ==
    LET fired == Fired(call, "inactivity")
    IN /\ call.armed["inactivity"] > 0
       /\ IF call.state = "idle" THEN call' = fired /\ chan' = chan
          ELSE Kill(call.uuid) /\ call' = call_teardown(fired)
       /\ UNCHANGED <<eslVars, hand, fsConfVars, fs_inputs>>

(* ------------------------------ the socket ------------------------------ *)

\* The uuid of a call becomes known with its answer, so the answer of an
\* earlier channel is taken for it, and any hang-up before the answer ends it.
Answered(c, u) ==
    IF c.state \in {"dialing", "ringing"} /\ c.uuid \in {NoUuid, u}
    THEN call_setup_audio([c EXCEPT !.uuid = u]) ELSE {c}
Progressed(c) == IF c.state = "dialing" THEN [c EXCEPT !.state = "ringing"] ELSE c
HungUp(c, u) == IF c.state # "idle" /\ c.uuid \in {NoUuid, u} THEN call_teardown(c) ELSE c

\* The calls that one event can leave.
esl_handle_event(c, e) ==
    CASE e.name = "CHANNEL_ANSWER" -> Answered(c, e.uuid)
      [] e.name = "CHANNEL_PROGRESS" -> {Progressed(c)}
      [] e.name = "CHANNEL_HANGUP" -> {HungUp(c, e.uuid)}

\* A failed attempt backs off; too many open the circuit until a reload.
esl_record_connect_failure ==
    /\ esl_failures' = esl_failures + 1
    /\ IF esl_failures + 1 >= ESL_MAX_RECONNECT_ATTEMPTS
       THEN esl_circuit_open' = TRUE /\ UNCHANGED esl_backoff
       ELSE esl_backoff' = TRUE /\ UNCHANGED esl_circuit_open

\* vox_process_and_queue: the telephone's voice keys the repeater, its
\* silence lets go, and g_vox_ptt_held follows; a radio carrier suspends it.
Vox(c) == c.active /\ ~fs_cor
Voice(c) ==
    \/ call' = c /\ UNCHANGED hand
    \/ /\ Vox(c) /\ ~c.vox_ptt_held
       /\ call' = [c EXCEPT !.ptt = @ + 1] /\ hand' = [hand EXCEPT !["main"] = "key"]
    \/ /\ Vox(c) /\ c.vox_ptt_held
       /\ call' = [c EXCEPT !.ptt = @ - 1] /\ hand' = [hand EXCEPT !["main"] = "unkey"]

VoxFlag ==
    /\ hand["main"] \in {"key", "unkey"} /\ hand' = [hand EXCEPT !["main"] = "none"]
    /\ call' = [call EXCEPT !.vox_ptt_held = (hand["main"] = "key")]
    /\ UNCHANGED <<eslVars, chan, fsConfVars, fs_inputs>>

TickQuiet == Voice(call) /\ UNCHANGED <<eslVars, chan, fs_inputs>>

TickBacksOff == /\ esl = "down" /\ esl_backoff /\ ~esl_circuit_open
                /\ esl_backoff' = FALSE /\ Voice(call)
                /\ UNCHANGED <<esl, esl_in, esl_failures, esl_circuit_open, chan, fs_inputs>>

TickConnects ==
    /\ esl = "down" /\ ~esl_circuit_open /\ ~esl_backoff
    /\ \/ esl' = "open" /\ UNCHANGED <<esl_failures, esl_circuit_open, esl_backoff, fs_inputs>>
       \/ FsInput /\ esl_record_connect_failure /\ UNCHANGED esl
    /\ esl_in' = <<>> /\ Voice(call) /\ UNCHANGED chan

TickAuthenticates ==
    /\ esl = "open" /\ esl' = "authed"
    /\ esl_failures' = 0 /\ esl_circuit_open' = FALSE /\ esl_backoff' = FALSE
    /\ Voice(call) /\ UNCHANGED <<esl_in, chan, fs_inputs>>

TickReceives ==
    /\ esl_in # <<>> /\ esl_in' = Tail(esl_in)
    /\ \E c \in esl_handle_event(call, Head(esl_in)) :
          /\ Voice(c)
          /\ IF Head(esl_in).name = "CHANNEL_ANSWER" /\ call.state # "idle" /\ c.state = "idle"
             THEN Kill(Head(esl_in).uuid) ELSE UNCHANGED chan
    /\ UNCHANGED <<esl, esl_failures, esl_circuit_open, esl_backoff, fs_inputs>>

\* The connection is lost: the call with it; before the authentication it is
\* one more failure.
TickLosesConnection ==
    /\ FsInput /\ esl # "down" /\ esl' = "down" /\ esl_in' = <<>>
    /\ Voice(IF call.state = "idle" THEN call ELSE call_teardown(call))
    /\ IF esl = "open" THEN esl_record_connect_failure
       ELSE UNCHANGED <<esl_failures, esl_circuit_open, esl_backoff>>
    /\ UNCHANGED chan

\* Switched off, the tick does nothing at all.
on_tick ==
    /\ fs_loaded /\ fs_enabled
    /\ TickQuiet \/ TickBacksOff \/ TickConnects \/ TickAuthenticates \/ TickReceives \/ TickLosesConnection
    /\ UNCHANGED fsConfVars

(* ---------------------------- radio, reloads ---------------------------- *)

FsCorAssert ==
    /\ FsInput /\ ~fs_cor /\ fs_cor' = TRUE
    /\ IF fs_loaded /\ call.active /\ "inactivity" \in call.handles
       THEN call' \in Created(Cancelled(call, {"inactivity"}), "inactivity") ELSE UNCHANGED call
    /\ UNCHANGED <<eslVars, chan, hand, fs_loaded, fs_enabled, fs_admin_only>>

FsCorDrop == fs_cor /\ fs_cor' = FALSE
             /\ UNCHANGED <<call, eslVars, chan, hand, fs_loaded, fs_enabled, fs_admin_only, fs_inputs>>

\* A reload closes the circuit again and leaves the call and the socket alone.
freeswitch_configure == \E on, admin \in BOOLEAN :
    /\ FsInput /\ fs_loaded /\ fs_enabled' = on /\ fs_admin_only' = admin
    /\ esl_failures' = 0 /\ esl_circuit_open' = FALSE /\ esl_backoff' = FALSE
    /\ UNCHANGED <<call, esl, esl_in, chan, hand, fs_loaded, fs_cor>>

\* Not while a command runs in the module: that is Runtime's concern.
freeswitch_unload ==
    /\ FsInput /\ fs_loaded /\ fs_loaded' = FALSE /\ hand["other"] = "none"
    /\ call' = (IF call.state = "idle" THEN call ELSE call_teardown(call))
    /\ esl' = "down" /\ esl_in' = <<>>
    /\ UNCHANGED <<esl_failures, esl_circuit_open, esl_backoff, chan, hand, fs_enabled, fs_admin_only, fs_cor>>

(* ------------------------- the server (external) ------------------------ *)

Event(name, c) == [name |-> name, uuid |-> c]
Pbx(c, from, to, name) ==
    /\ chan[c] \in from /\ chan' = [chan EXCEPT ![c] = to]
    /\ esl_in' = IF esl = "authed" THEN Append(esl_in, Event(name, c)) ELSE esl_in
    /\ UNCHANGED <<call, hand, esl, esl_failures, esl_circuit_open, esl_backoff, fsConfVars, fs_inputs>>

Server ==
    /\ \E c \in Channels :
          \/ Pbx(c, {"trying"}, "ringing", "CHANNEL_PROGRESS")
          \/ Pbx(c, {"trying", "ringing"}, "up", "CHANNEL_ANSWER")
          \/ Pbx(c, {"trying", "ringing", "up", "killed"}, "gone", "CHANNEL_HANGUP")
    /\ UNCHANGED overlap

(* ------------------------------ the threads ----------------------------- *)

\* The main loop takes its events one after the other.
MainHandler ==
    /\ hand["main"] = "none"
    /\ \/ autopatch_dial("main") \/ autopatch_hangup \/ on_call_timeout \/ on_dial_timeout
       \/ on_inactivity_timeout \/ on_tick \/ FsCorAssert \/ FsCorDrop \/ freeswitch_configure
       \/ freeswitch_unload
MainEnds == DialTimer("main") \/ VoxFlag

CliCommand == hand["other"] = "none" /\ (autopatch_dial("other") \/ CliHangup)
CliEnds == DialTimer("other") \/ CliHungUp

Crosses(thread) == overlap' = (overlap \/ hand[thread] # "none")
MainStep == (MainHandler \/ MainEnds) /\ Crosses("other")
CliStep == (CliCommand \/ CliEnds) /\ Crosses("main")

FsNext == MainStep \/ CliStep \/ Server

FsSpec == FsInit /\ [][FsNext]_fsVars
-----------------------------------------------------------------------------
(* Between two handlers the call owns exactly what its state needs: one     *)
(* dial timer until it is answered, then the call timer, the inactivity      *)
(* timer, the taps and the sockets, and the PTT reference only while it is   *)
(* held; an idle module owns nothing, whichever of the timers, the server,   *)
(* the carrier, a lost connection and a reload came first (mod_freeswitch     *)
(* call_teardown, call_setup_audio and their callers).  Two cases are left    *)
(* out, because the code has no answer to them: a timer that was refused,     *)
(* whose limit the call then lacks, and everything after a command of         *)
(* another thread has overlapped a handler of the main loop, which can leave  *)
(* PTT held for good (mod_freeswitch.c:1118 between 1316 and 1317).           *)
Needed(state) == CASE state = "idle" -> {}
                   [] state \in {"dialing", "ringing"} -> {"dial"}
                   [] state = "connected" -> {"call", "inactivity"}
WholeCall(c) ==
    /\ c.refused \subseteq Needed(c.state) /\ c.handles = Needed(c.state) \ c.refused
    /\ c.armed = [k \in Kinds |-> IF k \in c.handles THEN 1 ELSE 0]
    /\ c.taps = IF c.state = "connected" THEN 1 ELSE 0
    /\ (c.active <=> c.state = "connected") /\ (c.udp <=> c.active)
    /\ c.ptt = IF c.vox_ptt_held THEN 1 ELSE 0
    /\ c.vox_ptt_held => c.active
    /\ c.uuid # NoUuid <=> c.active
CallIsWhole == overlap \/ (\E t \in DOMAIN hand : hand[t] # "none") \/ WholeCall(call)
=============================================================================
