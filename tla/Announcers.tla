----------------------------- MODULE Announcers -----------------------------
(***************************************************************************)
(* The modules that speak on their own: mod_cwid (station identification), *)
(* mod_courtesy (tones), mod_time and mod_emergency.  They react to the    *)
(* events of the repeater, of the queue and of timers, on the main loop    *)
(* and (QUEUE_COMPLETE) on the audio thread, one event after the other.    *)
(***************************************************************************)
EXTENDS Naturals, Sequences

CONSTANT AnnMaxInputs       \* bound: carriers, commands, reloads, quiet hours

VARIABLES rep,              \* mod_repeater's g_state, TAIL_WAIT is "tail"
          ann_q,            \* sources of the queued items, the one on air first
          cut,              \* a batch was thrown out, its QUEUE_COMPLETE is to come
          quiet,            \* is_quiet_hour
          cw_mode, g_pending,
          g_oc_state,
          oc_timers,        \* armed timers of each callback
          g_oc_timer_id,    \* whose handle is kept, "none" for -1
          sched,            \* the aligned schedule of cwid_timer_cb
          refused,          \* history: what was last refused its timer or schedule
          id_owed,          \* history: on the air since the last ID was queued
          id_dropped,       \* history: a reload forgot what was owed
          courtesy_us,      \* g_last_courtesy_us: "0", "fresh" (< 500 ms), "old"
          queue_courtesy,
          emergency,        \* who set the flag of the core, "off"
          em_timer,         \* armed timers of mod_emergency's timeout_cb
          ann_inputs

ocVars == <<g_oc_state, oc_timers, g_oc_timer_id>>
owedVars == <<g_pending, id_owed, id_dropped>>
cwidVars == <<cw_mode, ocVars, sched, owedVars>>
annVars == <<rep, ann_q, cut, quiet, refused, cwidVars, courtesy_us, queue_courtesy, emergency,
             em_timer, ann_inputs>>

NoTimers == [tick |-> 0, expire |-> 0]

AnnInit ==
    /\ rep = "idle" /\ ann_q = <<>> /\ cut = FALSE /\ quiet = FALSE
    /\ cw_mode \in {"always", "on_call"} /\ sched \in {FALSE, cw_mode = "always"}
    /\ refused = IF cw_mode = "always" /\ ~sched THEN {"schedule"} ELSE {}
    /\ g_pending = FALSE /\ g_oc_state = "idle" /\ oc_timers = NoTimers /\ g_oc_timer_id = "none"
    /\ id_owed = FALSE /\ id_dropped = FALSE
    /\ courtesy_us = "0" /\ queue_courtesy \in BOOLEAN
    /\ emergency = "off" /\ em_timer = 0 /\ ann_inputs = 0

AnnInput == ann_inputs < AnnMaxInputs /\ ann_inputs' = ann_inputs + 1

\* is_receiving, or PTT held: by the repeater or by the queue.
Busy == rep # "idle" \/ ann_q # <<>>

\* kerchunk_timer_create and kerchunk_sched_aligned answer -1 to a time of 0
\* and when their table is full.
Granted(what, made) == refused' = IF made THEN refused \ {what} ELSE refused \cup {what}

(* ------------------------------- the queue ------------------------------ *)

Priority(source) == CASE source = "cwid" -> 1 [] source = "emergency" -> 10 [] OTHER -> 2

\* insert_item: at the end while a batch is played, else by priority; what
\* is on the air or waits is never thrown out.
Placed(q, source) ==
    LET lower == {k \in DOMAIN q : Priority(q[k]) < Priority(source)}
    IN IF lower = {} THEN Append(q, source)
       ELSE LET k == CHOOSE k \in lower : \A j \in lower : k <= j
            IN SubSeq(q, 1, k - 1) \o <<source>> \o SubSeq(q, k, Len(q))
InsertedIn(q, source) == {Append(q, source), Placed(q, source)}
InsertedAfter(q, more) == IF more = <<>> THEN {q} ELSE InsertedIn(q, Head(more))

(* -------------------------------- mod_cwid ------------------------------ *)

\* send_cwid pays what is owed and what is pending; the handlers loaded
\* after mod_cwid may queue more.
Paid == g_pending' = FALSE /\ id_owed' = FALSE /\ id_dropped' = FALSE
send_cwid(q, more) ==
    /\ \E p \in InsertedIn(q, "cwid") : ann_q' \in InsertedAfter(p, more)
    /\ Paid
Silent(more) == ann_q' \in InsertedAfter(ann_q, more) /\ UNCHANGED owedVars

\* cwid_timer_cb and oc_active_tick: not during quiet hours; later when busy.
cwid_tick ==
    IF quiet THEN Silent(<<>>)
    ELSE IF Busy THEN g_pending' = TRUE /\ UNCHANGED <<ann_q, id_owed, id_dropped>>
    ELSE send_cwid(ann_q, <<>>)

cwid_timer_cb ==
    /\ sched /\ cwid_tick
    /\ UNCHANGED <<rep, cut, quiet, refused, cw_mode, ocVars, sched, courtesy_us, queue_courtesy,
                   emergency, em_timer, ann_inputs>>

oc_active_tick ==
    /\ oc_timers.tick > 0 /\ cwid_tick
    /\ UNCHANGED <<rep, cut, quiet, refused, cw_mode, ocVars, sched, courtesy_us, queue_courtesy,
                   emergency, em_timer, ann_inputs>>

\* The last ID of an activity; quiet hours excuse it.
oc_tail_expire ==
    /\ oc_timers.expire > 0 /\ oc_timers' = [oc_timers EXCEPT !.expire = @ - 1]
    /\ g_oc_timer_id' = "none" /\ g_oc_state' = "idle"
    /\ IF quiet THEN id_owed' = FALSE /\ UNCHANGED <<ann_q, g_pending, id_dropped>>
       ELSE send_cwid(ann_q, <<>>)
    /\ UNCHANGED <<rep, cut, quiet, refused, cw_mode, sched, courtesy_us, queue_courtesy, emergency,
                   em_timer, ann_inputs>>

\* `cwid now` on the console, quiet hours or not.
cli_cwid ==
    /\ AnnInput /\ send_cwid(ann_q, <<>>)
    /\ UNCHANGED <<rep, cut, quiet, refused, cw_mode, ocVars, sched, courtesy_us, queue_courtesy,
                   emergency, em_timer>>

\* The armed timers once the one whose handle is kept is cancelled.
OcCancelled == IF g_oc_timer_id = "none" THEN oc_timers ELSE [oc_timers EXCEPT ![g_oc_timer_id] = @ - 1]

\* The timer of the activity is the new one, or none if it is refused.
OcTimer(kind) == \E made \in BOOLEAN :
    /\ g_oc_timer_id' = IF made THEN kind ELSE "none"
    /\ oc_timers' = IF made THEN [OcCancelled EXCEPT ![kind] = @ + 1] ELSE OcCancelled
    /\ Granted("activity", made)

oc_enter_active == g_oc_state' = "active" /\ OcTimer("tick")

(* Mutant: the timer of the activity is cancelled and none is created.      *)
oc_enter_tail_NoTimer ==
    /\ g_oc_state' = "tail" /\ g_oc_timer_id' = "none"
    /\ oc_timers' = OcCancelled /\ UNCHANGED refused

oc_enter_tail == g_oc_state' = "tail" /\ OcTimer("expire")

SameOc == UNCHANGED <<ocVars, refused>>

\* on_state_change to a state other than IDLE, and on_tail_start.
cwid_on_air(q, pending, tail, more) ==
    LET owes == pending \/ (cw_mode = "on_call" /\ g_oc_state = "idle")
    IN /\ IF cw_mode = "on_call" /\ g_oc_state # "active" THEN oc_enter_active ELSE SameOc
       /\ IF tail /\ owes /\ ~quiet THEN send_cwid(q, more)
          ELSE /\ g_pending' = owes /\ id_owed' = TRUE /\ id_dropped' = FALSE
               /\ ann_q' \in InsertedAfter(q, more)

\* on_state_change to IDLE.
cwid_idle(more) ==
    /\ IF g_pending /\ ~quiet /\ (cw_mode = "always" \/ g_oc_state = "active")
       THEN send_cwid(ann_q, more) ELSE Silent(more)
    /\ IF cw_mode = "on_call" /\ g_oc_state = "active" THEN oc_enter_tail ELSE SameOc

(* ----------------------------- the repeater ----------------------------- *)

\* The main loop throws out the whole queue before COR_ASSERT.  What it tells
\* mod_cwid is the source of the item on air: an ID that waits behind others,
\* or whose silence is on the air, is lost without a word.
AnnCarrierComes == \E preempted \in BOOLEAN :
    /\ AnnInput /\ rep \in {"idle", "tail"} /\ rep' = "receive"
    /\ preempted => ann_q # <<>> /\ Head(ann_q) = "cwid"
    /\ cut' = (cut \/ ann_q # <<>>)
    /\ cwid_on_air(<<>>, g_pending \/ preempted, FALSE, <<>>)
    /\ UNCHANGED <<quiet, cw_mode, sched, courtesy_us, queue_courtesy, emergency, em_timer>>

\* tot_expired: nothing for mod_cwid but a change of state.
RxTimeout ==
    /\ rep = "receive" /\ emergency = "off" /\ rep' = "timeout"
    /\ cwid_on_air(ann_q, g_pending, FALSE, <<>>)
    /\ UNCHANGED <<cut, quiet, cw_mode, sched, courtesy_us, queue_courtesy, emergency, em_timer,
                   ann_inputs>>

\* COR_DROP: mod_repeater is loaded first, so the ID goes before the tone.
AnnCarrierGoes ==
    /\ \/ rep = "receive" /\ rep' = "tail" /\ cwid_on_air(ann_q, g_pending, TRUE, <<"courtesy">>)
       \/ rep = "timeout" /\ rep' = "idle" /\ cwid_idle(<<"courtesy">>)
    /\ courtesy_us' = "fresh"
    /\ UNCHANGED <<cut, quiet, cw_mode, sched, queue_courtesy, emergency, em_timer, ann_inputs>>

TailExpires ==
    /\ rep = "tail" /\ rep' = "idle" /\ cwid_idle(<<>>)
    /\ UNCHANGED <<cut, quiet, cw_mode, sched, courtesy_us, queue_courtesy, emergency, em_timer,
                   ann_inputs>>

(* ------------------------------ mod_courtesy ---------------------------- *)

\* QUEUE_COMPLETE on the audio thread, when the batch is over or was thrown
\* out.  A tone that was queued less than 500 ms ago is taken for the whole
\* batch, otherwise another one follows.
courtesy_on_queue_complete ==
    /\ IF ann_q = <<>> THEN cut ELSE rep # "receive"
    /\ cut' = FALSE
    /\ courtesy_us' = IF queue_courtesy /\ courtesy_us # "fresh" THEN "fresh" ELSE "0"
    /\ ann_q' = IF queue_courtesy /\ courtesy_us # "fresh" THEN <<"courtesy">> ELSE <<>>
    /\ UNCHANGED <<rep, quiet, refused, cwidVars, queue_courtesy, emergency, em_timer, ann_inputs>>

\* A carrier that lasts, or an item before the tone, makes it old.
ToneAges ==
    /\ courtesy_us = "fresh" /\ (rep = "receive" \/ Len(ann_q) > 1)
    /\ courtesy_us' = "old"
    /\ UNCHANGED <<rep, ann_q, cut, quiet, refused, cwidVars, queue_courtesy, emergency, em_timer,
                   ann_inputs>>

\* The tone after a link's or a virtual carrier.
on_vcor_drop ==
    /\ AnnInput /\ ann_q' \in InsertedIn(ann_q, "courtesy") /\ courtesy_us' = "fresh"
    /\ UNCHANGED <<rep, cut, quiet, refused, cwidVars, queue_courtesy, emergency, em_timer>>

(* ------------------------ mod_time, mod_emergency ----------------------- *)

\* The timer waits for silence and for the end of an emergency, the DTMF
\* command does not.
time_announce == \E asked \in BOOLEAN :
    /\ AnnInput
    /\ asked \/ (emergency = "off" /\ ~Busy)
    /\ ann_q' \in InsertedIn(ann_q, "time")
    /\ UNCHANGED <<rep, cut, quiet, refused, cwidVars, courtesy_us, queue_courtesy, emergency, em_timer>>

on_emergency_on == \E made \in BOOLEAN :
    /\ AnnInput /\ emergency = "off"
    /\ emergency' = "dtmf" /\ em_timer' = IF made THEN 1 ELSE 0
    /\ Granted("emergency", made)
    /\ ann_q' \in InsertedIn(ann_q, "emergency")
    /\ UNCHANGED <<rep, cut, quiet, cwidVars, courtesy_us, queue_courtesy>>

\* By command or by timeout_cb: only an emergency that is on is announced.
emergency_off ==
    /\ \/ AnnInput /\ emergency # "off" /\ em_timer' = 0
       \/ em_timer > 0 /\ em_timer' = em_timer - 1 /\ UNCHANGED ann_inputs
    /\ emergency' = "off"
    /\ IF emergency = "off" THEN UNCHANGED ann_q ELSE ann_q' \in InsertedIn(ann_q, "emergency")
    /\ UNCHANGED <<rep, cut, quiet, refused, cwidVars, courtesy_us, queue_courtesy>>

\* kerchunk_core_set_emergency from mod_ai and mod_poc: the flag, no timer.
core_set_emergency ==
    /\ AnnInput /\ emergency' \in {"off", "other"} \ {emergency}
    /\ UNCHANGED <<rep, ann_q, cut, quiet, refused, cwidVars, courtesy_us, queue_courtesy, em_timer>>

emergency_unload ==
    /\ AnnInput /\ em_timer' = 0 /\ emergency' = "off"
    /\ UNCHANGED <<rep, ann_q, cut, quiet, refused, cwidVars, courtesy_us, queue_courtesy>>

(* ------------------------- configuration, the day ----------------------- *)

\* A reload starts mod_cwid's activity over: what is pending stays, and what
\* a running activity or the schedule would have sent is forgotten in mode
\* "on_call".
cwid_configure == \E mode \in {"always", "on_call"}, made \in BOOLEAN :
    /\ AnnInput /\ cw_mode' = mode /\ sched' = (mode = "always" /\ made)
    /\ refused' = (refused \ {"activity", "schedule"}) \cup {s \in {"schedule"} : mode = "always" /\ ~made}
    /\ oc_timers' = OcCancelled /\ g_oc_timer_id' = "none" /\ g_oc_state' = "idle"
    /\ id_dropped' = (mode = "on_call" /\ id_owed /\ ~g_pending)
    /\ UNCHANGED <<rep, ann_q, cut, quiet, g_pending, id_owed, courtesy_us, queue_courtesy, emergency,
                   em_timer>>

\* is_quiet_hour, at the hours of the configuration or of the sun.
HourPasses ==
    /\ AnnInput /\ quiet' = ~quiet
    /\ UNCHANGED <<rep, ann_q, cut, refused, cwidVars, courtesy_us, queue_courtesy, emergency, em_timer>>

AnnNext == \/ cwid_timer_cb \/ oc_active_tick \/ oc_tail_expire \/ cli_cwid \/ AnnCarrierComes
           \/ RxTimeout \/ AnnCarrierGoes \/ TailExpires \/ courtesy_on_queue_complete \/ ToneAges
           \/ on_vcor_drop \/ time_announce \/ on_emergency_on \/ emergency_off \/ core_set_emergency
           \/ emergency_unload \/ cwid_configure \/ HourPasses

AnnSpec == AnnInit /\ [][AnnNext]_annVars
-----------------------------------------------------------------------------
(* While the station owes its identification something will send it: the    *)
(* pending flag, the schedule, or the one armed timer of the activity, whose *)
(* kind is that of the state; and an emergency that was dialled has the one *)
(* timer that ends it (mod_cwid against traffic, quiet hours and preemption; *)
(* mod_emergency against the other users of the flag).  Two cases are left   *)
(* out, because the code has no answer to them: a timer or schedule that was  *)
(* refused, and a reload to mode "on_call" in the middle of an activity, after *)
(* which nothing sends the identification until the next key-up               *)
(* (mod_cwid.c:605-612).  Owed is what was not queued: an ID that is queued    *)
(* and thrown out by a carrier is owed again, for that carrier.                *)
NothingIsForgotten ==
    /\ oc_timers = IF "activity" \in refused THEN NoTimers
                   ELSE CASE g_oc_state = "idle"   -> NoTimers
                          [] g_oc_state = "active" -> [tick |-> 1, expire |-> 0]
                          [] g_oc_state = "tail"   -> [tick |-> 0, expire |-> 1]
    /\ id_owed => \/ g_pending \/ sched \/ oc_timers # NoTimers
                  \/ id_dropped \/ refused \cap {"activity", "schedule"} # {}
    /\ em_timer <= 1 /\ (emergency = "dtmf" => em_timer = 1 \/ "emergency" \in refused)
=============================================================================
