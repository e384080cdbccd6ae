------------------------------- MODULE Feeds -------------------------------
(***************************************************************************)
(* mod_nws, mod_weather and mod_webhook: what the repeater asks of and     *)
(* tells to services on the Internet.  Alerts are polled by a thread of    *)
(* their own, the weather is fetched by the main loop, which waits for the *)
(* answer, and events are posted by a thread with a bounded queue and      *)
(* retries.  The services are external: a feed may lack an alert that is   *)
(* valid, an answer may be lost after the post arrived.                    *)
(***************************************************************************)
EXTENDS Naturals, Sequences, FiniteSets

CONSTANTS AlertIds, MAX_ALERTS, QUEUE_SIZE, MaxRetries,
          MaxFeedInputs            \* bound: events, commands, reloads, timers, days

VARIABLES feed_main,     \* "run", or what the main loop waits for
          feed_inputs, feed_emergency,
          nws_on, nws_auto, nws_worker, nws_stop, poll_requested, nws_timers,
          g_alerts,      \* the alerts that are tracked
          past,          \* alerts whose deadline is over
          news,          \* history: times an alert was announced as new since the load
          wx_key, wx_valid, wx_announces, wx_then,
          hook_on, hook_worker, hook_stop, hook_queue, hook_hand, hook_tries,
          hook_events, received  \* history: events that were, the last that arrived

\* A queue without a place could not give its oldest entry up.
ASSUME FeedAssumption == QUEUE_SIZE \in Nat \ {0}

nwsVars == <<nws_on, nws_auto, nws_worker, nws_stop, poll_requested, nws_timers, g_alerts, past, news>>
wxVars == <<wx_key, wx_valid, wx_announces, wx_then>>
hookVars == <<hook_on, hook_worker, hook_stop, hook_queue, hook_hand, hook_tries, hook_events, received>>
feedVars == <<feed_main, feed_inputs, feed_emergency, nwsVars, wxVars, hookVars>>

Nothing == 0
FeedInit ==
    /\ feed_main = "run" /\ feed_inputs = 0 /\ feed_emergency = FALSE
    /\ nws_on = TRUE /\ nws_auto \in BOOLEAN /\ nws_worker = "idle" /\ nws_stop = FALSE
    /\ poll_requested = TRUE /\ nws_timers = TRUE /\ g_alerts = {} /\ past = {}
    /\ news = [a \in AlertIds |-> 0]
    /\ wx_key = TRUE /\ wx_valid = FALSE /\ wx_announces \in BOOLEAN /\ wx_then = "none"
    /\ hook_on = TRUE /\ hook_worker = "idle" /\ hook_stop = FALSE /\ hook_queue = <<>>
    /\ hook_hand = Nothing /\ hook_tries = 0 /\ hook_events = 0 /\ received = Nothing

FeedMainRuns == feed_main = "run"
FeedInput == FeedMainRuns /\ feed_inputs < MaxFeedInputs /\ feed_inputs' = feed_inputs + 1

(* -------------------------------- mod_nws ------------------------------- *)

request_poll == poll_requested' = TRUE

\* The timer, "nws check"; neither the timer nor the worker asks whether the
\* module is on.
PollRequested ==
    /\ FeedInput /\ nws_timers /\ request_poll
    /\ UNCHANGED <<feed_main, feed_emergency, nws_on, nws_auto, nws_worker, nws_stop, nws_timers, g_alerts, past,
                   news, wxVars, hookVars>>

poll_worker ==
    /\ nws_worker = "idle" /\ (nws_stop \/ poll_requested)
    /\ nws_worker' = IF nws_stop THEN "ended" ELSE "fetching"
    /\ poll_requested' = FALSE
    /\ UNCHANGED <<feed_main, feed_inputs, feed_emergency, nws_on, nws_auto, nws_stop, nws_timers, g_alerts, past,
                   news, wxVars, hookVars>>

(* Mutant: an alert that one answer lacks is taken for expired.             *)
ended_AtOnce(feed) == g_alerts \ feed

\* One answer without an alert does not end it; its deadline does.
ended(feed) == (g_alerts \ feed) \cap past

\* New alerts take the free places first, then the ended ones leave theirs.
process_alerts(feed) == \E added \in SUBSET (feed \ g_alerts) :
    /\ Cardinality(g_alerts \cup added) <= MAX_ALERTS
    /\ (feed \ g_alerts) \ added # {} => Cardinality(g_alerts \cup added) = MAX_ALERTS
    /\ g_alerts' = (g_alerts \cup added) \ ended(feed)
    /\ news' = [a \in AlertIds |-> IF nws_auto /\ a \in added THEN news[a] + 1 ELSE news[a]]

\* The feed holds what is actual and severe enough; no answer changes nothing.
poll_nws ==
    /\ nws_worker = "fetching" /\ nws_worker' = "idle"
    /\ \/ \E feed \in SUBSET AlertIds : process_alerts(feed)
       \/ UNCHANGED <<g_alerts, news>>
    /\ UNCHANGED <<feed_main, feed_inputs, feed_emergency, nws_on, nws_auto, nws_stop, poll_requested, nws_timers,
                   past, wxVars, hookVars>>

DeadlinePasses == \E a \in AlertIds \ past :
    /\ past' = past \cup {a}
    /\ UNCHANGED <<feed_main, feed_inputs, feed_emergency, nws_on, nws_auto, nws_worker, nws_stop, poll_requested,
                   nws_timers, g_alerts, news, wxVars, hookVars>>

\* Switched off, the worker and the timers of before go on.
nws_configure == \E on, auto \in BOOLEAN :
    /\ FeedInput /\ nws_on' = on /\ nws_auto' = auto
    /\ IF on THEN feed_main' = "nws_configure" /\ nws_stop' = (nws_worker # "none")
       ELSE UNCHANGED <<feed_main, nws_stop>>
    /\ UNCHANGED <<feed_emergency, nws_worker, poll_requested, nws_timers, g_alerts, past, news, wxVars, hookVars>>

nws_configured ==
    /\ feed_main = "nws_configure" /\ nws_worker \in {"none", "ended"} /\ feed_main' = "run"
    /\ nws_timers' = TRUE /\ nws_stop' = FALSE
    /\ \/ nws_worker' = "idle" /\ request_poll /\ UNCHANGED nws_on
       \/ nws_worker' = "none" /\ poll_requested' = FALSE /\ nws_on' = FALSE
    /\ UNCHANGED <<feed_inputs, feed_emergency, nws_auto, g_alerts, past, news, wxVars, hookVars>>

nws_unload ==
    /\ FeedInput /\ feed_main' = "nws_unload" /\ nws_stop' = (nws_worker # "none")
    /\ UNCHANGED <<feed_emergency, nws_on, nws_auto, nws_worker, poll_requested, nws_timers, g_alerts, past, news,
                   wxVars, hookVars>>

\* Loaded again it starts from nothing.
nws_unloaded ==
    /\ feed_main = "nws_unload" /\ nws_worker \in {"none", "ended"} /\ feed_main' = "run"
    /\ nws_worker' = "none" /\ nws_timers' = FALSE /\ g_alerts' = {} /\ news' = [a \in AlertIds |-> 0]
    /\ UNCHANGED <<feed_inputs, feed_emergency, nws_on, nws_auto, nws_stop, poll_requested, past, wxVars, hookVars>>

(* ------------------------------ mod_weather ----------------------------- *)

\* The main loop waits for the answer: a command, the fetch timer, a reload.
\* The timers and the report keep still in an emergency; the forecast does not.
weather_fetch == \E then \in {"none", "report", "forecast"} :
    /\ FeedInput /\ wx_key /\ (feed_emergency => then = "forecast")
    /\ feed_main' = "weather" /\ wx_then' = then
    /\ UNCHANGED <<feed_emergency, nwsVars, wx_key, wx_valid, wx_announces, hookVars>>

\* A failed fetch keeps what was known before, however old.
weather_answered ==
    /\ feed_main = "weather" /\ feed_main' = "run" /\ wx_then' = "none" /\ wx_valid' \in {TRUE, wx_valid}
    /\ UNCHANGED <<feed_inputs, feed_emergency, nwsVars, wx_key, wx_announces, hookVars>>

\* With a key a reload fetches at once.
weather_configure == \E key, announces \in BOOLEAN :
    /\ FeedInput /\ wx_key' = key /\ wx_announces' = (announces /\ key)
    /\ feed_main' = (IF key THEN "weather" ELSE "run") /\ wx_then' = "none"
    /\ UNCHANGED <<feed_emergency, nwsVars, wx_valid, hookVars>>

SetEmergency ==
    /\ FeedInput /\ feed_emergency' = ~feed_emergency
    /\ UNCHANGED <<feed_main, nwsVars, wxVars, hookVars>>

(* ------------------------------ mod_webhook ----------------------------- *)

\* A full queue loses its oldest entry.
enqueue_payload(e) ==
    hook_queue' = Append(IF Len(hook_queue) >= QUEUE_SIZE THEN Tail(hook_queue) ELSE hook_queue, e)

\* Fired on the audio thread too, while the main loop waits.
on_event ==
    /\ feed_inputs < MaxFeedInputs /\ feed_inputs' = feed_inputs + 1
    /\ hook_on /\ hook_worker # "none" /\ hook_events' = hook_events + 1
    /\ enqueue_payload(hook_events + 1)
    /\ UNCHANGED <<feed_main, feed_emergency, nwsVars, wxVars, hook_on, hook_worker, hook_stop, hook_hand, hook_tries,
                   received>>

\* Taken from the queue; asked to stop, the worker first posts what is left.
webhook_worker ==
    /\ hook_worker = "idle"
    /\ IF hook_queue = <<>>
       THEN hook_stop /\ hook_worker' = "ended" /\ UNCHANGED <<hook_queue, hook_hand, hook_tries>>
       ELSE /\ hook_worker' = "posting" /\ hook_hand' = Head(hook_queue) /\ hook_queue' = Tail(hook_queue)
            /\ hook_tries' = 0
    /\ UNCHANGED <<feed_main, feed_inputs, feed_emergency, nwsVars, wxVars, hook_on, hook_stop, hook_events, received>>

\* An attempt arrives or not, and its answer comes back or not; after the
\* last one the payload is given up.
post_payload == \E arrives, answered \in BOOLEAN :
    /\ hook_worker = "posting" /\ (answered => arrives)
    /\ received' = IF arrives THEN hook_hand ELSE received
    /\ IF answered \/ hook_tries = MaxRetries
       THEN hook_worker' = "idle" /\ hook_hand' = Nothing /\ hook_tries' = 0
       ELSE hook_tries' = hook_tries + 1 /\ UNCHANGED <<hook_worker, hook_hand>>
    /\ UNCHANGED <<feed_main, feed_inputs, feed_emergency, nwsVars, wxVars, hook_on, hook_stop, hook_queue, hook_events>>

\* The old worker is waited for, and with it all of its posts.
stop_worker(next) ==
    /\ FeedInput /\ feed_main' = next /\ hook_stop' = (hook_worker # "none")
    /\ UNCHANGED <<feed_emergency, nwsVars, wxVars, hook_worker, hook_queue, hook_hand, hook_tries, hook_events,
                   received>>

webhook_configure == stop_worker("hook_configure") /\ UNCHANGED hook_on
webhook_unload == stop_worker("hook_unload") /\ hook_on' = FALSE

\* A new worker and an empty queue, unless it is off, without an address or a thread.
webhook_configured ==
    /\ feed_main \in {"hook_configure", "hook_unload"} /\ hook_worker \in {"none", "ended"}
    /\ feed_main' = "run" /\ hook_stop' = FALSE
    /\ \/ /\ feed_main = "hook_configure" /\ hook_on' = TRUE /\ hook_worker' = "idle" /\ hook_queue' = <<>>
       \/ /\ feed_main = "hook_configure" /\ hook_on' = FALSE /\ hook_worker' = "none" /\ hook_queue' = <<>>
       \/ /\ feed_main = "hook_unload" /\ hook_worker' = "none" /\ UNCHANGED <<hook_on, hook_queue>>
    /\ UNCHANGED <<feed_inputs, feed_emergency, nwsVars, wxVars, hook_hand, hook_tries, hook_events, received>>

FeedNext ==
    \/ PollRequested \/ poll_worker \/ poll_nws \/ DeadlinePasses \/ nws_configure \/ nws_configured
    \/ nws_unload \/ nws_unloaded
    \/ weather_fetch \/ weather_answered \/ weather_configure \/ SetEmergency
    \/ on_event \/ webhook_worker \/ post_payload \/ webhook_configure \/ webhook_unload \/ webhook_configured
FeedSpec == FeedInit /\ [][FeedNext]_feedVars
-----------------------------------------------------------------------------
Waiting == IF hook_hand = Nothing THEN hook_queue ELSE <<hook_hand>> \o hook_queue

(* An alert is announced as new once before its deadline, however often an  *)
(* answer of the feed lacks it, a poll fails or a reload replaces the       *)
(* worker (process_alerts); and events reach the hook in the order they     *)
(* happened: nothing that waits is older than what has arrived, for all the *)
(* retries, drops and reloads (enqueue_payload, webhook_worker,             *)
(* post_payload).                                                           *)
NewsIsToldOnce ==
    /\ \A a \in AlertIds \ past : news[a] <= 1 /\ (news[a] = 1 => a \in g_alerts)
    /\ \A i \in DOMAIN Waiting : /\ Waiting[i] > received \/ (i = 1 /\ Waiting[i] = hook_hand)
                                 /\ \A j \in DOMAIN Waiting : i < j => Waiting[i] < Waiting[j]
=============================================================================
