------------------------------- MODULE Speech -------------------------------
(***************************************************************************)
(* mod_asr, mod_ai and mod_tts: what is said on the radio is transcribed,  *)
(* answered by a language model and spoken.  Each has a worker thread of   *)
(* kerchunk_threads.c; the transcript is announced from the ASR worker (or *)
(* from the main loop in streaming mode), and the AI worker holds the lock *)
(* of the conversations for the whole of a turn.  A reload, an unload and  *)
(* the DTMF command "stop" make the main loop wait for one of them.        *)
(***************************************************************************)
EXTENDS Naturals, Sequences, FiniteSets

CONSTANTS AiCallers,                 \* caller ids, 0 is nobody
          AI_REQUEST_QUEUE_SIZE, AI_MAX_CONVERSATIONS, MaxToolRounds, MaxConsecFail,
          TTS_QUEUE_SIZE, MAX_THREADS,
          MaxSpeechInputs            \* bound: carriers, commands, callers, reloads

VARIABLES main_at,           \* "run", or what the main loop waits in
          sp_inputs, sp_carrier, sp_tx,
          thread_slots,      \* slots of g_threads that are not free
          worker,            \* of each module, "none" without a thread id
          stop_requested,
          asr_loaded, asr_on, asr_batch, asr_capturing, asr_streaming, asr_tx_capturing, asr_pending,
          announcer,         \* where on_announcement is, per thread
          ai_loaded, ai_on, ai_armed, ai_caller, ai_q, ai_req, ai_inflight, ai_convs, ai_lock,
          ai_rounds, ai_force_no_tools, ai_failures, ai_disabled,
          tts_up,            \* core->tts_speak is set
          tts_count

mainVars == <<main_at, sp_inputs, sp_carrier, sp_tx>>
threadVars == <<thread_slots, worker, stop_requested>>
asrVars == <<asr_loaded, asr_on, asr_batch, asr_capturing, asr_streaming, asr_tx_capturing, asr_pending>>
convVars == <<ai_convs, ai_lock>>
turnVars == <<ai_req, ai_inflight, ai_rounds, ai_force_no_tools, ai_failures, ai_disabled>>
aiVars == <<ai_loaded, ai_on, ai_armed, ai_caller, ai_q, convVars, turnVars>>
ttsVars == <<tts_up, tts_count>>
spVars == <<mainVars, threadVars, asrVars, announcer, aiVars, ttsVars>>

SpThreads == {"main", "asr"}
SpQuiet == [at |-> "none", who |-> 0]
NobodyHolds == "free"

SpInit ==
    /\ main_at = "run" /\ sp_inputs = 0 /\ sp_carrier = FALSE /\ sp_tx = FALSE
    /\ thread_slots = 3 /\ worker = [w \in {"asr", "ai", "tts"} |-> "idle"]
    /\ stop_requested = [w \in {"asr", "ai", "tts"} |-> FALSE]
    /\ asr_loaded = TRUE /\ asr_on = TRUE /\ asr_batch = TRUE
    /\ asr_capturing = FALSE /\ asr_streaming = FALSE /\ asr_tx_capturing = FALSE /\ asr_pending = FALSE
    /\ announcer = [t \in SpThreads |-> SpQuiet]
    /\ ai_loaded = TRUE /\ ai_on = TRUE /\ ai_armed = FALSE /\ ai_caller = 0 /\ ai_q = <<>>
    /\ ai_convs = <<>> /\ ai_lock = NobodyHolds
    /\ ai_req = 0 /\ ai_inflight = FALSE /\ ai_rounds = 0 /\ ai_force_no_tools = FALSE /\ ai_failures = 0
    /\ ai_disabled = FALSE /\ tts_up = TRUE /\ tts_count = 0

MainRuns == main_at = "run" /\ announcer["main"] = SpQuiet
SpInput == MainRuns /\ sp_inputs < MaxSpeechInputs /\ sp_inputs' = sp_inputs + 1

(* --------------------------- kerchunk_threads --------------------------- *)

\* A new thread may ask kerchunk_thread_should_stop for the id that its
\* creator has not stored yet: it is told to stop and ends at once.  A slot
\* is never given back: kerchunk_thread_join leaves it active.
kerchunk_thread_create(w) ==
    /\ thread_slots < MAX_THREADS /\ thread_slots' = thread_slots + 1
    /\ \E s \in {"idle", "ended"} : worker' = [worker EXCEPT ![w] = s]
    /\ stop_requested' = [stop_requested EXCEPT ![w] = FALSE]
NoThread(w) ==
    /\ thread_slots = MAX_THREADS /\ worker' = [worker EXCEPT ![w] = "none"]
    /\ UNCHANGED <<thread_slots, stop_requested>>

kerchunk_thread_stop(w) == stop_requested' = [stop_requested EXCEPT ![w] = TRUE]

\* A worker looks at the flag between two requests only.
WorkerEnds == \E w \in DOMAIN worker :
    /\ worker[w] = "idle" /\ stop_requested[w] /\ worker' = [worker EXCEPT ![w] = "ended"]
    /\ UNCHANGED <<mainVars, thread_slots, stop_requested, asrVars, announcer, aiVars, ttsVars>>

Joined(w) == worker[w] \in {"ended", "none"}

(* -------------------------------- mod_tts ------------------------------- *)

tts_speak == tts_count' = IF tts_up /\ tts_count < TTS_QUEUE_SIZE THEN tts_count + 1 ELSE tts_count

TtsTakes ==
    /\ worker["tts"] = "idle" /\ ~stop_requested["tts"] /\ tts_count > 0
    /\ tts_count' = tts_count - 1 /\ worker' = [worker EXCEPT !["tts"] = "busy"]
    /\ UNCHANGED <<mainVars, thread_slots, stop_requested, asrVars, announcer, aiVars, tts_up>>

\* synthesize_and_queue: from the cache, or after the network's answer or timeout.
TtsSpoken ==
    /\ worker["tts"] = "busy" /\ worker' = [worker EXCEPT !["tts"] = "idle"]
    /\ UNCHANGED <<mainVars, thread_slots, stop_requested, asrVars, announcer, aiVars, ttsVars>>

tts_configure ==
    /\ SpInput /\ main_at' = "tts_configure" /\ kerchunk_thread_stop("tts")
    /\ UNCHANGED <<sp_carrier, sp_tx, thread_slots, worker, asrVars, announcer, aiVars, ttsVars>>

\* After the join the queue is emptied; without a thread tts_speak stays set.
tts_configured ==
    /\ main_at = "tts_configure" /\ Joined("tts") /\ main_at' = "run" /\ tts_count' = 0
    /\ \/ kerchunk_thread_create("tts") /\ tts_up' = TRUE
       \/ NoThread("tts") /\ UNCHANGED tts_up
    /\ UNCHANGED <<sp_inputs, sp_carrier, sp_tx, asrVars, announcer, aiVars>>

tts_unload ==
    /\ SpInput /\ main_at' = "tts_unload" /\ kerchunk_thread_stop("tts")
    /\ UNCHANGED <<sp_carrier, sp_tx, thread_slots, worker, asrVars, announcer, aiVars, ttsVars>>

tts_unloaded ==
    /\ main_at = "tts_unload" /\ Joined("tts") /\ main_at' = "run" /\ tts_up' = FALSE
    /\ worker' = [worker EXCEPT !["tts"] = "none"]
    /\ UNCHANGED <<sp_inputs, sp_carrier, sp_tx, thread_slots, stop_requested, asrVars, announcer, aiVars,
                   tts_count>>

(* -------------------------------- mod_asr ------------------------------- *)

asr_cor_assert ==
    /\ SpInput /\ ~sp_carrier /\ sp_carrier' = TRUE
    /\ asr_capturing' = (asr_capturing \/ (asr_on /\ asr_batch))
    /\ \/ asr_streaming' = (asr_streaming \/ (asr_on /\ ~asr_batch))
       \/ UNCHANGED asr_streaming                    \* the server cannot be reached
    /\ UNCHANGED <<main_at, sp_tx, threadVars, asr_loaded, asr_on, asr_batch, asr_tx_capturing, asr_pending, announcer,
                   aiVars, ttsVars>>

\* Streaming: the transcript is fetched and announced here.  Batch: it goes to
\* the one place of the worker, over whatever waits there, unless too short.
asr_cor_drop ==
    /\ MainRuns /\ sp_carrier /\ sp_carrier' = FALSE
    /\ IF asr_batch \/ ~asr_loaded
       THEN /\ asr_capturing' = FALSE /\ asr_pending' \in {asr_pending, asr_pending \/ asr_capturing}
            /\ UNCHANGED <<asr_streaming, announcer>>
       ELSE /\ asr_streaming' = FALSE /\ UNCHANGED <<asr_capturing, asr_pending>>
            /\ \/ asr_streaming /\ announcer' = [announcer EXCEPT !["main"].at = "announce"]
               \/ UNCHANGED announcer
    /\ UNCHANGED <<main_at, sp_inputs, sp_tx, threadVars, asr_loaded, asr_on, asr_batch, asr_tx_capturing, aiVars, ttsVars>>

asr_vcor_assert ==
    /\ SpInput /\ ~sp_tx /\ sp_tx' = TRUE /\ asr_tx_capturing' = (asr_tx_capturing \/ asr_on)
    /\ UNCHANGED <<main_at, sp_carrier, threadVars, asr_loaded, asr_on, asr_batch, asr_capturing, asr_streaming, asr_pending,
                   announcer, aiVars, ttsVars>>

asr_vcor_drop ==
    /\ MainRuns /\ sp_tx /\ sp_tx' = FALSE /\ asr_tx_capturing' = FALSE
    /\ asr_pending' \in {asr_pending, asr_pending \/ asr_tx_capturing}
    /\ UNCHANGED <<main_at, sp_inputs, sp_carrier, threadVars, asr_loaded, asr_on, asr_batch, asr_capturing, asr_streaming,
                   announcer, aiVars, ttsVars>>

AsrTakes ==
    /\ worker["asr"] = "idle" /\ ~stop_requested["asr"] /\ asr_pending
    /\ asr_pending' = FALSE /\ worker' = [worker EXCEPT !["asr"] = "busy"]
    /\ UNCHANGED <<mainVars, thread_slots, stop_requested, asr_loaded, asr_on, asr_batch, asr_capturing, asr_streaming,
                   asr_tx_capturing, announcer, aiVars, ttsVars>>

\* The server has answered, or has not: with a text the worker announces it.
AsrTranscribed ==
    /\ worker["asr"] = "busy" /\ announcer["asr"] = SpQuiet
    /\ \/ announcer' = [announcer EXCEPT !["asr"].at = "announce"] /\ UNCHANGED worker
       \/ worker' = [worker EXCEPT !["asr"] = "idle"] /\ UNCHANGED announcer
    /\ UNCHANGED <<mainVars, thread_slots, stop_requested, asrVars, aiVars, ttsVars>>

\* Switched off, the old worker is left running.
asr_configure == \E on, batch \in BOOLEAN :
    /\ SpInput /\ asr_loaded /\ asr_on' = on /\ asr_batch' = batch
    /\ IF on THEN main_at' = "asr_configure" /\ kerchunk_thread_stop("asr")
       ELSE UNCHANGED <<main_at, stop_requested>>
    /\ UNCHANGED <<sp_carrier, sp_tx, thread_slots, worker, asr_loaded, asr_capturing, asr_streaming, asr_tx_capturing,
                   asr_pending, announcer, aiVars, ttsVars>>

asr_configured ==
    /\ main_at = "asr_configure" /\ Joined("asr") /\ main_at' = "run"
    /\ IF asr_batch
       THEN /\ asr_pending' = FALSE
            /\ \/ kerchunk_thread_create("asr") /\ UNCHANGED asr_on
               \/ NoThread("asr") /\ asr_on' = FALSE
       ELSE /\ worker' = [worker EXCEPT !["asr"] = "none"]
            /\ UNCHANGED <<thread_slots, stop_requested, asr_on, asr_pending>>
    /\ UNCHANGED <<sp_inputs, sp_carrier, sp_tx, asr_loaded, asr_batch, asr_capturing, asr_streaming, asr_tx_capturing,
                   announcer, aiVars, ttsVars>>

asr_unload ==
    /\ SpInput /\ asr_loaded /\ main_at' = "asr_unload" /\ kerchunk_thread_stop("asr")
    /\ asr_on' = FALSE /\ asr_capturing' = FALSE /\ asr_streaming' = FALSE
    /\ UNCHANGED <<sp_carrier, sp_tx, thread_slots, worker, asr_loaded, asr_batch, asr_tx_capturing, asr_pending,
                   announcer, aiVars, ttsVars>>

asr_unloaded ==
    /\ main_at = "asr_unload" /\ Joined("asr") /\ main_at' = "run"
    /\ worker' = [worker EXCEPT !["asr"] = "none"] /\ asr_loaded' = FALSE /\ asr_tx_capturing' = FALSE
    /\ UNCHANGED <<sp_inputs, sp_carrier, sp_tx, thread_slots, stop_requested, asr_on, asr_batch, asr_capturing,
                   asr_streaming, asr_pending, announcer, aiVars, ttsVars>>

(* ------------------------ mod_ai: who it listens to --------------------- *)

Done(t) == announcer' = [announcer EXCEPT ![t] = SpQuiet]
At(t, place, who) == announcer' = [announcer EXCEPT ![t] = [at |-> place, who |-> who]]
AsrBack(t) == worker' = IF t = "asr" THEN [worker EXCEPT !["asr"] = "idle"] ELSE worker

\* on_announcement: an armed command and the wake phrase are a request, the
\* phrase alone is answered with "Ready", a running conversation may make one.
\* The caller is who is identified now, not who spoke.
on_announcement(t) ==
    /\ announcer[t].at = "announce"
    /\ \/ ~ai_on /\ Done(t) /\ AsrBack(t) /\ UNCHANGED <<ai_armed, tts_count>>
       \/ ai_on /\ Done(t) /\ AsrBack(t) /\ UNCHANGED <<ai_armed, tts_count>>          \* only noise
       \/ /\ ai_on /\ At(t, "busy_check", ai_caller) /\ ai_armed' \in {FALSE, ai_armed}
          /\ UNCHANGED <<worker, tts_count>>
       \/ ai_on /\ tts_speak /\ Done(t) /\ AsrBack(t) /\ UNCHANGED ai_armed
       \/ ai_on /\ At(t, "wants_lock", ai_caller) /\ UNCHANGED <<worker, ai_armed, tts_count>>
    /\ UNCHANGED <<mainVars, thread_slots, stop_requested, asrVars, ai_loaded, ai_on, ai_caller, ai_q, convVars,
                   turnVars, tts_up>>

\* conv_cleanup_expired: a conversation without a caller id never expires.
Unexpired == {SelectSeq(ai_convs, LAMBDA c : c = 0 \/ c \notin gone) : gone \in SUBSET AiCallers}
Talking(convs, who) == \E i \in 1..Len(convs) : convs[i] = who

FollowsConversation(t) ==
    /\ announcer[t].at = "wants_lock" /\ ai_lock = NobodyHolds
    /\ ai_convs' \in Unexpired
    /\ IF Talking(ai_convs', announcer[t].who) THEN At(t, "busy_check", announcer[t].who) /\ UNCHANGED worker
       ELSE Done(t) /\ AsrBack(t)
    /\ UNCHANGED <<mainVars, thread_slots, stop_requested, asrVars, ai_loaded, ai_on, ai_armed, ai_caller, ai_q,
                   ai_lock, turnVars, ttsVars>>

(* Mutant: only the request in hand is looked at, not the queue.            *)
ai_is_busy_InHandOnly == ai_inflight

ai_is_busy == ai_inflight \/ ai_q # <<>>

\* Busy: a cue, by file or by voice, and the transcript is dropped.
BusyCheck(t) ==
    /\ announcer[t].at = "busy_check"
    /\ IF ai_is_busy THEN (tts_speak \/ UNCHANGED tts_count) /\ Done(t) /\ AsrBack(t)
       ELSE At(t, "enqueue", announcer[t].who) /\ UNCHANGED <<tts_count, worker>>
    /\ UNCHANGED <<mainVars, thread_slots, stop_requested, asrVars, aiVars, tts_up>>

Enqueued(r) == ai_q' = IF Len(ai_q) < AI_REQUEST_QUEUE_SIZE THEN Append(ai_q, r) ELSE ai_q
enqueue_request(t) ==
    /\ announcer[t].at = "enqueue"
    /\ Enqueued([who |-> announcer[t].who, from |-> t])
    /\ Done(t) /\ AsrBack(t)
    /\ UNCHANGED <<mainVars, thread_slots, stop_requested, asrVars, ai_loaded, ai_on, ai_armed, ai_caller,
                   convVars, turnVars, ttsVars>>

Announces == \E t \in SpThreads : \/ on_announcement(t) \/ FollowsConversation(t)
                                \/ BusyCheck(t) \/ enqueue_request(t)

\* CLI "ai ask" does not look whether it is busy.
cli_ai_ask ==
    /\ SpInput /\ ai_loaded /\ Enqueued([who |-> ai_caller, from |-> "cli"])
    /\ UNCHANGED <<main_at, sp_carrier, sp_tx, threadVars, asrVars, announcer, ai_loaded, ai_on, ai_armed,
                   ai_caller, convVars, turnVars, ttsVars>>

\* "*99#" arms, "*990#" stops: the second waits for the lock.
on_dtmf_ai ==
    /\ SpInput /\ ai_loaded /\ ai_on
    /\ \/ ai_armed' = TRUE /\ tts_speak /\ UNCHANGED main_at
       \/ ai_armed' = FALSE /\ main_at' = "dtmf_stop" /\ UNCHANGED tts_count
    /\ UNCHANGED <<sp_carrier, sp_tx, threadVars, asrVars, announcer, ai_loaded, ai_on, ai_caller, ai_q, convVars,
                   turnVars, tts_up>>

ConversationStops ==
    /\ main_at = "dtmf_stop" /\ ai_lock = NobodyHolds /\ main_at' = "run"
    /\ ai_convs' = SelectSeq(ai_convs, LAMBDA c : c # ai_caller) /\ tts_speak
    /\ UNCHANGED <<sp_inputs, sp_carrier, sp_tx, threadVars, asrVars, announcer, ai_loaded, ai_on, ai_armed,
                   ai_caller, ai_q, ai_lock, turnVars, tts_up>>

CallerChanges == \E c \in AiCallers :
    /\ SpInput /\ c # ai_caller /\ ai_caller' = c
    /\ UNCHANGED <<main_at, sp_carrier, sp_tx, threadVars, asrVars, announcer, ai_loaded, ai_on, ai_armed, ai_q,
                   convVars, turnVars, ttsVars>>

(* -------------------------- mod_ai: its worker -------------------------- *)

\* Taken from the queue, the request is not in flight yet.
AiTakes ==
    /\ worker["ai"] = "idle" /\ ~stop_requested["ai"] /\ ai_q # <<>>
    /\ worker' = [worker EXCEPT !["ai"] = "taken"]
    /\ ai_req' = Head(ai_q).who /\ ai_q' = Tail(ai_q)
    /\ UNCHANGED <<mainVars, thread_slots, stop_requested, asrVars, announcer, ai_loaded, ai_on, ai_armed,
                   ai_caller, convVars, ai_inflight, ai_rounds, ai_force_no_tools, ai_failures, ai_disabled,
                   ttsVars>>

\* Disabled after too many failures: the request is dropped until the time is
\* over; else it is in flight and wants the lock.
AiBegins ==
    /\ worker["ai"] = "taken"
    /\ \/ ai_disabled /\ worker' = [worker EXCEPT !["ai"] = "idle"] /\ UNCHANGED turnVars
       \/ /\ worker' = [worker EXCEPT !["ai"] = "wants_lock"] /\ ai_inflight' = TRUE
          /\ ai_disabled' = FALSE /\ ai_failures' = IF ai_disabled THEN 0 ELSE ai_failures
          /\ UNCHANGED <<ai_req, ai_rounds, ai_force_no_tools>>
    /\ UNCHANGED <<mainVars, thread_slots, stop_requested, asrVars, announcer, ai_loaded, ai_on, ai_armed,
                   ai_caller, ai_q, convVars, ttsVars>>

\* conv_lookup_or_create: found, a free one, or the oldest one's place.
Opened(convs, who) ==
    IF Talking(convs, who) THEN convs
    ELSE Append(IF Len(convs) < AI_MAX_CONVERSATIONS THEN convs ELSE Tail(convs), who)

AiLocks == \E kept \in Unexpired :
    /\ worker["ai"] = "wants_lock" /\ ai_lock = NobodyHolds /\ ai_lock' = "ai"
    /\ worker' = [worker EXCEPT !["ai"] = "turn"]
    /\ ai_convs' = Opened(kept, ai_req) /\ ai_rounds' = 0 /\ ai_force_no_tools' = FALSE
    /\ UNCHANGED <<mainVars, thread_slots, stop_requested, asrVars, announcer, ai_loaded, ai_on, ai_armed,
                   ai_caller, ai_q, ai_req, ai_inflight, ai_failures, ai_disabled, ttsVars>>

\* One round of run_ai_turn that asks for tools; the last one may not.
ToolRound ==
    /\ worker["ai"] = "turn" /\ ~ai_force_no_tools /\ ai_rounds' = ai_rounds + 1
    /\ ai_force_no_tools' \in {TRUE, ai_rounds' >= MaxToolRounds}
    /\ UNCHANGED <<mainVars, threadVars, asrVars, announcer, ai_loaded, ai_on, ai_armed, ai_caller, ai_q, convVars,
                   ai_req, ai_inflight, ai_failures, ai_disabled, ttsVars>>

\* The request failed or its answer makes no sense: a sound or a sentence says
\* so, and too many failures in a row disable the assistant.
TurnFails == /\ tts_speak \/ UNCHANGED tts_count
             /\ ai_failures' = ai_failures + 1 /\ ai_disabled' = (ai_failures + 1 >= MaxConsecFail)

\* The answer, cut down to what can be spoken.
TurnAnswers == tts_speak /\ ai_failures' = 0 /\ UNCHANGED ai_disabled

TurnEnds ==
    /\ worker["ai"] = "turn" /\ ai_lock' = NobodyHolds /\ worker' = [worker EXCEPT !["ai"] = "idle"]
    /\ ai_inflight' = FALSE /\ (TurnAnswers \/ TurnFails)
    /\ UNCHANGED <<mainVars, thread_slots, stop_requested, asrVars, announcer, ai_loaded, ai_on, ai_armed,
                   ai_caller, ai_q, ai_req, ai_convs, ai_rounds, ai_force_no_tools, tts_up>>

\* A reload never restarts the worker.
ai_configure == \E on \in BOOLEAN :
    /\ SpInput /\ ai_loaded
    /\ IF on /\ worker["ai"] = "none"
       THEN \/ kerchunk_thread_create("ai") /\ ai_on' = TRUE
            \/ NoThread("ai") /\ ai_on' = FALSE
       ELSE ai_on' = on /\ UNCHANGED threadVars
    /\ UNCHANGED <<main_at, sp_carrier, sp_tx, asrVars, announcer, ai_loaded, ai_armed, ai_caller, ai_q, convVars,
                   turnVars, ttsVars>>

(* Mutant: the worker is not asked to stop before it is joined.             *)
ai_unload_NoStop ==
    /\ SpInput /\ ai_loaded /\ ai_on' = FALSE /\ main_at' = "ai_unload"
    /\ UNCHANGED <<sp_carrier, sp_tx, threadVars, asrVars, announcer, ai_loaded, ai_armed, ai_caller, ai_q,
                   convVars, turnVars, ttsVars>>

ai_unload ==
    /\ SpInput /\ ai_loaded /\ ai_on' = FALSE /\ main_at' = "ai_unload" /\ kerchunk_thread_stop("ai")
    /\ UNCHANGED <<sp_carrier, sp_tx, thread_slots, worker, asrVars, announcer, ai_loaded, ai_armed, ai_caller,
                   ai_q, convVars, turnVars, ttsVars>>

ai_unloaded ==
    /\ main_at = "ai_unload" /\ Joined("ai") /\ ai_lock = NobodyHolds /\ main_at' = "run"
    /\ ai_loaded' = FALSE /\ worker' = [worker EXCEPT !["ai"] = "none"] /\ ai_convs' = <<>>
    /\ UNCHANGED <<sp_inputs, sp_carrier, sp_tx, thread_slots, stop_requested, asrVars, announcer, ai_on, ai_armed,
                   ai_caller, ai_q, ai_lock, turnVars, ttsVars>>

MainWaits == tts_configured \/ tts_unloaded \/ asr_configured \/ asr_unloaded \/ ConversationStops \/ ai_unloaded
Works == \/ WorkerEnds \/ TtsTakes \/ TtsSpoken \/ AsrTakes \/ AsrTranscribed
         \/ AiTakes \/ AiBegins \/ AiLocks \/ ToolRound \/ TurnEnds
SpNext == \/ MainWaits \/ Works \/ Announces
          \/ tts_configure \/ tts_unload \/ asr_cor_assert \/ asr_cor_drop \/ asr_vcor_assert \/ asr_vcor_drop
          \/ asr_configure \/ asr_unload \/ cli_ai_ask \/ on_dtmf_ai \/ CallerChanges \/ ai_configure \/ ai_unload

\* Every thread runs, every server answers or times out, every lock that is
\* free is given to somebody who wants it.
SpFair == WF_spVars(MainWaits) /\ WF_spVars(Works) /\ WF_spVars(Announces)

SpSpec == SpInit /\ [][SpNext]_spVars
-----------------------------------------------------------------------------
Open(t) == {i \in 1..Len(ai_q) : ai_q[i].from = t}

(* Answers do not pile up: while a turn is in flight or a request waits the *)
(* transcripts are dropped, so each thread that announces them has at most  *)
(* one request in the queue, although nobody locks between the check and    *)
(* the queue (ai_is_busy, on_announcement, ai_worker).  Behind a request    *)
(* that is taken and not yet in flight one may still be queued.             *)
AnswersDoNotPile == \A t \in SpThreads : Cardinality(Open(t)) <= 1

(* The main loop comes back from everything it waits for here: the join of  *)
(* a worker, the lock of the conversations, a transcript it announces       *)
(* (configure and unload of the three modules, "*990#", streaming).         *)
MainLoopReturns == ~MainRuns ~> MainRuns
=============================================================================
