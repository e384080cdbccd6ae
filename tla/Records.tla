------------------------------ MODULE Records ------------------------------
(***************************************************************************)
(* What is kept of the traffic: mod_recorder (one file per reception, one  *)
(* per transmission), mod_cdr (one row per call, per transmission and per  *)
(* announcement) and mod_stats with its round-robin file.  Each reacts to  *)
(* the same events, in the order the modules are loaded: mod_caller, then  *)
(* the recorder, the call records, the statistics.  An event that is fired *)
(* inside a handler is dispatched before the next handler runs.            *)
(***************************************************************************)
EXTENDS Naturals, FiniteSets

CONSTANTS RecUsers,         \* the users CALLER_IDENTIFIED may name
          RRD_MAX_USERS,
          MaxCalls, MaxOther    \* bounds: carriers, all other inputs

ASSUME RecAssumption == RRD_MAX_USERS \in Nat

VARIABLES rec_enabled, cdr_enabled,
          carrier,
          rx_active, rx_calls,      \* the calls the recording has heard
          rx_caller_id,
          tx_active, vcor_active,
          tx_vcor_user,             \* the label of the next TX recording
          drain_source,             \* kerchunk_queue_drain_source
          playing,                  \* QUEUE_DRAIN was fired
          in_call, call_no, call_user_id,
          call_recording,           \* the calls in the file it names, {} for none
          rows,                     \* RX rows of followed calls: [call, rec]
          csv,                      \* rows of today's file but "system"
          today_calls,
          cor_active, current_user_id,
          rrd_rx,                   \* counters.rx_count
          rrd_user,                 \* tx_count of the users in the file
          followed,                 \* history: not switched off since the call began
          heard,                    \* history: calls each user was named in
          named,                    \* history: users named in this call
          credits,                  \* history: <<reception, user>> since the file was reset
          calls, others             \* bounds

recorderVars == <<rec_enabled, rx_active, rx_calls, rx_caller_id, tx_active, vcor_active, tx_vcor_user>>
cdrVars == <<cdr_enabled, in_call, call_no, call_user_id, call_recording, rows, csv, today_calls, followed>>
statsVars == <<cor_active, current_user_id, rrd_rx, rrd_user>>
recVars == <<recorderVars, cdrVars, statsVars, carrier, drain_source, playing, heard, named, credits, calls, others>>

RecInit ==
    /\ rec_enabled = TRUE /\ cdr_enabled = TRUE /\ carrier = FALSE
    /\ rx_active = FALSE /\ rx_calls = {} /\ rx_caller_id = 0
    /\ tx_active = FALSE /\ vcor_active = FALSE /\ tx_vcor_user = 0
    /\ drain_source = "none" /\ playing = FALSE
    /\ in_call = FALSE /\ call_no = 0 /\ call_user_id = 0 /\ call_recording = {}
    /\ rows = {} /\ followed = FALSE /\ csv = 0 /\ today_calls = 0
    /\ cor_active = FALSE /\ current_user_id = 0
    /\ rrd_rx = 0 /\ rrd_user = <<>>
    /\ heard = [u \in RecUsers |-> 0] /\ named = {} /\ credits = {} /\ calls = 0 /\ others = 0

Other == others < MaxOther /\ others' = others + 1
Named(u) == named' = named \cup ({u} \ {0})

\* CALLER_IDENTIFIED: the recorder takes it at any time, the call records in
\* a call, the statistics until the next carrier.
rec_on_caller_identified(u) ==
    /\ rx_caller_id' = u
    /\ call_user_id' = IF in_call THEN u ELSE call_user_id

(* ---------------------------- a carrier comes --------------------------- *)

(* Mutant: a call keeps the recording of the call before it.                *)
cdr_cor_assert_KeepsFile ==
    IF cdr_enabled THEN in_call' = TRUE /\ call_no' = calls' /\ UNCHANGED call_recording /\ followed' = TRUE
    ELSE UNCHANGED <<in_call, call_no, call_recording, followed>>

cdr_cor_assert ==
    IF cdr_enabled THEN in_call' = TRUE /\ call_no' = calls' /\ call_recording' = {} /\ followed' = TRUE
    ELSE UNCHANGED <<in_call, call_no, call_recording, followed>>

rx_start ==
    /\ rx_active' = (rx_active \/ rec_enabled)
    /\ rx_calls' = IF rx_active THEN rx_calls \cup {calls'}
                   ELSE IF rec_enabled THEN {calls'} ELSE rx_calls

stats_cor_assert == cor_active' = TRUE /\ current_user_id' = 0

\* With a login session mod_caller names its user first, inside its own
\* handler of COR_ASSERT: what the handlers after it reset is lost.
RecCarrierComes == \E session \in RecUsers \cup {0} :
    /\ ~carrier /\ carrier' = TRUE
    /\ calls < MaxCalls /\ calls' = calls + 1
    /\ IF session = 0 THEN UNCHANGED <<rx_caller_id, call_user_id>> ELSE rec_on_caller_identified(session)
    /\ named' = {session} \ {0}
    /\ rx_start /\ cdr_cor_assert /\ stats_cor_assert
    /\ UNCHANGED <<rec_enabled, cdr_enabled, tx_active, vcor_active, tx_vcor_user, drain_source, playing,
                   rows, csv, today_calls, rrd_rx, rrd_user, heard, credits, others>>

CallerIdentified == \E u \in RecUsers :
    /\ Other /\ rec_on_caller_identified(u) /\ current_user_id' = u
    /\ IF carrier THEN Named(u) ELSE UNCHANGED named
    /\ UNCHANGED <<rec_enabled, cdr_enabled, carrier, rx_active, rx_calls, tx_active, vcor_active,
                   tx_vcor_user, drain_source, playing, in_call, call_no, call_recording, rows, csv,
                   today_calls, followed, cor_active, rrd_rx, rrd_user, heard, credits, calls>>

(* ---------------------------- the carrier goes -------------------------- *)

\* rx_stop, and RECORDING_SAVED inside it: the call that is in progress
\* takes the name of the file.
rx_stop ==
    /\ rx_active' = FALSE /\ rx_caller_id' = 0
    /\ call_recording' = IF in_call THEN rx_calls ELSE call_recording

\* write_cdr: the row of the call, with the file it knows of.
write_cdr ==
    /\ rows' = IF followed THEN rows \cup {[call |-> call_no, rec |-> call_recording']} ELSE rows
    /\ csv' = csv + 1 /\ today_calls' = today_calls + 1

cdr_cor_drop ==
    IF cdr_enabled /\ in_call
    THEN write_cdr /\ in_call' = FALSE /\ call_user_id' = 0
    ELSE UNCHANGED <<rows, csv, today_calls, in_call, call_user_id>>

TxCount(u) == IF u \in DOMAIN rrd_user THEN rrd_user[u] ELSE 0

(* Mutant: whoever was named in the call is credited with it.               *)
record_user_Everyone(u) ==
    rrd_user' = [v \in DOMAIN rrd_user \cup named |-> TxCount(v) + IF v \in named THEN 1 ELSE 0]

\* kerchunk_rrd_record_rx, and on_cor_drop for a user who is new to the file.
record_user(u) ==
    rrd_user' = IF u = 0 THEN rrd_user
                ELSE IF u \in DOMAIN rrd_user THEN [rrd_user EXCEPT ![u] = @ + 1]
                ELSE IF Cardinality(DOMAIN rrd_user) >= RRD_MAX_USERS THEN rrd_user
                ELSE [v \in DOMAIN rrd_user \cup {u} |-> IF v = u THEN 1 ELSE rrd_user[v]]

stats_cor_drop ==
    /\ cor_active' = FALSE
    /\ IF cor_active THEN rrd_rx' = rrd_rx + 1 /\ record_user(current_user_id)
       ELSE UNCHANGED <<rrd_rx, rrd_user>>

RecCarrierGoes ==
    /\ carrier /\ carrier' = FALSE
    /\ IF rec_enabled /\ rx_active THEN rx_stop
       ELSE UNCHANGED <<rx_active, rx_caller_id, call_recording>>
    /\ cdr_cor_drop /\ stats_cor_drop
    /\ heard' = [u \in RecUsers |-> heard[u] + IF u \in named THEN 1 ELSE 0]
    /\ named' = {}
    /\ credits' = credits \cup {<<rrd_rx', u>> : u \in {v \in RecUsers : TxCount(v)' > TxCount(v)}}
    /\ UNCHANGED <<rec_enabled, cdr_enabled, rx_calls, tx_active, vcor_active, tx_vcor_user, drain_source,
                   playing, call_no, followed, current_user_id, calls, others>>

(* ------------------------- transmissions (queue) ------------------------ *)

on_vcor == \E assert \in BOOLEAN, u \in RecUsers :
    /\ Other /\ vcor_active' = assert
    /\ tx_vcor_user' = IF assert THEN u ELSE tx_vcor_user
    /\ UNCHANGED <<rec_enabled, rx_active, rx_calls, rx_caller_id, tx_active, cdrVars, statsVars, carrier,
                   drain_source, playing, heard, named, credits, calls>>

\* QUEUE_DRAIN is fired before the first item is taken: the source is that
\* of the last item of the transmission before.
on_queue_drain == \E source \in {"courtesy", "other"} :
    /\ Other /\ ~playing /\ playing' = TRUE
    /\ tx_active' = (tx_active \/ (rec_enabled /\ drain_source # "courtesy"))
    /\ drain_source' = source
    /\ UNCHANGED <<rec_enabled, rx_active, rx_calls, rx_caller_id, vcor_active, tx_vcor_user, cdrVars,
                   statsVars, carrier, heard, named, credits, calls>>

\* tx_stop: RECORDING_SAVED writes the row of the transmission; the label
\* goes only with a recording.
tx_stop ==
    /\ tx_active' = FALSE
    /\ tx_vcor_user' = IF tx_active THEN 0 ELSE tx_vcor_user
    /\ csv' = IF tx_active /\ cdr_enabled THEN csv + 1 ELSE csv

rec_on_queue_complete ==
    /\ playing /\ playing' = FALSE
    /\ IF rec_enabled /\ ~vcor_active THEN tx_stop ELSE UNCHANGED <<tx_active, tx_vcor_user, csv>>
    /\ UNCHANGED <<rec_enabled, rx_active, rx_calls, rx_caller_id, vcor_active, cdr_enabled, in_call,
                   call_no, call_user_id, call_recording, rows, today_calls, followed, statsVars, carrier,
                   drain_source, heard, named, credits, calls, others>>

(* ----------------------- configuration, unload, day --------------------- *)

\* Every row of the file but "system" is counted again, TX rows among them.
\* A call or a recording in progress is not looked at.
configure == \E rec, cdr \in BOOLEAN :
    /\ Other /\ rec_enabled' = rec /\ cdr_enabled' = cdr
    /\ today_calls' = IF cdr THEN csv ELSE today_calls
    /\ followed' = (followed /\ cdr)
    /\ UNCHANGED <<rx_active, rx_calls, rx_caller_id, tx_active, vcor_active, tx_vcor_user, in_call, call_no,
                   call_user_id, call_recording, rows, csv, statsVars, carrier, drain_source, playing,
                   heard, named, credits, calls>>

\* Unloaded and loaded again: what was going on is saved, then forgotten.
recorder_unload ==
    /\ Other
    /\ rx_active' = FALSE /\ rx_caller_id' = 0
    /\ call_recording' = IF rx_active /\ in_call THEN rx_calls ELSE call_recording
    /\ tx_active' = FALSE /\ tx_vcor_user' = 0 /\ vcor_active' = FALSE
    /\ csv' = IF tx_active /\ cdr_enabled THEN csv + 1 ELSE csv
    /\ UNCHANGED <<rec_enabled, rx_calls, cdr_enabled, in_call, call_no, call_user_id, rows, today_calls, followed,
                   statsVars, carrier, drain_source, playing, heard, named, credits, calls>>

cdr_unload ==
    /\ Other
    /\ UNCHANGED call_recording
    /\ IF in_call THEN write_cdr ELSE UNCHANGED <<rows, csv, today_calls>>
    /\ in_call' = FALSE /\ call_user_id' = 0
    /\ UNCHANGED <<recorderVars, cdr_enabled, call_no, followed, statsVars, carrier, drain_source, playing, heard,
                   named, credits, calls>>

\* open_daily_csv on another day, as the next row is written.
NextDay ==
    /\ Other /\ csv > 0 /\ csv' = 0 /\ today_calls' = 0
    /\ UNCHANGED <<recorderVars, cdr_enabled, in_call, call_no, call_user_id, call_recording, rows, followed,
                   statsVars, carrier, drain_source, playing, heard, named, credits, calls>>

kerchunk_rrd_reset ==
    /\ Other /\ rrd_rx' = 0 /\ rrd_user' = <<>> /\ credits' = {}
    /\ UNCHANGED <<recorderVars, cdrVars, cor_active, current_user_id, carrier, drain_source, playing,
                   heard, named, calls>>

RecNext == \/ RecCarrierComes \/ RecCarrierGoes \/ CallerIdentified \/ on_vcor \/ on_queue_drain
           \/ rec_on_queue_complete \/ configure \/ recorder_unload \/ cdr_unload \/ NextDay
           \/ kerchunk_rrd_reset

RecSpec == RecInit /\ [][RecNext]_recVars
-----------------------------------------------------------------------------
(* Every count of the file is owed to receptions: a user's is the number of  *)
(* receptions he is credited with, and no reception credits two users, so the *)
(* counts of all users add up to no more than the receptions there were.      *)
CreditsAddUp ==
    /\ \A u \in RecUsers : TxCount(u) = Cardinality({c \in credits : c[2] = u})
    /\ \A c \in credits : c[1] \in 1 .. rrd_rx
    /\ \A c, d \in credits : c[1] = d[1] => c = d

(* The records tell the truth: the row of a call during which the call       *)
(* records were never switched off names a recording that holds the call, or *)
(* none; a user is credited with no more transmissions than he was           *)
(* identified in; and the credits of all users together are no more than     *)
(* there were receptions (mod_recorder, mod_cdr and mod_stats, switched on    *)
(* and off, unloaded and reset at any point of a call).  Rows of other calls  *)
(* are left out: switched on again within a later call, mod_cdr goes on with   *)
(* the call, and the file, it had before (mod_cdr.c:263 returns first).       *)
RecordsAreTrue ==
    /\ \A r \in rows : r.rec # {} => r.call \in r.rec
    /\ \A u \in DOMAIN rrd_user : rrd_user[u] <= heard[u]
    /\ Cardinality(DOMAIN rrd_user) <= RRD_MAX_USERS
    /\ CreditsAddUp
=============================================================================
