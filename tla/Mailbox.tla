------------------------------ MODULE Mailbox ------------------------------
(***************************************************************************)
(* What is recorded to be played back: mod_voicemail and mod_parrot.  A    *)
(* command arms the recording, the next carrier starts it, its end or a    *)
(* timer saves it.  mod_dtmfcmd is loaded before both: a command that was  *)
(* dialled under a carrier is run first when the carrier drops, before the *)
(* recording of that carrier is stopped.                                   *)
(***************************************************************************)
EXTENDS Naturals

CONSTANTS VmUsers, VM_MAX,      \* g_max_messages
          MailMaxInputs         \* bound: carriers, commands, callers, reloads

VARIABLES vm_loaded, vm_enabled,
          vm_caller,        \* g_current_caller_id
          g_recording, g_record_armed, g_record_user_id,
          rec_timers, arm_timers,   \* armed timers
          vm_taps,          \* registrations of rec_audio_tap
          vm_files,         \* msg_*.pcm of each user
          heard_audio,      \* g_rec_len > 0
          pr_armed, pr_recording, pr_taps, pr_audio,
          mail_rx,          \* a carrier is present
          pending_cmd,      \* mod_dtmfcmd's command of this carrier
          mail_inputs

vmVars == <<vm_loaded, vm_enabled, vm_caller, g_recording, g_record_armed, g_record_user_id, rec_timers,
            arm_timers, vm_taps, vm_files, heard_audio>>
prVars == <<pr_armed, pr_recording, pr_taps, pr_audio>>
mailVars == <<vmVars, prVars, mail_rx, pending_cmd, mail_inputs>>

NoCommand == [name |-> "none", arg |-> 0]
Commands == [name : {"record"}, arg : {0} \cup VmUsers] \cup [name : {"play", "delete", "parrot"}, arg : {0}]

MailInit ==
    /\ vm_loaded = TRUE /\ vm_enabled = TRUE /\ vm_caller = 0
    /\ g_recording = FALSE /\ g_record_armed = FALSE /\ g_record_user_id = 0
    /\ rec_timers = 0 /\ arm_timers = 0 /\ vm_taps = 0 /\ heard_audio = FALSE
    /\ vm_files = [u \in VmUsers |-> 0]
    /\ pr_armed = FALSE /\ pr_recording = FALSE /\ pr_taps = 0 /\ pr_audio = FALSE
    /\ mail_rx = FALSE /\ pending_cmd = NoCommand /\ mail_inputs = 0

Input == mail_inputs < MailMaxInputs /\ mail_inputs' = mail_inputs + 1

(* ---------------------------- mod_voicemail ----------------------------- *)

\* on_vm_record: refused without a user, for an unknown one and with a full
\* mailbox; else armed for the user, for arm_timeout.
Refused(target) == ~vm_enabled \/ target \notin VmUsers \/ vm_files[target] >= VM_MAX
on_vm_record(arg) ==
    LET target == IF arg > 0 THEN arg ELSE vm_caller
    IN IF Refused(target) THEN UNCHANGED <<g_record_armed, g_record_user_id, arm_timers>>
       ELSE g_record_armed' = TRUE /\ g_record_user_id' = target /\ arm_timers' = 1

\* The first file of the caller that the directory lists is removed.
on_vm_delete ==
    IF vm_enabled /\ vm_caller \in VmUsers /\ vm_files[vm_caller] > 0
    THEN [vm_files EXCEPT ![vm_caller] = @ - 1] ELSE vm_files

vm_command(c) ==
    IF c.name = "record" /\ vm_loaded THEN on_vm_record(c.arg)
    ELSE UNCHANGED <<g_record_armed, g_record_user_id, arm_timers>>

(* Mutant: what was armed stays armed when the recording starts.            *)
start_recording_now_StaysArmed ==
    /\ UNCHANGED <<g_record_armed, arm_timers>>
    /\ \/ g_recording' = TRUE /\ vm_taps' = vm_taps + 1 /\ rec_timers' = rec_timers + 1
       \/ UNCHANGED <<g_recording, vm_taps, rec_timers>>
    /\ heard_audio' = FALSE

\* Without memory or without a timer there is no recording, and the arming
\* is used up.
start_recording_now ==
    /\ g_record_armed' = FALSE /\ arm_timers' = 0
    /\ \/ g_recording' = TRUE /\ vm_taps' = vm_taps + 1 /\ rec_timers' = rec_timers + 1
       \/ UNCHANGED <<g_recording, vm_taps, rec_timers>>
    /\ heard_audio' = FALSE

vm_cor_assert ==
    IF vm_loaded /\ g_record_armed /\ ~g_recording THEN start_recording_now
    ELSE UNCHANGED <<g_record_armed, arm_timers, g_recording, vm_taps, rec_timers, heard_audio>>

\* stop_recording saves in the mailbox of g_record_user_id, which a command
\* may have changed since the recording began.
Saved(files, user) ==
    IF heard_audio /\ user \in VmUsers THEN [files EXCEPT ![user] = @ + 1] ELSE files
stop_recording(files, user) ==
    IF g_recording /\ vm_loaded
    THEN /\ g_recording' = FALSE /\ vm_taps' = vm_taps - 1 /\ rec_timers' = 0
         /\ vm_files' = Saved(files, user) /\ heard_audio' = FALSE
    ELSE vm_files' = files /\ UNCHANGED <<g_recording, vm_taps, rec_timers, heard_audio>>

rec_timeout ==
    /\ rec_timers > 0 /\ stop_recording(vm_files, g_record_user_id)
    /\ UNCHANGED <<vm_loaded, vm_enabled, vm_caller, g_record_armed, g_record_user_id, arm_timers, prVars,
                   mail_rx, pending_cmd, mail_inputs>>

arm_timeout ==
    /\ arm_timers > 0 /\ arm_timers' = arm_timers - 1 /\ g_record_armed' = FALSE
    /\ UNCHANGED <<vm_loaded, vm_enabled, vm_caller, g_recording, g_record_user_id, rec_timers, vm_taps,
                   vm_files, heard_audio, prVars, mail_rx, pending_cmd, mail_inputs>>

(* ------------------------------ mod_parrot ------------------------------ *)

parrot_cor_assert ==
    /\ pr_armed' = FALSE
    /\ IF pr_armed /\ ~pr_recording
       THEN /\ pr_audio' = FALSE
            /\ \/ pr_recording' = TRUE /\ pr_taps' = pr_taps + 1
               \/ UNCHANGED <<pr_recording, pr_taps>>
       ELSE UNCHANGED <<pr_recording, pr_taps, pr_audio>>

\* stop_and_playback: the buffer is copied to the queue and freed.
parrot_cor_drop ==
    /\ pr_recording' = FALSE /\ pr_audio' = FALSE
    /\ pr_taps' = IF pr_recording THEN pr_taps - 1 ELSE pr_taps

parrot_unload ==
    /\ Input
    /\ pr_recording' = FALSE /\ pr_armed' = FALSE /\ pr_audio' = FALSE
    /\ pr_taps' = IF pr_recording THEN pr_taps - 1 ELSE pr_taps
    /\ UNCHANGED <<vmVars, mail_rx, pending_cmd>>

(* -------------------------------- events -------------------------------- *)

CarrierComes ==
    /\ Input /\ ~mail_rx /\ mail_rx' = TRUE
    /\ vm_cor_assert /\ parrot_cor_assert
    /\ UNCHANGED <<vm_loaded, vm_enabled, vm_caller, g_record_user_id, vm_files, pending_cmd>>

\* audio_tap on the audio thread, for as long as the carrier lasts.
AudioFrame ==
    /\ mail_rx /\ ((g_recording /\ ~heard_audio) \/ (pr_recording /\ ~pr_audio))
    /\ heard_audio' = (heard_audio \/ (g_recording /\ vm_taps > 0))
    /\ pr_audio' = (pr_audio \/ (pr_recording /\ pr_taps > 0))
    /\ UNCHANGED <<vm_loaded, vm_enabled, vm_caller, g_recording, g_record_armed, g_record_user_id, rec_timers,
                   arm_timers, vm_taps, vm_files, pr_armed, pr_recording, pr_taps, mail_rx, pending_cmd,
                   mail_inputs>>

\* Under a carrier a command waits for the drop.
DialUnderCarrier == \E c \in Commands :
    /\ Input /\ mail_rx /\ pending_cmd' = c
    /\ UNCHANGED <<vmVars, prVars, mail_rx>>

Files(c) == IF c.name = "delete" /\ vm_loaded THEN on_vm_delete ELSE vm_files

CarrierGoes ==
    /\ mail_rx /\ mail_rx' = FALSE /\ pending_cmd' = NoCommand
    /\ vm_command(pending_cmd)
    /\ stop_recording(Files(pending_cmd), g_record_user_id')
    /\ parrot_cor_drop /\ pr_armed' = (pr_armed \/ pending_cmd.name = "parrot")
    /\ UNCHANGED <<vm_loaded, vm_enabled, vm_caller, mail_inputs>>

\* "#" after the carrier: the command runs at once.
DialLate == \E c \in Commands :
    /\ Input /\ ~mail_rx /\ vm_command(c) /\ vm_files' = Files(c)
    /\ pr_armed' = (pr_armed \/ c.name = "parrot")
    /\ UNCHANGED <<vm_loaded, vm_enabled, vm_caller, g_recording, rec_timers, vm_taps, heard_audio,
                   pr_recording, pr_taps, pr_audio, mail_rx, pending_cmd>>

on_caller_identified == \E u \in VmUsers :
    /\ Input /\ vm_loaded /\ vm_caller' = u
    /\ UNCHANGED <<vm_loaded, vm_enabled, g_recording, g_record_armed, g_record_user_id, rec_timers, arm_timers,
                   vm_taps, vm_files, heard_audio, prVars, mail_rx, pending_cmd>>

voicemail_configure == \E on \in BOOLEAN :
    /\ Input /\ vm_loaded /\ vm_enabled' = on
    /\ UNCHANGED <<vm_loaded, vm_caller, g_recording, g_record_armed, g_record_user_id, rec_timers, arm_timers,
                   vm_taps, vm_files, heard_audio, prVars, mail_rx, pending_cmd>>

\* The timers go and the buffer is freed; a tap of a running recording stays.
voicemail_unload ==
    /\ Input /\ vm_loaded /\ vm_loaded' = FALSE
    /\ rec_timers' = 0 /\ arm_timers' = 0
    /\ g_recording' = FALSE /\ g_record_armed' = FALSE /\ g_record_user_id' = 0 /\ vm_caller' = 0
    /\ heard_audio' = FALSE
    /\ UNCHANGED <<vm_enabled, vm_taps, vm_files, prVars, mail_rx, pending_cmd>>

MailNext == \/ rec_timeout \/ arm_timeout \/ parrot_unload \/ CarrierComes \/ AudioFrame \/ DialUnderCarrier
            \/ CarrierGoes \/ DialLate \/ on_caller_identified \/ voicemail_configure \/ voicemail_unload

MailSpec == MailInit /\ [][MailNext]_mailVars
-----------------------------------------------------------------------------
(* A mailbox holds at most one message more than its limit (a command that  *)
(* is dialled during a recording is checked before that recording is        *)
(* counted), whatever is armed, timed out and saved; every recording and    *)
(* every arming has its one timer and its one tap, and nothing else has     *)
(* (mod_voicemail, mod_parrot).                                             *)
MailboxesHold ==
    /\ \A u \in VmUsers : vm_files[u] <= VM_MAX + 1
    /\ rec_timers = IF g_recording THEN 1 ELSE 0
    /\ arm_timers = IF g_record_armed THEN 1 ELSE 0
    /\ vm_loaded => vm_taps = (IF g_recording THEN 1 ELSE 0)
    /\ pr_taps = IF pr_recording THEN 1 ELSE 0
=============================================================================
