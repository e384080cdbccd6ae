------------------------------- MODULE Access -------------------------------
(***************************************************************************)
(* Who is transmitting and what he may do: mod_caller (ANI window, login   *)
(* session), mod_dtmfcmd (commands held back until the carrier drops),     *)
(* mod_otp (one-time passwords, elevated sessions) and the user table they *)
(* look into.  All handlers run on the main loop, in the order in which    *)
(* the modules are loaded.  Digits are members of a small set; a login, an *)
(* ANI and a command are sequences of them.                                *)
(***************************************************************************)
EXTENDS Naturals, Sequences, FiniteSets

CONSTANTS Digits,           \* besides "*" and "#"
          UserTables,       \* the tables kerchunk_user_init may load
          LogoutCode, OtpPattern,
          MAX_ANI_LEN, MAX_CMD_LEN,
          OTP_MAX_FAILURES, MAX_OTP_SESSIONS,
          MaxInputs,        \* bound: keys, carriers and reloads
          MaxStep           \* bound: 30 s steps of the one-time passwords

ASSUME DigitsAreDigits == {"*", "#"} \cap Digits = {}

VARIABLES users,            \* g_users: [id, ani, login, totp], in order
          acc_inputs,
          g_current_user_id, g_current_method,
          g_ani_active, g_ani_buf, g_ani_timer,
          g_login_active, g_login_buf,
          g_session_user_id,
          session_timers,   \* armed timers of session_timeout_cb
          login_untimed,    \* history: the session's timer was refused
          acc_receiving,    \* core_is_receiving
          g_active, g_buf, g_timeout_timer, g_pending_dispatch,
          hash_keyed,       \* history: "#" ended a command under this carrier
          cmd_ended,        \* history: and what g_buf holds is that command
          dispatched,       \* history: the last step fired a command
          otp_caller,       \* mod_otp's g_current_caller_id
          otp_sessions,     \* users with an active session
          otp_timers,       \* armed timers of each user's session
          otp_untimed,      \* history: users whose timer was refused
          otp_elevated,     \* kerchunk_core's g_otp_sessions
          otp_failures, otp_lapsed,     \* g_otp_lockout, and whose is old
          otp_last,         \* g_otp_last_counter
          otp_accepted,     \* history: <<user, counter>> of accepted codes
          otp_grants,       \* history: how many codes were accepted
          otp_step          \* time / 30

callerVars == <<g_current_user_id, g_current_method, g_ani_active, g_ani_buf, g_ani_timer,
                g_login_active, g_login_buf, g_session_user_id, session_timers, login_untimed>>
heardVars == <<hash_keyed, cmd_ended>>
cmdVars == <<g_active, g_buf, g_timeout_timer, g_pending_dispatch, heardVars, dispatched>>
grantVars == <<otp_sessions, otp_timers, otp_untimed, otp_elevated>>
otpVars == <<otp_caller, grantVars, otp_failures, otp_lapsed,
             otp_last, otp_accepted, otp_grants, otp_step>>
accVars == <<users, acc_inputs, acc_receiving, callerVars, cmdVars, otpVars>>

Ids == UNION {{t[k].id : k \in DOMAIN t} : t \in UserTables}

AccInit ==
    /\ users \in UserTables /\ acc_inputs = 0 /\ acc_receiving = FALSE
    /\ g_current_user_id = 0 /\ g_current_method = "none"
    /\ g_ani_active = FALSE /\ g_ani_buf = <<>> /\ g_ani_timer = FALSE
    /\ g_login_active = FALSE /\ g_login_buf = <<>>
    /\ g_session_user_id = 0 /\ session_timers = 0 /\ login_untimed = FALSE
    /\ g_active = FALSE /\ g_buf = <<>> /\ g_timeout_timer = FALSE /\ g_pending_dispatch = FALSE
    /\ hash_keyed = FALSE /\ cmd_ended = FALSE /\ dispatched = FALSE
    /\ otp_caller = 0 /\ otp_sessions = {} /\ otp_timers = [u \in Ids |-> 0] /\ otp_elevated = {}
    /\ otp_untimed = {}
    /\ otp_failures = [u \in Ids |-> 0] /\ otp_lapsed = {}
    /\ otp_last = [u \in Ids |-> 0] /\ otp_accepted = {} /\ otp_grants = 0 /\ otp_step = 1

\* The first of the users of the table that fit, or 0.
First(fits) == IF fits = {} THEN 0 ELSE users[CHOOSE k \in fits : \A j \in fits : k <= j].id
lookup_by_ani(ani) == First({k \in DOMAIN users : users[k].ani # <<>> /\ users[k].ani = ani})
lookup_by_login(code) == First({k \in DOMAIN users : users[k].login # <<>> /\ users[k].login = code})
HasTotp(id) == First({k \in DOMAIN users : users[k].id = id /\ users[k].totp}) # 0

AccInput == acc_inputs < MaxInputs /\ acc_inputs' = acc_inputs + 1

(* ------------------------------- mod_caller ----------------------------- *)

\* CALLER_IDENTIFIED: mod_otp remembers who it was; nobody forgets him.
fire_identified(u, method) ==
    /\ g_current_user_id' = u /\ g_current_method' = method
    /\ otp_caller' = u
fire_cleared == g_current_user_id' = 0 /\ g_current_method' = "none"
NobodyNew == UNCHANGED <<g_current_user_id, g_current_method, otp_caller>>

\* kerchunk_timer_create refuses a time of 0 and a full table: the caller
\* then keeps -1 and his session runs without a timer.
NewLoginTimer == \E made \in BOOLEAN :
    session_timers' = (IF made THEN 1 ELSE 0) /\ login_untimed' = ~made
SameLogin == UNCHANGED <<g_session_user_id, session_timers, login_untimed>>

\* A session whose timer was refused is not given one later.
session_refresh == IF session_timers = 0 THEN UNCHANGED <<session_timers, login_untimed>> ELSE NewLoginTimer

\* An ANI that is complete names its user, or nobody.
Identify(ani) ==
    IF lookup_by_ani(ani) # 0 THEN fire_identified(lookup_by_ani(ani), "ani") ELSE NobodyNew

caller_cor_assert ==
    /\ g_ani_active' = TRUE
    /\ g_ani_buf' = IF g_ani_active THEN g_ani_buf ELSE <<>>
    /\ IF g_session_user_id = 0 THEN NobodyNew /\ UNCHANGED <<session_timers, login_untimed>>
       ELSE /\ session_refresh
            /\ IF g_current_user_id = g_session_user_id THEN NobodyNew
               ELSE fire_identified(g_session_user_id, "login")
    /\ UNCHANGED <<g_ani_timer, g_login_active, g_login_buf, g_session_user_id>>

caller_cor_drop ==
    /\ g_ani_timer' = FALSE /\ g_ani_active' = FALSE
    /\ fire_cleared /\ UNCHANGED otp_caller
    /\ SameLogin /\ UNCHANGED <<g_ani_buf, g_login_active, g_login_buf>>

do_logout ==
    /\ g_session_user_id' = 0 /\ session_timers' = 0 /\ login_untimed' = FALSE
    /\ fire_cleared

\* "#" after "*": the logout code of a session, or a user's login code.
LoginCode(code) ==
    IF g_session_user_id # 0
    THEN IF LogoutCode # <<>> /\ code = LogoutCode THEN do_logout /\ UNCHANGED otp_caller
         ELSE NobodyNew /\ SameLogin
    ELSE IF lookup_by_login(code) = 0 THEN NobodyNew /\ SameLogin
    ELSE /\ fire_identified(lookup_by_login(code), "login")
         /\ g_session_user_id' = lookup_by_login(code)
         /\ NewLoginTimer

\* A digit of the ANI is not looked at further; "*" ends the ANI and starts
\* a login or a command.
Collecting == g_ani_active /\ Len(g_ani_buf) < MAX_ANI_LEN

caller_digit(d) ==
    IF Collecting /\ d # "*"
    THEN /\ g_ani_buf' = Append(g_ani_buf, d)
         /\ g_ani_timer' \in {g_ani_timer, g_ani_timer \/ g_ani_buf = <<>>}
         /\ NobodyNew /\ SameLogin
         /\ UNCHANGED <<g_ani_active, g_login_active, g_login_buf>>
    ELSE /\ UNCHANGED g_ani_buf
         /\ IF Collecting
            THEN /\ g_ani_active' = FALSE /\ g_ani_timer' = FALSE
                 /\ Identify(g_ani_buf)
                 /\ SameLogin
            ELSE /\ UNCHANGED <<g_ani_active, g_ani_timer>>
                 /\ IF d = "#" /\ g_login_active THEN LoginCode(g_login_buf)
                    ELSE NobodyNew /\ SameLogin
         /\ g_login_active' = (d = "*" \/ (g_login_active /\ d # "#" /\ Len(g_login_buf) < MAX_ANI_LEN))
         /\ g_login_buf' = IF d = "*" THEN <<>>
                           ELSE IF g_login_active /\ d # "#" /\ Len(g_login_buf) < MAX_ANI_LEN
                                THEN Append(g_login_buf, d) ELSE g_login_buf

ani_timeout ==
    /\ g_ani_timer /\ g_ani_timer' = FALSE /\ g_ani_active' = FALSE
    /\ Identify(g_ani_buf)
    /\ dispatched' = FALSE
    /\ SameLogin
    /\ UNCHANGED <<users, acc_inputs, acc_receiving, g_ani_buf, g_login_active, g_login_buf,
                   g_active, g_buf, g_timeout_timer, g_pending_dispatch, heardVars>>
    /\ UNCHANGED <<grantVars, otp_failures, otp_lapsed, otp_last,
                   otp_accepted, otp_grants, otp_step>>

session_timeout_cb ==
    /\ session_timers > 0 /\ session_timers' = session_timers - 1
    /\ g_session_user_id' = 0
    /\ IF g_session_user_id # 0 /\ g_current_method = "login" THEN fire_cleared
       ELSE UNCHANGED <<g_current_user_id, g_current_method>>
    /\ dispatched' = FALSE
    /\ UNCHANGED <<users, acc_inputs, acc_receiving, g_ani_active, g_ani_buf, g_ani_timer, g_login_active,
                   g_login_buf, login_untimed, g_active, g_buf, g_timeout_timer, g_pending_dispatch,
                   heardVars, otpVars>>

\* `caller logout` on the console.
cli_caller_logout ==
    /\ AccInput /\ g_session_user_id # 0 /\ do_logout
    /\ dispatched' = FALSE
    /\ UNCHANGED <<users, acc_receiving, g_ani_active, g_ani_buf, g_ani_timer, g_login_active,
                   g_login_buf, g_active, g_buf, g_timeout_timer, g_pending_dispatch, heardVars, otpVars>>

(* -------------------------------- mod_otp ------------------------------- *)

\* A renewed session changes its timer, which may be refused; without a free
\* slot nothing happens.
otp_session_start(u) ==
    IF u \notin otp_sessions /\ Cardinality(otp_sessions) >= MAX_OTP_SESSIONS
    THEN UNCHANGED grantVars
    ELSE /\ otp_sessions' = otp_sessions \cup {u}
         /\ \/ otp_timers' = [otp_timers EXCEPT ![u] = 1] /\ otp_untimed' = otp_untimed \ {u}
            \/ otp_timers' = [otp_timers EXCEPT ![u] = 0] /\ otp_untimed' = otp_untimed \cup {u}
         /\ otp_elevated' = otp_elevated \cup {u}

otp_expire_cb == \E u \in Ids :
    /\ otp_timers[u] > 0 /\ otp_timers' = [otp_timers EXCEPT ![u] = @ - 1]
    /\ otp_sessions' = otp_sessions \ {u} /\ otp_elevated' = otp_elevated \ {u}
    /\ dispatched' = FALSE
    /\ UNCHANGED <<users, acc_inputs, acc_receiving, callerVars, g_active, g_buf, g_timeout_timer,
                   g_pending_dispatch, heardVars, otp_caller, otp_untimed, otp_failures, otp_lapsed, otp_last,
                   otp_accepted, otp_grants, otp_step>>

\* The counters whose code is taken now: one step of skew either way.
Window == {c \in otp_step - 1 .. otp_step + 1 : c > 0}

(* Mutant: only codes older than the last one are refused.                  *)
Replayed_OffByOne(u, c) == c < otp_last[u]

Replayed(u, c) == c <= otp_last[u]

LockedOut(u) == otp_failures[u] >= OTP_MAX_FAILURES /\ u \notin otp_lapsed

\* on_otp_command for the caller last identified; the code is right for one
\* counter of the window, or wrong.
OtpCommand(u, arg) ==
    IF u = 0 \/ ~HasTotp(u) \/ arg = <<>> \/ LockedOut(u)
    THEN UNCHANGED <<grantVars, otp_failures, otp_lapsed, otp_last,
                     otp_accepted, otp_grants>>
    ELSE \/ /\ otp_failures' = [otp_failures EXCEPT ![u] = (IF u \in otp_lapsed THEN 0 ELSE @) + 1]
            /\ otp_lapsed' = otp_lapsed \ {u}
            /\ UNCHANGED <<grantVars, otp_last, otp_accepted, otp_grants>>
         \/ \E c \in Window :
              IF Replayed(u, c)
              THEN /\ otp_failures' = [otp_failures EXCEPT ![u] = IF u \in otp_lapsed THEN 0 ELSE @]
                   /\ UNCHANGED <<otp_lapsed, grantVars, otp_last,
                                  otp_accepted, otp_grants>>
              ELSE /\ otp_last' = [otp_last EXCEPT ![u] = c]
                   /\ otp_failures' = [otp_failures EXCEPT ![u] = 0]
                   /\ otp_accepted' = otp_accepted \cup {<<u, c>>}
                   /\ otp_grants' = otp_grants + 1
                   /\ otp_session_start(u)
                   /\ UNCHANGED otp_lapsed

(* ------------------------------ mod_dtmfcmd ----------------------------- *)

\* dispatch_command: of the registered patterns only OTP's is followed up.
dispatch_command(cmd, caller) ==
    /\ dispatched' = TRUE
    /\ IF Len(cmd) >= Len(OtpPattern) /\ SubSeq(cmd, 1, Len(OtpPattern)) = OtpPattern
       THEN OtpCommand(caller, SubSeq(cmd, Len(OtpPattern) + 1, Len(cmd)))
       ELSE UNCHANGED <<grantVars, otp_failures, otp_lapsed, otp_last,
                        otp_accepted, otp_grants>>
NoDispatch ==
    /\ dispatched' = FALSE
    /\ UNCHANGED <<grantVars, otp_failures, otp_lapsed, otp_last,
                   otp_accepted, otp_grants>>
restart_timeout == g_timeout_timer' \in BOOLEAN      \* or refused
reset_cmd == g_active' = FALSE /\ g_buf' = <<>> /\ g_timeout_timer' = FALSE

\* "#" under a carrier waits for the carrier to drop.  Nothing stops the
\* digits that come in between, a second "*" among them.
cmd_digit(d) ==
    /\ hash_keyed' = (hash_keyed \/ (d = "#" /\ acc_receiving /\ g_active))
    /\ cmd_ended' = (d = "#" /\ acc_receiving /\ g_active)
    /\ \/ /\ d = "*"
          /\ g_active' = TRUE /\ g_buf' = <<>> /\ restart_timeout
          /\ UNCHANGED g_pending_dispatch /\ NoDispatch
       \/ /\ d # "*" /\ ~g_active
          /\ UNCHANGED <<g_active, g_buf, g_timeout_timer, g_pending_dispatch>> /\ NoDispatch
       \/ /\ d = "#" /\ g_active
          /\ IF acc_receiving
             THEN /\ g_pending_dispatch' = TRUE /\ g_timeout_timer' = FALSE
                  /\ UNCHANGED <<g_active, g_buf>> /\ NoDispatch
             ELSE /\ reset_cmd /\ UNCHANGED g_pending_dispatch
                  /\ dispatch_command(g_buf, otp_caller')
       \/ /\ d \in Digits /\ g_active
          /\ IF Len(g_buf) < MAX_CMD_LEN
             THEN g_buf' = Append(g_buf, d) /\ restart_timeout /\ UNCHANGED g_active
             ELSE reset_cmd
          /\ UNCHANGED g_pending_dispatch /\ NoDispatch

(* Mutant: a command is dispatched without waiting for its "#".             *)
cmd_cor_drop_Eager ==
    /\ g_pending_dispatch' = FALSE
    /\ IF g_active THEN reset_cmd /\ dispatch_command(g_buf, otp_caller)
       ELSE NoDispatch /\ UNCHANGED <<g_active, g_buf, g_timeout_timer>>

cmd_cor_drop ==
    /\ g_pending_dispatch' = FALSE
    /\ IF g_pending_dispatch THEN reset_cmd /\ dispatch_command(g_buf, otp_caller)
       ELSE NoDispatch /\ UNCHANGED <<g_active, g_buf, g_timeout_timer>>

cmd_timeout_cb ==
    /\ g_timeout_timer /\ reset_cmd /\ dispatched' = FALSE
    /\ cmd_ended' = FALSE
    /\ UNCHANGED <<users, acc_inputs, acc_receiving, callerVars, g_pending_dispatch, hash_keyed, otpVars>>

(* -------------------------------- events -------------------------------- *)

KeyDigit == \E d \in Digits \cup {"*", "#"} :
    /\ AccInput /\ caller_digit(d) /\ cmd_digit(d)
    /\ UNCHANGED <<users, acc_receiving, otp_step>>

AccCarrierComes ==
    /\ AccInput /\ ~acc_receiving /\ acc_receiving' = TRUE
    /\ caller_cor_assert
    /\ NoDispatch
    /\ UNCHANGED <<users, g_active, g_buf, g_timeout_timer, g_pending_dispatch, heardVars, otp_step>>

AccCarrierGoes ==
    /\ acc_receiving /\ acc_receiving' = FALSE
    /\ caller_cor_drop /\ cmd_cor_drop
    /\ hash_keyed' = FALSE /\ cmd_ended' = FALSE
    /\ UNCHANGED <<users, acc_inputs, otp_step>>

\* A reload replaces the table; sessions are not looked at.
kerchunk_user_init == \E t \in UserTables \ {users} :
    /\ AccInput /\ users' = t /\ dispatched' = FALSE
    /\ UNCHANGED <<acc_receiving, callerVars, g_active, g_buf, g_timeout_timer, g_pending_dispatch,
                   heardVars, otpVars>>

AccTime ==
    /\ \/ otp_step < MaxStep /\ otp_step' = otp_step + 1 /\ UNCHANGED otp_lapsed
       \/ \E u \in Ids : /\ otp_failures[u] > 0 /\ u \notin otp_lapsed
                         /\ otp_lapsed' = otp_lapsed \cup {u} /\ UNCHANGED otp_step
    /\ dispatched' = FALSE
    /\ UNCHANGED <<users, acc_inputs, acc_receiving, callerVars, g_active, g_buf, g_timeout_timer,
                   g_pending_dispatch, heardVars, otp_caller, grantVars,
                   otp_failures, otp_last, otp_accepted, otp_grants>>

AccNext == \/ KeyDigit \/ AccCarrierComes \/ AccCarrierGoes \/ ani_timeout \/ session_timeout_cb
           \/ cli_caller_logout \/ otp_expire_cb \/ cmd_timeout_cb \/ kerchunk_user_init \/ AccTime

AccSpec == AccInit /\ [][AccNext]_accVars
-----------------------------------------------------------------------------
(* A login caller is the one whose session runs, every session and every    *)
(* elevation has exactly one armed timer that will end it, unless the timer  *)
(* it asked for last was refused, and nobody else is elevated (mod_caller,   *)
(* mod_otp and the core's table against timers, logouts, renewals and        *)
(* reloads).  A refused timer (kerchunk_timer_create: a time of 0, or all     *)
(* 128 in use) leaves a session that only a logout, a renewal or an unload    *)
(* ends: login_untimed and otp_untimed name those sessions.                   *)
SessionsAreTimed ==
    /\ g_current_method = "login" => g_current_user_id = g_session_user_id
    /\ session_timers = IF g_session_user_id # 0 /\ ~login_untimed THEN 1 ELSE 0
    /\ otp_elevated = otp_sessions
    /\ \A u \in Ids : otp_timers[u] = IF u \in otp_sessions \ otp_untimed THEN 1 ELSE 0

(* A one-time password works once, whatever the skew of the window, the     *)
(* order of the codes and the lockouts in between.                          *)
CodeWorksOnce == otp_grants = Cardinality(otp_accepted)

(* Nobody is elevated who has not earned it, and nobody for longer than his  *)
(* timer allows if he got one: both halves, as one promise of caller identity *)
(* and OTP.                                                                   *)
ElevationIsEarned == SessionsAreTimed /\ CodeWorksOnce

AccCarrierDrops == acc_receiving /\ ~acc_receiving'

(* Commands wait for the carrier to drop: none is fired under a carrier, the *)
(* one that was ended with "#" last, with nothing keyed after it, is fired   *)
(* when the carrier drops, and none is fired then unless "#" ended one under *)
(* that carrier.  Whether it is the one that was ended is CommandWasEnded.    *)
CommandsWait ==
    [][/\ dispatched' => ~acc_receiving'
       /\ AccCarrierDrops /\ cmd_ended => dispatched'
       /\ AccCarrierDrops /\ dispatched' => hash_keyed]_accVars

(* "End of command - defer dispatch until COR drops" (mod_dtmfcmd.c:194):    *)
(* what is fired when the carrier drops is a command that was ended.  "*" and *)
(* digits keyed after the "#" leave g_pending_dispatch set, so the next        *)
(* command is fired unfinished.                                                *)
CommandWasEnded == [][AccCarrierDrops /\ dispatched' => cmd_ended]_accVars
=============================================================================
