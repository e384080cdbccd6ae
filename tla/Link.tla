-------------------------------- MODULE Link --------------------------------
(***************************************************************************)
(* mod_link, the client: its background thread (connect, messages, close,  *)
(* requests of the other threads), its configuration on the main thread,   *)
(* and the PTT reference that received audio holds.  The audio path itself *)
(* is JitterBuffer.  The time of the next attempt is "later" or due.       *)
(***************************************************************************)
EXTENDS LinkWire

CONSTANTS TgWanted      \* talkgroups that DTMF or the console ask for

LinkStates == {"DISABLED", "CONNECTING", "AWAIT_HELLO", "AWAIT_LOGIN_OK",
               "CONNECTED", "RECONNECTING", "STOPPED"}

VARIABLES g_enabled, g_state,
          g_ws,             \* NoConn or the connection
          is_closing,       \* its close is decided and not yet carried out
          later,            \* g_next_reconnect_ms is in the future
          g_session_active, g_muted, g_link_ptt_held, g_current_tg,
          g_req_set_tg, g_req_reconnect, g_req_clear_alarm

session == <<g_session_active, g_muted, g_link_ptt_held, g_current_tg>>
requests == <<g_req_set_tg, g_req_reconnect, g_req_clear_alarm>>
linkVars == <<g_enabled, g_state, g_ws, is_closing, later, session, requests>>

LinkInit ==
    /\ g_enabled = TRUE /\ g_state = "DISABLED"
    /\ g_ws = NoConn /\ is_closing = FALSE /\ later = FALSE
    /\ g_session_active = FALSE /\ g_muted = FALSE
    /\ g_link_ptt_held = FALSE /\ g_current_tg = 0
    /\ g_req_set_tg = 0 /\ g_req_reconnect = FALSE /\ g_req_clear_alarm = FALSE

(* Mutant: the reference on PTT is not given back.                         *)
session_cleanup_KeepsPtt ==
    /\ g_session_active' = FALSE
    /\ g_current_tg' = 0
    /\ UNCHANGED <<g_muted, g_link_ptt_held>>

session_cleanup ==
    /\ g_link_ptt_held' = FALSE
    /\ g_session_active' = FALSE
    /\ g_current_tg' = 0
    /\ UNCHANGED g_muted

(* ------------------------- the background thread ------------------------ *)

Connect ==
    /\ g_enabled /\ g_ws = NoConn /\ g_state # "STOPPED" /\ ~later
    /\ g_state' = "CONNECTING"
    /\ \/ \E c \in Conns : Dial(c) /\ g_ws' = c /\ UNCHANGED later
       \/ /\ later' = TRUE          \* mg_ws_connect has no memory or socket
          /\ UNCHANGED <<g_ws, wireVars>>
    /\ UNCHANGED <<g_enabled, is_closing, session, requests>>

ReconnectIsDue == later /\ later' = FALSE
    /\ UNCHANGED <<g_enabled, g_state, g_ws, is_closing, session, requests, wireVars>>

\* Reads a message of type t and answers with the messages of reply.
Reads(t, reply) ==
    /\ g_ws # NoConn /\ toClient[g_ws] # <<>>
    /\ Head(toClient[g_ws]).type = t
    /\ toClient' = [toClient EXCEPT ![g_ws] = Tail(@)]
    /\ toServer' = IF Arrives(g_ws, "server")
                   THEN [toServer EXCEPT ![g_ws] = @ \o reply] ELSE toServer
    /\ UNCHANGED <<ends, cut, g_enabled, g_ws, requests>>
Arg == Head(toClient[g_ws]).arg

ws_open == Reads("ws_open", <<>>) /\ g_state' = "AWAIT_HELLO"
    /\ UNCHANGED <<is_closing, later, session>>

on_hello == Reads("hello", <<[type |-> "login", arg |-> 0]>>)
    /\ g_state' = "AWAIT_LOGIN_OK"
    /\ UNCHANGED <<is_closing, later, session>>

\* session_setup either succeeds, or fails after it has set the talkgroup
\* and perhaps created the SRTP sessions.
on_login_ok ==
    /\ Reads("login_ok", <<>>)
    /\ g_current_tg' = Arg
    /\ \/ g_session_active' = TRUE /\ g_state' = "CONNECTED" /\ UNCHANGED is_closing
       \/ /\ is_closing' = TRUE
          /\ g_session_active' \in BOOLEAN
          /\ UNCHANGED g_state
    /\ UNCHANGED <<later, g_muted, g_link_ptt_held>>

on_login_denied ==
    /\ Reads("login_denied", <<>>)
    /\ g_state' = IF Arg = "permanent" THEN "STOPPED" ELSE g_state
    /\ is_closing' = TRUE
    /\ UNCHANGED <<later, session>>

on_kicked ==
    /\ Reads("kicked", <<>>)
    /\ IF Arg = "permanent" THEN g_state' = "STOPPED" /\ UNCHANGED later
       ELSE later' = TRUE /\ UNCHANGED g_state
    /\ is_closing' = TRUE
    /\ UNCHANGED session

on_reflector_shutdown ==
    /\ Reads("reflector_shutdown", <<>>)
    /\ later' = TRUE /\ is_closing' = TRUE
    /\ UNCHANGED <<g_state, session>>

on_mute == \E t \in {"mute", "unmute"} :
    /\ Reads(t, <<>>)
    /\ g_muted' = (t = "mute")
    /\ UNCHANGED <<g_state, is_closing, later, g_session_active, g_link_ptt_held, g_current_tg>>

on_tg == \E t \in {"tg_ok", "tg_changed"} :
    /\ Reads(t, <<>>)
    /\ g_current_tg' = Arg
    /\ UNCHANGED <<g_state, is_closing, later, g_session_active, g_muted, g_link_ptt_held>>

on_ping == Reads("ping", <<[type |-> "pong", arg |-> 0]>>)
    /\ UNCHANGED <<g_state, is_closing, later, session>>

on_ws_msg == \/ ws_open \/ on_hello \/ on_login_ok \/ on_login_denied \/ on_kicked
             \/ on_reflector_shutdown \/ on_mute \/ on_tg \/ on_ping

(* Mutant: it tries again whatever it was told.                            *)
OnWsClose_Again ==
    /\ g_ws # NoConn /\ (is_closing \/ ClientSeesClose(g_ws))
    /\ ClientHangsUp(g_ws)
    /\ g_ws' = NoConn /\ is_closing' = FALSE
    /\ session_cleanup
    /\ g_state' = "RECONNECTING" /\ later' = TRUE
    /\ UNCHANGED <<g_enabled, requests>>

\* MG_EV_CLOSE.  The default delay applies unless a later time was set.
OnWsClose ==
    /\ g_ws # NoConn /\ (is_closing \/ ClientSeesClose(g_ws))
    /\ ClientHangsUp(g_ws)
    /\ g_ws' = NoConn /\ is_closing' = FALSE
    /\ session_cleanup
    /\ IF g_state = "STOPPED" THEN UNCHANGED <<g_state, later>>
       ELSE g_state' = "RECONNECTING" /\ later' = TRUE
    /\ UNCHANGED <<g_enabled, requests>>

ClearAlarm ==
    /\ g_req_clear_alarm /\ g_req_clear_alarm' = FALSE
    /\ IF g_state = "STOPPED" THEN g_state' = "RECONNECTING" /\ later' = FALSE
       ELSE UNCHANGED <<g_state, later>>
    /\ UNCHANGED <<g_enabled, g_ws, is_closing, session, g_req_set_tg, g_req_reconnect, wireVars>>

Reconnect ==
    /\ g_req_reconnect /\ g_req_reconnect' = FALSE
    /\ IF g_ws # NoConn THEN is_closing' = TRUE /\ UNCHANGED later
       ELSE later' = FALSE /\ UNCHANGED is_closing
    /\ UNCHANGED <<g_enabled, g_state, g_ws, session, g_req_set_tg, g_req_clear_alarm, wireVars>>

\* The thread sends a set_tg or a quality report on the open connection.
Sends(type, arg) ==
    /\ RoomToServer(g_ws)
    /\ toServer' = IF Arrives(g_ws, "server")
                   THEN [toServer EXCEPT ![g_ws] = Append(@, [type |-> type, arg |-> arg])] ELSE toServer
    /\ UNCHANGED <<ends, cut, toClient, g_enabled, g_state, g_ws, is_closing, later, session,
                   g_req_reconnect, g_req_clear_alarm>>

SendSetTg ==
    /\ g_req_set_tg # 0 /\ g_ws # NoConn /\ g_state = "CONNECTED"
    /\ g_req_set_tg' = 0
    /\ Sends("set_tg", g_req_set_tg)

send_quality_report ==
    /\ g_state = "CONNECTED" /\ g_ws # NoConn /\ g_session_active
    /\ \E bad \in BOOLEAN : Sends("quality", bad)
    /\ UNCHANGED g_req_set_tg

\* A frame is played: PTT goes up (link_rx_assert).
play_decoded_frame ==
    /\ g_session_active /\ ~g_muted /\ ~g_link_ptt_held
    /\ g_link_ptt_held' = TRUE
    /\ UNCHANGED <<g_enabled, g_state, g_ws, is_closing, later, g_session_active, g_muted,
                   g_current_tg, requests, wireVars>>

\* No packet for link_tail_ms, or five frames missing (link_rx_drop).
AudioEnds ==
    /\ g_session_active /\ g_link_ptt_held
    /\ g_link_ptt_held' = FALSE
    /\ UNCHANGED <<g_enabled, g_state, g_ws, is_closing, later, g_session_active, g_muted,
                   g_current_tg, requests, wireVars>>

(* --------------------------- the other threads -------------------------- *)

Request ==
    /\ \/ \E t \in TgWanted : g_req_set_tg' = t /\ UNCHANGED <<g_req_reconnect, g_req_clear_alarm>>
       \/ g_req_reconnect' = TRUE /\ UNCHANGED <<g_req_set_tg, g_req_clear_alarm>>
       \/ g_req_clear_alarm' = TRUE /\ UNCHANGED <<g_req_set_tg, g_req_reconnect>>
    /\ requests' # requests
    /\ UNCHANGED <<g_enabled, g_state, g_ws, is_closing, later, session, wireVars>>

\* A reload: the state is set and the connection is left as it is.
configure_(outcome) ==
    /\ g_enabled' = (outcome = "good")
    /\ g_state' = CASE outcome = "off" -> "DISABLED"
                    [] outcome = "bad" -> "STOPPED"
                    [] outcome = "good" -> g_state
    /\ UNCHANGED <<g_ws, is_closing, later, session, requests, wireVars>>

\* The module is unloaded (the thread joined first) and loaded again, or the
\* program is started again, with an enabled configuration.
unload_load_ ==
    /\ IF g_ws = NoConn THEN UNCHANGED wireVars ELSE ClientHangsUp(g_ws)
    /\ g_ws' = NoConn /\ is_closing' = FALSE /\ later' = FALSE
    /\ g_enabled' = TRUE /\ g_state' = "DISABLED"
    /\ g_session_active' = FALSE /\ g_link_ptt_held' = FALSE /\ g_current_tg' = 0 /\ g_muted' = FALSE
    /\ g_req_set_tg' = 0 /\ g_req_reconnect' = FALSE /\ g_req_clear_alarm' = FALSE

LinkThread == \/ Connect \/ ReconnectIsDue \/ on_ws_msg \/ OnWsClose \/ ClearAlarm
              \/ Reconnect \/ SendSetTg
=============================================================================
