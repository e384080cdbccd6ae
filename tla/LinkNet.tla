------------------------------- MODULE LinkNet -------------------------------
(***************************************************************************)
(* One mod_link client, reflectd and the network between them, with other  *)
(* nodes on the same reflector.  What comes from outside (operators, the   *)
(* network's faults, the other nodes) is bounded by MaxActs; what the two  *)
(* programs do by themselves is not, and is fair.                          *)
(***************************************************************************)
EXTENDS Link, Reflector

CONSTANT MaxActs        \* bound: events from outside in a behaviour

VARIABLE acts

netVars == <<linkVars, reflVars, wireVars, acts>>

Init == WireInit /\ LinkInit /\ ReflInit /\ acts = 0

ClientStep == LinkThread /\ UNCHANGED <<reflVars, acts>>
Audio      == (play_decoded_frame \/ AudioEnds) /\ UNCHANGED <<reflVars, acts>>

\* The keepalive gives up a connection whose client cannot answer.
Unanswered(c) == c \in Conns /\ (c \in cut \/ "client" \notin ends[c])

ServerStep ==
    /\ \/ \E c \in Conns : handle_message(c) \/ send_hello(c)
       \/ \E c \in AllConns : Closes(c)
       \/ \E c \in Conns : keepalive_ping(c) \/ Forgotten(c)
       \/ \E c \in Conns : Unanswered(c) /\ keepalive_close(c)
       \/ floor_tick
    /\ UNCHANGED <<linkVars, acts>>

NodesTalk ==
    /\ \/ \E i \in Slots : audio_drain_udp(i)
       \/ LeaseLapses
    /\ UNCHANGED <<linkVars, acts>>

OutsideClient ==
    /\ \/ Request
       \/ \E outcome \in {"good", "off", "bad"} : configure_(outcome)
       \/ unload_load_
       \/ send_quality_report
    /\ UNCHANGED reflVars

OutsideServer ==
    /\ \/ \E p \in Peers : PeerLogin(p) \/ PeerSetsTg(p) \/ PeerLeaves(p)
       \/ \E i \in Slots : admin_kick(i) \/ AuthFails(i)
       \/ \E i \in Slots, on \in BOOLEAN : admin_mute(i, on)
       \/ \E t \in Tgs : admin_release_floor(t)
       \/ \E conf \in Rosters : do_reload(conf)
       \/ \E announced \in BOOLEAN : Restart(announced)
       \/ \E c \in Conns : keepalive_close(c)      \* the answer is too late
    /\ UNCHANGED linkVars

Fault == (\E c \in Conns : Cut(c)) /\ UNCHANGED <<linkVars, reflVars>>

Outside ==
    /\ acts < MaxActs /\ acts' = acts + 1
    /\ OutsideClient \/ OutsideServer \/ Fault

Next == ClientStep \/ Audio \/ ServerStep \/ NodesTalk \/ Outside

\* Both programs poll every 10 ms.  The exceptions are mg_ws_connect and
\* session_setup, which may fail each time they are tried but not for ever.
Spec ==
    /\ Init /\ [][Next]_netVars
    /\ WF_netVars((on_ws_msg \/ ReconnectIsDue) /\ UNCHANGED <<reflVars, acts>>)
    /\ WF_netVars(OnWsClose /\ UNCHANGED <<reflVars, acts>>)
    /\ SF_netVars(ClientStep /\ g_ws = NoConn /\ g_ws' # NoConn)
    /\ SF_netVars(ClientStep /\ g_state # "CONNECTED" /\ g_state' = "CONNECTED")
    /\ WF_netVars((\E c \in Conns : handle_message(c) \/ send_hello(c)) /\ UNCHANGED <<linkVars, acts>>)
    /\ \A c \in Conns :
        /\ WF_netVars((Closes(c) \/ Forgotten(c)) /\ UNCHANGED <<linkVars, acts>>)
        /\ WF_netVars(Unanswered(c) /\ (keepalive_ping(c) \/ keepalive_close(c))
                      /\ UNCHANGED <<linkVars, acts>>)
-----------------------------------------------------------------------------
(* Types, and messages stay few.                                           *)
LinkTypeOK ==
    /\ g_state \in LinkStates /\ g_ws \in Conns \cup {NoConn}
    /\ \A c \in Conns : ends[c] \subseteq {"client", "server", "dialling"}
    /\ \A i \in Slots : rt[i].conn \in AllConns \cup {NoConn} /\ rt[i].tg \in Tgs \cup {0}
    /\ \A i \in Slots : Len(rt[i].hist) <= LOSS_HIST_LEN /\ rt[i].fails <= AuthFailKick + 1
    /\ \A t \in Tgs : talker[t] \in Slots \cup {0}

(* A roster position is on the air for one connection at a time, the one    *)
(* that logged in for it: handle_login's node_busy against closes, kicks    *)
(* and half-open connections.                                              *)
SessionOwner ==
    /\ \A c \in AllConns : cs[c].state = "auth" => rt[cs[c].idx].conn = c
    /\ \A i \in Slots : Connected(i) => cs[rt[i].conn].state = "auth" /\ cs[rt[i].conn].idx = i

(* Nobody holds the floor after his connection has gone, and the recording  *)
(* that is open on a talkgroup is the one of the node that has its floor.   *)
FloorSane == \A t \in Tgs :
    /\ talker[t] # 0 => Connected(talker[t])
    /\ rec[t] # NoRec => talker[t] # 0 /\ rec[t] = cfg.roster[talker[t]]
    /\ t \in lapsed => talker[t] # 0

(* The reflector's tables keep to their bounds and its floor to the nodes    *)
(* that are there.                                                          *)
ReflectorIsSane == LinkTypeOK /\ FloorSane

(* The transmitter is never held for a link whose session is gone.          *)
PttNeedsSession == g_link_ptt_held => g_session_active /\ g_ws # NoConn

(* A node whose login was refused for good stays away, once it has read what *)
(* it was sent, until the operator asks for a retry or configures it anew:   *)
(* "does not retry until `link reconnect` (CLI) or `link clear-alarm` is run, *)
(* or the config is reloaded" (LINK-PROTOCOL.md:521-525).  That a retry then *)
(* comes is not claimed: the code drops `link reconnect` when STOPPED        *)
(* (mod_link.c:1154-1157, 1187), and a reload leaves STOPPED only where it   *)
(* switches the link off (mod_link.c:1346).                                  *)
RefusalIsFinal ==
    [][g_state = "STOPPED" /\ g_state' # "STOPPED"
         /\ (g_ws = NoConn \/ toClient[g_ws] = <<>>)
         => g_req_clear_alarm \/ g_req_reconnect \/ g_state' = "DISABLED"]_netVars

(* An enabled client ends up on the air, or stopped with an alarm, whatever *)
(* crashes, cuts, kicks, restarts and half-open connections came before.    *)
ComesUp == []<>(g_session_active \/ g_state = "STOPPED" \/ ~g_enabled)

(* A reload keeps every connection with its own node.                       *)
RuntimeIsOwn == \A c \in AllConns :
    cs[c].state = "auth" /\ ~cs[c].draining =>
        /\ cs[c].idx \in DOMAIN cfg.roster
        /\ cfg.roster[cs[c].idx] = IF c \in Conns THEN Self ELSE c
=============================================================================
