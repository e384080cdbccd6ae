------------------------------ MODULE Reflector ------------------------------
(***************************************************************************)
(* reflectd: login, talkgroups, the floor and its recordings, mute, kick,  *)
(* keepalive, reload and restart.  One thread runs every handler to its    *)
(* end.  The runtime of a node is kept at the node's position in the       *)
(* roster, as in the code.  Durations are events: a lease "lapses", a      *)
(* window ends.  Messages that only inform (talker, roster, floor_denied,  *)
(* floor_revoked, tg_denied, target_bitrate) are not put on the wire.      *)
(***************************************************************************)
EXTENDS LinkWire

CONSTANTS Self,         \* the node whose client is modelled in full
          Peers,        \* the other nodes; each is its own connection
          Tgs,          \* talkgroups, in the order of the file
          Rosters,      \* the configurations an operator may write
          MaxSlots,     \* bound: positions of the roster that are looked at
          AuthFailKick, \* auth_fail_kick
          LOSS_HIST_LEN, LOSS_HIST_TRIP,
          NoRec

AllConns == Conns \cup Peers
Slots == 1..MaxSlots
Nodes == Peers \cup {Self}

\* Slots and Tgs are large enough for the positions and talkgroups of every file.
ASSUME ReflectorAssumption ==
    /\ NoConn \notin Peers /\ Conns \cap Peers = {}
    /\ MaxSlots \in Nat /\ AuthFailKick \in Nat /\ LOSS_HIST_LEN \in Nat \ {0}
    /\ \A conf \in Rosters :
         /\ conf.roster \in Seq(Nodes) /\ DOMAIN conf.roster \subseteq Slots
         /\ conf.allowed \in [Nodes -> SUBSET Tgs]
         /\ conf.default \in [Nodes -> Tgs \cup {0}]

VARIABLES cfg,          \* g_cfg: [roster, allowed, default, banned, keyed]
          rt,           \* g_node_rt, by position
          cs,           \* conn_t of every connection
          talker, lapsed, rec   \* g_tg_rt: holder, leases that ran out, recordings

reflVars == <<cfg, rt, cs, talker, lapsed, rec>>

Offline == [conn |-> NoConn, tg |-> 0, muted |-> FALSE, addr |-> FALSE,
            fails |-> 0, hist |-> <<>>]
Unused == [state |-> "none", idx |-> 0, waiting_pong |-> FALSE, draining |-> FALSE]

ReflInit ==
    /\ cfg \in Rosters
    /\ rt = [i \in Slots |-> Offline]
    /\ cs = [c \in AllConns |-> Unused]
    /\ talker = [t \in Tgs |-> 0]
    /\ lapsed = {}
    /\ rec = [t \in Tgs |-> NoRec]

rcfg_node_idx(conf, n) ==
    IF \E i \in DOMAIN conf.roster : conf.roster[i] = n
    THEN CHOOSE i \in DOMAIN conf.roster : conf.roster[i] = n ELSE 0

DefaultTg(conf, n) ==
    IF conf.default[n] # 0 THEN conf.default[n]
    ELSE IF conf.allowed[n] # {} THEN CHOOSE t \in conf.allowed[n] : TRUE ELSE 0

Connected(i) == rt[i].conn # NoConn
Live == {i \in DOMAIN cfg.roster : Connected(i)}

Msg(type, arg) == [type |-> type, arg |-> arg]
Push(c, msg) == toClient' = [d \in Conns |->
    IF d = c /\ Arrives(d, "client") THEN Append(toClient[d], msg) ELSE toClient[d]]
Drain(c) == [cs EXCEPT ![c].draining = TRUE]

(* ------------------------------- the floor ------------------------------ *)

Free(t, i) == talker[t] \in {0, i} \/ t \in lapsed

\* The floor goes to i: a holder whose lease ran out is replaced, its
\* recording closed and a new one opened, which may fail.
floor_try_grant(t, i) ==
    /\ Free(t, i)
    /\ talker' = [talker EXCEPT ![t] = i]
    /\ lapsed' = lapsed \ {t}
    /\ rt' = [rt EXCEPT ![i].addr = TRUE]
    /\ IF talker[t] = i
       THEN UNCHANGED rec
       ELSE \E r \in {cfg.roster[i], NoRec} : rec' = [rec EXCEPT ![t] = r]

\* The floors of ts are given up, and their recordings end.
floor_release(ts) ==
    /\ talker' = [t \in Tgs |-> IF t \in ts THEN 0 ELSE talker[t]]
    /\ lapsed' = lapsed \ ts
    /\ rec' = [t \in Tgs |-> IF t \in ts /\ talker[t] # 0 THEN NoRec ELSE rec[t]]

LeaseLapses == \E t \in Tgs :
    /\ talker[t] # 0 /\ t \notin lapsed
    /\ lapsed' = lapsed \cup {t}
    /\ UNCHANGED <<cfg, rt, cs, talker, rec, wireVars>>

floor_tick == \E t \in lapsed :
    /\ floor_release({t})
    /\ UNCHANGED <<cfg, rt, cs, wireVars>>

(* An authenticated packet: of audio, or the bootstrap that only tells the  *)
(* address.                                                                 *)
audio_drain_udp(i) ==
    /\ i \in Live
    /\ LET t == rt[i].tg IN
       \/ /\ ~rt[i].muted /\ t # 0
          /\ floor_try_grant(t, i)
       \/ /\ ~rt[i].addr
          /\ rt' = [rt EXCEPT ![i].addr = TRUE]
          /\ UNCHANGED <<talker, lapsed, rec>>
    /\ UNCHANGED <<cfg, cs, wireVars>>

\* A packet from a known address that no key opens.
AuthFails(i) ==
    /\ i \in Live /\ rt[i].addr
    /\ rt' = [rt EXCEPT ![i].fails = IF @ > AuthFailKick THEN @ ELSE @ + 1]
    /\ IF rt[i].fails >= AuthFailKick
       THEN cs' = Drain(rt[i].conn) /\ Push(rt[i].conn, Msg("kicked", "temporary"))
       ELSE UNCHANGED <<cs, toClient>>
    /\ UNCHANGED <<cfg, talker, lapsed, rec, ends, cut, toServer>>

(* --------------------------- control messages --------------------------- *)

send_login_denied(c, why) ==
    /\ Push(c, Msg("login_denied", why))
    /\ cs' = Drain(c)
    /\ UNCHANGED <<cfg, rt, talker, lapsed, rec>>

(* Mutant: the test for node_busy is forgotten.                            *)
Refusal_NoBusy(n) ==
    LET i == rcfg_node_idx(cfg, n) IN
    IF i = 0 \/ n \in cfg.banned THEN "permanent"
    ELSE IF n \notin cfg.keyed \/ DefaultTg(cfg, n) \notin cfg.allowed[n] THEN "permanent"
    ELSE "none"

\* The reason a login of n is refused, in the order of the tests.
Refusal(n) ==
    LET i == rcfg_node_idx(cfg, n) IN
    IF i = 0 \/ n \in cfg.banned THEN "permanent"
    ELSE IF Connected(i) THEN "temporary"
    ELSE IF n \notin cfg.keyed \/ DefaultTg(cfg, n) \notin cfg.allowed[n] THEN "permanent"
    ELSE "none"

(* Mutant: a login that is refused for now gets no answer.                 *)
handle_login_Silent(c, n) ==
    IF cs[c].state # "await" THEN send_login_denied(c, "temporary")
    ELSE IF Refusal(n) = "temporary" THEN UNCHANGED <<cfg, rt, cs, talker, lapsed, rec, toClient>>
    ELSE IF Refusal(n) # "none" THEN send_login_denied(c, Refusal(n))
    ELSE LET i == rcfg_node_idx(cfg, n)
             tg == DefaultTg(cfg, n)
         IN /\ cs' = [cs EXCEPT ![c].state = "auth", ![c].idx = i, ![c].waiting_pong = FALSE]
            /\ rt' = [rt EXCEPT ![i] = [@ EXCEPT !.conn = c, !.tg = tg, !.addr = FALSE, !.hist = <<>>]]
            /\ Push(c, Msg("login_ok", tg))
            /\ UNCHANGED <<cfg, talker, lapsed, rec>>

handle_login(c, n) ==
    IF cs[c].state # "await" THEN send_login_denied(c, "temporary")
    ELSE IF Refusal(n) # "none" THEN send_login_denied(c, Refusal(n))
    ELSE LET i == rcfg_node_idx(cfg, n)
             tg == DefaultTg(cfg, n)
         IN /\ cs' = [cs EXCEPT ![c].state = "auth", ![c].idx = i, ![c].waiting_pong = FALSE]
            /\ rt' = [rt EXCEPT ![i] = [@ EXCEPT !.conn = c, !.tg = tg, !.addr = FALSE, !.hist = <<>>]]
            /\ Push(c, Msg("login_ok", tg))
            /\ UNCHANGED <<cfg, talker, lapsed, rec>>

handle_set_tg(c, tg) ==
    LET i == cs[c].idx IN
    /\ UNCHANGED cfg
    /\ cs' = [cs EXCEPT ![c].waiting_pong = FALSE]
    /\ IF i \in DOMAIN cfg.roster /\ tg \in cfg.allowed[cfg.roster[i]]
       THEN /\ floor_release({t \in Tgs : t = rt[i].tg /\ t # tg /\ talker[t] = i})
            /\ rt' = [rt EXCEPT ![i].tg = tg]
            /\ Push(c, Msg("tg_ok", tg))
       ELSE UNCHANGED <<rt, talker, lapsed, rec, toClient>>

LossTrips(h) == Len(h) = LOSS_HIST_LEN /\ Cardinality({k \in DOMAIN h : h[k]}) >= LOSS_HIST_TRIP

\* A quality report: the last few are kept, and enough bad ones mute the node.
handle_quality(c, bad) ==
    LET i == cs[c].idx
        h == Append(IF Len(rt[i].hist) = LOSS_HIST_LEN THEN Tail(rt[i].hist) ELSE rt[i].hist, bad)
        mutes == ~rt[i].muted /\ LossTrips(h)
    IN /\ rt' = [rt EXCEPT ![i].hist = h, ![i].muted = @ \/ mutes]
       /\ IF mutes THEN Push(c, Msg("mute", 0)) ELSE UNCHANGED toClient
       /\ cs' = [cs EXCEPT ![c].waiting_pong = FALSE]
       /\ UNCHANGED <<cfg, talker, lapsed, rec>>

\* What a client sends; the probe's talk_start and talk_end are not among it.
handle_message(c) ==
    /\ c \in Conns /\ "server" \in ends[c] /\ toServer[c] # <<>>
    /\ toServer' = [toServer EXCEPT ![c] = Tail(@)]
    /\ LET msg == Head(toServer[c]) IN
       CASE msg.type = "login" -> handle_login(c, Self)
         [] msg.type # "login" /\ cs[c].state # "auth" ->
              cs' = Drain(c) /\ UNCHANGED <<cfg, rt, talker, lapsed, rec, toClient>>
         [] msg.type = "set_tg" /\ cs[c].state = "auth" -> handle_set_tg(c, msg.arg)
         [] msg.type = "quality" /\ cs[c].state = "auth" -> handle_quality(c, msg.arg)
         [] msg.type = "pong" /\ cs[c].state = "auth" ->
              /\ cs' = [cs EXCEPT ![c].waiting_pong = FALSE]
              /\ UNCHANGED <<cfg, rt, talker, lapsed, rec, toClient>>
    /\ UNCHANGED <<ends, cut>>

(* ------------------------------ connections ----------------------------- *)

send_hello(c) ==
    /\ c \in Conns /\ "dialling" \in ends[c]
    /\ ends' = [ends EXCEPT ![c] = {"client", "server"}]
    /\ cs' = [cs EXCEPT ![c] = [Unused EXCEPT !.state = "await"]]
    /\ toClient' = [toClient EXCEPT ![c] = <<Msg("ws_open", 0), Msg("hello", 0)>>]
    /\ UNCHANGED <<cfg, rt, talker, lapsed, rec, cut, toServer>>

(* Mutant: only the floor of the node's present talkgroup is released.      *)
OnClose_OneFloor(c) ==
    LET i == cs[c].idx IN
    /\ cs' = [cs EXCEPT ![c] = Unused]
    /\ IF i = 0 THEN UNCHANGED <<rt, talker, lapsed, rec>>
       ELSE /\ floor_release({t \in Tgs : t = rt[i].tg /\ talker[t] = i})
            /\ rt' = [rt EXCEPT ![i].conn = NoConn, ![i].addr = FALSE, ![i].muted = FALSE]
    /\ IF c \in Conns
       THEN /\ ends' = [ends EXCEPT ![c] = @ \ {"server"}]
            /\ toServer' = [toServer EXCEPT ![c] = <<>>]
       ELSE UNCHANGED <<ends, toServer>>
    /\ UNCHANGED <<cfg, cut, toClient>>

\* MG_EV_CLOSE: every floor of the node goes, then its runtime.
OnClose(c) ==
    LET i == cs[c].idx IN
    /\ cs' = [cs EXCEPT ![c] = Unused]
    /\ IF i = 0 THEN UNCHANGED <<rt, talker, lapsed, rec>>
       ELSE /\ floor_release({t \in Tgs : talker[t] = i})
            /\ rt' = [rt EXCEPT ![i].conn = NoConn, ![i].addr = FALSE, ![i].muted = FALSE]
    /\ IF c \in Conns
       THEN /\ ends' = [ends EXCEPT ![c] = @ \ {"server"}]
            /\ toServer' = [toServer EXCEPT ![c] = <<>>]
       ELSE UNCHANGED <<ends, toServer>>
    /\ UNCHANGED <<cfg, cut, toClient>>

Closes(c) ==
    /\ cs[c].state # "none"
    /\ cs[c].draining \/ (c \in Conns /\ ServerSeesClose(c))
    /\ OnClose(c)

keepalive_ping(c) ==
    /\ cs[c].state = "auth" /\ ~cs[c].waiting_pong /\ ~cs[c].draining
    /\ c \in Conns => RoomToClient(c)
    /\ cs' = [cs EXCEPT ![c].waiting_pong = TRUE]
    /\ Push(c, Msg("ping", 0))
    /\ UNCHANGED <<cfg, rt, talker, lapsed, rec, ends, cut, toServer>>

keepalive_close(c) ==
    /\ cs[c].state = "auth" /\ cs[c].waiting_pong /\ ~cs[c].draining
    /\ OnClose(c)

\* A connection that was cut before its login: the keepalive looks only at
\* sessions, so reflectd keeps the socket and never hears of it again.  The
\* model forgets it, and its name with it.
Forgotten(c) ==
    /\ c \in cut /\ "client" \notin ends[c] /\ cs[c].state = "await"
    /\ OnClose(c)

(* ------------------------ operator, reload, restart --------------------- *)

admin_kick(i) ==
    /\ i \in Live
    /\ cs' = Drain(rt[i].conn)
    /\ Push(rt[i].conn, Msg("kicked", "temporary"))
    /\ UNCHANGED <<cfg, rt, talker, lapsed, rec, ends, cut, toServer>>

admin_mute(i, on) ==
    /\ i \in DOMAIN cfg.roster /\ rt[i].muted # on
    /\ rt' = [rt EXCEPT ![i].muted = on]
    /\ Push(rt[i].conn, Msg(IF on THEN "mute" ELSE "unmute", 0))
    /\ UNCHANGED <<cfg, cs, talker, lapsed, rec, ends, cut, toServer>>

admin_release_floor(t) ==
    /\ talker[t] # 0
    /\ floor_release({t})
    /\ UNCHANGED <<cfg, rt, cs, wireVars>>

\* Nodes that left the file are kicked; a node that lost its talkgroup is
\* moved to its new default.  The floor it may hold stays behind.
do_reload(conf) ==
    LET id(i) == cfg.roster[i]
        gone  == {i \in Live : rcfg_node_idx(conf, id(i)) = 0}
        moved == {i \in Live \ gone : rt[i].tg \notin conf.allowed[id(i)]}
        kicked == {rt[i].conn : i \in gone}
    IN /\ conf # cfg
       /\ cfg' = conf
       /\ rt' = [i \in Slots |-> IF i \in moved THEN [rt[i] EXCEPT !.tg = DefaultTg(conf, id(i))] ELSE rt[i]]
       /\ cs' = [c \in AllConns |-> IF c \in kicked THEN [cs[c] EXCEPT !.draining = TRUE] ELSE cs[c]]
       /\ toClient' = [c \in Conns |->
            IF ~Arrives(c, "client") THEN toClient[c]
            ELSE IF c \in kicked THEN Append(toClient[c], Msg("kicked", "temporary"))
            ELSE IF \E i \in moved : rt[i].conn = c
                 THEN Append(toClient[c], Msg("tg_changed", DefaultTg(conf, Self))) ELSE toClient[c]]
       /\ UNCHANGED <<talker, lapsed, rec, ends, cut, toServer>>

(* The reflector stops and is started again: announced (the shutdown        *)
(* message, recordings closed) or not (a crash).                            *)
Restart(announced) ==
    /\ rt' = [i \in Slots |-> Offline]
    /\ cs' = [c \in AllConns |-> Unused]
    /\ talker' = [t \in Tgs |-> 0] /\ lapsed' = {} /\ rec' = [t \in Tgs |-> NoRec]
    /\ toClient' = [c \in Conns |->
         IF ~announced THEN <<>>
         ELSE IF cs[c].state = "auth" /\ Arrives(c, "client")
              THEN Append(toClient[c], Msg("reflector_shutdown", 0)) ELSE toClient[c]]
    /\ ends' = [c \in Conns |-> ends[c] \ {"server"}]
    /\ toServer' = [c \in Conns |-> <<>>]
    /\ UNCHANGED <<cfg, cut>>

(* -------------------------------- the peers ----------------------------- *)

PeerLogin(p) ==
    /\ cs[p].state = "none"
    /\ Refusal(p) = "none"
    /\ LET i == rcfg_node_idx(cfg, p) IN
       /\ cs' = [cs EXCEPT ![p] = [Unused EXCEPT !.state = "auth", !.idx = i]]
       /\ rt' = [rt EXCEPT ![i] = [@ EXCEPT !.conn = p, !.tg = DefaultTg(cfg, p), !.addr = FALSE, !.hist = <<>>]]
    /\ UNCHANGED <<cfg, talker, lapsed, rec, wireVars>>

PeerSetsTg(p) ==
    /\ cs[p].state = "auth"
    /\ \E t \in Tgs : t # rt[cs[p].idx].tg /\ handle_set_tg(p, t)
    /\ UNCHANGED <<ends, cut, toServer>>

PeerLeaves(p) == cs[p].state # "none" /\ OnClose(p)
=============================================================================
