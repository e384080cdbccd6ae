----------------------------- MODULE LinkProofs -----------------------------
(***************************************************************************)
(* For any number of connections, nodes, talkgroups and disturbances: a    *)
(* roster position belongs to the connection that logged in for it, the    *)
(* floor to a node that is there, and the client's hold on the transmitter *)
(* to a session.  Fairness plays no part.                                  *)
(***************************************************************************)
EXTENDS LinkNet, TLAPS

\* What the two ends send each other.
Bare(types) == [type : types, arg : {0}]
ClientMessages ==      \* to the client
  Bare({"ws_open", "hello", "ping", "mute", "unmute", "reflector_shutdown"})
    \cup [type : {"login_ok", "tg_ok", "tg_changed"}, arg : Tgs \cup {0}]
    \cup [type : {"login_denied", "kicked"}, arg : {"permanent", "temporary"}]
ServerMessages ==      \* to the reflector
  Bare({"login", "pong"})
    \cup [type : {"set_tg"}, arg : TgWanted \cup {0}]
    \cup [type : {"quality"}, arg : BOOLEAN]

WireTypes ==
  /\ ends \in [Conns -> SUBSET {"client", "server", "dialling"}]
  /\ cut \subseteq Conns
  /\ toClient \in [Conns -> Seq(ClientMessages)]
  /\ toServer \in [Conns -> Seq(ServerMessages)]

ClientTypes ==
  /\ g_state \in LinkStates /\ g_ws \in Conns \cup {NoConn}
  /\ g_session_active \in BOOLEAN /\ g_link_ptt_held \in BOOLEAN
  /\ g_req_set_tg \in TgWanted \cup {0}

ConnTypes == [state : {"none", "await", "auth"}, idx : Slots \cup {0},
              waiting_pong : BOOLEAN, draining : BOOLEAN]
NodeTypes == [conn : AllConns \cup {NoConn}, tg : Tgs \cup {0}, muted : BOOLEAN,
              addr : BOOLEAN, fails : 0..AuthFailKick + 1, hist : Seq(BOOLEAN)]
ServerTypes ==
  /\ cfg \in Rosters
  /\ cs \in [AllConns -> ConnTypes]
  /\ rt \in [Slots -> NodeTypes]
  /\ \A i \in Slots : Len(rt[i].hist) <= LOSS_HIST_LEN
FloorTypes ==
  /\ talker \in [Tgs -> Slots \cup {0}] /\ lapsed \subseteq Tgs
  /\ rec \in [Tgs -> Nodes \cup {NoRec}]

\* Who holds an end of a connection, and that nothing waits for an end that
\* has gone: a name that is dialled again comes without messages.
EndsMatch == \A c \in Conns :
  /\ "client" \in ends[c] <=> c = g_ws
  /\ "dialling" \in ends[c] => "client" \in ends[c] /\ "server" \notin ends[c]
  /\ "client" \notin ends[c] => toClient[c] = <<>>
  /\ "server" \notin ends[c] => toServer[c] = <<>>
  /\ cs[c].state # "none" <=> "server" \in ends[c]

\* hello, login and login_ok are one token: each is the answer to the one
\* before, and a connection bears it once, from when it is accepted.
LoginToken(m) == m.type \in {"hello", "login", "login_ok"}
NoToken(s)  == \A k \in 1..Len(s) : ~LoginToken(s[k])
OneToken(s) == \A k, l \in 1..Len(s) : LoginToken(s[k]) /\ LoginToken(s[l]) => k = l
OneLogin == \A c \in Conns :
  /\ OneToken(toClient[c]) /\ OneToken(toServer[c])
  /\ NoToken(toClient[c]) \/ NoToken(toServer[c])
  /\ "dialling" \in ends[c] => NoToken(toClient[c])

\* A session has its connection, and that connection's token is used up: no
\* second login_ok can fail under a transmitter that is held.
SessionSettled ==
  /\ g_session_active => /\ g_ws # NoConn /\ "dialling" \notin ends[g_ws]
                         /\ NoToken(toClient[g_ws]) /\ NoToken(toServer[g_ws])
  /\ g_link_ptt_held => g_session_active

ClientInv == ClientTypes /\ EndsMatch /\ OneLogin /\ SessionSettled

\* Only a session has a position.
Owners ==
  /\ \A c \in AllConns : cs[c].state # "auth" => cs[c].idx = 0
  /\ \A c \in AllConns : cs[c].state = "auth" => cs[c].idx # 0 /\ rt[cs[c].idx].conn = c
  /\ \A i \in Slots : Connected(i) => cs[rt[i].conn].state = "auth" /\ cs[rt[i].conn].idx = i

ServerInv == ServerTypes /\ FloorTypes /\ Owners

NetInv == WireTypes /\ ClientInv /\ ServerInv
-----------------------------------------------------------------------------
(* Tokens and sequences.                                                   *)

\* t bears no token that s does not.
Calmer(t, s) == (NoToken(s) => NoToken(t)) /\ (OneToken(s) => OneToken(t))

LEMMA TailIs ==
  ASSUME NEW S, NEW s \in Seq(S), s # <<>>
  PROVE  Tail(s) \in Seq(S) /\ Len(Tail(s)) = Len(s) - 1
  OBVIOUS

LEMMA CalmerTail ==
  ASSUME NEW S, NEW s \in Seq(S), s # <<>>
  PROVE  Tail(s) \in Seq(S) /\ Calmer(Tail(s), s)
<1>1. Tail(s) \in Seq(S) /\ Len(Tail(s)) = Len(s) - 1
      /\ \A k \in 1..Len(s) - 1 : Tail(s)[k] = s[k + 1]
  OBVIOUS
<1>2. Len(s) \in Nat
  OBVIOUS
<1> QED BY <1>1, <1>2 DEF Calmer, NoToken, OneToken

LEMMA CalmerAppend ==
  ASSUME NEW S, NEW s \in Seq(S), NEW m \in S, ~LoginToken(m)
  PROVE  Append(s, m) \in Seq(S) /\ Calmer(Append(s, m), s)
<1>1. Append(s, m) \in Seq(S) /\ Len(Append(s, m)) = Len(s) + 1
      /\ \A k \in 1..Len(s) : Append(s, m)[k] = s[k]
      /\ Append(s, m)[Len(s) + 1] = m
  OBVIOUS
<1>2. Len(s) \in Nat
  OBVIOUS
<1> QED BY <1>1, <1>2 DEF Calmer, NoToken, OneToken

LEMMA TokenAppend ==
  ASSUME NEW S, NEW s \in Seq(S), NEW m \in S, NoToken(s)
  PROVE  Append(s, m) \in Seq(S) /\ OneToken(Append(s, m))
<1>1. Append(s, m) \in Seq(S) /\ Len(Append(s, m)) = Len(s) + 1
      /\ \A k \in 1..Len(s) : Append(s, m)[k] = s[k]
  OBVIOUS
<1>2. Len(s) \in Nat
  OBVIOUS
<1> QED BY <1>1, <1>2 DEF NoToken, OneToken

LEMMA TokenTaken ==
  ASSUME NEW S, NEW s \in Seq(S), s # <<>>, LoginToken(Head(s)), OneToken(s)
  PROVE  NoToken(Tail(s)) /\ ~NoToken(s)
<1>1. Len(Tail(s)) = Len(s) - 1 /\ Head(s) = s[1]
      /\ \A k \in 1..Len(s) - 1 : Tail(s)[k] = s[k + 1]
  OBVIOUS
<1>2. Len(s) \in Nat /\ Len(s) >= 1
  OBVIOUS
<1> QED BY <1>1, <1>2 DEF NoToken, OneToken

LEMMA EmptyCalm == NoToken(<<>>) /\ \A s : Calmer(<<>>, s) /\ Calmer(s, s)
  BY DEF NoToken, OneToken, Calmer

\* What the client answers with.
LEMMA ReplyIs ==
  ASSUME NEW s \in Seq(ServerMessages)
  PROVE  /\ s \o <<>> = s
         /\ \A m \in ServerMessages :
              /\ s \o <<m>> \in Seq(ServerMessages)
              /\ ~LoginToken(m) => Calmer(s \o <<m>>, s)
              /\ NoToken(s) => OneToken(s \o <<m>>)
<1>1. s \o <<>> = s
  OBVIOUS
<1>2. ASSUME NEW m \in ServerMessages
      PROVE  /\ s \o <<m>> \in Seq(ServerMessages)
             /\ ~LoginToken(m) => Calmer(s \o <<m>>, s)
             /\ NoToken(s) => OneToken(s \o <<m>>)
  <2>1. s \o <<m>> = Append(s, m)
    OBVIOUS
  <2> HIDE DEF LoginToken
  <2>2. Append(s, m) \in Seq(ServerMessages)
    OBVIOUS
  <2>3. ~LoginToken(m) => Calmer(Append(s, m), s)
    BY CalmerAppend
  <2>4. NoToken(s) => OneToken(Append(s, m))
    BY TokenAppend
  <2> QED BY <2>1, <2>2, <2>3, <2>4
<1> QED BY <1>1, <1>2

LEMMA HelloIsOne ==
  LET s == <<Msg("ws_open", 0), Msg("hello", 0)>>
  IN s \in Seq(ClientMessages) /\ OneToken(s)
<1> DEFINE a == Msg("ws_open", 0)
           b == Msg("hello", 0)
<1>1. a \in ClientMessages /\ b \in ClientMessages /\ ~LoginToken(a)
  BY DEF Msg, ClientMessages, Bare, LoginToken
<1> HIDE DEF a, b
<1>2. <<a, b>> \in Seq(ClientMessages) /\ Len(<<a, b>>) = 2 /\ <<a, b>>[1] = a
  BY <1>1
<1>3. OneToken(<<a, b>>)
  BY <1>1, <1>2 DEF OneToken
<1> QED BY <1>2, <1>3 DEF a, b
-----------------------------------------------------------------------------
(* The client.                                                             *)

WireCalm == \A c \in Conns : /\ Calmer(toClient'[c], toClient[c])
                             /\ Calmer(toServer'[c], toServer[c])
                             /\ "dialling" \in ends'[c] => "dialling" \in ends[c]

\* What takes tokens away and adds none keeps them single.
LEMMA CalmKeeps ==
  ASSUME ClientInv, WireCalm, g_ws' = g_ws,
         g_session_active' => g_session_active,
         g_link_ptt_held' => g_session_active'
  PROVE  OneLogin' /\ SessionSettled'
<1>1. OneLogin'
  BY DEF ClientInv, WireCalm, OneLogin, Calmer
<1>2. SessionSettled'
  BY DEF ClientInv, ClientTypes, WireCalm, SessionSettled, Calmer
<1> QED BY <1>1, <1>2

\* A message is read, and answered or not.
LEMMA ReadsTypes ==
  ASSUME WireTypes, ClientTypes, EndsMatch, NEW t, NEW reply, Reads(t, reply),
         \/ reply = <<>>
         \/ \E m \in ServerMessages : reply = <<m>>,
         UNCHANGED reflVars
  PROVE  WireTypes' /\ EndsMatch'
<1>1. /\ g_ws \in Conns /\ toClient[g_ws] \in Seq(ClientMessages) /\ toClient[g_ws] # <<>>
      /\ toClient' = [toClient EXCEPT ![g_ws] = Tail(@)]
      /\ Tail(toClient[g_ws]) \in Seq(ClientMessages)
  BY CalmerTail DEF Reads, WireTypes, ClientTypes
<1>2. toServer[g_ws] \o reply \in Seq(ServerMessages)
  BY <1>1, ReplyIs DEF WireTypes
<1>3. /\ toServer' \in [Conns -> Seq(ServerMessages)]
      /\ \A c \in Conns : toServer'[c] = toServer[c] \/ "server" \in ends[c]
  BY <1>1, <1>2 DEF Reads, WireTypes, Arrives
<1>4. WireTypes'
  BY <1>1, <1>3 DEF Reads, WireTypes
<1>5. EndsMatch'
  BY <1>1, <1>3 DEF Reads, EndsMatch, reflVars, WireTypes
<1> QED BY <1>4, <1>5

LEMMA ReadsCalm ==
  ASSUME WireTypes, ClientTypes, NEW t, NEW reply, Reads(t, reply),
         \/ reply = <<>>
         \/ \E m \in ServerMessages : ~LoginToken(m) /\ reply = <<m>>
  PROVE  WireCalm
<1>1. /\ g_ws \in Conns /\ toClient[g_ws] \in Seq(ClientMessages) /\ toClient[g_ws] # <<>>
      /\ toClient' = [toClient EXCEPT ![g_ws] = Tail(@)]
      /\ Calmer(Tail(toClient[g_ws]), toClient[g_ws])
  BY CalmerTail DEF Reads, WireTypes, ClientTypes
<1>2. Calmer(toServer[g_ws] \o reply, toServer[g_ws])
  BY <1>1, ReplyIs, EmptyCalm DEF WireTypes
<1>3. \A c \in Conns : Calmer(toServer'[c], toServer[c])
  BY <1>1, <1>2, EmptyCalm DEF Reads, WireTypes
<1> QED BY <1>1, <1>3, EmptyCalm DEF WireCalm, WireTypes, Reads

\* The token changes hands: hello is read and answered with login, and
\* nobody has a session meanwhile.
LEMMA HelloKeeps ==
  ASSUME WireTypes, ClientInv, on_hello, UNCHANGED reflVars
  PROVE  WireTypes' /\ ClientInv'
<1> DEFINE m == [type |-> "login", arg |-> 0]
<1>1. m \in ServerMessages /\ Reads("hello", <<m>>)
  BY DEF ServerMessages, Bare, on_hello
<1> HIDE DEF m
<1>2. WireTypes' /\ EndsMatch'
  BY <1>1, ReadsTypes DEF ClientInv
<1>3. /\ g_ws \in Conns /\ toClient[g_ws] \in Seq(ClientMessages) /\ toClient[g_ws] # <<>>
      /\ LoginToken(Head(toClient[g_ws]))
      /\ toClient' = [toClient EXCEPT ![g_ws] = Tail(@)]
  BY <1>1 DEF Reads, WireTypes, ClientTypes, ClientInv, LoginToken
<1>4. NoToken(Tail(toClient[g_ws])) /\ ~NoToken(toClient[g_ws]) /\ NoToken(toServer[g_ws])
  BY <1>3, TokenTaken DEF ClientInv, OneLogin
<1>5. OneToken(toServer[g_ws] \o <<m>>)
  BY <1>1, <1>3, <1>4, ReplyIs DEF WireTypes
<1>6. OneLogin'
  <2>1. \A c \in Conns \ {g_ws} : toClient'[c] = toClient[c] /\ toServer'[c] = toServer[c]
    BY <1>1, <1>3 DEF Reads, WireTypes
  <2>2. NoToken(toClient'[g_ws]) /\ OneToken(toClient'[g_ws]) /\ OneToken(toServer'[g_ws])
    BY <1>1, <1>3, <1>4, <1>5 DEF Reads, WireTypes, NoToken, OneToken
  <2>3. ends' = ends
    BY <1>1 DEF Reads
  <2> HIDE DEF NoToken, OneToken
  <2> QED BY <2>1, <2>2, <2>3 DEF OneLogin, ClientInv
<1>7. SessionSettled' /\ ClientTypes'
  BY <1>3, <1>4 DEF ClientInv, ClientTypes, SessionSettled, on_hello, Reads, session,
                    requests, LinkStates
<1> QED BY <1>2, <1>6, <1>7 DEF ClientInv

\* The token is used up, whether the session is set up or fails half-way.
LEMMA LoginOkKeeps ==
  ASSUME WireTypes, ClientInv, on_login_ok, UNCHANGED reflVars
  PROVE  WireTypes' /\ ClientInv'
<1>1. Reads("login_ok", <<>>)
  BY DEF on_login_ok
<1>2. WireTypes' /\ EndsMatch' /\ WireCalm
  BY <1>1, ReadsTypes, ReadsCalm DEF ClientInv
<1>3. /\ g_ws \in Conns /\ toClient[g_ws] \in Seq(ClientMessages) /\ toClient[g_ws] # <<>>
      /\ LoginToken(Head(toClient[g_ws]))
      /\ toClient' = [toClient EXCEPT ![g_ws] = Tail(@)]
  BY <1>1 DEF Reads, WireTypes, ClientTypes, ClientInv, LoginToken
<1>4. NoToken(Tail(toClient[g_ws])) /\ ~NoToken(toClient[g_ws]) /\ NoToken(toServer[g_ws])
  BY <1>3, TokenTaken DEF ClientInv, OneLogin
<1>5. /\ g_ws' = g_ws /\ NoToken(toClient'[g_ws]) /\ NoToken(toServer'[g_ws])
  BY <1>1, <1>2, <1>3, <1>4 DEF Reads, WireCalm, Calmer, WireTypes
<1>6. OneLogin'
  BY <1>2 DEF ClientInv, WireCalm, OneLogin, Calmer
<1>7. g_session_active' \in BOOLEAN /\ g_state' \in LinkStates
  BY DEF on_login_ok, ClientInv, ClientTypes, LinkStates
<1>8. ~g_session_active /\ ~g_link_ptt_held /\ g_link_ptt_held' = g_link_ptt_held
  BY <1>4 DEF ClientInv, SessionSettled, on_login_ok
<1>9. ClientTypes'
  BY <1>1, <1>5, <1>7, <1>8 DEF ClientInv, ClientTypes, Reads, requests
<1>10. SessionSettled'
  <2>1. "dialling" \notin ends'[g_ws]
    BY <1>1, <1>3, <1>4 DEF ClientInv, OneLogin, Reads
  <2> QED BY <1>3, <1>5, <1>8, <2>1, LinkWireAssumption DEF SessionSettled
<1> QED BY <1>2, <1>6, <1>9, <1>10 DEF ClientInv

LEMMA OtherMessagesKeep ==
  ASSUME WireTypes, ClientInv, UNCHANGED reflVars,
         \/ ws_open \/ on_login_denied \/ on_kicked
         \/ on_reflector_shutdown \/ on_mute \/ on_tg \/ on_ping
  PROVE  WireTypes' /\ ClientInv'
<1> DEFINE pong == [type |-> "pong", arg |-> 0]
<1>1. pong \in ServerMessages /\ ~LoginToken(pong)
  BY DEF ServerMessages, Bare, LoginToken
<1>2. \E t : Reads(t, <<>>) \/ Reads(t, <<pong>>)
  BY DEF ws_open, on_login_denied, on_kicked, on_reflector_shutdown, on_mute, on_tg, on_ping
<1> HIDE DEF pong
<1>3. WireTypes' /\ EndsMatch' /\ WireCalm
  BY <1>1, <1>2, ReadsTypes, ReadsCalm DEF ClientInv
<1>4. /\ g_ws' = g_ws /\ g_req_set_tg' = g_req_set_tg
      /\ g_session_active' = g_session_active /\ g_link_ptt_held' = g_link_ptt_held
      /\ g_state' \in LinkStates
  BY DEF ws_open, on_login_denied, on_kicked, on_reflector_shutdown, on_mute, on_tg, on_ping,
         Reads, session, requests, LinkStates, ClientInv, ClientTypes
<1>5. ClientTypes'
  BY <1>4 DEF ClientInv, ClientTypes
<1>6. OneLogin' /\ SessionSettled'
  BY <1>3, <1>4, CalmKeeps DEF ClientInv, SessionSettled
<1> QED BY <1>3, <1>5, <1>6 DEF ClientInv

\* The client's end goes: what it has not read is lost with it.
LEMMA HangUpKeeps ==
  ASSUME WireTypes, ClientInv, g_ws \in Conns, ClientHangsUp(g_ws), UNCHANGED reflVars,
         g_ws' = NoConn, g_session_active' = FALSE, g_link_ptt_held' = FALSE,
         g_state' \in LinkStates, g_req_set_tg' \in TgWanted \cup {0}
  PROVE  WireTypes' /\ ClientInv'
<1>1. /\ ends' = [ends EXCEPT ![g_ws] = @ \ {"client", "dialling"}]
      /\ toClient' = [toClient EXCEPT ![g_ws] = <<>>]
      /\ toServer' = toServer \/ toServer' = [toServer EXCEPT ![g_ws] = <<>>]
      /\ cut' = cut
  BY DEF ClientHangsUp
<1>2. WireTypes'
  <2>1. <<>> \in Seq(ClientMessages) /\ <<>> \in Seq(ServerMessages)
    OBVIOUS
  <2>2. ends' \in [Conns -> SUBSET {"client", "server", "dialling"}]
    BY <1>1 DEF WireTypes
  <2> HIDE DEF ClientMessages, ServerMessages
  <2> QED BY <1>1, <2>1, <2>2 DEF WireTypes
<1>3. EndsMatch'
  BY <1>1, LinkWireAssumption DEF ClientInv, EndsMatch, WireTypes, reflVars
<1>4. WireCalm
  BY <1>1, EmptyCalm DEF WireCalm, WireTypes
<1>5. OneLogin'
  BY <1>4 DEF ClientInv, WireCalm, OneLogin, Calmer
<1>6. ClientTypes' /\ SessionSettled'
  BY DEF ClientTypes, SessionSettled
<1> QED BY <1>2, <1>3, <1>5, <1>6 DEF ClientInv

LEMMA ConnectKeeps ==
  ASSUME WireTypes, ClientInv, Connect, UNCHANGED reflVars
  PROVE  WireTypes' /\ ClientInv'
<1>1. CASE UNCHANGED wireVars /\ g_ws' = g_ws
  BY <1>1 DEF Connect, ClientInv, WireTypes, ClientTypes, EndsMatch, OneLogin, SessionSettled,
              wireVars, session, requests, LinkStates, NoToken, OneToken, LoginToken, reflVars
<1>2. ASSUME NEW c \in Conns, Dial(c), g_ws' = c
      PROVE  WireTypes' /\ ClientInv'
  <2>1. /\ g_ws = NoConn /\ ends[c] = {} /\ ends' = [ends EXCEPT ![c] = {"client", "dialling"}]
        /\ cut' \subseteq cut /\ toClient' = toClient /\ toServer' = toServer
    BY <1>2 DEF Connect, Dial
  <2>2. toClient[c] = <<>> /\ toServer[c] = <<>>
    BY <2>1 DEF ClientInv, EndsMatch
  <2>3. WireTypes'
    BY <2>1 DEF WireTypes
  <2>4. EndsMatch'
    BY <1>2, <2>1, <2>2, LinkWireAssumption DEF ClientInv, EndsMatch, WireTypes, reflVars
  <2>5. OneLogin'
    BY <2>1, <2>2, EmptyCalm DEF ClientInv, OneLogin, WireTypes
  <2>6. ClientTypes' /\ SessionSettled'
    BY <1>2, <2>1 DEF ClientInv, ClientTypes, SessionSettled, Connect, session, requests, LinkStates
  <2> QED BY <2>3, <2>4, <2>5, <2>6 DEF ClientInv
<1> QED BY <1>1, <1>2 DEF Connect

LEMMA OnWsCloseKeeps ==
  ASSUME WireTypes, ClientInv, OnWsClose, UNCHANGED reflVars
  PROVE  WireTypes' /\ ClientInv'
<1>1. g_ws \in Conns /\ ClientHangsUp(g_ws) /\ g_ws' = NoConn
      /\ g_session_active' = FALSE /\ g_link_ptt_held' = FALSE
  BY DEF OnWsClose, ClientInv, ClientTypes, session_cleanup
<1>2. g_state' \in LinkStates /\ g_req_set_tg' \in TgWanted \cup {0}
  BY DEF OnWsClose, ClientInv, ClientTypes, LinkStates, requests
<1> QED BY <1>1, <1>2, HangUpKeeps

\* A restart of the daemon is a close, or nothing if there was no connection.
LEMMA UnloadLoadKeeps ==
  ASSUME WireTypes, ClientInv, unload_load_, UNCHANGED reflVars
  PROVE  WireTypes' /\ ClientInv'
<1>1. /\ g_ws' = NoConn /\ g_session_active' = FALSE /\ g_link_ptt_held' = FALSE
      /\ g_state' \in LinkStates /\ g_req_set_tg' \in TgWanted \cup {0}
  BY DEF unload_load_, LinkStates
<1>2. CASE g_ws \in Conns
  BY <1>1, <1>2, HangUpKeeps, LinkWireAssumption DEF unload_load_
<1>3. CASE g_ws = NoConn
  <2>1. UNCHANGED wireVars
    BY <1>3 DEF unload_load_
  <2>2. WireTypes' /\ EndsMatch' /\ OneLogin'
    BY <1>1, <1>3, <2>1 DEF ClientInv, WireTypes, EndsMatch, OneLogin, wireVars, reflVars
  <2> QED BY <1>1, <2>2 DEF ClientInv, ClientTypes, SessionSettled
<1> QED BY <1>2, <1>3 DEF ClientInv, ClientTypes

\* A report or a request for a talkgroup goes out; no token is in it.
LEMMA SendsKeeps ==
  ASSUME WireTypes, ClientInv, NEW type, NEW arg, Sends(type, arg), UNCHANGED reflVars,
         g_ws # NoConn, [type |-> type, arg |-> arg] \in ServerMessages,
         type \in {"set_tg", "quality"}, g_req_set_tg' \in TgWanted \cup {0}
  PROVE  WireTypes' /\ ClientInv'
<1> DEFINE m == [type |-> type, arg |-> arg]
<1>1. m \in ServerMessages /\ ~LoginToken(m)
  BY DEF LoginToken
<1>2. toServer' = IF Arrives(g_ws, "server")
                  THEN [toServer EXCEPT ![g_ws] = Append(@, m)] ELSE toServer
  BY DEF Sends
<1> HIDE DEF m
<1>3. g_ws \in Conns /\ toServer[g_ws] \in Seq(ServerMessages)
  BY DEF ClientInv, ClientTypes, WireTypes
<1>4. /\ Append(toServer[g_ws], m) \in Seq(ServerMessages)
      /\ Calmer(Append(toServer[g_ws], m), toServer[g_ws])
  BY <1>1, <1>3, CalmerAppend
<1>5. /\ toServer' \in [Conns -> Seq(ServerMessages)]
      /\ \A c \in Conns : toServer'[c] = toServer[c] \/ "server" \in ends[c]
      /\ \A c \in Conns : Calmer(toServer'[c], toServer[c])
  BY <1>2, <1>3, <1>4, EmptyCalm DEF WireTypes, Arrives
<1>6. WireTypes' /\ EndsMatch' /\ WireCalm
  BY <1>5, EmptyCalm DEF WireTypes, ClientInv, EndsMatch, reflVars, Sends, WireCalm
<1>7. ClientTypes'
  BY DEF Sends, session, ClientInv, ClientTypes
<1>8. OneLogin' /\ SessionSettled'
  BY <1>6, CalmKeeps DEF Sends, session, ClientInv, SessionSettled
<1> QED BY <1>6, <1>7, <1>8 DEF ClientInv

\* Nothing goes over the wire.
LEMMA QuietStepsKeep ==
  ASSUME WireTypes, ClientInv, UNCHANGED reflVars,
         \/ ReconnectIsDue \/ ClearAlarm \/ Reconnect \/ play_decoded_frame \/ AudioEnds
         \/ Request \/ \E outcome \in {"good", "off", "bad"} : configure_(outcome)
  PROVE  WireTypes' /\ ClientInv'
<1>1. UNCHANGED wireVars /\ g_ws' = g_ws /\ g_session_active' = g_session_active
  BY DEF ReconnectIsDue, ClearAlarm, Reconnect, play_decoded_frame, AudioEnds, Request,
         configure_, session
<1>2. g_state' \in LinkStates
  BY DEF ReconnectIsDue, ClearAlarm, Reconnect, play_decoded_frame, AudioEnds, Request,
         configure_, ClientInv, ClientTypes, LinkStates
<1>3. g_req_set_tg' \in TgWanted \cup {0}
  BY DEF ReconnectIsDue, ClearAlarm, Reconnect, play_decoded_frame, AudioEnds, Request,
         configure_, ClientInv, ClientTypes, requests
<1>4. g_link_ptt_held' \in BOOLEAN /\ (g_link_ptt_held' => g_session_active)
  <2>1. CASE play_decoded_frame
    BY <2>1 DEF play_decoded_frame
  <2>2. CASE AudioEnds
    BY <2>2 DEF AudioEnds
  <2>3. CASE ~play_decoded_frame /\ ~AudioEnds
    <3>1. g_link_ptt_held' = g_link_ptt_held
      BY <2>3 DEF ReconnectIsDue, ClearAlarm, Reconnect, Request, configure_, session
    <3> QED BY <3>1 DEF ClientInv, ClientTypes, SessionSettled
  <2> QED BY <2>1, <2>2, <2>3
<1>5. WireTypes' /\ EndsMatch' /\ OneLogin' /\ SessionSettled'
  BY <1>1, <1>4 DEF ClientInv, WireTypes, EndsMatch, OneLogin, SessionSettled, wireVars, reflVars
<1> QED BY <1>1, <1>2, <1>3, <1>4, <1>5 DEF ClientInv, ClientTypes

ClientActions == \/ LinkThread \/ play_decoded_frame \/ AudioEnds \/ Request
                 \/ \E outcome \in {"good", "off", "bad"} : configure_(outcome)
                 \/ unload_load_ \/ send_quality_report

LEMMA ClientKeeps ==
  ASSUME WireTypes, ClientInv, ClientActions, UNCHANGED reflVars
  PROVE  WireTypes' /\ ClientInv'
<1>1. CASE SendSetTg
  <2>1. /\ Sends("set_tg", g_req_set_tg) /\ g_ws # NoConn /\ g_req_set_tg' = 0
        /\ [type |-> "set_tg", arg |-> g_req_set_tg] \in ServerMessages
    BY <1>1 DEF SendSetTg, ClientInv, ClientTypes, ServerMessages
  <2> QED BY <2>1, SendsKeeps
<1>2. CASE send_quality_report
  <2>1. PICK bad \in BOOLEAN : Sends("quality", bad)
    BY <1>2 DEF send_quality_report
  <2>2. /\ g_ws # NoConn /\ g_req_set_tg' \in TgWanted \cup {0}
        /\ [type |-> "quality", arg |-> bad] \in ServerMessages
    BY <1>2 DEF send_quality_report, ClientInv, ClientTypes, ServerMessages
  <2> QED BY <2>1, <2>2, SendsKeeps
<1> QED BY <1>1, <1>2, ConnectKeeps, HelloKeeps, LoginOkKeeps, OtherMessagesKeep, OnWsCloseKeeps,
           UnloadLoadKeeps, QuietStepsKeep DEF ClientActions, LinkThread, on_ws_msg
-----------------------------------------------------------------------------
(* The reflector.                                                          *)

SameSessions ==
  /\ \A c \in AllConns : cs'[c].state = cs[c].state /\ cs'[c].idx = cs[c].idx
  /\ \A i \in Slots : rt'[i].conn = rt[i].conn

\* Nobody comes or goes, and no token comes up.
Quiet ==
  /\ ends' = ends
  /\ \A c \in Conns :
       /\ \/ toClient'[c] = toClient[c]
          \/ "client" \in ends[c] /\ Calmer(toClient'[c], toClient[c])
       /\ \/ toServer'[c] = toServer[c]
          \/ "server" \in ends[c] /\ Calmer(toServer'[c], toServer[c])
  /\ SameSessions

LEMMA QuietKeeps ==
  ASSUME ClientInv, Owners, ServerTypes, Quiet, UNCHANGED linkVars
  PROVE  ClientInv' /\ Owners'
<1>1. UNCHANGED <<g_ws, g_session_active, g_link_ptt_held, g_state, g_req_set_tg>>
  BY DEF linkVars, session, requests
<1>2. WireCalm
  BY EmptyCalm DEF Quiet, WireCalm
<1>3. ClientTypes'
  BY <1>1 DEF ClientInv, ClientTypes
<1>4. OneLogin' /\ SessionSettled'
  BY <1>1, <1>2, CalmKeeps DEF ClientInv, SessionSettled
<1>5. EndsMatch'
  BY <1>1 DEF ClientInv, EndsMatch, Quiet, SameSessions, AllConns
<1>6. Owners'
  <2>1. \A i \in Slots : rt[i].conn # NoConn => rt[i].conn \in AllConns
    BY DEF ServerTypes, NodeTypes
  <2>2. \A c \in AllConns : cs[c].idx # 0 => cs[c].idx \in Slots
    BY DEF ServerTypes, ConnTypes
  <2> QED BY <2>1, <2>2 DEF Quiet, SameSessions, Owners, Connected
<1> QED BY <1>3, <1>4, <1>5, <1>6 DEF ClientInv

LEMMA PushIs ==
  ASSUME WireTypes, NEW c, NEW m \in ClientMessages, Push(c, m)
  PROVE  /\ toClient' \in [Conns -> Seq(ClientMessages)]
         /\ \A d \in Conns :
              \/ toClient'[d] = toClient[d]
              \/ d = c /\ "client" \in ends[d] /\ toClient'[d] = Append(toClient[d], m)
         /\ ~LoginToken(m) =>
              \A d \in Conns : \/ toClient'[d] = toClient[d]
                               \/ "client" \in ends[d] /\ Calmer(toClient'[d], toClient[d])
<1>1. \A d \in Conns : /\ toClient[d] \in Seq(ClientMessages)
                       /\ Append(toClient[d], m) \in Seq(ClientMessages)
  BY DEF WireTypes
<1>2. toClient' \in [Conns -> Seq(ClientMessages)]
  BY <1>1 DEF Push
<1>3. \A d \in Conns :
        \/ toClient'[d] = toClient[d]
        \/ d = c /\ "client" \in ends[d] /\ toClient'[d] = Append(toClient[d], m)
  BY DEF Push, Arrives
<1>4. ASSUME ~LoginToken(m), NEW d \in Conns
      PROVE  Calmer(Append(toClient[d], m), toClient[d])
  BY <1>1, <1>4, CalmerAppend
<1> QED BY <1>2, <1>3, <1>4

\* The messages the reflector pushes by the way.
LEMMA PlainMessages ==
  /\ \A t \in {"ping", "mute", "unmute", "reflector_shutdown"} :
       Msg(t, 0) \in ClientMessages /\ ~LoginToken(Msg(t, 0))
  /\ \A t \in {"login_denied", "kicked"}, a \in {"permanent", "temporary"} :
       Msg(t, a) \in ClientMessages /\ ~LoginToken(Msg(t, a))
  /\ \A t \in {"tg_ok", "tg_changed"}, a \in Tgs \cup {0} :
       Msg(t, a) \in ClientMessages /\ ~LoginToken(Msg(t, a))
  /\ \A a \in Tgs \cup {0} : Msg("login_ok", a) \in ClientMessages
  BY DEF Msg, ClientMessages, Bare, LoginToken

\* Draining is a mark on a connection, no matter whose.
LEMMA DrainIs ==
  ASSUME ServerTypes, NEW c, cs' = Drain(c)
  PROVE  /\ cs' \in [AllConns -> ConnTypes]
         /\ \A d \in AllConns : cs'[d].state = cs[d].state /\ cs'[d].idx = cs[d].idx
<1>1. cs' \in [AllConns -> ConnTypes]
  BY DEF Drain, ServerTypes, ConnTypes
<1>2. \A d \in AllConns : cs'[d].state = cs[d].state /\ cs'[d].idx = cs[d].idx
  BY DEF Drain, ServerTypes, ConnTypes
<1> QED BY <1>1, <1>2

LEMMA ReleaseIs ==
  ASSUME FloorTypes, NEW ts, floor_release(ts)
  PROVE  FloorTypes'
<1>1. talker' \in [Tgs -> Slots \cup {0}] /\ lapsed' \subseteq Tgs
  BY DEF FloorTypes, floor_release
<1>2. rec' \in [Tgs -> Nodes \cup {NoRec}]
  BY DEF FloorTypes, floor_release
<1> QED BY <1>1, <1>2 DEF FloorTypes

LEMMA RosterIs ==
  ASSUME NEW conf \in Rosters
  PROVE  /\ \A i \in DOMAIN conf.roster : i \in Slots /\ i # 0 /\ conf.roster[i] \in Nodes
         /\ \A n \in Nodes : DefaultTg(conf, n) \in Tgs \cup {0}
         /\ \A n : \/ rcfg_node_idx(conf, n) = 0
                   \/ /\ rcfg_node_idx(conf, n) \in DOMAIN conf.roster
                      /\ conf.roster[rcfg_node_idx(conf, n)] = n
                      /\ n \in Nodes
<1>1. conf.roster \in Seq(Nodes) /\ DOMAIN conf.roster \subseteq Slots
  BY ReflectorAssumption
<1>2. \A i \in DOMAIN conf.roster : i \in Slots /\ i # 0 /\ conf.roster[i] \in Nodes
  BY <1>1 DEF Slots
<1>3. ASSUME NEW n \in Nodes PROVE DefaultTg(conf, n) \in Tgs \cup {0}
  BY ReflectorAssumption DEF DefaultTg
<1>4. ASSUME NEW n, rcfg_node_idx(conf, n) # 0
      PROVE  /\ rcfg_node_idx(conf, n) \in DOMAIN conf.roster
             /\ conf.roster[rcfg_node_idx(conf, n)] = n
  BY <1>4 DEF rcfg_node_idx
<1> QED BY <1>2, <1>3, <1>4

\* What a handler leaves behind when nobody comes or goes.
Handled ==
  /\ ServerTypes' /\ FloorTypes' /\ SameSessions
  /\ toClient' \in [Conns -> Seq(ClientMessages)]
  /\ \A d \in Conns : \/ toClient'[d] = toClient[d]
                      \/ "client" \in ends[d] /\ Calmer(toClient'[d], toClient[d])

LEMMA DrainHandled ==
  ASSUME WireTypes, ServerInv, NEW c, NEW m \in ClientMessages, ~LoginToken(m),
         cs' = Drain(c), Push(c, m) \/ toClient' = toClient,
         UNCHANGED <<cfg, rt, talker, lapsed, rec>>
  PROVE  Handled
<1>1. ServerTypes' /\ FloorTypes' /\ SameSessions
  BY DrainIs DEF ServerInv, ServerTypes, FloorTypes, SameSessions
<1> QED BY <1>1, PushIs DEF Handled, WireTypes

\* Only the mute, the address, the failures, the history or the talkgroup of
\* a node change.
LEMMA NodeHandled ==
  ASSUME ServerInv, rt' \in [Slots -> NodeTypes],
         \A i \in Slots : rt'[i].conn = rt[i].conn /\ Len(rt'[i].hist) <= LOSS_HIST_LEN,
         \/ cs' = cs
         \/ \E c \in AllConns : cs' = [cs EXCEPT ![c].waiting_pong = FALSE]
         \/ \E c \in AllConns : cs' = Drain(c),
         cfg' = cfg
  PROVE  ServerTypes' /\ SameSessions
<1>1. /\ cs' \in [AllConns -> ConnTypes]
      /\ \A d \in AllConns : cs'[d].state = cs[d].state /\ cs'[d].idx = cs[d].idx
  <2>1. CASE \E c \in AllConns : cs' = Drain(c)
    BY <2>1, DrainIs DEF ServerInv
  <2>2. CASE \E c \in AllConns : cs' = [cs EXCEPT ![c].waiting_pong = FALSE]
    <3>1. PICK c \in AllConns : cs' = [cs EXCEPT ![c].waiting_pong = FALSE]
      BY <2>2
    <3>2. cs[c] \in ConnTypes /\ [cs[c] EXCEPT !.waiting_pong = FALSE] \in ConnTypes
      BY DEF ServerInv, ServerTypes, ConnTypes
    <3>3. /\ [cs[c] EXCEPT !.waiting_pong = FALSE].state = cs[c].state
          /\ [cs[c] EXCEPT !.waiting_pong = FALSE].idx = cs[c].idx
      BY <3>2 DEF ConnTypes
    <3>4. cs' = [cs EXCEPT ![c] = [cs[c] EXCEPT !.waiting_pong = FALSE]]
      BY <3>1
    <3> QED BY <3>2, <3>3, <3>4 DEF ServerInv, ServerTypes
  <2> QED BY <2>1, <2>2 DEF ServerInv, ServerTypes
<1> QED BY <1>1 DEF ServerInv, ServerTypes, SameSessions

LEMMA SetTgHandled ==
  ASSUME WireTypes, ServerInv, NEW c \in AllConns, cs[c].state = "auth", NEW tg,
         handle_set_tg(c, tg)
  PROVE  Handled
<1> DEFINE i == cs[c].idx
<1>1. i \in Slots /\ i # 0
  BY DEF ServerInv, ServerTypes, Owners, ConnTypes
<1>2. CASE i \in DOMAIN cfg.roster /\ tg \in cfg.allowed[cfg.roster[i]]
  <2>1. tg \in Tgs
    <3>1. cfg.roster[i] \in Nodes /\ cfg.allowed \in [Nodes -> SUBSET Tgs]
      BY <1>2, RosterIs, ReflectorAssumption DEF ServerInv, ServerTypes
    <3> QED BY <1>2, <3>1
  <2>2. /\ rt' = [rt EXCEPT ![i].tg = tg] /\ Push(c, Msg("tg_ok", tg))
        /\ floor_release({t \in Tgs : t = rt[i].tg /\ t # tg /\ talker[t] = i})
        /\ cs' = [cs EXCEPT ![c].waiting_pong = FALSE] /\ cfg' = cfg
    BY <1>2 DEF handle_set_tg
  <2>3. /\ rt' \in [Slots -> NodeTypes]
        /\ \A j \in Slots : rt'[j].conn = rt[j].conn /\ rt'[j].hist = rt[j].hist
    BY <1>1, <2>1, <2>2 DEF ServerInv, ServerTypes, NodeTypes
  <2>4. ServerTypes' /\ SameSessions
    BY <2>2, <2>3, NodeHandled DEF ServerInv, ServerTypes
  <2>5. FloorTypes'
    BY <2>2, ReleaseIs DEF ServerInv
  <2> QED BY <2>1, <2>2, <2>4, <2>5, PushIs, PlainMessages DEF Handled
<1>3. CASE ~(i \in DOMAIN cfg.roster /\ tg \in cfg.allowed[cfg.roster[i]])
  <2>1. /\ UNCHANGED <<cfg, rt, talker, lapsed, rec, toClient>>
        /\ cs' = [cs EXCEPT ![c].waiting_pong = FALSE]
    BY <1>3 DEF handle_set_tg
  <2>2. ServerTypes' /\ SameSessions
    BY <2>1, NodeHandled DEF ServerInv, ServerTypes
  <2> QED BY <2>1, <2>2 DEF Handled, WireTypes, ServerInv, FloorTypes
<1> QED BY <1>2, <1>3

LEMMA QualityHandled ==
  ASSUME WireTypes, ServerInv, NEW c \in AllConns, cs[c].state = "auth", NEW bad \in BOOLEAN,
         handle_quality(c, bad)
  PROVE  Handled
<1> DEFINE i == cs[c].idx
           old == rt[i].hist
           kept == IF Len(old) = LOSS_HIST_LEN THEN Tail(old) ELSE old
           h == Append(kept, bad)
           mutes == ~rt[i].muted /\ LossTrips(h)
<1>1. i \in Slots /\ i # 0
  BY DEF ServerInv, ServerTypes, Owners, ConnTypes
<1>2. old \in Seq(BOOLEAN) /\ Len(old) <= LOSS_HIST_LEN
  BY <1>1 DEF ServerInv, ServerTypes, NodeTypes
<1>3. h \in Seq(BOOLEAN) /\ Len(h) <= LOSS_HIST_LEN
  <2>1. kept \in Seq(BOOLEAN) /\ Len(kept) < LOSS_HIST_LEN
    <3>1. LOSS_HIST_LEN \in Nat \ {0} /\ Len(old) \in Nat
      BY <1>2, ReflectorAssumption
    <3>2. CASE Len(old) = LOSS_HIST_LEN
      <4>1. old # <<>>
        BY <1>2, <3>1, <3>2
      <4>2. Tail(old) \in Seq(BOOLEAN) /\ Len(Tail(old)) = Len(old) - 1
        BY <1>2, <4>1, TailIs
      <4> QED BY <3>1, <3>2, <4>2
    <3>3. CASE Len(old) # LOSS_HIST_LEN
      BY <1>2, <3>1, <3>3
    <3> QED BY <3>2, <3>3
  <2> HIDE DEF kept
  <2> QED BY <2>1, ReflectorAssumption
<1> HIDE DEF h
<1>4. /\ rt' = [rt EXCEPT ![i].hist = h, ![i].muted = @ \/ mutes]
      /\ IF mutes THEN Push(c, Msg("mute", 0)) ELSE UNCHANGED toClient
      /\ cs' = [cs EXCEPT ![c].waiting_pong = FALSE]
      /\ UNCHANGED <<cfg, talker, lapsed, rec>>
      /\ mutes \in BOOLEAN
  BY DEF handle_quality, h
<1> HIDE DEF mutes
<1>5. /\ rt' \in [Slots -> NodeTypes]
      /\ \A j \in Slots : rt'[j].conn = rt[j].conn /\ Len(rt'[j].hist) <= LOSS_HIST_LEN
  <2>1. rt[i] \in NodeTypes /\ (rt[i].muted \/ mutes) \in BOOLEAN
    BY <1>1, <1>4 DEF ServerInv, ServerTypes
  <2>2. [rt[i] EXCEPT !.hist = h, !.muted = rt[i].muted \/ mutes] \in NodeTypes
    BY <1>3, <2>1 DEF NodeTypes
  <2>3. /\ [rt[i] EXCEPT !.hist = h, !.muted = rt[i].muted \/ mutes].conn = rt[i].conn
        /\ [rt[i] EXCEPT !.hist = h, !.muted = rt[i].muted \/ mutes].hist = h
    BY <2>1 DEF NodeTypes
  <2>4. rt' = [rt EXCEPT ![i] = [rt[i] EXCEPT !.hist = h, !.muted = rt[i].muted \/ mutes]]
    BY <1>4
  <2> QED BY <1>1, <1>3, <2>2, <2>3, <2>4 DEF ServerInv, ServerTypes
<1>6. ServerTypes' /\ SameSessions
  BY <1>4, <1>5, NodeHandled
<1>7. FloorTypes'
  BY <1>4 DEF ServerInv, FloorTypes
<1> QED BY <1>4, <1>6, <1>7, PushIs, PlainMessages DEF Handled, WireTypes

(* ------------------------- those who come and go ------------------------ *)

\* A login is granted to a connection that has no session, for a position
\* that has no connection.
LEMMA LoginOwns ==
  ASSUME ServerInv, NEW c \in AllConns, cs[c].state # "auth", NEW i \in Slots, i # 0,
         ~Connected(i),
         cs' \in [AllConns -> ConnTypes], cs'[c].state = "auth", cs'[c].idx = i,
         \A d \in AllConns \ {c} : cs'[d] = cs[d],
         rt'[i].conn = c,
         \A j \in Slots \ {i} : rt'[j] = rt[j]
  PROVE  Owners'
<1>1. \A j \in Slots : rt[j].conn # NoConn => rt[j].conn \in AllConns
  BY DEF ServerInv, ServerTypes, NodeTypes
<1>2. \A d \in AllConns : cs[d].idx # 0 => cs[d].idx \in Slots
  BY DEF ServerInv, ServerTypes, ConnTypes
<1>3. \A j \in Slots : rt[j].conn # c
  BY <1>1, LinkWireAssumption, ReflectorAssumption DEF ServerInv, Owners, Connected, AllConns
<1>4. \A d \in AllConns : cs[d].state = "auth" => cs[d].idx # i
  BY LinkWireAssumption, ReflectorAssumption DEF ServerInv, Owners, Connected, AllConns
<1> QED BY <1>1, <1>2, <1>3, <1>4 DEF ServerInv, Owners, Connected

LEMMA RefusalNone ==
  ASSUME ServerInv, NEW n, Refusal(n) = "none"
  PROVE  /\ rcfg_node_idx(cfg, n) \in Slots /\ rcfg_node_idx(cfg, n) # 0
         /\ ~Connected(rcfg_node_idx(cfg, n))
         /\ DefaultTg(cfg, n) \in Tgs \cup {0}
<1>1. cfg \in Rosters
  BY DEF ServerInv, ServerTypes
<1>2. rcfg_node_idx(cfg, n) # 0 /\ ~Connected(rcfg_node_idx(cfg, n))
  BY DEF Refusal
<1> QED BY <1>1, <1>2, RosterIs

\* The entry of a node that has just logged in.
LEMMA EntryIs ==
  ASSUME ServerInv, NEW i \in Slots, NEW c \in AllConns, NEW tg \in Tgs \cup {0},
         rt' = [rt EXCEPT ![i] = [@ EXCEPT !.conn = c, !.tg = tg, !.addr = FALSE, !.hist = <<>>]]
  PROVE  /\ rt' \in [Slots -> NodeTypes] /\ rt'[i].conn = c
         /\ \A j \in Slots \ {i} : rt'[j] = rt[j]
         /\ \A j \in Slots : Len(rt'[j].hist) <= LOSS_HIST_LEN
<1> DEFINE e == [rt[i] EXCEPT !.conn = c, !.tg = tg, !.addr = FALSE, !.hist = <<>>]
<1>1. e \in NodeTypes /\ e.conn = c /\ Len(e.hist) <= LOSS_HIST_LEN
  <2>1. rt[i] \in NodeTypes
    BY DEF ServerInv, ServerTypes
  <2>2. <<>> \in Seq(BOOLEAN) /\ Len(<<>>) <= LOSS_HIST_LEN
    BY ReflectorAssumption
  <2> QED BY <2>1, <2>2 DEF NodeTypes
<1>2. rt' = [rt EXCEPT ![i] = e]
  OBVIOUS
<1> HIDE DEF e
<1> QED BY <1>1, <1>2 DEF ServerInv, ServerTypes

\* What a login changes; the token becomes a login_ok.
LEMMA LoginHandled ==
  ASSUME WireTypes, ServerInv, NEW c \in Conns, handle_login(c, Self),
         cs[c].state = "await", Refusal(Self) = "none"
  PROVE  /\ ServerTypes' /\ FloorTypes' /\ Owners' /\ cs'[c].state = "auth"
         /\ \A d \in AllConns \ {c} : cs'[d] = cs[d]
         /\ \E m \in ClientMessages : Push(c, m)
<1> DEFINE i == rcfg_node_idx(cfg, Self)
           tg == DefaultTg(cfg, Self)
<1>1. i \in Slots /\ i # 0 /\ ~Connected(i) /\ tg \in Tgs \cup {0}
  BY RefusalNone
<1>2. /\ cs' = [cs EXCEPT ![c].state = "auth", ![c].idx = i, ![c].waiting_pong = FALSE]
      /\ rt' = [rt EXCEPT ![i] = [@ EXCEPT !.conn = c, !.tg = tg, !.addr = FALSE, !.hist = <<>>]]
      /\ Push(c, Msg("login_ok", tg))
      /\ UNCHANGED <<cfg, talker, lapsed, rec>>
  BY DEF handle_login
<1> HIDE DEF i, tg
<1>3. c \in AllConns
  BY DEF AllConns
<1>4. /\ cs' \in [AllConns -> ConnTypes] /\ cs'[c].state = "auth" /\ cs'[c].idx = i
      /\ \A d \in AllConns \ {c} : cs'[d] = cs[d]
  <2> DEFINE e == [cs[c] EXCEPT !.state = "auth", !.idx = i, !.waiting_pong = FALSE]
  <2>1. e \in ConnTypes /\ e.state = "auth" /\ e.idx = i
    BY <1>1, <1>3 DEF ServerInv, ServerTypes, ConnTypes
  <2>2. cs' = [cs EXCEPT ![c] = e]
    BY <1>2
  <2> HIDE DEF e
  <2> QED BY <1>3, <2>1, <2>2 DEF ServerInv, ServerTypes
<1>5. ServerTypes'
  BY <1>1, <1>2, <1>3, <1>4, EntryIs DEF ServerInv, ServerTypes
<1>6. FloorTypes'
  BY <1>2 DEF ServerInv, FloorTypes
<1>7. Owners'
  BY <1>1, <1>2, <1>3, <1>4, EntryIs, LoginOwns
<1> QED BY <1>1, <1>2, <1>4, <1>5, <1>6, <1>7, PlainMessages

LEMMA PeerLoginKeeps ==
  ASSUME ServerInv, ClientInv, NEW p \in Peers, PeerLogin(p), UNCHANGED linkVars
  PROVE  ServerInv' /\ ClientInv'
<1> DEFINE i == rcfg_node_idx(cfg, p)
           tg == DefaultTg(cfg, p)
<1>1. i \in Slots /\ i # 0 /\ ~Connected(i) /\ tg \in Tgs \cup {0}
  BY RefusalNone DEF PeerLogin
<1>2. /\ cs' = [cs EXCEPT ![p] = [Unused EXCEPT !.state = "auth", !.idx = i]]
      /\ rt' = [rt EXCEPT ![i] = [@ EXCEPT !.conn = p, !.tg = tg, !.addr = FALSE, !.hist = <<>>]]
      /\ UNCHANGED <<cfg, talker, lapsed, rec, wireVars>>
      /\ cs[p].state = "none"
  BY DEF PeerLogin
<1> HIDE DEF i, tg
<1>3. p \in AllConns /\ p \notin Conns
  BY ReflectorAssumption DEF AllConns
<1>4. /\ cs' \in [AllConns -> ConnTypes] /\ cs'[p].state = "auth" /\ cs'[p].idx = i
      /\ \A d \in AllConns \ {p} : cs'[d] = cs[d]
  <2> DEFINE e == [Unused EXCEPT !.state = "auth", !.idx = i]
  <2>1. e \in ConnTypes /\ e.state = "auth" /\ e.idx = i
    BY <1>1 DEF ConnTypes, Unused
  <2>2. cs' = [cs EXCEPT ![p] = e]
    BY <1>2
  <2> HIDE DEF e
  <2> QED BY <1>3, <2>1, <2>2 DEF ServerInv, ServerTypes
<1>5. ServerTypes'
  BY <1>1, <1>2, <1>3, <1>4, EntryIs DEF ServerInv, ServerTypes
<1>6. FloorTypes'
  BY <1>2 DEF ServerInv, FloorTypes
<1>7. Owners'
  BY <1>1, <1>2, <1>3, <1>4, EntryIs, LoginOwns
<1>8. ClientInv'
  BY <1>2, <1>3, <1>4 DEF ClientInv, ClientTypes, EndsMatch, OneLogin, SessionSettled, wireVars,
     linkVars, session, requests, AllConns
<1> QED BY <1>5, <1>6, <1>7, <1>8 DEF ServerInv

\* A message is read and handled without anyone coming or going.
LEMMA HandledKeeps ==
  ASSUME WireTypes, ClientInv, ServerInv, Handled, UNCHANGED linkVars,
         ends' = ends, cut' = cut,
         \/ toServer' = toServer
         \/ \E c \in Conns : /\ toServer[c] # <<>>
                             /\ toServer' = [toServer EXCEPT ![c] = Tail(@)]
  PROVE  WireTypes' /\ ClientInv' /\ ServerInv'
<1>1. /\ toServer' \in [Conns -> Seq(ServerMessages)]
      /\ \A d \in Conns : \/ toServer'[d] = toServer[d]
                          \/ "server" \in ends[d] /\ Calmer(toServer'[d], toServer[d])
  <2>1. CASE toServer' = toServer
    BY <2>1 DEF WireTypes
  <2>2. ASSUME NEW c \in Conns, toServer[c] # <<>>, toServer' = [toServer EXCEPT ![c] = Tail(@)]
        PROVE  /\ toServer' \in [Conns -> Seq(ServerMessages)]
               /\ \A d \in Conns : \/ toServer'[d] = toServer[d]
                                   \/ "server" \in ends[d] /\ Calmer(toServer'[d], toServer[d])
    <3>1. toServer[c] \in Seq(ServerMessages) /\ "server" \in ends[c]
      BY <2>2 DEF WireTypes, ClientInv, EndsMatch
    <3>2. Tail(toServer[c]) \in Seq(ServerMessages) /\ Calmer(Tail(toServer[c]), toServer[c])
      BY <2>2, <3>1, CalmerTail
    <3> QED BY <2>2, <3>1, <3>2 DEF WireTypes
  <2> QED BY <2>1, <2>2
<1>2. WireTypes'
  BY <1>1 DEF Handled, WireTypes
<1>3. Quiet
  <2>1. SameSessions
    BY DEF Handled
  <2>2. ASSUME NEW d \in Conns
        PROVE  /\ \/ toClient'[d] = toClient[d]
                  \/ "client" \in ends[d] /\ Calmer(toClient'[d], toClient[d])
               /\ \/ toServer'[d] = toServer[d]
                  \/ "server" \in ends[d] /\ Calmer(toServer'[d], toServer[d])
    BY <1>1 DEF Handled
  <2> QED BY <2>1, <2>2 DEF Quiet
<1>4. ClientInv' /\ Owners'
  BY <1>3, QuietKeeps DEF ServerInv
<1> QED BY <1>2, <1>4 DEF Handled, ServerInv

\* The token is taken from the reflector's side and goes back as login_ok.
LEMMA LoginKeeps ==
  ASSUME WireTypes, ClientInv, ServerInv, NEW c \in Conns, UNCHANGED linkVars,
         ends' = ends, cut' = cut, toServer[c] # <<>>, Head(toServer[c]).type = "login",
         toServer' = [toServer EXCEPT ![c] = Tail(@)],
         handle_login(c, Self), cs[c].state = "await", Refusal(Self) = "none"
  PROVE  WireTypes' /\ ClientInv' /\ ServerInv'
<1>1. /\ ServerTypes' /\ FloorTypes' /\ Owners' /\ cs'[c].state = "auth"
      /\ \A d \in AllConns \ {c} : cs'[d] = cs[d]
  BY LoginHandled
<1>2. PICK m \in ClientMessages : Push(c, m)
  BY LoginHandled
<1>3. /\ toClient' \in [Conns -> Seq(ClientMessages)]
      /\ \A d \in Conns :
           \/ toClient'[d] = toClient[d]
           \/ d = c /\ "client" \in ends[d] /\ toClient'[d] = Append(toClient[d], m)
  BY <1>2, PushIs
<1>4. /\ toServer[c] \in Seq(ServerMessages) /\ "server" \in ends[c]
      /\ toClient[c] \in Seq(ClientMessages)
      /\ LoginToken(Head(toServer[c]))
  BY DEF WireTypes, ClientInv, EndsMatch, LoginToken
<1>5. /\ Tail(toServer[c]) \in Seq(ServerMessages)
      /\ NoToken(Tail(toServer[c])) /\ ~NoToken(toServer[c]) /\ NoToken(toClient[c])
  BY <1>4, CalmerTail, TokenTaken DEF ClientInv, OneLogin
<1>6. OneToken(Append(toClient[c], m))
  BY <1>4, <1>5, TokenAppend
<1>7. WireTypes'
  BY <1>3, <1>5 DEF WireTypes
<1>8. \A d \in Conns \ {c} : toClient'[d] = toClient[d] /\ toServer'[d] = toServer[d]
  BY <1>3 DEF WireTypes
<1>9. /\ NoToken(toServer'[c]) /\ OneToken(toServer'[c]) /\ OneToken(toClient'[c])
  BY <1>3, <1>5, <1>6 DEF WireTypes, ClientInv, OneLogin, NoToken, OneToken
<1>10. OneLogin'
  <2>1. "dialling" \notin ends'[c]
    BY <1>4 DEF ClientInv, EndsMatch
  <2> QED BY <1>8, <1>9, <2>1 DEF ClientInv, OneLogin
<1>11. UNCHANGED <<g_ws, g_session_active, g_link_ptt_held, g_state, g_req_set_tg>>
  BY DEF linkVars, session, requests
<1>12. g_session_active => g_ws # c
  BY <1>5 DEF ClientInv, SessionSettled
<1>13. SessionSettled' /\ ClientTypes'
  BY <1>8, <1>11, <1>12 DEF ClientInv, ClientTypes, SessionSettled
<1>14. EndsMatch'
  BY <1>1, <1>3, <1>4, <1>8, <1>11 DEF ClientInv, EndsMatch, AllConns
<1> QED BY <1>1, <1>7, <1>10, <1>13, <1>14 DEF ClientInv, ServerInv

LEMMA DeniedKeeps ==
  ASSUME WireTypes, ClientInv, ServerInv, NEW c \in Conns, UNCHANGED linkVars,
         ends' = ends, cut' = cut, toServer[c] # <<>>,
         toServer' = [toServer EXCEPT ![c] = Tail(@)],
         NEW why \in {"permanent", "temporary"}, send_login_denied(c, why)
  PROVE  WireTypes' /\ ClientInv' /\ ServerInv'
<1>1. Handled
  BY DrainHandled, PlainMessages DEF send_login_denied
<1> QED BY <1>1, HandledKeeps

LEMMA MessageKeeps ==
  ASSUME WireTypes, ClientInv, ServerInv, NEW c \in Conns, handle_message(c), UNCHANGED linkVars
  PROVE  WireTypes' /\ ClientInv' /\ ServerInv'
<1> DEFINE msg == Head(toServer[c])
<1>1. /\ ends' = ends /\ cut' = cut /\ toServer[c] # <<>>
      /\ toServer' = [toServer EXCEPT ![c] = Tail(@)]
  BY DEF handle_message
<1>2. msg \in ServerMessages
  <2>1. toServer[c] \in Seq(ServerMessages)
    BY DEF WireTypes
  <2> QED BY <1>1, <2>1
<1>3. c \in AllConns
  BY DEF AllConns
<1>4. CASE msg.type = "login"
  <2>1. handle_login(c, Self)
    BY <1>4 DEF handle_message
  <2>2. CASE cs[c].state # "await"
    BY <1>1, <2>1, <2>2, DeniedKeeps DEF handle_login
  <2>3. CASE cs[c].state = "await" /\ Refusal(Self) # "none"
    <3>1. Refusal(Self) \in {"permanent", "temporary"}
      BY <2>3 DEF Refusal
    <3> QED BY <1>1, <2>1, <2>3, <3>1, DeniedKeeps DEF handle_login
  <2>4. CASE cs[c].state = "await" /\ Refusal(Self) = "none"
    BY <1>1, <1>4, <2>1, <2>4, LoginKeeps
  <2> QED BY <2>2, <2>3, <2>4
<1>5. CASE msg.type # "login" /\ cs[c].state # "auth"
  <2>1. cs' = Drain(c) /\ UNCHANGED <<cfg, rt, talker, lapsed, rec, toClient>>
    BY <1>5 DEF handle_message
  <2>2. Handled
    BY <2>1, DrainHandled, PlainMessages
  <2> QED BY <1>1, <2>2, HandledKeeps
<1>6. CASE msg.type = "set_tg" /\ cs[c].state = "auth"
  <2>1. handle_set_tg(c, msg.arg)
    BY <1>6 DEF handle_message
  <2> QED BY <1>1, <1>3, <1>6, <2>1, SetTgHandled, HandledKeeps
<1>7. CASE msg.type = "quality" /\ cs[c].state = "auth"
  <2>1. handle_quality(c, msg.arg) /\ msg.arg \in BOOLEAN
    BY <1>2, <1>7 DEF handle_message, ServerMessages, Bare
  <2>2. Handled
    BY <1>3, <1>7, <2>1, QualityHandled
  <2> QED BY <1>1, <2>2, HandledKeeps
<1>8. CASE msg.type = "pong" /\ cs[c].state = "auth"
  <2>1. cs' = [cs EXCEPT ![c].waiting_pong = FALSE]
        /\ UNCHANGED <<cfg, rt, talker, lapsed, rec, toClient>>
    BY <1>8 DEF handle_message
  <2>2. ServerTypes' /\ SameSessions
    BY <1>3, <2>1, NodeHandled DEF ServerInv, ServerTypes
  <2>3. Handled
    BY <2>1, <2>2 DEF Handled, ServerInv, FloorTypes, WireTypes
  <2> QED BY <1>1, <2>3, HandledKeeps
<1>9. msg.type \in {"login", "pong", "set_tg", "quality"}
  BY <1>2 DEF ServerMessages, Bare
<1> QED BY <1>4, <1>5, <1>6, <1>7, <1>8, <1>9

\* The reflector's end goes, with its position and with what it had not read.
LEMMA OnCloseKeeps ==
  ASSUME WireTypes, ClientInv, ServerInv, NEW c \in AllConns, OnClose(c),
         cs[c].state # "none", UNCHANGED linkVars
  PROVE  WireTypes' /\ ClientInv' /\ ServerInv'
<1> DEFINE i == cs[c].idx
<1>1. i \in Slots \cup {0} /\ Unused \in ConnTypes
  BY DEF ServerInv, ServerTypes, ConnTypes, Unused
<1>2. /\ cs' = [cs EXCEPT ![c] = Unused] /\ cfg' = cfg /\ cut' = cut /\ toClient' = toClient
      /\ i = 0 => UNCHANGED <<rt, talker, lapsed, rec>>
      /\ i # 0 => /\ floor_release({t \in Tgs : talker[t] = i})
                  /\ rt' = [rt EXCEPT ![i].conn = NoConn, ![i].addr = FALSE, ![i].muted = FALSE]
      /\ IF c \in Conns
         THEN /\ ends' = [ends EXCEPT ![c] = @ \ {"server"}]
              /\ toServer' = [toServer EXCEPT ![c] = <<>>]
         ELSE UNCHANGED <<ends, toServer>>
  BY DEF OnClose
<1>3. \A j \in Slots : rt[j].conn # NoConn => rt[j].conn \in AllConns
  BY DEF ServerInv, ServerTypes, NodeTypes
<1>4. \A d \in AllConns : cs[d].idx # 0 => cs[d].idx \in Slots
  BY DEF ServerInv, ServerTypes, ConnTypes
<1> HIDE DEF i
<1>5. /\ cs' \in [AllConns -> ConnTypes] /\ cs'[c] = Unused
      /\ \A d \in AllConns \ {c} : cs'[d] = cs[d]
  BY <1>1, <1>2 DEF ServerInv, ServerTypes
<1>6. /\ rt' \in [Slots -> NodeTypes]
      /\ i # 0 => rt'[i].conn = NoConn
      /\ \A j \in Slots : j # i => rt'[j] = rt[j]
      /\ \A j \in Slots : rt'[j].hist = rt[j].hist
  <2>1. CASE i = 0
    BY <1>2, <2>1 DEF ServerInv, ServerTypes
  <2>2. CASE i # 0
    <3> DEFINE e == [rt[i] EXCEPT !.conn = NoConn, !.addr = FALSE, !.muted = FALSE]
    <3>1. e \in NodeTypes /\ e.conn = NoConn /\ e.hist = rt[i].hist
      BY <1>1, <2>2 DEF ServerInv, ServerTypes, NodeTypes
    <3>2. rt' = [rt EXCEPT ![i] = e]
      BY <1>2, <2>2
    <3> HIDE DEF e
    <3> QED BY <1>1, <2>2, <3>1, <3>2 DEF ServerInv, ServerTypes
  <2> QED BY <2>1, <2>2
<1>7. ServerTypes'
  BY <1>2, <1>5, <1>6 DEF ServerInv, ServerTypes
<1>8. FloorTypes'
  BY <1>2, ReleaseIs DEF ServerInv, FloorTypes
<1>9. Owners'
  <2>1. i # 0 => cs[c].state = "auth" /\ rt[i].conn = c
    BY DEF ServerInv, Owners, i
  <2>2. \A j \in Slots : j # i => rt[j].conn # c
    BY <1>3, LinkWireAssumption, ReflectorAssumption DEF ServerInv, Owners, Connected, i, AllConns
  <2>3. \A d \in AllConns \ {c} : cs[d].idx # 0 => cs[d].idx # i
    BY <2>1 DEF ServerInv, Owners
  <2>4. cs'[c].state = "none" /\ cs'[c].idx = 0
    BY <1>5 DEF Unused
  <2>5. \A d \in AllConns \ {c} : cs[d].state = "auth" => rt'[cs[d].idx] = rt[cs[d].idx]
    BY <1>4, <1>6, <2>3 DEF ServerInv, Owners
  <2>6. \A d \in AllConns : cs'[d].state = "auth" => cs'[d].idx # 0 /\ rt'[cs'[d].idx].conn = d
    BY <1>5, <2>4, <2>5 DEF ServerInv, Owners
  <2>7. \A j \in Slots : rt'[j].conn # NoConn =>
          /\ rt'[j] = rt[j] /\ rt[j].conn \in AllConns \ {c}
          /\ cs'[rt[j].conn] = cs[rt[j].conn]
    <3>1. \A j \in Slots : j # 0
      BY ReflectorAssumption DEF Slots
    <3> QED BY <1>3, <1>5, <1>6, <2>1, <2>2, <3>1
  <2>8. \A j \in Slots : rt'[j].conn # NoConn =>
          cs'[rt'[j].conn].state = "auth" /\ cs'[rt'[j].conn].idx = j
    BY <2>7 DEF ServerInv, Owners, Connected
  <2> QED BY <1>5, <2>4, <2>6, <2>8 DEF ServerInv, Owners, Connected
<1>10. /\ ends' \in [Conns -> SUBSET {"client", "server", "dialling"}]
       /\ \A d \in Conns : ends'[d] = IF d = c THEN ends[d] \ {"server"} ELSE ends[d]
  BY <1>2 DEF WireTypes
<1>11. /\ toServer' \in [Conns -> Seq(ServerMessages)]
       /\ \A d \in Conns : toServer'[d] = IF d = c THEN <<>> ELSE toServer[d]
  <2>1. <<>> \in Seq(ServerMessages)
    OBVIOUS
  <2> HIDE DEF ServerMessages
  <2> QED BY <1>2, <2>1 DEF WireTypes
<1>12. WireTypes'
  BY <1>2, <1>10, <1>11 DEF WireTypes
<1>13. UNCHANGED <<g_ws, g_session_active, g_link_ptt_held, g_state, g_req_set_tg>>
  BY DEF linkVars, session, requests
<1>14. EndsMatch'
  <2>1. \A d \in Conns : d \in AllConns /\ (d # c => cs'[d] = cs[d])
    BY <1>5 DEF AllConns
  <2>2. cs'[c].state = "none"
    BY <1>5 DEF Unused
  <2> QED BY <1>2, <1>10, <1>11, <1>13, <2>1, <2>2 DEF ClientInv, EndsMatch
<1>15. WireCalm
  BY <1>2, <1>10, <1>11, EmptyCalm DEF WireCalm
<1>16. ClientTypes' /\ OneLogin' /\ SessionSettled'
  BY <1>13, <1>15, CalmKeeps DEF ClientInv, ClientTypes, SessionSettled
<1> QED BY <1>7, <1>8, <1>9, <1>12, <1>14, <1>16 DEF ClientInv, ServerInv

\* A connection that is accepted has no session and nothing on the wire, so
\* hello is the only token there is.
LEMMA SendHelloKeeps ==
  ASSUME WireTypes, ClientInv, ServerInv, NEW c \in Conns, send_hello(c), UNCHANGED linkVars
  PROVE  WireTypes' /\ ClientInv' /\ ServerInv'
<1> DEFINE e == [Unused EXCEPT !.state = "await"]
           s == <<Msg("ws_open", 0), Msg("hello", 0)>>
<1>1. /\ "dialling" \in ends[c] /\ ends' = [ends EXCEPT ![c] = {"client", "server"}]
      /\ cs' = [cs EXCEPT ![c] = e] /\ toClient' = [toClient EXCEPT ![c] = s]
      /\ UNCHANGED <<cfg, rt, talker, lapsed, rec, cut, toServer>>
  BY DEF send_hello
<1>2. e \in ConnTypes /\ e.state = "await" /\ e.idx = 0
  BY DEF ConnTypes, Unused
<1>3. s \in Seq(ClientMessages) /\ OneToken(s)
  BY HelloIsOne
<1> HIDE DEF e, s
<1>4. /\ "server" \notin ends[c] /\ toServer[c] = <<>> /\ cs[c].state = "none"
  BY <1>1 DEF ClientInv, EndsMatch
<1>5. c \in AllConns
  BY DEF AllConns
<1>6. ServerTypes' /\ FloorTypes'
  BY <1>1, <1>2, <1>5 DEF ServerInv, ServerTypes, FloorTypes
<1>7. /\ cs'[c] = e /\ \A d \in AllConns \ {c} : cs'[d] = cs[d]
  BY <1>1, <1>5 DEF ServerInv, ServerTypes
<1>8. Owners'
  <2>1. \A j \in Slots : rt[j].conn # NoConn => rt[j].conn \in AllConns \ {c}
    BY <1>4 DEF ServerInv, ServerTypes, NodeTypes, Owners, Connected
  <2> QED BY <1>1, <1>2, <1>4, <1>7, <2>1 DEF ServerInv, Owners, Connected
<1>9. WireTypes'
  BY <1>1, <1>3 DEF WireTypes
<1>10. UNCHANGED <<g_ws, g_session_active, g_link_ptt_held, g_state, g_req_set_tg>>
  BY DEF linkVars, session, requests
<1>11. EndsMatch'
  <2>1. \A d \in Conns : d \in AllConns
    BY DEF AllConns
  <2>2. "client" \in ends[c]
    BY <1>1 DEF ClientInv, EndsMatch
  <2> QED BY <1>1, <1>2, <1>4, <1>7, <1>10, <2>1, <2>2 DEF ClientInv, EndsMatch, WireTypes
<1>12. OneLogin' /\ SessionSettled'
  <2>1. \A d \in Conns \ {c} : UNCHANGED <<toClient[d], toServer[d], ends[d]>>
    BY <1>1 DEF WireTypes
  <2>2. OneToken(toClient'[c]) /\ NoToken(toServer'[c]) /\ "dialling" \notin ends'[c]
    BY <1>1, <1>3, <1>4, EmptyCalm DEF WireTypes
  <2>3. OneLogin'
    BY <1>1, <2>1, <2>2 DEF ClientInv, OneLogin
  <2>4. g_session_active => g_ws # c /\ g_ws \in Conns
    BY <1>1 DEF ClientInv, SessionSettled, ClientTypes
  <2> QED BY <1>10, <2>1, <2>3, <2>4 DEF ClientInv, SessionSettled
<1> QED BY <1>6, <1>8, <1>9, <1>10, <1>11, <1>12 DEF ClientInv, ClientTypes, ServerInv

\* Everything the reflector knows is gone; what was under way to the clients
\* may still arrive, with the announcement behind it.
LEMMA RestartKeeps ==
  ASSUME WireTypes, ClientInv, ServerInv, NEW announced \in BOOLEAN, Restart(announced),
         UNCHANGED linkVars
  PROVE  WireTypes' /\ ClientInv' /\ ServerInv'
<1> DEFINE m == Msg("reflector_shutdown", 0)
<1>1. m \in ClientMessages /\ ~LoginToken(m)
  BY PlainMessages
<1> HIDE DEF m
<1>2. <<>> \in Seq(ClientMessages) /\ <<>> \in Seq(ServerMessages) /\ <<>> \in Seq(BOOLEAN)
      /\ Len(<<>>) = 0
  OBVIOUS
<1>3. Unused \in ConnTypes /\ Unused.state = "none" /\ Unused.idx = 0
  BY DEF Unused, ConnTypes
<1>4. Offline \in NodeTypes /\ Offline.conn = NoConn /\ Len(Offline.hist) = 0
  BY <1>2, ReflectorAssumption DEF Offline, NodeTypes
<1>5. /\ cs' = [c \in AllConns |-> Unused] /\ rt' = [i \in Slots |-> Offline] /\ cfg' = cfg
      /\ talker' = [t \in Tgs |-> 0] /\ lapsed' = {} /\ rec' = [t \in Tgs |-> NoRec]
      /\ cut' = cut
  BY DEF Restart
<1>6. ServerInv'
  BY <1>3, <1>4, <1>5, ReflectorAssumption DEF ServerInv, ServerTypes, FloorTypes, Owners, Connected
<1>7. ASSUME NEW c \in Conns
      PROVE  /\ Append(toClient[c], m) \in Seq(ClientMessages)
             /\ Calmer(Append(toClient[c], m), toClient[c])
  BY <1>1, CalmerAppend DEF WireTypes
<1>8. /\ toClient' \in [Conns -> Seq(ClientMessages)]
      /\ \A c \in Conns : \/ toClient'[c] \in {<<>>, toClient[c]}
                          \/ "client" \in ends[c] /\ toClient'[c] = Append(toClient[c], m)
  BY <1>2, <1>7 DEF Restart, WireTypes, Arrives, m
<1>9. /\ toServer' = [c \in Conns |-> <<>>] /\ ends' = [c \in Conns |-> ends[c] \ {"server"}]
  BY DEF Restart
<1>10. WireTypes'
  BY <1>2, <1>5, <1>8, <1>9 DEF WireTypes
<1>11. UNCHANGED <<g_ws, g_session_active, g_link_ptt_held, g_state, g_req_set_tg>>
  BY DEF linkVars, session, requests
<1>12. EndsMatch'
  BY <1>3, <1>5, <1>8, <1>9, <1>11 DEF ClientInv, EndsMatch, AllConns
<1>13. WireCalm
  BY <1>7, <1>8, <1>9, EmptyCalm DEF WireCalm
<1>14. ClientTypes' /\ OneLogin' /\ SessionSettled'
  BY <1>11, <1>13, CalmKeeps DEF ClientInv, ClientTypes, SessionSettled
<1> QED BY <1>6, <1>10, <1>12, <1>14 DEF ClientInv

LEMMA CutKeeps ==
  ASSUME WireTypes, ClientInv, ServerInv, NEW c \in Conns, Cut(c), UNCHANGED <<linkVars, reflVars>>
  PROVE  WireTypes' /\ ClientInv' /\ ServerInv'
<1>1. <<>> \in Seq(ClientMessages) /\ <<>> \in Seq(ServerMessages)
  OBVIOUS
<1>2. /\ cut' = cut \cup {c} /\ ends' = [ends EXCEPT ![c] = @ \ {"dialling"}]
      /\ toClient' = [toClient EXCEPT ![c] = <<>>] /\ toServer' = [toServer EXCEPT ![c] = <<>>]
  BY DEF Cut
<1> HIDE DEF ClientMessages, ServerMessages
<1>3. WireTypes'
  BY <1>1, <1>2 DEF WireTypes
<1>4. UNCHANGED <<g_ws, g_session_active, g_link_ptt_held, g_state, g_req_set_tg>>
  BY DEF linkVars, session, requests
<1>5. EndsMatch'
  BY <1>2, <1>4 DEF ClientInv, EndsMatch, WireTypes, reflVars
<1>6. WireCalm
  BY <1>2, EmptyCalm DEF WireCalm, WireTypes
<1>7. ClientTypes' /\ OneLogin' /\ SessionSettled'
  BY <1>4, <1>6, CalmKeeps DEF ClientInv, ClientTypes, SessionSettled
<1>8. ServerInv'
  BY DEF reflVars, ServerInv, ServerTypes, FloorTypes, Owners, Connected
<1> QED BY <1>3, <1>5, <1>7, <1>8 DEF ClientInv

(* ------------------- the rest disturbs no session ----------------------- *)

LEMMA LiveIs ==
  ASSUME ServerInv, NEW i \in Live
  PROVE  i \in Slots /\ i # 0 /\ rt[i].conn \in AllConns /\ cfg.roster[i] \in Nodes
<1>1. cfg \in Rosters /\ i \in DOMAIN cfg.roster
  BY DEF ServerInv, ServerTypes, Live
<1>2. i \in Slots /\ i # 0 /\ cfg.roster[i] \in Nodes
  BY <1>1, RosterIs
<1> QED BY <1>2 DEF ServerInv, ServerTypes, Live, Connected, NodeTypes

LEMMA ReloadHandled ==
  ASSUME WireTypes, ServerInv, NEW conf \in Rosters, do_reload(conf)
  PROVE  Handled
<1> DEFINE id(i) == cfg.roster[i]
           gone  == {i \in Live : rcfg_node_idx(conf, id(i)) = 0}
           moved == {i \in Live \ gone : rt[i].tg \notin conf.allowed[id(i)]}
           kicked == {rt[i].conn : i \in gone}
           bye == Msg("kicked", "temporary")
           new == Msg("tg_changed", DefaultTg(conf, Self))
<1>1. bye \in ClientMessages /\ ~LoginToken(bye)
  BY PlainMessages
<1>2. new \in ClientMessages /\ ~LoginToken(new)
  <2>1. DefaultTg(conf, Self) \in Tgs \cup {0}
    BY RosterIs DEF Nodes
  <2> QED BY <2>1, PlainMessages
<1>3. \A i \in moved : i \in Slots /\ DefaultTg(conf, id(i)) \in Tgs \cup {0}
  BY LiveIs, RosterIs
<1>4. /\ cfg' = conf
      /\ rt' = [i \in Slots |-> IF i \in moved THEN [rt[i] EXCEPT !.tg = DefaultTg(conf, id(i))] ELSE rt[i]]
      /\ cs' = [c \in AllConns |-> IF c \in kicked THEN [cs[c] EXCEPT !.draining = TRUE] ELSE cs[c]]
      /\ toClient' = [c \in Conns |->
            IF ~Arrives(c, "client") THEN toClient[c]
            ELSE IF c \in kicked THEN Append(toClient[c], bye)
            ELSE IF \E i \in moved : rt[i].conn = c THEN Append(toClient[c], new) ELSE toClient[c]]
      /\ UNCHANGED <<talker, lapsed, rec>>
  BY DEF do_reload
<1> HIDE DEF kicked, moved, bye, new
<1>5. /\ cs' \in [AllConns -> ConnTypes]
      /\ \A d \in AllConns : cs'[d].state = cs[d].state /\ cs'[d].idx = cs[d].idx
  <2>1. \A d \in AllConns : cs[d] \in ConnTypes
    BY DEF ServerInv, ServerTypes
  <2>2. \A d \in AllConns : /\ cs'[d] \in ConnTypes
                            /\ cs'[d].state = cs[d].state /\ cs'[d].idx = cs[d].idx
    BY <1>4, <2>1 DEF ConnTypes
  <2> QED BY <1>4, <2>2
<1>6. /\ rt' \in [Slots -> NodeTypes]
      /\ \A i \in Slots : rt'[i].conn = rt[i].conn /\ rt'[i].hist = rt[i].hist
  <2>1. \A i \in Slots : rt[i] \in NodeTypes
    BY DEF ServerInv, ServerTypes
  <2>2. \A i \in Slots : /\ rt'[i] \in NodeTypes
                         /\ rt'[i].conn = rt[i].conn /\ rt'[i].hist = rt[i].hist
    BY <1>3, <1>4, <2>1 DEF NodeTypes
  <2> QED BY <1>4, <2>2
<1>7. ServerTypes' /\ FloorTypes' /\ SameSessions
  BY <1>4, <1>5, <1>6 DEF ServerInv, ServerTypes, FloorTypes, SameSessions
<1>8. \A c \in Conns, m \in ClientMessages :
        /\ Append(toClient[c], m) \in Seq(ClientMessages)
        /\ ~LoginToken(m) => Calmer(Append(toClient[c], m), toClient[c])
  BY CalmerAppend DEF WireTypes
<1>9. /\ toClient' \in [Conns -> Seq(ClientMessages)]
      /\ \A d \in Conns : \/ toClient'[d] = toClient[d]
                          \/ "client" \in ends[d] /\ Calmer(toClient'[d], toClient[d])
  <2>1. \A d \in Conns : toClient[d] \in Seq(ClientMessages)
    BY DEF WireTypes
  <2> QED BY <1>1, <1>2, <1>4, <1>8, <2>1 DEF Arrives
<1> QED BY <1>7, <1>9 DEF Handled

LEMMA PingHandled ==
  ASSUME WireTypes, ServerInv, NEW c \in AllConns, keepalive_ping(c)
  PROVE  Handled
<1>1. /\ cs' = [cs EXCEPT ![c].waiting_pong = TRUE] /\ Push(c, Msg("ping", 0))
      /\ UNCHANGED <<cfg, rt, talker, lapsed, rec>>
  BY DEF keepalive_ping
<1>2. /\ cs' \in [AllConns -> ConnTypes]
      /\ \A d \in AllConns : cs'[d].state = cs[d].state /\ cs'[d].idx = cs[d].idx
  <2> DEFINE e == [cs[c] EXCEPT !.waiting_pong = TRUE]
  <2>1. e \in ConnTypes /\ e.state = cs[c].state /\ e.idx = cs[c].idx
    BY DEF ServerInv, ServerTypes, ConnTypes
  <2>2. cs' = [cs EXCEPT ![c] = e]
    BY <1>1
  <2> HIDE DEF e
  <2> QED BY <2>1, <2>2 DEF ServerInv, ServerTypes
<1>3. ServerTypes' /\ FloorTypes' /\ SameSessions
  BY <1>1, <1>2 DEF ServerInv, ServerTypes, FloorTypes, SameSessions
<1> QED BY <1>1, <1>3, PushIs, PlainMessages DEF Handled

\* One field of one node is written.
LEMMA FieldIs ==
  ASSUME ServerInv, NEW i \in Slots, NEW x \in BOOLEAN, NEW k \in 0..AuthFailKick + 1,
         \/ rt' = [rt EXCEPT ![i].addr = x]
         \/ rt' = [rt EXCEPT ![i].muted = x]
         \/ rt' = [rt EXCEPT ![i].fails = k]
  PROVE  /\ rt' \in [Slots -> NodeTypes]
         /\ \A j \in Slots : rt'[j].conn = rt[j].conn /\ Len(rt'[j].hist) <= LOSS_HIST_LEN
<1>1. PICK e : /\ rt' = [rt EXCEPT ![i] = e]
               /\ \/ e = [rt[i] EXCEPT !.addr = x]
                  \/ e = [rt[i] EXCEPT !.muted = x]
                  \/ e = [rt[i] EXCEPT !.fails = k]
  OBVIOUS
<1>2. rt[i] \in NodeTypes
  BY DEF ServerInv, ServerTypes
<1>3. e \in NodeTypes /\ e.conn = rt[i].conn /\ e.hist = rt[i].hist
  BY <1>1, <1>2 DEF NodeTypes
<1> QED BY <1>1, <1>3 DEF ServerInv, ServerTypes

LEMMA PacketHandled ==
  ASSUME WireTypes, ServerInv, NEW i \in Slots, audio_drain_udp(i)
  PROVE  Handled
<1>1. i \in Live /\ UNCHANGED <<cfg, cs, wireVars>>
  BY DEF audio_drain_udp
<1>2. rt' = [rt EXCEPT ![i].addr = TRUE]
  BY DEF audio_drain_udp, floor_try_grant
<1>3. ServerTypes' /\ SameSessions
  <2>1. 0 \in 0..AuthFailKick + 1
    BY ReflectorAssumption
  <2> QED BY <1>1, <1>2, <2>1, FieldIs, NodeHandled
<1>4. FloorTypes'
  <2>1. CASE UNCHANGED <<talker, lapsed, rec>>
    BY <2>1 DEF FloorTypes, ServerInv
  <2>2. CASE floor_try_grant(rt[i].tg, i)
    <3> DEFINE t == rt[i].tg
    <3>1. /\ talker' = [talker EXCEPT ![t] = i] /\ lapsed' = lapsed \ {t}
          /\ \/ rec' = rec
             \/ \E r \in {cfg.roster[i], NoRec} : rec' = [rec EXCEPT ![t] = r]
      BY <2>2 DEF floor_try_grant
    <3>2. cfg.roster[i] \in Nodes
      BY <1>1, LiveIs
    <3> QED BY <3>1, <3>2 DEF FloorTypes, ServerInv
  <2> QED BY <2>1, <2>2 DEF audio_drain_udp
<1> QED BY <1>1, <1>3, <1>4 DEF Handled, WireTypes, wireVars

LEMMA AuthFailsHandled ==
  ASSUME WireTypes, ServerInv, NEW i \in Slots, AuthFails(i)
  PROVE  Handled
<1> DEFINE k == IF rt[i].fails > AuthFailKick THEN rt[i].fails ELSE rt[i].fails + 1
           m == Msg("kicked", "temporary")
<1>1. i \in Live /\ UNCHANGED <<cfg, talker, lapsed, rec>>
      /\ rt' = [rt EXCEPT ![i].fails = k]
  BY DEF AuthFails
<1>2. k \in 0..AuthFailKick + 1
  <2>1. rt[i].fails \in 0..AuthFailKick + 1
    BY DEF ServerInv, ServerTypes, NodeTypes
  <2> QED BY <2>1, ReflectorAssumption
<1> HIDE DEF k
<1>3. m \in ClientMessages /\ ~LoginToken(m)
  BY PlainMessages
<1>4. \/ cs' = Drain(rt[i].conn) /\ Push(rt[i].conn, m)
      \/ UNCHANGED <<cs, toClient>>
  BY DEF AuthFails
<1> HIDE DEF m
<1>5. ServerTypes' /\ SameSessions
  BY <1>1, <1>2, <1>4, FieldIs, NodeHandled, LiveIs
<1>6. FloorTypes'
  BY <1>1 DEF FloorTypes, ServerInv
<1> QED BY <1>3, <1>4, <1>5, <1>6, PushIs DEF Handled, WireTypes

LEMMA MuteHandled ==
  ASSUME WireTypes, ServerInv, NEW i \in Slots, NEW on \in BOOLEAN, admin_mute(i, on)
  PROVE  Handled
<1>1. PICK m \in ClientMessages : ~LoginToken(m) /\ Push(rt[i].conn, m)
  BY PlainMessages DEF admin_mute
<1>2. rt' = [rt EXCEPT ![i].muted = on] /\ UNCHANGED <<cfg, cs, talker, lapsed, rec>>
  BY DEF admin_mute
<1>3. 0 \in 0..AuthFailKick + 1
  BY ReflectorAssumption
<1>4. ServerTypes' /\ SameSessions
  BY <1>2, <1>3, FieldIs, NodeHandled
<1>5. FloorTypes'
  BY <1>2 DEF FloorTypes, ServerInv
<1> QED BY <1>1, <1>4, <1>5, PushIs DEF Handled

LEMMA FloorHandled ==
  ASSUME WireTypes, ServerInv, UNCHANGED <<cfg, rt, cs, wireVars>>,
         \/ \E ts : floor_release(ts)
         \/ UNCHANGED <<talker, rec>> /\ lapsed' \subseteq Tgs
  PROVE  Handled
<1>1. FloorTypes'
  BY ReleaseIs DEF ServerInv, FloorTypes
<1>2. ServerTypes' /\ SameSessions
  BY DEF ServerInv, ServerTypes, SameSessions
<1> QED BY <1>1, <1>2 DEF Handled, WireTypes, wireVars
-----------------------------------------------------------------------------
(* The composition.                                                        *)

LEMMA InitNetInv == Init => NetInv
<1> SUFFICES ASSUME Init PROVE NetInv
  OBVIOUS
<1> USE DEF Init, WireInit, LinkInit, ReflInit
<1>1. <<>> \in Seq(ClientMessages) /\ <<>> \in Seq(ServerMessages) /\ <<>> \in Seq(BOOLEAN)
      /\ Len(<<>>) = 0
  OBVIOUS
<1>2. WireTypes
  BY <1>1 DEF WireTypes
<1>3. Unused \in ConnTypes /\ Unused.state = "none" /\ Unused.idx = 0
  BY DEF Unused, ConnTypes
<1>4. Offline \in NodeTypes /\ Offline.conn = NoConn /\ Len(Offline.hist) = 0
  BY <1>1, ReflectorAssumption DEF Offline, NodeTypes
<1>5. ServerInv
  BY <1>3, <1>4, ReflectorAssumption DEF ServerInv, ServerTypes, FloorTypes, Owners, Connected
<1>6. ClientTypes /\ SessionSettled
  BY DEF ClientTypes, SessionSettled, LinkStates
<1>7. EndsMatch
  BY <1>3, LinkWireAssumption DEF EndsMatch, AllConns
<1>8. OneLogin
  BY EmptyCalm DEF OneLogin, NoToken, OneToken
<1> QED BY <1>2, <1>5, <1>6, <1>7, <1>8 DEF NetInv, ClientInv

LEMMA ServerKeeps ==
  ASSUME NetInv, ServerStep
  PROVE  NetInv'
<1> USE DEF NetInv
<1>0. UNCHANGED linkVars /\ Conns \subseteq AllConns
  BY DEF ServerStep, AllConns
<1>1. ASSUME NEW c \in Conns, handle_message(c) PROVE NetInv'
  BY <1>0, <1>1, MessageKeeps
<1>2. ASSUME NEW c \in Conns, send_hello(c) PROVE NetInv'
  BY <1>0, <1>2, SendHelloKeeps
<1>3. ASSUME NEW c \in AllConns, Closes(c) \/ Forgotten(c) \/ keepalive_close(c) PROVE NetInv'
  BY <1>0, <1>3, OnCloseKeeps DEF Closes, Forgotten, keepalive_close
<1>4. ASSUME NEW c \in Conns, keepalive_ping(c) PROVE NetInv'
  BY <1>0, <1>4, PingHandled, HandledKeeps DEF keepalive_ping
<1>5. CASE floor_tick
  BY <1>0, <1>5, FloorHandled, HandledKeeps DEF floor_tick, wireVars
<1> QED BY <1>0, <1>1, <1>2, <1>3, <1>4, <1>5 DEF ServerStep

LEMMA OutsideServerKeeps ==
  ASSUME NetInv, OutsideServer
  PROVE  NetInv'
<1> USE DEF NetInv
<1>0. UNCHANGED linkVars /\ Conns \subseteq AllConns /\ Peers \subseteq AllConns
  BY DEF OutsideServer, AllConns
<1>1. ASSUME NEW p \in Peers, PeerLogin(p) PROVE NetInv'
  <2>1. WireTypes'
    BY <1>1 DEF PeerLogin, WireTypes, wireVars
  <2> QED BY <1>0, <1>1, <2>1, PeerLoginKeeps
<1>2. ASSUME NEW p \in Peers, PeerSetsTg(p) PROVE NetInv'
  BY <1>0, <1>2, SetTgHandled, HandledKeeps DEF PeerSetsTg
<1>3. ASSUME NEW c \in AllConns, PeerLeaves(c) \/ keepalive_close(c) PROVE NetInv'
  BY <1>0, <1>3, OnCloseKeeps DEF PeerLeaves, keepalive_close
<1>4. ASSUME NEW i \in Slots, admin_kick(i) PROVE NetInv'
  <2>1. Handled
    BY <1>4, DrainHandled, PlainMessages DEF admin_kick
  <2> QED BY <1>0, <1>4, <2>1, HandledKeeps DEF admin_kick
<1>5. ASSUME NEW i \in Slots, AuthFails(i) PROVE NetInv'
  BY <1>0, <1>5, AuthFailsHandled, HandledKeeps DEF AuthFails
<1>6. ASSUME NEW i \in Slots, NEW on \in BOOLEAN, admin_mute(i, on) PROVE NetInv'
  BY <1>0, <1>6, MuteHandled, HandledKeeps DEF admin_mute
<1>7. ASSUME NEW t \in Tgs, admin_release_floor(t) PROVE NetInv'
  BY <1>0, <1>7, FloorHandled, HandledKeeps DEF admin_release_floor, wireVars
<1>8. ASSUME NEW conf \in Rosters, do_reload(conf) PROVE NetInv'
  BY <1>0, <1>8, ReloadHandled, HandledKeeps DEF do_reload
<1>9. ASSUME NEW announced \in BOOLEAN, Restart(announced) PROVE NetInv'
  BY <1>0, <1>9, RestartKeeps
<1> QED BY <1>0, <1>1, <1>2, <1>3, <1>4, <1>5, <1>6, <1>7, <1>8, <1>9 DEF OutsideServer

LEMMA NextNetInv ==
  ASSUME NetInv, [Next]_netVars
  PROVE  NetInv'
<1>1. CASE ClientStep \/ Audio \/ OutsideClient
  <2>1. ClientActions /\ UNCHANGED reflVars
    BY <1>1 DEF ClientStep, Audio, OutsideClient, ClientActions
  <2>2. ServerInv'
    BY <2>1 DEF reflVars, NetInv, ServerInv, ServerTypes, FloorTypes, Owners, Connected
  <2> QED BY <2>1, <2>2, ClientKeeps DEF NetInv
<1>2. CASE ServerStep
  BY <1>2, ServerKeeps
<1>3. CASE NodesTalk
  <2>1. UNCHANGED linkVars
    BY <1>3 DEF NodesTalk
  <2>2. CASE LeaseLapses
    <3>1. Handled
      BY <2>2, FloorHandled DEF LeaseLapses, NetInv, ServerInv, FloorTypes
    <3> QED BY <2>1, <2>2, <3>1, HandledKeeps DEF LeaseLapses, NetInv, wireVars
  <2>3. ASSUME NEW i \in Slots, audio_drain_udp(i) PROVE NetInv'
    BY <2>1, <2>3, PacketHandled, HandledKeeps DEF audio_drain_udp, NetInv, wireVars
  <2> QED BY <1>3, <2>2, <2>3 DEF NodesTalk
<1>4. CASE OutsideServer
  BY <1>4, OutsideServerKeeps
<1>5. CASE Fault
  BY <1>5, CutKeeps DEF Fault, NetInv
<1>6. CASE UNCHANGED netVars
  BY <1>6 DEF netVars, linkVars, session, requests, wireVars, reflVars, NetInv, ClientInv,
     WireTypes, ClientTypes, EndsMatch, OneLogin, SessionSettled, ServerInv, ServerTypes, FloorTypes, Owners,
     Connected, NoToken, OneToken, LoginToken
<1> QED BY <1>1, <1>2, <1>3, <1>4, <1>5, <1>6 DEF Next, Outside
-----------------------------------------------------------------------------
(* The floor.                                                              *)

\* A reload keeps every node at its position: without that rt, and the floors
\* in it, change their owner (see RuntimeIsOwn).
PositionsStay == \A a, b \in Rosters : a.roster = b.roster

LEMMA FloorsStay ==
  ASSUME NetInv, FloorSane, cfg'.roster = cfg.roster,
         \A i \in Slots : Connected(i) => Connected(i)',
         \/ UNCHANGED <<talker, rec>> /\ \A t \in lapsed' : t \in lapsed \/ talker[t] # 0
         \/ \E ts : floor_release(ts)
  PROVE  FloorSane'
<1>1. talker \in [Tgs -> Slots \cup {0}]
  BY DEF NetInv, ServerInv, FloorTypes
<1>2. CASE UNCHANGED <<talker, rec>> /\ \A t \in lapsed' : t \in lapsed \/ talker[t] # 0
  BY <1>1, <1>2 DEF FloorSane
<1>3. ASSUME NEW ts, floor_release(ts) PROVE FloorSane'
  BY <1>1, <1>3 DEF FloorSane, floor_release
<1> QED BY <1>2, <1>3

\* Who goes gives up every floor, also those of talkgroups he has left.
LEMMA CloseFloors ==
  ASSUME NetInv, FloorSane, NEW c \in AllConns, OnClose(c)
  PROVE  FloorSane'
<1> DEFINE i == cs[c].idx
           ts == {t \in Tgs : talker[t] = i}
<1>1. CASE i = 0
  BY <1>1, FloorsStay DEF OnClose, Connected
<1>2. CASE i # 0
  <2>1. talker \in [Tgs -> Slots \cup {0}] /\ i \in Slots
    BY <1>2 DEF NetInv, ServerInv, ServerTypes, FloorTypes, ConnTypes
  <2>2. /\ floor_release(ts) /\ cfg' = cfg
        /\ rt' = [rt EXCEPT ![i].conn = NoConn, ![i].addr = FALSE, ![i].muted = FALSE]
    BY <1>2 DEF OnClose
  <2>3. \A j \in Slots : j # i => rt'[j] = rt[j]
    BY <2>1, <2>2 DEF NetInv, ServerInv, ServerTypes
  <2> HIDE DEF i
  <2> QED BY <2>1, <2>2, <2>3 DEF FloorSane, floor_release, Connected
<1> QED BY <1>1, <1>2

\* The floor goes to a node that is there, and the recording with it.
LEMMA GrantFloors ==
  ASSUME NetInv, FloorSane, NEW i \in Slots, audio_drain_udp(i)
  PROVE  FloorSane'
<1>1. i \in Live /\ cfg' = cfg /\ rt' = [rt EXCEPT ![i].addr = TRUE]
  BY DEF audio_drain_udp, floor_try_grant
<1>2. \A j \in Slots : rt'[j].conn = rt[j].conn
  BY <1>1 DEF NetInv, ServerInv, ServerTypes, NodeTypes
<1>3. CASE UNCHANGED <<talker, lapsed, rec>>
  BY <1>1, <1>2, <1>3, FloorsStay DEF Connected
<1>4. CASE floor_try_grant(rt[i].tg, i)
  <2> DEFINE t == rt[i].tg
  <2>1. /\ talker' = [talker EXCEPT ![t] = i] /\ lapsed' = lapsed \ {t}
        /\ \/ talker[t] = i /\ rec' = rec
           \/ \E r \in {cfg.roster[i], NoRec} : rec' = [rec EXCEPT ![t] = r]
    BY <1>4 DEF floor_try_grant
  <2>2. Connected(i) /\ i # 0
    BY <1>1, LiveIs DEF Live, NetInv
  <2>3. talker \in [Tgs -> Slots \cup {0}] /\ rec \in [Tgs -> Nodes \cup {NoRec}]
    BY DEF NetInv, ServerInv, FloorTypes
  <2> HIDE DEF t
  <2> QED BY <1>1, <1>2, <2>1, <2>2, <2>3 DEF FloorSane, Connected
<1> QED BY <1>3, <1>4 DEF audio_drain_udp

LEMMA SetTgFloors ==
  ASSUME NetInv, FloorSane, NEW c \in AllConns, cs[c].state = "auth", NEW tg, handle_set_tg(c, tg)
  PROVE  FloorSane'
<1>1. SameSessions /\ cfg' = cfg
  BY SetTgHandled DEF NetInv, Handled, handle_set_tg
<1>2. \/ UNCHANGED <<talker, rec, lapsed>>
      \/ \E ts : floor_release(ts)
  BY DEF handle_set_tg
<1> QED BY <1>1, <1>2, FloorsStay DEF SameSessions, Connected

LEMMA MessageFloors ==
  ASSUME NetInv, FloorSane, NEW c \in Conns, handle_message(c)
  PROVE  FloorSane'
<1> DEFINE msg == Head(toServer[c])
<1>0. c \in AllConns
  BY DEF AllConns
<1>1. msg.type \in {"login", "pong", "set_tg", "quality"}
      /\ (msg.type = "quality" => msg.arg \in BOOLEAN)
  <2>1. toServer[c] \in Seq(ServerMessages) /\ toServer[c] # <<>>
    BY DEF NetInv, WireTypes, handle_message
  <2>2. msg \in ServerMessages
    BY <2>1
  <2> QED BY <2>2 DEF ServerMessages, Bare
<1>2. CASE msg.type = "set_tg" /\ cs[c].state = "auth"
  <2>1. handle_set_tg(c, msg.arg)
    BY <1>2 DEF handle_message
  <2> QED BY <1>0, <1>2, <2>1, SetTgFloors
<1>3. CASE ~(msg.type = "set_tg" /\ cs[c].state = "auth")
  <2>1. UNCHANGED <<cfg, talker, rec, lapsed>>
    BY <1>1, <1>3 DEF handle_message, handle_login, send_login_denied, handle_quality
  <2>2. \A i \in Slots : rt[i].conn # NoConn => rt'[i].conn # NoConn
    <3>1. CASE UNCHANGED rt
      BY <3>1
    <3>2. CASE handle_login(c, Self) /\ cs[c].state = "await" /\ Refusal(Self) = "none"
      <4> DEFINE i == rcfg_node_idx(cfg, Self)
                 tg == DefaultTg(cfg, Self)
      <4>1. i \in Slots /\ tg \in Tgs \cup {0}
        BY <3>2, RefusalNone DEF NetInv
      <4>2. rt' = [rt EXCEPT ![i] = [@ EXCEPT !.conn = c, !.tg = tg, !.addr = FALSE, !.hist = <<>>]]
        BY <3>2 DEF handle_login
      <4> HIDE DEF i, tg
      <4> QED BY <1>0, <4>1, <4>2, EntryIs, LinkWireAssumption DEF NetInv
    <3>3. CASE cs[c].state = "auth" /\ handle_quality(c, msg.arg) /\ msg.type = "quality"
      BY <1>0, <1>1, <3>3, QualityHandled DEF NetInv, Handled, SameSessions
    <3> QED BY <1>1, <1>3, <3>1, <3>2, <3>3
        DEF handle_message, handle_login, send_login_denied
  <2> QED BY <2>1, <2>2, FloorsStay DEF Connected
<1> QED BY <1>2, <1>3

LEMMA ServerFloors ==
  ASSUME NetInv, FloorSane, ServerStep \/ NodesTalk
  PROVE  FloorSane'
<1>0. Conns \subseteq AllConns
  BY DEF AllConns
<1>1. ASSUME NEW c \in Conns, handle_message(c) PROVE FloorSane'
  BY <1>1, MessageFloors
<1>2. ASSUME NEW c \in Conns, send_hello(c) \/ keepalive_ping(c) PROVE FloorSane'
  BY <1>2, FloorsStay DEF send_hello, keepalive_ping, Connected
<1>3. ASSUME NEW c \in AllConns, Closes(c) \/ Forgotten(c) \/ keepalive_close(c) PROVE FloorSane'
  BY <1>3, CloseFloors DEF Closes, Forgotten, keepalive_close
<1>4. CASE floor_tick
  BY <1>4, FloorsStay DEF floor_tick, Connected
<1>5. CASE LeaseLapses
  BY <1>5, FloorsStay DEF LeaseLapses, Connected
<1>6. ASSUME NEW i \in Slots, audio_drain_udp(i) PROVE FloorSane'
  BY <1>6, GrantFloors
<1> QED BY <1>0, <1>1, <1>2, <1>3, <1>4, <1>5, <1>6 DEF ServerStep, NodesTalk

LEMMA OutsideFloors ==
  ASSUME PositionsStay, NetInv, FloorSane, OutsideServer
  PROVE  FloorSane'
<1>0. Conns \subseteq AllConns /\ Peers \subseteq AllConns
  BY DEF AllConns
<1>1. ASSUME NEW p \in Peers, PeerLogin(p) PROVE FloorSane'
  <2> DEFINE i == rcfg_node_idx(cfg, p)
             tg == DefaultTg(cfg, p)
  <2>1. i \in Slots /\ tg \in Tgs \cup {0}
    BY <1>1, RefusalNone DEF NetInv, PeerLogin
  <2>2. /\ rt' = [rt EXCEPT ![i] = [@ EXCEPT !.conn = p, !.tg = tg, !.addr = FALSE, !.hist = <<>>]]
        /\ UNCHANGED <<cfg, talker, lapsed, rec>>
    BY <1>1 DEF PeerLogin
  <2> HIDE DEF i, tg
  <2>3. \A j \in Slots : rt[j].conn # NoConn => rt'[j].conn # NoConn
    BY <1>0, <2>1, <2>2, EntryIs, ReflectorAssumption DEF NetInv
  <2> QED BY <2>2, <2>3, FloorsStay DEF Connected
<1>2. ASSUME NEW p \in Peers, PeerSetsTg(p) PROVE FloorSane'
  BY <1>0, <1>2, SetTgFloors DEF PeerSetsTg
<1>3. ASSUME NEW c \in AllConns, PeerLeaves(c) \/ keepalive_close(c) PROVE FloorSane'
  BY <1>3, CloseFloors DEF PeerLeaves, keepalive_close
<1>4. ASSUME NEW i \in Slots, admin_kick(i) PROVE FloorSane'
  BY <1>4, FloorsStay DEF admin_kick, Connected
<1>5. ASSUME NEW i \in Slots, AuthFails(i) PROVE FloorSane'
  <2>1. SameSessions
    BY <1>5, AuthFailsHandled DEF NetInv, Handled
  <2> QED BY <1>5, <2>1, FloorsStay DEF AuthFails, SameSessions, Connected
<1>6. ASSUME NEW i \in Slots, NEW on \in BOOLEAN, admin_mute(i, on) PROVE FloorSane'
  <2>1. SameSessions
    BY <1>6, MuteHandled DEF NetInv, Handled
  <2> QED BY <1>6, <2>1, FloorsStay DEF admin_mute, SameSessions, Connected
<1>7. ASSUME NEW t \in Tgs, admin_release_floor(t) PROVE FloorSane'
  BY <1>7, FloorsStay DEF admin_release_floor, Connected
<1>8. ASSUME NEW conf \in Rosters, do_reload(conf) PROVE FloorSane'
  <2>1. SameSessions
    BY <1>8, ReloadHandled DEF NetInv, Handled
  <2>2. cfg'.roster = cfg.roster /\ UNCHANGED <<talker, lapsed, rec>>
    BY <1>8 DEF do_reload, PositionsStay, NetInv, ServerInv, ServerTypes
  <2> QED BY <2>1, <2>2, FloorsStay DEF SameSessions, Connected
<1>9. ASSUME NEW announced \in BOOLEAN, Restart(announced) PROVE FloorSane'
  BY <1>9 DEF Restart, FloorSane
<1> QED BY <1>0, <1>1, <1>2, <1>3, <1>4, <1>5, <1>6, <1>7, <1>8, <1>9 DEF OutsideServer

LEMMA NextFloors ==
  ASSUME PositionsStay, NetInv, FloorSane, [Next]_netVars
  PROVE  FloorSane'
<1>1. CASE ServerStep \/ NodesTalk
  BY <1>1, ServerFloors
<1>2. CASE OutsideServer
  BY <1>2, OutsideFloors
<1>3. CASE UNCHANGED reflVars
  BY <1>3, FloorsStay DEF reflVars, Connected
<1> QED BY <1>1, <1>2, <1>3
    DEF Next, Outside, ClientStep, Audio, OutsideClient, Fault, netVars
-----------------------------------------------------------------------------
(* The theorems.                                                           *)

LEMMA AlwaysNetInv == Spec => []NetInv
<1>1. Init => NetInv
  BY InitNetInv
<1>2. NetInv /\ [Next]_netVars => NetInv'
  BY NextNetInv
<1> QED BY <1>1, <1>2, PTL DEF Spec

\* A roster position is on the air for one connection at a time, the one that
\* logged in for it, whatever reconnects, closes late, is cut or is reloaded.
THEOREM PositionsHaveOneOwner == Spec => []SessionOwner
<1>1. NetInv => SessionOwner
  BY DEF NetInv, ServerInv, Owners, SessionOwner
<1> QED BY <1>1, AlwaysNetInv, PTL

\* The transmitter is never held for a link whose session is gone: every way
\* out of a session gives PTT back, and no login can fail within one.
THEOREM HeldPttHasSession == Spec => []PttNeedsSession
<1>1. NetInv => PttNeedsSession
  BY DEF NetInv, ClientInv, SessionSettled, PttNeedsSession
<1> QED BY <1>1, AlwaysNetInv, PTL

\* While reloads keep the positions: nobody holds the floor after he has gone,
\* and a recording is of the node that has the floor.
THEOREM ReflectorStaysSane == ASSUME PositionsStay PROVE Spec => []ReflectorIsSane
<1>1. Init => FloorSane
  BY DEF Init, ReflInit, FloorSane
<1>2. NetInv /\ FloorSane /\ [Next]_netVars => FloorSane'
  BY NextFloors
<1>3. NetInv /\ FloorSane => ReflectorIsSane
  <2> SUFFICES ASSUME NetInv, FloorSane PROVE LinkTypeOK
    BY DEF ReflectorIsSane
  <2> QED BY DEF NetInv, ClientInv, ClientTypes, WireTypes, ServerInv, ServerTypes, FloorTypes,
                 NodeTypes, LinkTypeOK
<1> QED BY <1>1, <1>2, <1>3, AlwaysNetInv, PTL DEF Spec

\* STOPPED is left on an operator's word or by a new configuration only, once
\* what was sent to the node has been read.  Which words the code obeys is
\* narrower: <1>1 shows that of the commands only clear-alarm leaves it.
THEOREM StoppedStaysStopped == Spec => RefusalIsFinal
<1>1. NetInv /\ [Next]_netVars =>
        (g_state = "STOPPED" /\ g_state' # "STOPPED" /\ (g_ws = NoConn \/ toClient[g_ws] = <<>>)
           => g_req_clear_alarm \/ g_state' = "DISABLED")
  <2> SUFFICES ASSUME NetInv, [Next]_netVars, g_state = "STOPPED", g_state' # "STOPPED",
                      g_ws = NoConn \/ toClient[g_ws] = <<>>
               PROVE  g_req_clear_alarm \/ g_state' = "DISABLED"
    OBVIOUS
  <2>1. ~on_ws_msg
    BY DEF on_ws_msg, ws_open, on_hello, on_login_ok, on_login_denied, on_kicked,
           on_reflector_shutdown, on_mute, on_tg, on_ping, Reads
  <2>2. g_state' # g_state
    OBVIOUS
  <2>3. ClientStep \/ Audio \/ OutsideClient
    BY <2>2 DEF Next, Outside, ServerStep, NodesTalk, OutsideServer, Fault, netVars, linkVars
  <2> QED BY <2>1, <2>2, <2>3
      DEF ClientStep, LinkThread, Connect, ReconnectIsDue, OnWsClose, ClearAlarm, Reconnect,
          SendSetTg, Sends, Audio, play_decoded_frame, AudioEnds, OutsideClient, Request,
          configure_, unload_load_, send_quality_report
<1>2. NetInv /\ [Next]_netVars =>
        (g_state = "STOPPED" /\ g_state' # "STOPPED" /\ (g_ws = NoConn \/ toClient[g_ws] = <<>>)
           => g_req_clear_alarm \/ g_req_reconnect \/ g_state' = "DISABLED")
  BY <1>1
<1> QED BY <1>2, AlwaysNetInv, PTL DEF Spec, RefusalIsFinal
=============================================================================
