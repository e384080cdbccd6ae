-------------------------------- MODULE Web --------------------------------
(***************************************************************************)
(* mod_web: one thread serves every connection (ev_handler): event streams *)
(* (tag E for the administrator, P for the public) and audio sockets, one  *)
(* of which may hold PTT.  Every thread publishes: a status is kept as the *)
(* snapshot a new stream begins with, and it and every event are handed to *)
(* the web thread through the wakeup pipe.  The command and user requests  *)
(* are in Directory; ws_handle_auth decides nothing here, because only     *)
(* sockets of the administrator, authenticated when opened, get that far.  *)
(***************************************************************************)
EXTENDS Integers, Sequences, FiniteSets

CONSTANTS WebConns, WS_RING_SLOTS,
          MaxWebInputs,    \* bound: connections, messages, events, frames, reconfigurations
          MaxPipe          \* wakeups the pipe holds

VARIABLES server,          \* "up", "stopping" (web_unload has begun), "off"
          g_ptt_enabled, g_public_only,
          web_conns,       \* [kind, admin, ptt_held, told, heard] of each connection
          g_ptt_holder, g_sse_count, g_ws_audio_count, web_taps,
          g_ws_ring,       \* audio frames for the listeners
          pipe,
          snapshot,        \* the number of the status g_sse_snaps holds
          composed,        \* statuses composed so far
          publishing,      \* what each thread is publishing
          opening,         \* the stream that was counted and has not got its snapshot
          unsure,          \* history: see ListenersAreCurrent
          web_inputs

connVars == <<web_conns, g_ptt_holder, g_sse_count, g_ws_audio_count, web_taps, opening>>
pubVars == <<pipe, snapshot, composed, publishing, unsure>>
setVars == <<server, g_ptt_enabled, g_public_only>>
webVars == <<setVars, connVars, pubVars, g_ws_ring, web_inputs>>

WebThreads == {"main", "web"}      \* "main": any other thread
NoConn == "none"

ASSUME WebAssumption == IsFiniteSet(WebConns) /\ NoConn \notin WebConns

Closed == [kind |-> "none", admin |-> FALSE, ptt_held |-> FALSE, told |-> 0, heard |-> {}]
Quiet == [at |-> "none", n |-> 0, scope |-> "P"]

WebInit ==
    /\ server = "up" /\ g_ptt_enabled \in BOOLEAN /\ g_public_only \in BOOLEAN
    /\ web_conns = [c \in WebConns |-> Closed] /\ g_ptt_holder = NoConn
    /\ g_sse_count = 0 /\ g_ws_audio_count = 0 /\ web_taps = FALSE /\ opening = NoConn
    /\ g_ws_ring = 0 /\ pipe = <<>> /\ snapshot = 1 /\ composed = 1
    /\ publishing = [t \in WebThreads |-> Quiet] /\ unsure = FALSE
    /\ web_inputs = 0

WebInput == web_inputs < MaxWebInputs /\ web_inputs' = web_inputs + 1
Serving == server # "off" /\ opening = NoConn /\ publishing["web"] = Quiet

(* ------------------------------ publishing ------------------------------ *)

(* Mutant: the listeners are told before the snapshot is kept.               *)
PublishOrder_TellsFirst == <<"tell", "store", "line">>
PublishOrder == <<"store", "tell", "line">>
After(at) == LET k == CHOOSE i \in 1..3 : PublishOrder[i] = at IN PublishOrder[k + 1]

\* publish_status_snapshot reads the state; sse_publish_impl keeps it, then looks
\* whether anyone listens.  `scope` is that of the event line that follows.
Publishes(t, scope) ==
    /\ publishing[t] = Quiet
    /\ composed' = composed + 1
    /\ publishing' = [publishing EXCEPT ![t] = [at |-> PublishOrder[1], n |-> composed', scope |-> scope]]
    /\ unsure' = (\E o \in WebThreads \ {t} : publishing[o].at \in {"store", "tell"})
    /\ UNCHANGED <<pipe, snapshot>>

Stores(t) ==
    /\ publishing[t].at = "store"
    /\ snapshot' = publishing[t].n
    /\ publishing' = [publishing EXCEPT ![t].at = After("store")]
    /\ UNCHANGED <<setVars, connVars, pipe, composed, unsure, g_ws_ring, web_inputs>>

\* mg_wakeup: the pipe does not block, what it has no room for is dropped.
PipeRoom == Len(pipe) < MaxPipe
Wake(scope, n) == pipe' = Append(pipe, [scope |-> scope, n |-> n])

sse_publish_impl(t) ==
    /\ publishing[t].at = "tell"
    /\ IF g_sse_count > 0 /\ PipeRoom
       THEN Wake("P", publishing[t].n) /\ UNCHANGED unsure
       ELSE /\ unsure' = (unsure \/ g_sse_count > 0 \/ \E k \in DOMAIN pipe : pipe[k].n > 0)
            /\ UNCHANGED pipe
    /\ publishing' = [publishing EXCEPT ![t].at = After("tell")]
    /\ UNCHANGED <<setVars, connVars, snapshot, composed, g_ws_ring, web_inputs>>

\* web_event_handler: the line of the event, for the public or the administrator.
EventLine(t) ==
    /\ publishing[t].at = "line"
    /\ IF g_sse_count > 0 /\ publishing[t].scope # "none" /\ PipeRoom
       THEN Wake(publishing[t].scope, 0) ELSE UNCHANGED pipe
    /\ publishing' = [publishing EXCEPT ![t] = Quiet]
    /\ UNCHANGED <<setVars, connVars, snapshot, composed, unsure, g_ws_ring, web_inputs>>

web_event_handler ==
    /\ server = "up" /\ WebInput
    /\ \/ Publishes("main", "P")                       \* carrier, PTT, queue, state changes
       \/ /\ publishing["main"] = Quiet                \* the other events
          /\ \E scope \in {"P", "E"} :
                publishing' = [publishing EXCEPT !["main"] = [at |-> "line", n |-> 0, scope |-> scope]]
          /\ UNCHANGED <<pipe, snapshot, composed, unsure>>
    /\ UNCHANGED <<setVars, connVars, g_ws_ring>>

(* --------------------------- streams of events -------------------------- *)

\* /api/events for everyone, /admin/api/events past the list, the mode and the password.
StreamOpens(c) ==
    /\ Serving /\ web_conns[c].kind = "none" /\ WebInput
    /\ \E kind \in IF g_public_only THEN {"P"} ELSE {"P", "E"} :
          web_conns' = [web_conns EXCEPT ![c] = [Closed EXCEPT !.kind = kind]]
    /\ g_sse_count' = g_sse_count + 1 /\ opening' = c
    /\ UNCHANGED <<setVars, pubVars, g_ptt_holder, g_ws_audio_count, web_taps, g_ws_ring>>

emit_snapshot_burst ==
    /\ opening # NoConn
    /\ web_conns' = [web_conns EXCEPT ![opening].told = snapshot]
    /\ opening' = NoConn
    /\ UNCHANGED <<setVars, pubVars, g_ptt_holder, g_sse_count, g_ws_audio_count, web_taps, g_ws_ring, web_inputs>>

Wakeup ==
    /\ Serving /\ pipe # <<>> /\ pipe' = Tail(pipe)
    /\ LET w == Head(pipe) IN
       IF w.scope = "A"
       THEN /\ g_ws_ring' = (IF g_ws_audio_count > 0 THEN 0 ELSE g_ws_ring)     \* ws_flush_ring
            /\ UNCHANGED web_conns
       ELSE /\ web_conns' = [c \in WebConns |-> LET s == web_conns[c] IN
                    IF s.kind = "E" \/ (s.kind = "P" /\ w.scope = "P")
                    THEN [s EXCEPT !.told = IF w.n > 0 THEN w.n ELSE @, !.heard = @ \cup {w.scope}]
                    ELSE s]
            /\ UNCHANGED g_ws_ring
    /\ UNCHANGED <<setVars, g_ptt_holder, g_sse_count, g_ws_audio_count, web_taps, opening,
                   snapshot, composed, publishing, unsure, web_inputs>>

(* ------------------------------ audio sockets --------------------------- *)

SocketOpens(c) ==
    /\ Serving /\ web_conns[c].kind = "none" /\ WebInput
    /\ \E admin \in IF g_public_only THEN {FALSE} ELSE BOOLEAN :
          web_conns' = [web_conns EXCEPT ![c] = [Closed EXCEPT !.kind = "W", !.admin = admin]]
    /\ g_ws_audio_count' = g_ws_audio_count + 1
    /\ web_taps' = (web_taps \/ g_ws_audio_count = 0)
    /\ Publishes("web", "none")
    /\ UNCHANGED <<setVars, g_ptt_holder, g_sse_count, opening, g_ws_ring>>

\* VCOR_ASSERT and VCOR_DROP come out of the handlers as events of the public.
VcorLine ==
    /\ publishing' = [publishing EXCEPT !["web"] = [at |-> "line", n |-> 0, scope |-> "P"]]
    /\ UNCHANGED <<pipe, snapshot, composed, unsure>>

ws_handle_ptt_on(c) ==
    /\ Serving /\ web_conns[c].kind = "W" /\ web_conns[c].admin /\ WebInput
    /\ g_ptt_enabled /\ ~web_conns[c].ptt_held /\ g_ptt_holder = NoConn
    /\ g_ptt_holder' = c /\ web_conns' = [web_conns EXCEPT ![c].ptt_held = TRUE]
    /\ VcorLine
    /\ UNCHANGED <<setVars, g_sse_count, g_ws_audio_count, web_taps, opening, g_ws_ring>>

ws_handle_ptt_off(c) ==
    /\ Serving /\ web_conns[c].ptt_held /\ WebInput
    /\ web_conns' = [web_conns EXCEPT ![c].ptt_held = FALSE]
    /\ g_ptt_holder' = (IF g_ptt_holder = c THEN NoConn ELSE g_ptt_holder)
    /\ VcorLine
    /\ UNCHANGED <<setVars, g_sse_count, g_ws_audio_count, web_taps, opening, g_ws_ring>>

ws_ring_push ==
    /\ server # "off" /\ web_taps /\ g_ws_audio_count > 0 /\ g_ws_ring < WS_RING_SLOTS - 1
    /\ WebInput /\ g_ws_ring' = g_ws_ring + 1
    /\ UNCHANGED <<setVars, connVars, pubVars>>

\* Every 5 ms while there is something to flush, whether or not the pipe
\* still holds the wakeup before.
audio_ws_thread ==
    /\ server = "up" /\ g_ws_audio_count > 0 /\ g_ws_ring > 0
    /\ PipeRoom /\ Wake("A", 0)
    /\ UNCHANGED <<setVars, connVars, snapshot, composed, publishing, unsure, g_ws_ring, web_inputs>>

(* -------------------------------- the end ------------------------------- *)

\* A socket that held PTT gives the transmitter free; VCOR_DROP is not fired.
Closes(c) ==
    /\ Serving /\ web_conns[c].kind # "none"
    /\ web_conns' = [web_conns EXCEPT ![c] = Closed]
    /\ g_ptt_holder' = (IF web_conns[c].ptt_held /\ g_ptt_holder = c THEN NoConn ELSE g_ptt_holder)
    /\ IF web_conns[c].kind = "W"
       THEN /\ g_ws_audio_count' = g_ws_audio_count - 1
            /\ web_taps' = (web_taps /\ g_ws_audio_count # 1)
            /\ Publishes("web", "none")
            /\ UNCHANGED g_sse_count
       ELSE /\ g_sse_count' = g_sse_count - 1
            /\ UNCHANGED <<pubVars, g_ws_audio_count, web_taps>>
    /\ UNCHANGED <<setVars, opening, g_ws_ring, web_inputs>>

\* A server that runs keeps its listener and its connections.
web_configure ==
    /\ server = "up" /\ WebInput
    /\ g_ptt_enabled' \in BOOLEAN /\ g_public_only' \in BOOLEAN
    /\ UNCHANGED <<server, connVars, pubVars, g_ws_ring>>

web_unload ==
    /\ server = "up" /\ WebInput /\ server' = "stopping"
    /\ UNCHANGED <<g_ptt_enabled, g_public_only, connVars, pubVars, g_ws_ring>>

\* The threads are joined, the connections closed and the object removed.
web_unloaded ==
    /\ server = "stopping" /\ Serving /\ publishing["main"] = Quiet
    /\ server' = "off"
    /\ web_conns' = [c \in WebConns |-> Closed] /\ g_ptt_holder' = NoConn
    /\ g_sse_count' = 0 /\ g_ws_audio_count' = 0 /\ web_taps' = FALSE
    /\ g_ws_ring' = 0 /\ pipe' = <<>> /\ snapshot' = 0 /\ unsure' = FALSE
    /\ UNCHANGED <<g_ptt_enabled, g_public_only, opening, composed, publishing, web_inputs>>

web_load ==
    /\ server = "off" /\ WebInput /\ server' = "up"
    /\ g_ptt_enabled' \in BOOLEAN /\ g_public_only' \in BOOLEAN
    /\ composed' = composed + 1 /\ snapshot' = composed'
    /\ UNCHANGED <<connVars, pipe, publishing, unsure, g_ws_ring>>

WebNext ==
    \/ web_event_handler
    \/ \E t \in WebThreads : Stores(t) \/ sse_publish_impl(t) \/ EventLine(t)
    \/ \E c \in WebConns : \/ StreamOpens(c) \/ SocketOpens(c) \/ Closes(c)
                           \/ ws_handle_ptt_on(c) \/ ws_handle_ptt_off(c)
    \/ emit_snapshot_burst \/ Wakeup \/ ws_ring_push \/ audio_ws_thread
    \/ web_configure \/ web_unload \/ web_unloaded \/ web_load

WebSpec == WebInit /\ [][WebNext]_webVars
(***************************************************************************)
(* When nothing is on its way, every open stream has read the newest status *)
(* last, although it may have opened between any two steps of a publisher.  *)
(* Three things the code does break this and are left out, until the next   *)
(* status is published (`unsure`): two threads publishing at once, a status *)
(* nobody was told of overtaken in the pipe by an older one for streams     *)
(* that have closed, and a status that found the pipe full and was dropped  *)
(* (mod_web.c:3279-3284).                                                   *)
(***************************************************************************)
ListenersAreCurrent ==
    (/\ server = "up" /\ ~unsure /\ opening = NoConn
     /\ \A t \in WebThreads : publishing[t] = Quiet
     /\ \A k \in DOMAIN pipe : pipe[k].n = 0)
    => \A c \in WebConns : web_conns[c].kind \in {"E", "P"} => web_conns[c].told = snapshot

(***************************************************************************)
(* One socket has PTT, it is open, and it is the one that says so: a holder *)
(* that outlived its connection would keep everyone else from transmitting. *)
(* The taps are registered while somebody listens, and what is meant for    *)
(* the administrator reaches no stream of the public.                       *)
(***************************************************************************)
ConnectionsAreCounted ==
    /\ \A c \in WebConns : web_conns[c].ptt_held <=> g_ptt_holder = c
    /\ g_sse_count = Cardinality({c \in WebConns : web_conns[c].kind \in {"E", "P"}})
    /\ g_ws_audio_count = Cardinality({c \in WebConns : web_conns[c].kind = "W"})
    /\ web_taps <=> g_ws_audio_count > 0
    /\ \A c \in WebConns : web_conns[c].kind = "P" => "E" \notin web_conns[c].heard

\* The two together: what a browser is promised.
StreamsAreServed == ListenersAreCurrent /\ ConnectionsAreCounted
============================================================================
