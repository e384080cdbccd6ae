--------------------------- MODULE ControlSocket ---------------------------
(***************************************************************************)
(* kerchunk_socket: the clients of the control socket.  The main thread    *)
(* accepts them, reads their commands and writes the responses; log lines  *)
(* and events are broadcast by whichever thread they occur on, between any *)
(* two of its writes.  A far end reads what it is sent: a line that does   *)
(* not fit its socket buffer (write_all gives up) is not modelled.         *)
(***************************************************************************)
EXTENDS Naturals, Sequences, FiniteSets, SequencesExt

CONSTANTS SockClients, MAX_CLIENTS, EVT_RING_SIZE,
          MaxRows,         \* bound: rows of a response
          MaxSaid,         \* bound: log lines and events
          MaxSockInputs    \* bound: connections and commands

VARIABLES g_clients,       \* the slots
          main_pc,         \* the command the main thread is in
          peer,            \* what each far end has: [link, reading, torn, seen, sent]
          said,            \* log lines and events so far
          sock_inputs

sockVars == <<g_clients, main_pc, peer, said, sock_inputs>>

NoClient == "none"
ASSUME SockAssumption == /\ NoClient \notin SockClients /\ MAX_CLIENTS \in Nat
                         /\ EVT_RING_SIZE \in Nat /\ EVT_RING_SIZE >= 2

Levels == {6, 7}                   \* KERCHUNK_LOG_INFO, KERCHUNK_LOG_DEBUG
Slots == 1..MAX_CLIENTS
Polling == [at |-> "poll", slot |-> 0, rows |-> 0]

init_slot == [client |-> NoClient, subscribed |-> FALSE, subscribe_level |-> 6,
              in_response |-> FALSE, json_events |-> FALSE, evt_ring |-> <<>>]
Out == [link |-> "out", reading |-> FALSE, torn |-> FALSE, seen |-> <<>>, sent |-> {}]

SockInit ==
    /\ g_clients = [i \in Slots |-> init_slot]
    /\ main_pc = Polling
    /\ peer = [c \in SockClients |-> Out]
    /\ said = 0 /\ sock_inputs = 0

SockInput == sock_inputs < MaxSockInputs /\ sock_inputs' = sock_inputs + 1

(* ------------------- the lines a far end reads -------------------------- *)

\* `torn`: an event line came between the lines of a response.
ReadsRow(p) == [p EXCEPT !.reading = TRUE]
ReadsEnd(p) == [p EXCEPT !.reading = FALSE]
ReadsEvents(p, lines) ==
    [p EXCEPT !.seen = @ \o lines, !.torn = @ \/ (p.reading /\ lines # <<>>)]

(* ------------------------------ responses ------------------------------- *)

begin_response(i, rows) ==
    /\ g_clients' = [g_clients EXCEPT ![i].in_response = TRUE]
    /\ main_pc' = [at |-> "rows", slot |-> i, rows |-> rows]

Row ==
    /\ main_pc.at = "rows" /\ main_pc.rows > 0
    /\ peer' = [peer EXCEPT ![g_clients[main_pc.slot].client] = ReadsRow(@)]
    /\ main_pc' = [main_pc EXCEPT !.rows = @ - 1]
    /\ UNCHANGED <<g_clients, said, sock_inputs>>

EndMark ==
    /\ main_pc.at = "rows" /\ main_pc.rows = 0
    /\ peer' = [peer EXCEPT ![g_clients[main_pc.slot].client] = ReadsEnd(@)]
    /\ main_pc' = [main_pc EXCEPT !.at = "flush"]
    /\ UNCHANGED <<g_clients, said, sock_inputs>>

end_response ==
    /\ main_pc.at = "flush"
    /\ LET i == main_pc.slot IN
       /\ peer' = [peer EXCEPT ![g_clients[i].client] = ReadsEvents(@, g_clients[i].evt_ring)]
       /\ g_clients' = [g_clients EXCEPT ![i].in_response = FALSE, ![i].evt_ring = <<>>]
    /\ main_pc' = Polling
    /\ UNCHANGED <<said, sock_inputs>>

(* ------------------------------ commands -------------------------------- *)

\* A list (commands, completions, users, modules, sounds) or a dispatched command.
handle_command(i) ==
    \E rows \in 0..MaxRows : begin_response(i, rows) /\ UNCHANGED <<peer, said>>

\* The flags are changed under the lock, the "." is written after it.
Flags(i, slot) ==
    /\ g_clients' = [g_clients EXCEPT ![i] = slot]
    /\ main_pc' = [at |-> "ack", slot |-> i, rows |-> 0]
    /\ UNCHANGED <<peer, said>>
handle_meta_subscribe(i) ==
    \E level \in Levels :
        Flags(i, [g_clients[i] EXCEPT !.subscribed = TRUE, !.subscribe_level = level])
handle_meta_unsubscribe(i) == Flags(i, [g_clients[i] EXCEPT !.subscribed = FALSE])
handle_json_events(i) ==
    Flags(i, [g_clients[i] EXCEPT !.subscribed = TRUE, !.subscribe_level = 7, !.json_events = TRUE])

Ack ==
    /\ main_pc.at = "ack"
    /\ peer' = [peer EXCEPT ![g_clients[main_pc.slot].client] = ReadsEnd(@)]
    /\ main_pc' = Polling
    /\ UNCHANGED <<g_clients, said, sock_inputs>>

(* --------------------- kerchunk_socket_poll ----------------------------- *)

FreeClients == {i \in Slots : g_clients[i].client = NoClient}

Accepts(c) ==
    /\ main_pc = Polling /\ peer[c].link = "out" /\ SockInput
    /\ IF FreeClients = {}
       THEN UNCHANGED <<g_clients, peer>>          \* "Server busy"
       ELSE LET i == CHOOSE f \in FreeClients : \A o \in FreeClients : f <= o IN
            /\ g_clients' = [g_clients EXCEPT ![i] = [init_slot EXCEPT !.client = c]]
            /\ peer' = [peer EXCEPT ![c].link = "in"]
    /\ UNCHANGED <<main_pc, said>>

HangsUp(c) ==
    /\ peer[c].link = "in"
    /\ peer' = [peer EXCEPT ![c].link = "gone"]
    /\ UNCHANGED <<g_clients, main_pc, said, sock_inputs>>

Reads(i) ==
    /\ main_pc = Polling /\ g_clients[i].client # NoClient
    /\ peer[g_clients[i].client].link = "in" /\ SockInput
    /\ \/ handle_command(i)
       \/ handle_meta_subscribe(i)
       \/ handle_meta_unsubscribe(i)
       \/ handle_json_events(i)

SockCloses(i) ==
    /\ main_pc = Polling /\ g_clients[i].client # NoClient
    /\ peer[g_clients[i].client].link = "gone"
    /\ g_clients' = [g_clients EXCEPT ![i] = init_slot]
    /\ peer' = [peer EXCEPT ![g_clients[i].client] = Out]
    /\ UNCHANGED <<main_pc, said, sock_inputs>>

\* The main loop has ended: every connection is closed.
kerchunk_socket_shutdown ==
    /\ main_pc = Polling
    /\ main_pc' = [Polling EXCEPT !.at = "off"]
    /\ g_clients' = [i \in Slots |-> init_slot]
    /\ peer' = [c \in SockClients |-> Out]
    /\ UNCHANGED <<said, sock_inputs>>

(* ------------------------------ broadcasts ------------------------------ *)

(* Mutant: a full ring refuses the new line.                                *)
Deferred_Refuses(ring, line) ==
    IF Len(ring) = EVT_RING_SIZE - 1 THEN ring ELSE Append(ring, line)

\* The ring holds EVT_RING_SIZE - 1 lines; the oldest makes room.
Deferred(ring, line) ==
    IF Len(ring) = EVT_RING_SIZE - 1 THEN Append(Tail(ring), line) ELSE Append(ring, line)

Hears(p, line, deferred) ==
    LET q == [p EXCEPT !.sent = @ \cup {line}] IN IF deferred THEN q ELSE ReadsEvents(q, <<line>>)

\* to: the slots a line is for.
Broadcast(to) ==
    /\ said < MaxSaid /\ said' = said + 1
    /\ g_clients' = [i \in Slots |-> LET c == g_clients[i] IN
                        IF i \in to /\ c.in_response
                        THEN [c EXCEPT !.evt_ring = Deferred(@, said + 1)] ELSE c]
    /\ peer' = [c \in SockClients |->
                   IF \E i \in to : g_clients[i].client = c
                   THEN LET i == CHOOSE s \in to : g_clients[s].client = c
                        IN Hears(peer[c], said + 1, g_clients[i].in_response)
                   ELSE peer[c]]
    /\ UNCHANGED <<main_pc, sock_inputs>>

InUse == {i \in Slots : g_clients[i].client # NoClient}
kerchunk_socket_broadcast_log ==
    \E level \in Levels :
        Broadcast({i \in InUse : LET c == g_clients[i] IN
                      c.subscribed /\ level <= c.subscribe_level /\ ~c.json_events})
kerchunk_socket_broadcast_event == Broadcast({i \in InUse : g_clients[i].json_events})

SockNext ==
    \/ Row \/ EndMark \/ end_response \/ Ack
    \/ \E c \in SockClients : Accepts(c) \/ HangsUp(c)
    \/ \E i \in Slots : Reads(i) \/ SockCloses(i)
    \/ kerchunk_socket_shutdown
    \/ kerchunk_socket_broadcast_log
    \/ kerchunk_socket_broadcast_event

SockSpec == SockInit /\ [][SockNext]_sockVars

(***************************************************************************)
(* Every client reads its own lines: no event inside a response, events in *)
(* the order of their occurrence and none of the slot's former client; and *)
(* one is missing only when a whole ring of younger ones came after it.    *)
(***************************************************************************)
LinesAreWhole ==
    \A c \in SockClients : LET p == peer[c] IN
        /\ ~p.torn
        /\ \A k \in 1..(Len(p.seen) - 1) : p.seen[k] < p.seen[k + 1]
        /\ ToSet(p.seen) \subseteq p.sent
        /\ \A n \in p.sent :
               \/ n \in ToSet(p.seen)
               \/ \E i \in Slots : g_clients[i].client = c /\ n \in ToSet(g_clients[i].evt_ring)
               \/ Cardinality({k \in p.sent : k > n}) >= EVT_RING_SIZE - 1
============================================================================
