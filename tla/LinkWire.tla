------------------------------ MODULE LinkWire ------------------------------
(***************************************************************************)
(* The WebSocket connections between one mod_link client and reflectd.     *)
(* TCP keeps the order and loses nothing until the connection ends.  When  *)
(* one end closes, the other notices after it has read what was sent       *)
(* before; a connection that is cut loses what is in flight, and each end  *)
(* finds out on its own, the reflector by its keepalive.                   *)
(***************************************************************************)
EXTENDS Naturals, Sequences, FiniteSets

CONSTANTS Conns,        \* identities of connections; they are used again
          NoConn,
          MaxInFlight   \* bound: messages in flight in one direction

ASSUME LinkWireAssumption == NoConn \notin Conns /\ MaxInFlight \in Nat \ {0, 1}

VARIABLES ends,         \* ends[c]: who holds c, "dialling" until it is accepted
          cut,          \* the connections the network has lost
          toClient,     \* toClient[c]: sent and not yet read by the client
          toServer

wireVars == <<ends, cut, toClient, toServer>>

WireInit ==
    /\ ends = [c \in Conns |-> {}]
    /\ cut = {}
    /\ toClient = [c \in Conns |-> <<>>]
    /\ toServer = [c \in Conns |-> <<>>]

\* Bound: an end produces nothing on its own while this much is unread.
RoomToServer(c) == Len(toServer[c]) < MaxInFlight
RoomToClient(c) == Len(toClient[c]) < MaxInFlight

Arrives(c, receiver) == c \notin cut /\ receiver \in ends[c]

\* The names of free connections are interchangeable: one of them is taken.
Dial(c) ==
    /\ ends[c] = {} /\ c = CHOOSE d \in Conns : ends[d] = {}
    /\ ends' = [ends EXCEPT ![c] = {"client", "dialling"}]
    /\ cut' = cut \ {c}
    /\ UNCHANGED <<toClient, toServer>>

(* The client's end of c goes; what it had sent may not have left yet.      *)
ClientHangsUp(c) ==
    /\ ends' = [ends EXCEPT ![c] = @ \ {"client", "dialling"}]
    /\ toClient' = [toClient EXCEPT ![c] = <<>>]
    /\ \/ UNCHANGED toServer
       \/ toServer' = [toServer EXCEPT ![c] = <<>>]
    /\ UNCHANGED cut

\* When an end sees that the other has gone.
ClientSeesClose(c) == \/ c \in cut
                      \/ ends[c] = {"client"} /\ toClient[c] = <<>>
ServerSeesClose(c) == c \notin cut /\ ends[c] = {"server"} /\ toServer[c] = <<>>

(* The network loses the connection.                                       *)
Cut(c) ==
    /\ c \notin cut /\ ends[c] # {}
    /\ cut' = cut \cup {c}
    /\ ends' = [ends EXCEPT ![c] = @ \ {"dialling"}]
    /\ toClient' = [toClient EXCEPT ![c] = <<>>]
    /\ toServer' = [toServer EXCEPT ![c] = <<>>]
=============================================================================
