------------------------------ MODULE Gateways ------------------------------
(***************************************************************************)
(* mod_zello and mod_poc: the radio is bridged with an Internet channel    *)
(* and with the telephones of a push-to-talk server.  A talker on the far  *)
(* side holds a PTT reference (and a virtual carrier, which goes with it)  *)
(* for as long as it talks.  libzello runs on a service thread, libpoc     *)
(* from a 10 ms timer; both are external.                                  *)
(***************************************************************************)
EXTENDS Integers

CONSTANTS PocUsers, PocGroups,
          RfGroup,              \* rf_bridge_group
          NoUser,
          MaxGwInputs           \* bound: carriers, talks, reloads, disconnections

VARIABLES gw_carrier, gw_inputs,
          z_cli,            \* g_cli and its service thread exist
          z_online,         \* zello_client_state is ONLINE
          z_stream,         \* the channel carries a stream
          z_tx,             \* the client transmits
          z_to_rf, z_rx_active, z_rf_active,
          z_wav,            \* "zello wav" blocks the main loop
          z_ptt,            \* references "zello" holds
          p_srv, p_floor,   \* who talks in each group of the server
          p_rf_active, p_ptt_active, p_speaker,
          p_ptt,
          z_orphans, p_orphans  \* history: references whose talker was forgotten

zVars == <<z_cli, z_online, z_stream, z_tx, z_to_rf, z_rx_active, z_rf_active, z_wav, z_ptt, z_orphans>>
pVars == <<p_srv, p_floor, p_rf_active, p_ptt_active, p_speaker, p_ptt, p_orphans>>
gwVars == <<gw_carrier, gw_inputs, zVars, pVars>>

GwInit ==
    /\ gw_carrier = FALSE /\ gw_inputs = 0
    /\ z_cli = TRUE /\ z_online = FALSE /\ z_stream = FALSE /\ z_tx = FALSE /\ z_to_rf \in BOOLEAN
    /\ z_rx_active = FALSE /\ z_rf_active = FALSE /\ z_wav = FALSE /\ z_ptt = 0 /\ z_orphans = 0
    /\ p_srv = TRUE /\ p_floor = [g \in PocGroups |-> NoUser]
    /\ p_rf_active = FALSE /\ p_ptt_active = FALSE /\ p_speaker = NoUser /\ p_ptt = 0 /\ p_orphans = 0

GwInput == gw_inputs < MaxGwInputs /\ gw_inputs' = gw_inputs + 1
MainLoop == ~z_wav

(* ------------------------- mod_zello, its thread ------------------------ *)

on_zello_connected ==
    /\ z_cli /\ ~z_online /\ z_online' = TRUE
    /\ UNCHANGED <<gw_carrier, gw_inputs, pVars, z_cli, z_stream, z_tx, z_to_rf, z_rx_active, z_rf_active,
                   z_wav, z_ptt, z_orphans>>

on_zello_stream_start ==
    /\ GwInput /\ z_cli /\ z_online /\ ~z_stream /\ z_stream' = TRUE
    /\ z_rx_active' = (z_to_rf \/ z_rx_active)
    /\ z_ptt' = IF z_to_rf THEN z_ptt + 1 ELSE z_ptt
    /\ UNCHANGED <<gw_carrier, pVars, z_cli, z_online, z_tx, z_to_rf, z_rf_active, z_wav, z_orphans>>

(* Mutant: the end of any stream gives the reference back.                  *)
TalkEnds_Always == z_rx_active' = FALSE /\ z_ptt' = z_ptt - 1

\* What the end of the talk gives back, shared by the stop and the disconnection.
TalkEnds == z_rx_active' = FALSE /\ z_ptt' = IF z_rx_active THEN z_ptt - 1 ELSE z_ptt

on_zello_stream_stop ==
    /\ z_cli /\ z_stream /\ z_stream' = FALSE /\ TalkEnds
    /\ UNCHANGED <<gw_carrier, gw_inputs, pVars, z_cli, z_online, z_tx, z_to_rf, z_rf_active, z_wav, z_orphans>>

\* A lost connection, or "zello disconnect": the client's transmission ends.
on_zello_disconnected ==
    /\ GwInput /\ z_cli /\ z_online /\ z_online' = FALSE
    /\ z_stream' = FALSE /\ z_tx' = FALSE /\ TalkEnds
    /\ UNCHANGED <<gw_carrier, pVars, z_cli, z_to_rf, z_rf_active, z_wav, z_orphans>>

\* zello_client_stop reports the disconnection, or the thread ends first:
\* then the reference of a talk has nobody left who would release it.
ZelloTeardown ==
    \/ TalkEnds /\ UNCHANGED z_orphans
    \/ /\ z_rx_active' = FALSE /\ UNCHANGED z_ptt
       /\ z_orphans' = IF z_rx_active THEN z_orphans + 1 ELSE z_orphans

\* teardown_client, then a new client unless the module is off or the client
\* or its thread cannot be had.  A section without a user name or a channel
\* returns before the teardown and changes nothing.
zello_configure == \E on, to_rf \in BOOLEAN :
    /\ GwInput /\ MainLoop /\ ZelloTeardown
    /\ z_cli' = on /\ z_to_rf' = to_rf
    /\ z_online' = FALSE /\ z_stream' = FALSE /\ z_tx' = FALSE /\ z_rf_active' = FALSE
    /\ UNCHANGED <<gw_carrier, pVars, z_wav>>

\* "zello wav": while a file is streamed the main loop sees no carrier.
wav_starts ==
    /\ GwInput /\ MainLoop /\ z_cli /\ z_online /\ ~z_rf_active
    /\ z_wav' = TRUE /\ z_tx' = TRUE
    /\ UNCHANGED <<gw_carrier, pVars, z_cli, z_online, z_stream, z_to_rf, z_rx_active, z_rf_active, z_ptt,
                   z_orphans>>
wav_ends ==
    /\ z_wav /\ z_wav' = FALSE /\ z_tx' = FALSE
    /\ UNCHANGED <<gw_carrier, gw_inputs, pVars, z_cli, z_online, z_stream, z_to_rf, z_rx_active, z_rf_active,
                   z_ptt, z_orphans>>

(* -------------------------------- mod_poc ------------------------------- *)

Talker(u) == {g \in PocGroups : p_floor[g] = u}

\* Refused only in the bridged group and under a carrier.  A talk in another
\* group keys the repeater too, and takes the place of the present talker.
poc_on_ptt_request == \E u \in PocUsers, g \in PocGroups :
    /\ GwInput /\ MainLoop /\ p_srv /\ p_floor[g] = NoUser /\ Talker(u) = {}
    /\ ~(g = RfGroup /\ p_rf_active)
    /\ p_floor' = [p_floor EXCEPT ![g] = u]
    /\ p_ptt_active' = TRUE /\ p_speaker' = u /\ p_ptt' = p_ptt + 1
    /\ p_orphans' = IF p_ptt_active THEN p_orphans + 1 ELSE p_orphans
    /\ UNCHANGED <<gw_carrier, zVars, p_srv, p_rf_active>>

\* Only the end of the last talker's talk gives a reference back.
poc_on_ptt_end == \E g \in PocGroups :
    /\ MainLoop /\ p_srv /\ p_floor[g] # NoUser
    /\ p_floor' = [p_floor EXCEPT ![g] = NoUser]
    /\ IF p_floor[g] = p_speaker
       THEN p_ptt_active' = FALSE /\ p_speaker' = NoUser /\ p_ptt' = p_ptt - 1
       ELSE UNCHANGED <<p_ptt_active, p_speaker, p_ptt>>
    /\ UNCHANGED <<gw_carrier, gw_inputs, zVars, p_srv, p_rf_active, p_orphans>>

\* A telephone that is gone is forgotten, its reference is not released.
poc_on_disconnect == \E u \in PocUsers :
    /\ GwInput /\ MainLoop /\ p_srv
    /\ p_floor' = [g \in PocGroups |-> IF p_floor[g] = u THEN NoUser ELSE p_floor[g]]
    /\ IF u = p_speaker
       THEN p_ptt_active' = FALSE /\ p_speaker' = NoUser /\ p_orphans' = p_orphans + 1
       ELSE UNCHANGED <<p_ptt_active, p_speaker, p_orphans>>
    /\ UNCHANGED <<gw_carrier, zVars, p_srv, p_rf_active, p_ptt>>

\* The server is destroyed and, unless the module is off or the server cannot
\* be had, a new one is created; nothing is released and nothing forgotten.
poc_configure == \E on \in BOOLEAN :
    /\ GwInput /\ MainLoop /\ p_srv' = on /\ p_floor' = [g \in PocGroups |-> NoUser]
    /\ UNCHANGED <<gw_carrier, zVars, p_rf_active, p_ptt_active, p_speaker, p_ptt, p_orphans>>

\* Without a server neither the start nor the end of a carrier is seen.
poc_on_cor_assert == p_rf_active' = (p_srv \/ p_rf_active)
poc_on_cor_drop == p_rf_active' = (p_rf_active /\ ~p_srv)

(* ------------------------------- the radio ------------------------------ *)

RadioKeys ==
    /\ GwInput /\ MainLoop /\ ~gw_carrier /\ gw_carrier' = TRUE
    /\ \/ z_cli /\ z_online /\ z_rf_active' = TRUE /\ z_tx' = TRUE
       \/ UNCHANGED <<z_rf_active, z_tx>>      \* offline, rf_to_zello off, refused
    /\ poc_on_cor_assert
    /\ UNCHANGED <<z_cli, z_online, z_stream, z_to_rf, z_rx_active, z_wav, z_ptt, z_orphans, p_srv, p_floor,
                   p_ptt_active, p_speaker, p_ptt, p_orphans>>

RadioUnkeys ==
    /\ MainLoop /\ gw_carrier /\ gw_carrier' = FALSE
    /\ IF z_rf_active /\ z_cli THEN z_rf_active' = FALSE /\ z_tx' = FALSE ELSE UNCHANGED <<z_rf_active, z_tx>>
    /\ poc_on_cor_drop
    /\ UNCHANGED <<gw_inputs, z_cli, z_online, z_stream, z_to_rf, z_rx_active, z_wav, z_ptt, z_orphans, p_srv,
                   p_floor, p_ptt_active, p_speaker, p_ptt, p_orphans>>

GwNext == \/ on_zello_connected \/ on_zello_stream_start \/ on_zello_stream_stop \/ on_zello_disconnected
          \/ zello_configure \/ wav_starts \/ wav_ends
          \/ poc_on_ptt_request \/ poc_on_ptt_end \/ poc_on_disconnect \/ poc_configure
          \/ RadioKeys \/ RadioUnkeys

GwSpec == GwInit /\ [][GwNext]_gwVars
-----------------------------------------------------------------------------
(* Each gateway holds one PTT reference for its talker, and beyond it only  *)
(* those of talkers the code forgets (a client torn down or a telephone     *)
(* lost during a talk, a second talker): a reference is never given back    *)
(* twice, nor by a stream that took none.  What the radio sends to a        *)
(* channel ends with its carrier (mod_zello, mod_poc).                      *)
TalkersHoldTheirPtt ==
    /\ z_ptt = z_orphans + (IF z_rx_active THEN 1 ELSE 0)
    /\ p_ptt = p_orphans + (IF p_ptt_active THEN 1 ELSE 0)
    /\ z_rf_active => gw_carrier
    /\ z_tx => z_online /\ (z_rf_active \/ z_wav)
=============================================================================
