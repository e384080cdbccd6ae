---------------------------- MODULE JitterBuffer ----------------------------
(***************************************************************************)
(* The receive path of mod_link: RTP packets as the reflector renumbered   *)
(* them, lost and reordered by the network; the jitter buffer, a ring by   *)
(* sequence number; playout at one frame per 60 ms; the PTT that received  *)
(* audio holds; the loss count of the quality report.  Time is counted in  *)
(* frames.                                                                 *)
(***************************************************************************)
EXTENDS Naturals, Integers, FiniteSets

CONSTANTS JB_SLOTS, JB_PLC_MAX,
          SeqWrap,       \* 2^16 in the code; as there, SeqWrap % JB_SLOTS = 1
          FarSeq,       \* 200: a jump this far is another sender
          FirstSeq,     \* audio_node_create starts anywhere
          TargetFrames, \* jb_target_ms
          TailFrames,   \* link_tail_ms
          MaxLag,       \* bound: frames by which the thread may be late
          MaxPackets    \* bound: packets sent in a behaviour

VARIABLES jb_sent,      \* packets audio_node_send_to has sent
          jb_net,       \* those on their way, by their place in the stream
          jb_slot,      \* g_jb: the sequence number in each slot, or Empty
          jb_initialized, jb_cursor,
          jb_wait,      \* frames until g_jb_next_play_ms; it may be overdue
          jb_consec_miss,
          jb_ptt,       \* g_link_ptt_held
          jb_quiet,     \* frames since g_link_last_recv_ms
          jb_muted,
          jb_phase,     \* drain_udp_recv: reading packets, or playing
          jb_last,      \* the last frame played since the reset, or Empty
          jb_quality,   \* [have, last, lost, received] of the report window
          jb_read       \* history: packets read, the newest of them, and whether
                        \* one was as far behind or ahead of it as `stale` says

jbRing == <<jb_slot, jb_initialized, jb_cursor, jb_wait, jb_consec_miss, jb_last>>
jbVars == <<jb_sent, jb_net, jbRing, jb_ptt, jb_quiet, jb_muted, jb_phase, jb_quality, jb_read>>

ASSUME JbAssumption == /\ SeqWrap \in Nat /\ JB_PLC_MAX \in Nat \ {0} /\ 2 * JB_PLC_MAX < SeqWrap
                       /\ JB_SLOTS \in Nat \ {0} /\ FirstSeq \in Nat
                       /\ FarSeq \in Nat /\ 2 * FarSeq <= SeqWrap

Empty == -1
Half == SeqWrap \div 2
\* (int16_t)(a - b)
Delta(a, b) == ((a - b + Half) % SeqWrap) - Half
SeqAt(i) == (FirstSeq + i) % SeqWrap

JbInit ==
    /\ jb_sent = 0 /\ jb_net = {}
    /\ jb_slot = [k \in 0..JB_SLOTS - 1 |-> Empty]
    /\ jb_initialized = FALSE /\ jb_cursor = 0 /\ jb_wait = 0 /\ jb_consec_miss = 0
    /\ jb_last = Empty
    /\ jb_ptt = FALSE /\ jb_quiet = 0 /\ jb_muted = FALSE /\ jb_phase = "read"
    /\ jb_quality = [have |-> FALSE, last |-> 0, lost |-> 0, received |-> 0]
    /\ jb_read = [count |-> 0, newest |-> 0, stale |-> FALSE]

\* The reflector's own numbering: one stream whoever talks.
audio_node_send_to ==
    /\ jb_sent < MaxPackets
    /\ jb_sent' = jb_sent + 1
    /\ \/ jb_net' = jb_net \cup {jb_sent}
       \/ UNCHANGED jb_net          \* lost
    /\ UNCHANGED <<jbRing, jb_ptt, jb_quiet, jb_muted, jb_phase, jb_quality, jb_read>>

jb_reset ==
    /\ jb_slot' = [k \in 0..JB_SLOTS - 1 |-> Empty]
    /\ jb_initialized' = FALSE /\ jb_cursor' = 0 /\ jb_wait' = 0 /\ jb_consec_miss' = 0
    /\ jb_last' = Empty

(* Mutant: a late packet takes the cursor back to itself.                  *)
jb_insert_Rewinds(seq) ==
    LET restart == ~jb_initialized \/ Delta(seq, jb_cursor) \notin -FarSeq..FarSeq
    IN /\ jb_initialized' = TRUE
       /\ jb_cursor' = IF restart \/ Delta(seq, jb_cursor) < 0 THEN seq ELSE jb_cursor
       /\ jb_wait' = IF restart THEN TargetFrames ELSE jb_wait
       /\ jb_consec_miss' = IF restart THEN 0 ELSE jb_consec_miss
       /\ jb_last' = IF restart THEN Empty ELSE jb_last
       /\ jb_slot' = [jb_slot EXCEPT ![seq % JB_SLOTS] = seq]

\* The first packet, or one from far away, sets the cursor; a late one is
\* dropped; any other goes to its slot, whatever is in it.
jb_insert(seq) ==
    LET d == Delta(seq, jb_cursor)
        restart == ~jb_initialized \/ d > FarSeq \/ d < -FarSeq
        old == IF jb_initialized /\ restart THEN [k \in 0..JB_SLOTS - 1 |-> Empty] ELSE jb_slot
    IN IF jb_initialized /\ d < 0 /\ d > -FarSeq
       THEN UNCHANGED jbRing
       ELSE /\ jb_initialized' = TRUE
            /\ jb_cursor' = IF restart THEN seq ELSE jb_cursor
            /\ jb_wait' = IF restart THEN TargetFrames ELSE jb_wait
            /\ jb_consec_miss' = IF restart THEN 0 ELSE jb_consec_miss
            /\ jb_last' = IF restart THEN Empty ELSE jb_last
            /\ jb_slot' = [old EXCEPT ![seq % JB_SLOTS] = seq]

(* Mutant: what came out of order is not credited back.                    *)
quality_track_seq_NoCredit(seq) ==
    LET q == jb_quality
        d == Delta(seq, q.last)
    IN jb_quality' =
        IF ~q.have THEN [have |-> TRUE, last |-> seq, lost |-> q.lost, received |-> q.received + 1]
        ELSE IF d = 0 THEN q
        ELSE [q EXCEPT !.last = IF d > 0 THEN seq ELSE @,
                       !.lost = IF d > 0 /\ d < FarSeq THEN @ + (d - 1) ELSE @,
                       !.received = @ + 1]

\* A gap counts as lost until the missing packet turns up late.
quality_track_seq(seq) ==
    LET q == jb_quality
        d == Delta(seq, q.last)
    IN jb_quality' =
        IF ~q.have THEN [have |-> TRUE, last |-> seq, lost |-> q.lost, received |-> q.received + 1]
        ELSE IF d = 0 THEN q
        ELSE [q EXCEPT !.last = IF d > 0 THEN seq ELSE @,
                       !.lost = IF d > 0 /\ d < FarSeq THEN @ + (d - 1)
                                ELSE IF d < 0 /\ d > -FarSeq /\ @ > 0 THEN @ - 1 ELSE @,
                       !.received = @ + 1]

\* The window is over: what has been counted is sent off.
send_quality_report ==
    /\ jb_phase = "read"
    /\ jb_quality' = [jb_quality EXCEPT !.lost = 0, !.received = 0]
    /\ UNCHANGED <<jb_sent, jb_net, jbRing, jb_ptt, jb_quiet, jb_muted, jb_phase, jb_read>>

\* drain_udp_recv: a packet is read ...
Reads1(i) ==
    jb_read' = [count |-> jb_read.count + 1,
                newest |-> IF jb_quality.have /\ i < jb_read.newest THEN jb_read.newest ELSE i,
                stale |-> jb_read.stale \/ (jb_quality.have /\ i - jb_read.newest \notin 1 - FarSeq..Half - 1)]

ReadPacket == \E i \in jb_net :
    /\ jb_phase = "read"
    /\ jb_net' = jb_net \ {i} /\ Reads1(i)
    /\ quality_track_seq(SeqAt(i))
    /\ jb_insert(SeqAt(i))
    /\ jb_quiet' = 0
    /\ UNCHANGED <<jb_sent, jb_ptt, jb_muted, jb_phase>>

\* ... until the socket is empty for now.
ReadEnds ==
    /\ jb_phase = "read" /\ jb_phase' = "play"
    /\ UNCHANGED <<jb_sent, jb_net, jbRing, jb_ptt, jb_quiet, jb_muted, jb_quality, jb_read>>

Due == jb_initialized /\ ~jb_muted /\ jb_wait <= 0

\* g_jb_consec_miss after the frame at the cursor was there, or not.
Misses(hit) == IF hit THEN 0 ELSE jb_consec_miss + 1

Hit(cursor) == jb_slot[cursor % JB_SLOTS] = cursor

\* One turn of jb_playout_tick's loop.  A missing frame is concealed, and
\* keeps PTT too; after JB_PLC_MAX of them the stream is over.
jb_playout_tick ==
    /\ jb_phase = "play" /\ Due
    /\ LET k == jb_cursor % JB_SLOTS
           hit == Hit(jb_cursor)
       IN IF Misses(hit) >= JB_PLC_MAX
          THEN jb_reset /\ jb_ptt' = FALSE /\ jb_phase' = "tail"
          ELSE /\ jb_slot' = IF hit THEN [jb_slot EXCEPT ![k] = Empty] ELSE jb_slot
               /\ jb_last' = IF hit THEN jb_slot[k] ELSE jb_last
               /\ jb_consec_miss' = Misses(hit)
               /\ jb_cursor' = (jb_cursor + 1) % SeqWrap
               /\ jb_wait' = jb_wait + 1
               /\ jb_ptt' = TRUE
               /\ UNCHANGED <<jb_initialized, jb_phase>>
    /\ jb_quiet' = 0
    /\ UNCHANGED <<jb_sent, jb_net, jb_muted, jb_quality, jb_read>>

PlayEnds ==
    /\ jb_phase = "play" /\ ~Due /\ jb_phase' = "tail"
    /\ UNCHANGED <<jb_sent, jb_net, jbRing, jb_ptt, jb_quiet, jb_muted, jb_quality, jb_read>>

(* Mutant: while it is muted the link does not look at its tail.            *)
LinkTail_Muted ==
    /\ jb_phase = "tail" /\ jb_phase' = "read"
    /\ jb_ptt' = (jb_ptt /\ (jb_muted \/ jb_quiet <= TailFrames))
    /\ UNCHANGED <<jb_sent, jb_net, jbRing, jb_quiet, jb_muted, jb_quality, jb_read>>

\* The end of drain_udp_recv: the wall-clock backstop.
LinkTail ==
    /\ jb_phase = "tail" /\ jb_phase' = "read"
    /\ jb_ptt' = (jb_ptt /\ jb_quiet <= TailFrames)
    /\ UNCHANGED <<jb_sent, jb_net, jbRing, jb_quiet, jb_muted, jb_quality, jb_read>>

\* on_mute, on_unmute: playout stops and goes on.
JbMute ==
    /\ jb_phase = "read" /\ jb_sent < MaxPackets
    /\ jb_muted' = ~jb_muted
    /\ UNCHANGED <<jb_sent, jb_net, jbRing, jb_ptt, jb_quiet, jb_phase, jb_quality, jb_read>>

\* 60 ms pass.
JbTime ==
    /\ jb_phase = "read"
    /\ (jb_initialized /\ ~jb_muted => jb_wait > -MaxLag)
    /\ jb_wait' = IF jb_initialized /\ jb_wait > -MaxLag THEN jb_wait - 1 ELSE jb_wait
    /\ jb_quiet' = IF jb_quiet <= TailFrames THEN jb_quiet + 1 ELSE jb_quiet
    /\ UNCHANGED <<jb_sent, jb_net, jb_slot, jb_initialized, jb_cursor, jb_consec_miss, jb_last,
                   jb_ptt, jb_muted, jb_phase, jb_quality, jb_read>>

JbNext == \/ audio_node_send_to \/ send_quality_report \/ ReadPacket \/ ReadEnds \/ jb_playout_tick
          \/ PlayEnds \/ LinkTail \/ JbTime \/ JbMute

JbSpec == JbInit /\ [][JbNext]_jbVars

\* The thread polls every 10 ms; nothing is assumed of the network.
JbFair == /\ WF_jbVars(ReadEnds) /\ WF_jbVars(jb_playout_tick \/ PlayEnds \/ LinkTail)
          /\ SF_jbVars(JbTime)
-----------------------------------------------------------------------------
(* Frames of one stream are heard in the order they were sent, each once,   *)
(* through loss, reordering, lateness and the wrap of the sequence number   *)
(* (jb_insert, jb_playout_tick).                                            *)
JbInOrder ==
    [][jb_last # Empty /\ jb_last' \notin {Empty, jb_last}
         => Delta(jb_last', jb_last) > 0]_jbVars

(* Reordering is not reported as loss: no window reports more packets lost  *)
(* than have not been read, unless one came FarSeq or more places late, for *)
(* which the code gives no credit, or half the numbers early               *)
(* (quality_track_seq, send_quality_report).                                *)
JbLossIsReal == ~jb_read.stale => jb_quality.lost <= jb_sent - jb_read.count

(* When the talker stops, the link gives PTT back (the ghost-stream guard   *)
(* or the tail), although concealed frames key it too.                      *)
JbPttEnds == jb_ptt ~> ~jb_ptt
=============================================================================
