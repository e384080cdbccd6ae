--------------------------- MODULE CallersProofs ----------------------------
(***************************************************************************)
(* Who calls, is heard and is announced, for any sets of users and         *)
(* callers, any limits, and any number of carriers, commands, reloads and  *)
(* lost connections.                                                       *)
(*   - A telephone call owns what its state needs, and an idle module      *)
(*     nothing (Autopatch).                                                *)
(*   - The two gateways account for every PTT reference they have taken    *)
(*     (Gateways).                                                         *)
(*   - A mailbox exceeds its limit by one message at most, and every       *)
(*     recording and every arming has its one timer and its one tap        *)
(*     (Mailbox).                                                          *)
(*   - Every activity has the timer that takes it on, and what is owed is  *)
(*     said (Announcers).                                                  *)
(*   - A caller is elevated by a code that had not been accepted before,   *)
(*     and a command ends before its caller does (Access).                 *)
(*   - The records tell who was heard and when (Records).                  *)
(***************************************************************************)
EXTENDS Autopatch, Gateways, Mailbox, Announcers, Access, Records, FiniteSetTheorems, TLAPS

(* ------------------------------ Autopatch ---------------------------- *)

Calls == [state : {"idle", "dialing", "ringing", "connected"}, uuid : Nat, active : BOOLEAN,
          armed : [Kinds -> Int], handles : SUBSET Kinds, refused : SUBSET Kinds, taps : Nat,
          udp : BOOLEAN, vox_ptt_held : BOOLEAN, ptt : Int]

\* The fields that the timers leave alone.
Same(c, d) == /\ d.state = c.state /\ d.uuid = c.uuid /\ d.active = c.active /\ d.taps = c.taps
              /\ d.udp = c.udp /\ d.vox_ptt_held = c.vox_ptt_held /\ d.ptt = c.ptt

\* A whole call but for timers that are not created yet.
Kept(handles) == [k \in Kinds |-> IF k \in handles THEN 1 ELSE 0]
WholeBut(c, ks) ==
    /\ c.refused \subseteq Needed(c.state) \ ks
    /\ c.handles = Needed(c.state) \ (c.refused \cup ks)
    /\ c.armed = Kept(c.handles)
    /\ c.taps = IF c.state = "connected" THEN 1 ELSE 0
    /\ (c.active <=> c.state = "connected") /\ (c.udp <=> c.active)
    /\ c.ptt = IF c.vox_ptt_held THEN 1 ELSE 0
    /\ c.vox_ptt_held => c.active
    /\ c.uuid # NoUuid <=> c.active

\* What the other half of a handler makes of the call.
Completed(c, half) ==
    CASE half = "none" -> {c}
      [] half = "dial" -> Created(c, "dial")
      [] half = "key" -> {[c EXCEPT !.vox_ptt_held = TRUE]}
      [] half = "unkey" -> {[c EXCEPT !.vox_ptt_held = FALSE]}
      [] half = "hangup" -> {Dropped(c)}

Halves == [{"main", "other"} -> {"none", "dial", "key", "unkey", "hangup"}]
InHand == IF hand["main"] # "none" THEN hand["main"] ELSE hand["other"]
Events == [name : {"CHANNEL_ANSWER", "CHANNEL_PROGRESS", "CHANNEL_HANGUP"}, uuid : Channels]

\* Until two threads overlap, at most one has a handler in hand, and its other
\* half makes the call whole.
CallInv == /\ hand["main"] = "none" \/ hand["other"] = "none"
           /\ call \in Calls /\ \A d \in Completed(call, InHand) : d \in Calls /\ WholeCall(d)
FsInv == esl_in \in Seq(Events) /\ hand \in Halves /\ (overlap \/ CallInv)

LEMMA WholeIsWholeBut == ASSUME NEW c PROVE WholeCall(c) <=> WholeBut(c, {})
BY DEF WholeCall, WholeBut, Kept

LEMMA NoCallIsWhole == NoCall \in Calls /\ WholeCall(NoCall)
<1>1. NoCall \in Calls
  BY DEF NoCall, Calls, NoUuid, Kinds
<1>2. Needed("idle") = {}
  BY DEF Needed
<1> QED BY <1>1, <1>2 DEF NoCall, WholeCall, NoUuid

LEMMA NeededAreKinds == \A s : s \in {"idle", "dialing", "ringing", "connected"} => Needed(s) \subseteq Kinds
BY DEF Needed, Kinds

LEMMA CancelledFields ==
  ASSUME NEW c \in Calls, NEW ks, c.armed = Kept(c.handles)
  PROVE  /\ Cancelled(c, ks) \in Calls /\ Same(c, Cancelled(c, ks))
         /\ Cancelled(c, ks).handles = c.handles \ ks
         /\ Cancelled(c, ks).armed = Kept(c.handles \ ks)
         /\ Cancelled(c, ks).refused = c.refused
<1> DEFINE counts == [k \in Kinds |-> IF k \in ks \cap c.handles THEN c.armed[k] - 1 ELSE c.armed[k]]
<1>1. counts = Kept(c.handles \ ks)
  BY DEF Kept
<1>2. Cancelled(c, ks) = [c EXCEPT !.armed = counts, !.handles = @ \ ks]
  BY Zenon DEF Cancelled
<1>3. Kept(c.handles \ ks) \in [Kinds -> Int]
  BY DEF Kept
<1> HIDE DEF counts
<1> QED BY <1>1, <1>2, <1>3 DEF Calls, Same

LEMMA TeardownIsNoCall ==
  ASSUME NEW c \in Calls, c.armed = Kept(c.handles), c.ptt = IF c.vox_ptt_held THEN 1 ELSE 0
  PROVE  call_teardown(c) = NoCall
<1> DEFINE d == Cancelled(c, Kinds)
<1>1. /\ d.handles = {} /\ d.armed = Kept({}) /\ d.vox_ptt_held = c.vox_ptt_held /\ d.ptt = c.ptt
  <2>1. c.handles \ Kinds = {}
    BY DEF Calls
  <2> QED BY <2>1, CancelledFields DEF Same
<1>2. (IF d.vox_ptt_held THEN d.ptt - 1 ELSE d.ptt) = 0
  BY <1>1 DEF Calls
<1>3. Kept({}) = [k \in Kinds |-> 0]
  BY DEF Kept
<1>4. [NoCall EXCEPT !.armed = Kept({}), !.handles = {}, !.ptt = 0] = NoCall
  <2>1. NoCall \in Calls /\ NoCall.armed = Kept({}) /\ NoCall.handles = {} /\ NoCall.ptt = 0
    BY <1>3, NoCallIsWhole DEF NoCall
  <2> QED BY <2>1, Zenon DEF Calls
<1> HIDE DEF d
<1>5. Dropped(d) = NoCall
  BY <1>1, <1>2, <1>3, <1>4, Zenon DEF Dropped
<1> QED BY <1>5 DEF call_teardown, d

\* A call of which one timer has just fired is torn down to no call, as one
\* of which none has.
LEMMA TeardownLeavesNothing ==
  ASSUME NEW c \in Calls, WholeCall(c)
  PROVE  /\ call_teardown(c) = NoCall
         /\ \A k \in Kinds : c.armed[k] > 0 => call_teardown(Fired(c, k)) = NoCall /\ c.state # "idle"
<1>1. call_teardown(c) = NoCall
  BY TeardownIsNoCall DEF WholeCall, Kept
<1>2. ASSUME NEW k \in Kinds, c.armed[k] > 0
      PROVE  call_teardown(Fired(c, k)) = NoCall /\ c.state # "idle"
  <2> DEFINE d == Fired(c, k)
  <2>1. k \in c.handles /\ c.armed = Kept(c.handles)
    BY <1>2 DEF WholeCall, Kept
  <2>2. [c.armed EXCEPT ![k] = @ - 1] = Kept(c.handles \ {k})
    BY <2>1 DEF Kept
  <2>3. Kept(c.handles \ {k}) \in [Kinds -> Int]
    BY DEF Kept
  <2>4. d = [c EXCEPT !.armed = Kept(c.handles \ {k}), !.handles = @ \ {k}]
    <3>1. d = [c EXCEPT !.armed = [c.armed EXCEPT ![k] = @ - 1], !.handles = @ \ {k}]
      BY DEF Fired, Calls
    <3> QED BY <3>1, <2>2
  <2> HIDE DEF d
  <2>5. /\ d \in Calls /\ d.armed = Kept(d.handles)
        /\ d.vox_ptt_held = c.vox_ptt_held /\ d.ptt = c.ptt
    BY <2>3, <2>4 DEF Calls
  <2>6. call_teardown(d) = NoCall
    BY <2>5, TeardownIsNoCall DEF WholeCall
  <2>7. c.state # "idle"
    BY <2>1 DEF WholeCall, Needed
  <2> QED BY <2>6, <2>7 DEF d
<1> QED BY <1>1, <1>2

\* A timer that the state needs is created or refused.
LEMMA CreatedStep ==
  ASSUME NEW c \in Calls, NEW ks, WholeBut(c, ks), ks \subseteq Needed(c.state),
         NEW k \in ks, NEW d \in Created(c, k)
  PROVE  d \in Calls /\ WholeBut(d, ks \ {k}) /\ Same(c, d)
<1>1. k \in Kinds /\ k \notin c.handles /\ k \notin c.refused
  BY NeededAreKinds DEF Calls, WholeBut
<1>2. CASE d = [c EXCEPT !.armed[k] = @ + 1, !.handles = @ \cup {k}]
  <2>1. [c.armed EXCEPT ![k] = @ + 1] = Kept(c.handles \cup {k})
    BY <1>1 DEF WholeBut, Kept
  <2>2. d = [c EXCEPT !.armed = Kept(c.handles \cup {k}), !.handles = @ \cup {k}]
    BY <1>2, <2>1 DEF Calls
  <2>3. Kept(c.handles \cup {k}) \in [Kinds -> Int]
    BY DEF Kept
  <2>4. /\ d \in Calls /\ Same(c, d) /\ d.handles = c.handles \cup {k} /\ d.refused = c.refused
        /\ d.armed = Kept(d.handles)
    BY <1>1, <2>2, <2>3 DEF Calls, Same
  <2> QED BY <1>1, <2>4 DEF WholeBut, Same
<1>3. CASE d = [c EXCEPT !.handles = @ \ {k}, !.refused = @ \cup {k}]
  <2>1. /\ d \in Calls /\ Same(c, d) /\ d.handles = c.handles /\ d.refused = c.refused \cup {k}
        /\ d.armed = c.armed
    BY <1>1, <1>3 DEF Calls, Same
  <2> QED BY <1>1, <2>1 DEF WholeBut, Same
<1> QED BY <1>2, <1>3 DEF Created

LEMMA EventKeepsWhole ==
  ASSUME NEW c \in Calls, WholeCall(c), NEW e \in Events, NEW d \in esl_handle_event(c, e)
  PROVE  d \in Calls /\ WholeCall(d)
<1>0. e.uuid \in Nat /\ e.uuid # NoUuid
  BY DEF Events, Channels, NoUuid
<1>1. CASE e.name = "CHANNEL_ANSWER"
  <2>1. d \in Answered(c, e.uuid)
    BY <1>1 DEF esl_handle_event
  <2>2. CASE c.state \in {"dialing", "ringing"} /\ c.uuid \in {NoUuid, e.uuid}
    <3> DEFINE n == [c EXCEPT !.uuid = e.uuid]
               o == Connected(n)
               p == Cancelled(o, {"dial"})
    <3>1. /\ n \in Calls /\ n.armed = c.armed /\ n.handles = c.handles /\ n.taps = c.taps
          /\ n.uuid = e.uuid /\ n.vox_ptt_held = c.vox_ptt_held /\ n.ptt = c.ptt
      BY <1>0 DEF Calls
    <3>2. /\ c.handles \subseteq {"dial"} /\ c.armed = Kept(c.handles) /\ c.taps = 0 /\ ~c.active
          /\ ~c.vox_ptt_held /\ c.ptt = 0
      BY <2>2 DEF WholeCall, Needed, Kept
    <3> HIDE DEF n
    <3>3. call_teardown(n) = NoCall
      BY <3>1, <3>2, TeardownIsNoCall
    <3>4. /\ o \in Calls /\ o.armed = Kept(o.handles) /\ o.handles \subseteq {"dial"} /\ o.refused = {}
          /\ o.state = "connected" /\ o.taps = 1 /\ o.active /\ o.udp /\ o.uuid = e.uuid
          /\ ~o.vox_ptt_held /\ o.ptt = 0
      <4>1. o = [n EXCEPT !.state = "connected", !.udp = TRUE, !.taps = 1, !.active = TRUE,
                          !.vox_ptt_held = FALSE, !.refused = {}]
        BY <3>1, <3>2 DEF Connected
      <4>2. n.ptt = 0 /\ n.armed = Kept(n.handles) /\ n.handles \subseteq {"dial"}
        BY <3>1, <3>2
      <4> HIDE DEF o
      <4>3. o \in Calls
        BY <3>1, <4>1 DEF Calls
      <4>4. /\ o.armed = n.armed /\ o.handles = n.handles /\ o.refused = {} /\ o.uuid = n.uuid
            /\ o.state = "connected" /\ o.taps = 1 /\ o.active /\ o.udp
            /\ ~o.vox_ptt_held /\ o.ptt = n.ptt
        BY <3>1, <4>1 DEF Calls
      <4> QED BY <3>1, <4>2, <4>3, <4>4
    <3> HIDE DEF o
    <3>5. /\ p \in Calls /\ Same(o, p) /\ p.handles = {} /\ p.armed = Kept(p.handles) /\ p.refused = {}
      <4>1. o.handles \ {"dial"} = {}
        BY <3>4
      <4>2. /\ p \in Calls /\ Same(o, p) /\ p.handles = o.handles \ {"dial"}
            /\ p.armed = Kept(o.handles \ {"dial"}) /\ p.refused = o.refused
        BY <3>4, CancelledFields
      <4> QED BY <3>4, <4>1, <4>2
    <3> HIDE DEF p
    <3>6. Needed(p.state) = {"call", "inactivity"}
      BY <3>4, <3>5 DEF Same, Needed
    <3>7. WholeBut(p, {"call", "inactivity"})
      BY <1>0, <3>4, <3>5, <3>6 DEF Same, WholeBut
    <3>8. ASSUME NEW q \in Created(p, "call"), NEW r \in Created(q, "inactivity")
          PROVE  r \in Calls /\ WholeCall(r)
      <4>1. q \in Calls /\ WholeBut(q, {"call", "inactivity"} \ {"call"}) /\ Same(p, q)
        BY <3>5, <3>6, <3>7, CreatedStep
      <4>2. {"call", "inactivity"} \ {"call"} = {"inactivity"}
        OBVIOUS
      <4>3. Needed(q.state) = {"call", "inactivity"}
        BY <3>6, <4>1 DEF Same
      <4>4. r \in Calls /\ WholeBut(r, {"inactivity"} \ {"inactivity"})
        BY <4>1, <4>2, <4>3, CreatedStep
      <4>5. {"inactivity"} \ {"inactivity"} = {}
        OBVIOUS
      <4> QED BY <4>4, <4>5, WholeIsWholeBut
    <3>9. d = call_teardown(n) \/ \E q \in Created(p, "call") : d \in Created(q, "inactivity")
      BY <2>1, <2>2 DEF Answered, call_setup_audio, n, o, p
    <3> QED BY <3>3, <3>8, <3>9, NoCallIsWhole
  <2>3. CASE ~(c.state \in {"dialing", "ringing"} /\ c.uuid \in {NoUuid, e.uuid})
    BY <2>1, <2>3 DEF Answered
  <2> QED BY <2>2, <2>3
<1>2. CASE e.name = "CHANNEL_PROGRESS"
  <2>1. d = Progressed(c)
    BY <1>2 DEF esl_handle_event
  <2>2. CASE c.state = "dialing"
    <3>1. /\ d \in Calls /\ d.state = "ringing" /\ d.uuid = c.uuid /\ d.active = c.active
          /\ d.taps = c.taps /\ d.udp = c.udp /\ d.vox_ptt_held = c.vox_ptt_held /\ d.ptt = c.ptt
          /\ d.armed = c.armed /\ d.handles = c.handles /\ d.refused = c.refused
      BY <2>1, <2>2 DEF Progressed, Calls
    <3>2. Needed("ringing") = Needed("dialing")
      BY DEF Needed
    <3> QED BY <2>2, <3>1, <3>2 DEF WholeCall
  <2> QED BY <2>1, <2>2 DEF Progressed
<1>3. CASE e.name = "CHANNEL_HANGUP"
  <2>1. d = HungUp(c, e.uuid)
    BY <1>3 DEF esl_handle_event
  <2> QED BY <2>1, TeardownLeavesNothing, NoCallIsWhole DEF HungUp
<1> QED BY <1>1, <1>2, <1>3 DEF Events

\* The voice keys, lets go or does nothing; the flag makes it whole.
LEMMA VoiceStep ==
  ASSUME hand \in Halves, hand["main"] = "none", hand["other"] = "none",
         NEW c \in Calls, WholeCall(c), Voice(c)
  PROVE  hand' \in Halves /\ CallInv'
<1>1. CASE call' = c /\ UNCHANGED hand
  BY <1>1 DEF CallInv, InHand, Completed
<1>2. CASE /\ Vox(c) /\ ~c.vox_ptt_held
           /\ call' = [c EXCEPT !.ptt = @ + 1] /\ hand' = [hand EXCEPT !["main"] = "key"]
  <2>1. hand' \in Halves /\ hand'["main"] = "key" /\ hand'["other"] = "none"
    BY <1>2 DEF Halves
  <2>2. c.ptt = 0 /\ c.active
    BY <1>2 DEF WholeCall, Vox
  <2> DEFINE d == [call' EXCEPT !.vox_ptt_held = TRUE]
  <2>3. /\ d \in Calls /\ call' \in Calls /\ d.vox_ptt_held /\ d.ptt = 1
        /\ d.state = c.state /\ d.uuid = c.uuid /\ d.active = c.active /\ d.taps = c.taps
        /\ d.udp = c.udp /\ d.armed = c.armed /\ d.handles = c.handles /\ d.refused = c.refused
    <3>1. call' = [c EXCEPT !.ptt = 1]
      BY <1>2, <2>2
    <3>2. call' \in Calls
      BY <3>1 DEF Calls
    <3> QED BY <3>1, <3>2 DEF Calls
  <2>4. Completed(call', "key") = {d}
    BY DEF Completed
  <2> HIDE DEF d
  <2>5. WholeCall(d)
    BY <2>2, <2>3 DEF WholeCall
  <2> QED BY <2>1, <2>3, <2>4, <2>5 DEF CallInv, InHand, Completed
<1>3. CASE /\ Vox(c) /\ c.vox_ptt_held
           /\ call' = [c EXCEPT !.ptt = @ - 1] /\ hand' = [hand EXCEPT !["main"] = "unkey"]
  <2>1. hand' \in Halves /\ hand'["main"] = "unkey" /\ hand'["other"] = "none"
    BY <1>3 DEF Halves
  <2>2. c.ptt = 1
    BY <1>3 DEF WholeCall
  <2> DEFINE d == [call' EXCEPT !.vox_ptt_held = FALSE]
  <2>3. /\ d \in Calls /\ call' \in Calls /\ ~d.vox_ptt_held /\ d.ptt = 0
        /\ d.state = c.state /\ d.uuid = c.uuid /\ d.active = c.active /\ d.taps = c.taps
        /\ d.udp = c.udp /\ d.armed = c.armed /\ d.handles = c.handles /\ d.refused = c.refused
    <3>1. call' = [c EXCEPT !.ptt = 0]
      BY <1>3, <2>2
    <3>2. call' \in Calls
      BY <3>1 DEF Calls
    <3> QED BY <3>1, <3>2 DEF Calls
  <2>4. Completed(call', "unkey") = {d}
    BY DEF Completed
  <2> HIDE DEF d
  <2>5. WholeCall(d)
    BY <2>3 DEF WholeCall
  <2> QED BY <2>1, <2>3, <2>4, <2>5 DEF CallInv, InHand, Completed
<1> QED BY <1>1, <1>2, <1>3 DEF Voice

\* A handler that begins while neither thread has one in hand finds the call
\* whole.
Idle == hand \in Halves /\ hand["main"] = "none" /\ hand["other"] = "none"
Resting == Idle /\ esl_in \in Seq(Events) /\ call \in Calls /\ WholeCall(call)

LEMMA WholeStep ==
  ASSUME Resting, UNCHANGED hand, call' \in Calls, WholeCall(call)'
  PROVE  hand' \in Halves /\ CallInv'
BY DEF Resting, Idle, CallInv, InHand, Completed

\* The tick: the socket, then the telephone's voice.
LEMMA TickStep ==
  ASSUME Resting, on_tick
  PROVE  esl_in' \in Seq(Events) /\ hand' \in Halves /\ CallInv'
<1> USE DEF Resting, Idle
<1>1. CASE TickQuiet \/ TickBacksOff \/ TickAuthenticates
  <2>1. Voice(call) /\ esl_in' = esl_in
    BY <1>1 DEF TickQuiet, TickBacksOff, TickAuthenticates, eslVars
  <2> QED BY <2>1, VoiceStep
<1>2. CASE TickConnects
  <2>1. Voice(call) /\ esl_in' = <<>>
    BY <1>2 DEF TickConnects
  <2> QED BY <2>1, VoiceStep
<1>3. CASE TickReceives
  <2>1. PICK c \in esl_handle_event(call, Head(esl_in)) : Voice(c)
    BY <1>3 DEF TickReceives
  <2>2. /\ Head(esl_in) \in Events /\ esl_in' \in Seq(Events)
    BY <1>3 DEF TickReceives
  <2>3. c \in Calls /\ WholeCall(c)
    BY <2>1, <2>2, EventKeepsWhole
  <2> QED BY <2>1, <2>2, <2>3, VoiceStep
<1>4. CASE TickLosesConnection
  <2>1. esl_in' = <<>> /\ Voice(IF call.state = "idle" THEN call ELSE call_teardown(call))
    BY <1>4 DEF TickLosesConnection
  <2>2. Voice(call) \/ Voice(NoCall)
    BY <2>1, TeardownLeavesNothing
  <2> QED BY <2>1, <2>2, NoCallIsWhole, VoiceStep
<1> QED BY <1>1, <1>2, <1>3, <1>4 DEF on_tick

\* Dialling: the timer is still to come.
LEMMA DialStep ==
  ASSUME Resting, NEW thread \in {"main", "other"}, autopatch_dial(thread)
  PROVE  hand' \in Halves /\ CallInv'
<1>1. /\ call.state = "idle" /\ hand' = [hand EXCEPT ![thread] = "dial"]
      /\ call' = [call EXCEPT !.state = "dialing", !.uuid = NoUuid]
  BY DEF autopatch_dial
<1>2. /\ hand' \in Halves /\ InHand' = "dial"
      /\ hand'["main"] = "none" \/ hand'["other"] = "none"
  BY <1>1 DEF Resting, Idle, Halves, InHand
<1>3. /\ call' \in Calls /\ call'.state = "dialing" /\ call'.uuid = NoUuid
      /\ call'.active = call.active /\ call'.taps = call.taps /\ call'.udp = call.udp
      /\ call'.vox_ptt_held = call.vox_ptt_held /\ call'.ptt = call.ptt /\ call'.armed = call.armed
      /\ call'.handles = call.handles /\ call'.refused = call.refused
  BY <1>1 DEF Resting, Calls, NoUuid
<1>4. Needed("idle") = {} /\ Needed("dialing") = {"dial"}
  BY DEF Needed
<1>5. WholeBut(call', {"dial"})
  BY <1>1, <1>3, <1>4 DEF Resting, WholeCall, WholeBut, Kept
<1>6. ASSUME NEW d \in Created(call', "dial") PROVE d \in Calls /\ WholeCall(d)
  <2>1. d \in Calls /\ WholeBut(d, {"dial"} \ {"dial"})
    BY <1>3, <1>4, <1>5, <1>6, CreatedStep
  <2>2. {"dial"} \ {"dial"} = {}
    OBVIOUS
  <2> QED BY <2>1, <2>2, WholeIsWholeBut
<1> QED BY <1>2, <1>3, <1>6 DEF CallInv, Completed

LEMMA HandlerStep ==
  ASSUME Resting, MainHandler
  PROVE  esl_in' \in Seq(Events) /\ hand' \in Halves /\ CallInv'
<1> USE DEF Resting
<1>1. CASE autopatch_dial("main")
  BY <1>1, DialStep DEF autopatch_dial, eslVars
<1>2. CASE autopatch_hangup \/ on_call_timeout \/ on_dial_timeout \/ on_inactivity_timeout
  <2>1. UNCHANGED <<esl_in, hand>>
    BY <1>2 DEF autopatch_hangup, on_call_timeout, on_dial_timeout, on_inactivity_timeout, eslVars
  <2>2. call' = NoCall
    <3>1. "dial" \in Kinds /\ "call" \in Kinds /\ "inactivity" \in Kinds
      BY DEF Kinds
    <3> QED BY <1>2, <3>1, TeardownLeavesNothing
         DEF autopatch_hangup, on_call_timeout, on_dial_timeout, on_inactivity_timeout
  <2> QED BY <2>1, <2>2, NoCallIsWhole, WholeStep
<1>3. CASE on_tick
  BY <1>3, TickStep
<1>4. CASE FsCorAssert
  <2>1. UNCHANGED <<esl_in, hand>>
    BY <1>4 DEF FsCorAssert, eslVars
  <2>2. CASE call' # call
    <3> DEFINE c == Cancelled(call, {"inactivity"})
    <3>1. "inactivity" \in call.handles /\ call' \in Created(c, "inactivity")
      BY <1>4, <2>2 DEF FsCorAssert
    <3>2. /\ c \in Calls /\ Same(call, c) /\ c.handles = call.handles \ {"inactivity"}
          /\ c.armed = Kept(c.handles) /\ c.refused = call.refused
      <4>1. call.armed = Kept(call.handles)
        BY DEF WholeCall, Kept
      <4> QED BY <4>1, CancelledFields
    <3> HIDE DEF c
    <3>3. WholeBut(c, {"inactivity"}) /\ {"inactivity"} \subseteq Needed(c.state)
      BY <3>1, <3>2 DEF WholeCall, WholeBut, Same
    <3>4. call' \in Calls /\ WholeBut(call', {"inactivity"} \ {"inactivity"})
      BY <3>1, <3>2, <3>3, CreatedStep
    <3>5. {"inactivity"} \ {"inactivity"} = {}
      OBVIOUS
    <3>6. WholeCall(call')
      BY <3>4, <3>5, WholeIsWholeBut
    <3> QED BY <2>1, <3>4, <3>6, WholeStep
  <2> QED BY <2>1, <2>2, WholeStep
<1>5. CASE freeswitch_unload
  <2>1. /\ esl_in' = <<>> /\ UNCHANGED hand
        /\ call' = (IF call.state = "idle" THEN call ELSE call_teardown(call))
    BY <1>5 DEF freeswitch_unload
  <2>2. call' = call \/ call' = NoCall
    BY <2>1, TeardownLeavesNothing
  <2>3. call' \in Calls /\ WholeCall(call)'
    BY <2>2, NoCallIsWhole
  <2>4. esl_in' \in Seq(Events)
    BY <2>1
  <2> QED BY <2>1, <2>3, <2>4, WholeStep
<1>6. CASE FsCorDrop \/ freeswitch_configure
  <2>1. UNCHANGED <<call, esl_in, hand>>
    BY <1>6 DEF FsCorDrop, freeswitch_configure, eslVars
  <2> QED BY <2>1, WholeStep
<1> QED BY <1>1, <1>2, <1>3, <1>4, <1>5, <1>6 DEF MainHandler

LEMMA CliCommandStep ==
  ASSUME Resting, CliCommand
  PROVE  esl_in' \in Seq(Events) /\ hand' \in Halves /\ CallInv'
<1>1. CASE autopatch_dial("other")
  BY <1>1, DialStep DEF Resting, autopatch_dial, eslVars
<1>2. CASE CliHangup
  <2>1. /\ esl_in' = esl_in /\ call' = Cancelled(call, Kinds)
        /\ hand' = [hand EXCEPT !["other"] = "hangup"]
    BY <1>2 DEF CliHangup, eslVars
  <2>2. /\ hand' \in Halves /\ InHand' = "hangup" /\ hand'["main"] = "none"
    BY <2>1 DEF Resting, Idle, Halves, InHand
  <2>3. call' \in Calls
    BY <2>1, CancelledFields DEF Resting, WholeCall, Kept
  <2>4. Completed(call', "hangup") = {NoCall}
    BY <2>1, TeardownLeavesNothing DEF Resting, Completed, call_teardown
  <2> QED BY <2>1, <2>2, <2>3, <2>4, NoCallIsWhole DEF Resting, CallInv
<1> QED BY <1>1, <1>2 DEF CliCommand

\* The other half of the one handler in hand.
LEMMA EndStep ==
  ASSUME hand \in Halves, CallInv, NEW thread \in {"main", "other"}, hand[thread] # "none",
         hand' = [hand EXCEPT ![thread] = "none"], call' \in Completed(call, hand[thread])
  PROVE  hand' \in Halves /\ CallInv'
<1>1. InHand = hand[thread] /\ hand'["main"] = "none" /\ hand'["other"] = "none" /\ hand' \in Halves
  BY DEF CallInv, InHand, Halves
<1>2. call' \in Calls /\ WholeCall(call')
  BY <1>1 DEF CallInv
<1> QED BY <1>1, <1>2 DEF CallInv, InHand, Completed

\* What the overlapped handlers keep, whatever they find.
LEMMA MainKeepsEvents == ASSUME esl_in \in Seq(Events), MainHandler PROVE esl_in' \in Seq(Events)
<1>1. CASE on_tick
  <2>1. esl_in' = esl_in \/ esl_in' = <<>> \/ (esl_in # <<>> /\ esl_in' = Tail(esl_in))
    <3>1. CASE TickReceives
      BY <3>1, Zenon DEF TickReceives
    <3>2. CASE TickConnects \/ TickLosesConnection
      BY <3>2, Zenon DEF TickConnects, TickLosesConnection
    <3>3. CASE TickQuiet \/ TickBacksOff \/ TickAuthenticates
      BY <3>3 DEF TickQuiet, TickBacksOff, TickAuthenticates, eslVars
    <3> QED BY <1>1, <3>1, <3>2, <3>3 DEF on_tick
  <2>2. CASE esl_in # <<>> /\ esl_in' = Tail(esl_in)
    <3>1. \A s \in Seq(Events) : s # <<>> => Tail(s) \in Seq(Events)
      OBVIOUS
    <3> QED BY <2>2, <3>1, Zenon
  <2>3. CASE esl_in' = esl_in \/ esl_in' = <<>>
    <3>1. <<>> \in Seq(Events)
      OBVIOUS
    <3> QED BY <2>3, <3>1, Zenon
  <2> QED BY <2>1, <2>2, <2>3
<1>2. CASE freeswitch_unload
  BY <1>2 DEF freeswitch_unload
<1>3. CASE ~on_tick /\ ~freeswitch_unload
  BY <1>3 DEF MainHandler, autopatch_dial, autopatch_hangup, on_call_timeout, on_dial_timeout,
              on_inactivity_timeout, FsCorAssert, FsCorDrop, freeswitch_configure, eslVars
<1> QED BY <1>1, <1>2, <1>3

LEMMA MainKeepsHalves == ASSUME hand \in Halves, MainHandler PROVE hand' \in Halves
<1>1. hand' = hand \/ \E half \in {"dial", "key", "unkey"} : hand' = [hand EXCEPT !["main"] = half]
  <2>1. CASE on_tick
    <3>1. \E c : Voice(c)
      BY <2>1, Zenon DEF on_tick, TickQuiet, TickBacksOff, TickConnects, TickAuthenticates, TickReceives,
                  TickLosesConnection
    <3> QED BY <3>1 DEF Voice
  <2>2. CASE ~on_tick
    BY <2>2 DEF MainHandler, autopatch_dial, autopatch_hangup, on_call_timeout, on_dial_timeout,
                on_inactivity_timeout, FsCorAssert, FsCorDrop, freeswitch_configure, freeswitch_unload
  <2> QED BY <2>1, <2>2
<1> QED BY <1>1 DEF Halves

LEMMA ThreadStep ==
  ASSUME FsInv, MainStep \/ CliStep
  PROVE  FsInv'
<1> USE DEF FsInv
<1>1. CASE MainHandler /\ Crosses("other")
  <2>1. CASE overlap \/ hand["other"] # "none"
    <3>1. overlap'
      BY <1>1, <2>1 DEF Crosses
    <3>2. esl_in' \in Seq(Events)
      BY <1>1, MainKeepsEvents
    <3>3. hand' \in Halves
      BY <1>1, MainKeepsHalves
    <3> QED BY <3>1, <3>2, <3>3
  <2>2. CASE ~overlap /\ hand["other"] = "none"
    <3>1. Resting
      BY <1>1, <2>2 DEF MainHandler, CallInv, InHand, Completed, Resting, Idle
    <3> QED BY <1>1, <3>1, HandlerStep
  <2> QED BY <2>1, <2>2
<1>2. CASE MainEnds /\ Crosses("other")
  <2>1. /\ esl_in' = esl_in /\ hand["main"] \in {"dial", "key", "unkey"}
        /\ hand' = [hand EXCEPT !["main"] = "none"] /\ call' \in Completed(call, hand["main"])
    <3>1. CASE DialTimer("main")
      BY <3>1 DEF DialTimer, Completed, eslVars
    <3>2. CASE VoxFlag
      BY <3>2 DEF VoxFlag, Completed, eslVars
    <3> QED BY <1>2, <3>1, <3>2 DEF MainEnds
  <2>2. hand' \in Halves
    BY <2>1 DEF Halves
  <2>3. overlap => overlap'
    BY <1>2 DEF Crosses
  <2> QED BY <2>1, <2>2, <2>3, EndStep
<1>3. CASE CliCommand /\ Crosses("main")
  <2>1. CASE overlap \/ hand["main"] # "none"
    <3>1. overlap'
      BY <1>3, <2>1 DEF Crosses
    <3>2. esl_in' = esl_in /\ hand' \in Halves
      BY <1>3 DEF CliCommand, autopatch_dial, CliHangup, eslVars, Halves
    <3> QED BY <3>1, <3>2
  <2>2. CASE ~overlap /\ hand["main"] = "none"
    <3>1. Resting
      BY <1>3, <2>2 DEF CliCommand, CallInv, InHand, Completed, Resting, Idle
    <3> QED BY <1>3, <3>1, CliCommandStep
  <2> QED BY <2>1, <2>2
<1>4. CASE CliEnds /\ Crosses("main")
  <2>1. /\ esl_in' = esl_in /\ hand["other"] \in {"dial", "hangup"}
        /\ hand' = [hand EXCEPT !["other"] = "none"] /\ call' \in Completed(call, hand["other"])
    <3>1. CASE DialTimer("other")
      BY <3>1 DEF DialTimer, Completed, eslVars
    <3>2. CASE CliHungUp
      BY <3>2 DEF CliHungUp, Completed, eslVars
    <3> QED BY <1>4, <3>1, <3>2 DEF CliEnds
  <2>2. hand' \in Halves
    BY <2>1 DEF Halves
  <2>3. overlap => overlap'
    BY <1>4 DEF Crosses
  <2> QED BY <2>1, <2>2, <2>3, EndStep
<1> QED BY <1>1, <1>2, <1>3, <1>4 DEF MainStep, CliStep

LEMMA FsStep ==
  ASSUME FsInv, [FsNext]_fsVars
  PROVE  FsInv'
<1>1. CASE MainStep \/ CliStep
  BY <1>1, ThreadStep
<1>2. CASE Server
  <2>1. PICK c \in Channels, name \in {"CHANNEL_ANSWER", "CHANNEL_PROGRESS", "CHANNEL_HANGUP"} :
          UNCHANGED <<call, hand, overlap>> /\ esl_in' \in {esl_in, Append(esl_in, Event(name, c))}
    BY <1>2 DEF Server, Pbx
  <2>2. Event(name, c) \in Events
    BY DEF Event, Events
  <2>3. esl_in' \in Seq(Events)
    BY <2>1, <2>2 DEF FsInv
  <2> QED BY <2>1, <2>3 DEF FsInv, CallInv, InHand
<1>3. CASE UNCHANGED fsVars
  BY <1>3 DEF fsVars, FsInv, CallInv, InHand
<1> QED BY <1>1, <1>2, <1>3 DEF FsNext

\* Between two handlers a call owns its timers, taps, sockets and PTT reference
\* exactly as its state needs them, in whatever order answer, hang-up,
\* time-outs, carrier, lost connection and reload come; but for the timers it
\* was refused, and until a command of another thread overlaps a handler of the
\* main loop (mod_freeswitch's call_teardown and call_setup_audio with their
\* callers).
THEOREM CallIsAlwaysWhole == FsSpec => []CallIsWhole
<1>1. FsInit => FsInv
  BY NoCallIsWhole DEF FsInit, FsInv, CallInv, Completed, InHand, Halves
<1>2. FsInv /\ [FsNext]_fsVars => FsInv'
  BY FsStep
<1>3. FsInv => CallIsWhole
  <2> SUFFICES ASSUME FsInv, ~overlap, \A t \in DOMAIN hand : hand[t] = "none" PROVE WholeCall(call)
    BY DEF CallIsWhole
  <2>1. hand["main"] = "none" /\ hand["other"] = "none"
    BY DEF FsInv, Halves
  <2> QED BY <2>1 DEF FsInv, CallInv, Completed, InHand
<1> QED BY <1>1, <1>2, <1>3, PTL DEF FsSpec

(* ------------------------------- Gateways ---------------------------- *)

GwTypes == z_ptt \in Int /\ z_orphans \in Int /\ p_ptt \in Int /\ p_orphans \in Int

\* mod_zello's half.  A talk is reported by its stream, a transmission by its
\* client: what is held without either could not be given back.
ZelloInv ==
  /\ z_ptt = z_orphans + (IF z_rx_active THEN 1 ELSE 0)
  /\ z_rf_active => gw_carrier
  /\ z_rf_active \/ z_online => z_cli
  /\ z_tx => z_online /\ (z_rf_active \/ z_wav)
  /\ z_rx_active => z_stream

\* mod_poc's half.  The flag and the speaker are written together, so the end
\* of a talk whose speaker is nobody never gives a reference back.
PocInv ==
  /\ p_ptt = p_orphans + (IF p_ptt_active THEN 1 ELSE 0)
  /\ p_ptt_active <=> p_speaker # NoUser

GwInv == GwTypes /\ ZelloInv /\ PocInv

LEMMA GwInitInv == GwInit => GwInv
<1> SUFFICES ASSUME GwInit PROVE GwInv
  OBVIOUS
<1>1. GwTypes
  BY DEF GwInit, GwTypes
<1>2. ZelloInv /\ PocInv
  BY DEF GwInit, ZelloInv, PocInv
<1> QED BY <1>1, <1>2 DEF GwInv

\* Who talks on the far side never touches mod_poc, and the other way round.
LEMMA ZelloStep ==
  ASSUME GwTypes, ZelloInv, GwNext
  PROVE  /\ ZelloInv'
         /\ z_ptt' \in Int /\ z_orphans' \in Int
<1> USE DEF GwTypes, ZelloInv
<1>a. TalkEnds => /\ z_rx_active' = FALSE /\ z_ptt' = z_orphans /\ z_ptt' \in Int
  BY DEF TalkEnds
<1>1. CASE on_zello_connected
  BY <1>1 DEF on_zello_connected
<1>2. CASE on_zello_stream_start
  <2>1. CASE z_to_rf
    <3>1. z_rx_active' = TRUE /\ z_ptt' = z_ptt + 1 /\ z_stream' = TRUE /\ ~z_rx_active
      BY <1>2, <2>1, Zenon DEF on_zello_stream_start
    <3> QED BY <1>2, <3>1 DEF on_zello_stream_start
  <2>2. CASE ~z_to_rf
    <3>1. (z_rx_active' <=> z_rx_active) /\ z_ptt' = z_ptt /\ z_stream' = TRUE
      BY <1>2, <2>2, Zenon DEF on_zello_stream_start
    <3> QED BY <1>2, <3>1 DEF on_zello_stream_start
  <2> QED BY <2>1, <2>2
<1>3. CASE on_zello_stream_stop
  BY <1>a, <1>3 DEF on_zello_stream_stop
<1>4. CASE on_zello_disconnected
  BY <1>a, <1>4 DEF on_zello_disconnected
<1>5. CASE zello_configure
  <2>1. ZelloTeardown => /\ z_rx_active' = FALSE /\ z_ptt' = z_orphans'
                         /\ z_ptt' \in Int /\ z_orphans' \in Int
    BY <1>a DEF ZelloTeardown
  <2> QED BY <1>5, <2>1 DEF zello_configure
<1>6. CASE wav_starts \/ wav_ends
  BY <1>6 DEF wav_starts, wav_ends, MainLoop
<1>7. CASE RadioKeys
  BY <1>7 DEF RadioKeys, MainLoop
<1>8. CASE RadioUnkeys
  BY <1>8 DEF RadioUnkeys, MainLoop
<1>9. CASE poc_on_ptt_request \/ poc_on_ptt_end \/ poc_on_disconnect \/ poc_configure
  BY <1>9 DEF poc_on_ptt_request, poc_on_ptt_end, poc_on_disconnect, poc_configure, zVars
<1> QED BY <1>1, <1>2, <1>3, <1>4, <1>5, <1>6, <1>7, <1>8, <1>9 DEF GwNext

LEMMA PocStep ==
  ASSUME NoUser \notin PocUsers, GwTypes, PocInv, GwNext
  PROVE  /\ PocInv'
         /\ p_ptt' \in Int /\ p_orphans' \in Int
<1> USE DEF GwTypes, PocInv
<1>1. CASE poc_on_ptt_request
  BY <1>1 DEF poc_on_ptt_request
<1>2. CASE poc_on_ptt_end
  <2>1. PICK g \in PocGroups : /\ p_floor[g] # NoUser
                               /\ p_floor' = [p_floor EXCEPT ![g] = NoUser]
                               /\ p_orphans' = p_orphans
                               /\ IF p_floor[g] = p_speaker
                                  THEN p_ptt_active' = FALSE /\ p_speaker' = NoUser /\ p_ptt' = p_ptt - 1
                                  ELSE UNCHANGED <<p_ptt_active, p_speaker, p_ptt>>
    BY <1>2, Zenon DEF poc_on_ptt_end
  <2>2. CASE p_floor[g] = p_speaker
    <3>1. p_ptt_active /\ p_ptt' = p_ptt - 1 /\ p_ptt_active' = FALSE /\ p_speaker' = NoUser
      BY <2>1, <2>2, Zenon
    <3> QED BY <2>1, <3>1
  <2>3. CASE p_floor[g] # p_speaker
    BY <2>1, <2>3
  <2> QED BY <2>2, <2>3
<1>3. CASE poc_on_disconnect
  <2>1. PICK u \in PocUsers :
          /\ p_floor' = [g \in PocGroups |-> IF p_floor[g] = u THEN NoUser ELSE p_floor[g]]
          /\ p_ptt' = p_ptt
          /\ IF u = p_speaker
             THEN p_ptt_active' = FALSE /\ p_speaker' = NoUser /\ p_orphans' = p_orphans + 1
             ELSE UNCHANGED <<p_ptt_active, p_speaker, p_orphans>>
    BY <1>3, Zenon DEF poc_on_disconnect
  <2>2. CASE u = p_speaker
    <3>1. p_ptt_active /\ p_orphans' = p_orphans + 1 /\ p_ptt_active' = FALSE /\ p_speaker' = NoUser
      BY <2>1, <2>2, Zenon
    <3> QED BY <2>1, <3>1
  <2>3. CASE u # p_speaker
    BY <2>1, <2>3
  <2> QED BY <2>2, <2>3
<1>4. CASE poc_configure
  BY <1>4 DEF poc_configure
<1>5. CASE RadioKeys \/ RadioUnkeys
  BY <1>5 DEF RadioKeys, RadioUnkeys
<1>6. CASE \/ on_zello_connected \/ on_zello_stream_start \/ on_zello_stream_stop
           \/ on_zello_disconnected \/ zello_configure \/ wav_starts \/ wav_ends
  BY <1>6 DEF on_zello_connected, on_zello_stream_start, on_zello_stream_stop,
              on_zello_disconnected, zello_configure, wav_starts, wav_ends, pVars
<1> QED BY <1>1, <1>2, <1>3, <1>4, <1>5, <1>6 DEF GwNext

\* Each gateway holds one reference for its talker and beyond it those of the
\* talkers it forgot, for any users, groups and disturbances: no reference is
\* given back twice, nor for a talk that took none (mod_zello, mod_poc).
THEOREM TalkersAlwaysHoldTheirPtt ==
  ASSUME NoUser \notin PocUsers
  PROVE  GwSpec => []TalkersHoldTheirPtt
<1>1. GwInit => GwInv
  BY GwInitInv
<1>2. GwInv /\ [GwNext]_gwVars => GwInv'
  <2> SUFFICES ASSUME GwInv, [GwNext]_gwVars PROVE GwInv'
    OBVIOUS
  <2>1. CASE GwNext
    BY <2>1, ZelloStep, PocStep DEF GwInv, GwTypes
  <2>2. CASE UNCHANGED gwVars
    BY <2>2 DEF gwVars, zVars, pVars, GwInv, GwTypes, ZelloInv, PocInv
  <2> QED BY <2>1, <2>2
<1>3. GwInv => TalkersHoldTheirPtt
  BY DEF GwInv, ZelloInv, PocInv, TalkersHoldTheirPtt
<1> QED BY <1>1, <1>2, <1>3, PTL DEF GwSpec

(* ------------------------------- Mailbox ----------------------------- *)

MailTypes == /\ vm_files \in [VmUsers -> Nat] /\ vm_taps \in Nat /\ pr_taps \in Nat
             /\ rec_timers \in Nat /\ arm_timers \in Nat

Timers == /\ rec_timers = IF g_recording THEN 1 ELSE 0
          /\ arm_timers = IF g_record_armed THEN 1 ELSE 0
          /\ vm_loaded => vm_taps = (IF g_recording THEN 1 ELSE 0)

Parrot == pr_taps \in Nat /\ pr_taps = IF pr_recording THEN 1 ELSE 0

\* Why the limit is passed once only: a mailbox that something is armed for
\* or recorded for has not passed it yet, and one recording at a time is
\* under way, always under a carrier and never with another one armed.
Pending ==
  /\ \A u \in VmUsers : vm_files[u] <= VM_MAX + 1
  /\ g_recording \/ g_record_armed =>
       /\ vm_loaded
       /\ g_record_user_id \in VmUsers => vm_files[g_record_user_id] <= VM_MAX
  /\ g_recording => mail_rx /\ ~g_record_armed

MailInv == MailTypes /\ Timers /\ Parrot /\ Pending

LEMMA MailInitInv == VM_MAX \in Nat /\ MailInit => MailInv
<1> SUFFICES ASSUME VM_MAX \in Nat, MailInit PROVE MailInv
  OBVIOUS
<1>1. MailTypes
  BY DEF MailInit, MailTypes
<1>2. Timers /\ Parrot
  BY DEF MailInit, Timers, Parrot
<1>3. Pending
  BY DEF MailInit, Pending
<1> QED BY <1>1, <1>2, <1>3 DEF MailInv

\* A command arms only for a mailbox that is not full, and deletes at most.
LEMMA CommandEffect ==
  ASSUME MailInv, VM_MAX \in Nat, NEW c, vm_command(c)
  PROVE  /\ \/ UNCHANGED <<g_record_armed, g_record_user_id, arm_timers>>
            \/ /\ g_record_armed' = TRUE /\ arm_timers' = 1 /\ vm_loaded
               /\ g_record_user_id' \in VmUsers
               /\ vm_files[g_record_user_id'] < VM_MAX
         /\ Files(c) \in [VmUsers -> Nat]
         /\ \A u \in VmUsers : Files(c)[u] <= vm_files[u]
<1> USE DEF MailInv, MailTypes
<1>1. \/ UNCHANGED <<g_record_armed, g_record_user_id, arm_timers>>
      \/ \E target : /\ ~Refused(target) /\ vm_loaded
                     /\ g_record_armed' = TRUE /\ g_record_user_id' = target /\ arm_timers' = 1
  BY Zenon DEF vm_command, on_vm_record
<1>2. ASSUME NEW target, ~Refused(target) PROVE target \in VmUsers /\ vm_files[target] < VM_MAX
  BY <1>2 DEF Refused
<1>3. /\ on_vm_delete \in [VmUsers -> Nat]
      /\ \A u \in VmUsers : on_vm_delete[u] <= vm_files[u]
  BY DEF on_vm_delete
<1>4. Files(c) \in {on_vm_delete, vm_files}
  BY DEF Files
<1> QED BY <1>1, <1>2, <1>3, <1>4

\* The end of a recording saves one message at most, in the named mailbox.
LEMMA StopEffect ==
  ASSUME NEW files \in [VmUsers -> Nat], NEW user, stop_recording(files, user)
  PROVE  /\ vm_files' \in [VmUsers -> Nat]
         /\ \A u \in VmUsers :
              /\ u # user \/ ~g_recording => vm_files'[u] = files[u]
              /\ vm_files'[u] <= files[u] + 1
         /\ \/ /\ g_recording /\ vm_loaded /\ g_recording' = FALSE
               /\ vm_taps' = vm_taps - 1 /\ rec_timers' = 0
            \/ ~(g_recording /\ vm_loaded) /\ UNCHANGED <<g_recording, vm_taps, rec_timers>>
<1>1. /\ Saved(files, user) \in [VmUsers -> Nat]
      /\ \A u \in VmUsers : /\ u # user => Saved(files, user)[u] = files[u]
                            /\ Saved(files, user)[u] <= files[u] + 1
  BY DEF Saved
<1>2. CASE g_recording /\ vm_loaded
  <2>1. vm_files' = Saved(files, user)
    BY <1>2, Zenon DEF stop_recording
  <2>2. g_recording' = FALSE /\ vm_taps' = vm_taps - 1 /\ rec_timers' = 0
    BY <1>2, Zenon DEF stop_recording
  <2> QED BY <1>1, <1>2, <2>1, <2>2
<1>3. CASE ~(g_recording /\ vm_loaded)
  <2>1. vm_files' = files /\ UNCHANGED <<g_recording, vm_taps, rec_timers>>
    BY <1>3, Zenon DEF stop_recording
  <2> QED BY <1>3, <2>1
<1> QED BY <1>2, <1>3

LEMMA MailStep ==
  ASSUME VM_MAX \in Nat, MailInv, MailNext
  PROVE  MailInv'
<1> USE DEF MailInv, MailTypes, Timers, Parrot, Pending
<1>1. CASE rec_timeout
  <2>1. g_recording /\ vm_loaded
    BY <1>1 DEF rec_timeout
  <2>2. stop_recording(vm_files, g_record_user_id)
    BY <1>1 DEF rec_timeout
  <2>3. /\ vm_files' \in [VmUsers -> Nat]
        /\ \A u \in VmUsers : /\ u # g_record_user_id => vm_files'[u] = vm_files[u]
                              /\ vm_files'[u] <= vm_files[u] + 1
        /\ g_recording' = FALSE /\ vm_taps' = vm_taps - 1 /\ rec_timers' = 0
    <3>1. /\ vm_files' \in [VmUsers -> Nat]
          /\ \A u \in VmUsers :
               /\ u # g_record_user_id \/ ~g_recording => vm_files'[u] = vm_files[u]
               /\ vm_files'[u] <= vm_files[u] + 1
          /\ \/ /\ g_recording /\ vm_loaded /\ g_recording' = FALSE
                /\ vm_taps' = vm_taps - 1 /\ rec_timers' = 0
             \/ ~(g_recording /\ vm_loaded) /\ UNCHANGED <<g_recording, vm_taps, rec_timers>>
      BY <2>2, StopEffect
    <3> QED BY <2>1, <3>1
  <2>4. UNCHANGED <<vm_loaded, g_record_armed, arm_timers, prVars>>
    BY <1>1 DEF rec_timeout
  <2>5. \A u \in VmUsers : vm_files'[u] <= VM_MAX + 1
    BY <2>1, <2>3
  <2> QED BY <2>1, <2>3, <2>4, <2>5 DEF prVars
<1>2. CASE arm_timeout
  BY <1>2 DEF arm_timeout, prVars
<1>3. CASE parrot_unload
  BY <1>3 DEF parrot_unload, vmVars
<1>4. CASE CarrierComes
  <2>1. Parrot'
    BY <1>4 DEF CarrierComes, parrot_cor_assert
  <2>2. CASE vm_loaded /\ g_record_armed /\ ~g_recording
    BY <1>4, <2>1, <2>2 DEF CarrierComes, vm_cor_assert, start_recording_now
  <2>3. CASE ~(vm_loaded /\ g_record_armed /\ ~g_recording)
    BY <1>4, <2>1, <2>3 DEF CarrierComes, vm_cor_assert
  <2> QED BY <2>2, <2>3
<1>5. CASE AudioFrame
  BY <1>5 DEF AudioFrame
<1>6. CASE DialUnderCarrier
  BY <1>6 DEF DialUnderCarrier, vmVars, prVars
<1>7. CASE CarrierGoes
  <2>1. /\ vm_command(pending_cmd)
        /\ stop_recording(Files(pending_cmd), g_record_user_id')
        /\ vm_loaded' = vm_loaded /\ mail_rx' = FALSE
    BY <1>7 DEF CarrierGoes
  <2>2. Parrot'
    BY <1>7 DEF CarrierGoes, parrot_cor_drop
  <2> DEFINE files == Files(pending_cmd)
             user  == g_record_user_id'
  <2>3. /\ \/ UNCHANGED <<g_record_armed, g_record_user_id, arm_timers>>
           \/ /\ g_record_armed' = TRUE /\ arm_timers' = 1 /\ vm_loaded
              /\ user \in VmUsers /\ vm_files[user] < VM_MAX
        /\ files \in [VmUsers -> Nat]
        /\ \A u \in VmUsers : files[u] <= vm_files[u]
    BY <2>1, CommandEffect
  <2> HIDE DEF files
  <2>4. /\ vm_files' \in [VmUsers -> Nat]
        /\ \A u \in VmUsers :
             /\ u # user \/ ~g_recording => vm_files'[u] = files[u]
             /\ vm_files'[u] <= files[u] + 1
        /\ \/ /\ g_recording /\ vm_loaded /\ g_recording' = FALSE
              /\ vm_taps' = vm_taps - 1 /\ rec_timers' = 0
           \/ ~g_recording /\ UNCHANGED <<g_recording, vm_taps, rec_timers>>
    <3>1. stop_recording(files, user)
      BY <2>1 DEF files
    <3> QED BY <2>3, <3>1, StopEffect
  <2>5. CASE UNCHANGED <<g_record_armed, g_record_user_id, arm_timers>>
    <3>1. \A u \in VmUsers : vm_files'[u] <= VM_MAX + 1
      BY <2>3, <2>4, <2>5
    <3>2. g_record_armed' => ~g_recording
      BY <2>5
    <3>3. g_record_armed' /\ user \in VmUsers => vm_files'[user] <= VM_MAX
      BY <2>3, <2>4, <2>5, <3>2
    <3>4. Timers' /\ vm_taps' \in Nat /\ ~g_recording'
      BY <2>1, <2>4, <2>5
    <3> QED BY <2>1, <2>2, <2>4, <2>5, <3>1, <3>3, <3>4
  <2>6. CASE ~UNCHANGED <<g_record_armed, g_record_user_id, arm_timers>>
    <3>1. /\ g_record_armed' = TRUE /\ arm_timers' = 1 /\ vm_loaded
          /\ user \in VmUsers /\ vm_files[user] < VM_MAX
      BY <2>3, <2>6
    <3>2. vm_files'[user] <= VM_MAX
      BY <2>3, <2>4, <3>1
    <3>3. \A u \in VmUsers : vm_files'[u] <= VM_MAX + 1
      BY <2>3, <2>4, <3>2
    <3>4. Timers' /\ vm_taps' \in Nat /\ ~g_recording'
      BY <2>1, <2>4, <3>1
    <3> QED BY <2>1, <2>2, <2>4, <3>1, <3>2, <3>3, <3>4
  <2> QED BY <2>5, <2>6
<1>8. CASE DialLate
  <2>1. PICK c \in Commands :
          /\ vm_command(c) /\ vm_files' = Files(c) /\ ~mail_rx
          /\ UNCHANGED <<vm_loaded, g_recording, rec_timers, vm_taps, pr_recording, pr_taps, mail_rx>>
    BY <1>8 DEF DialLate
  <2>2. /\ \/ UNCHANGED <<g_record_armed, g_record_user_id, arm_timers>>
           \/ /\ g_record_armed' = TRUE /\ arm_timers' = 1 /\ vm_loaded
              /\ g_record_user_id' \in VmUsers
              /\ vm_files[g_record_user_id'] < VM_MAX
        /\ vm_files' \in [VmUsers -> Nat]
        /\ \A u \in VmUsers : vm_files'[u] <= vm_files[u]
    BY <2>1, CommandEffect
  <2>3. Pending'
    BY <2>1, <2>2
  <2>4. MailTypes' /\ Timers' /\ Parrot'
    BY <2>1, <2>2
  <2> QED BY <2>3, <2>4
<1>9. CASE on_caller_identified \/ voicemail_configure
  BY <1>9 DEF on_caller_identified, voicemail_configure, prVars
<1>10. CASE voicemail_unload
  BY <1>10 DEF voicemail_unload, prVars
<1> QED BY <1>1, <1>2, <1>3, <1>4, <1>5, <1>6, <1>7, <1>8, <1>9, <1>10 DEF MailNext

\* A mailbox never holds more than one message above its limit, and timers
\* and taps are those of the recording and of the arming, whatever carriers,
\* commands, time-outs and unloads come between (mod_voicemail, mod_parrot).
THEOREM MailboxesAlwaysHold ==
  ASSUME VM_MAX \in Nat
  PROVE  MailSpec => []MailboxesHold
<1>1. MailInit => MailInv
  BY MailInitInv
<1>2. MailInv /\ [MailNext]_mailVars => MailInv'
  <2> SUFFICES ASSUME MailInv, [MailNext]_mailVars PROVE MailInv'
    OBVIOUS
  <2>1. CASE UNCHANGED mailVars
    BY <2>1 DEF mailVars, vmVars, prVars, MailInv, MailTypes, Timers, Parrot, Pending
  <2> QED BY <2>1, MailStep
<1>3. MailInv => MailboxesHold
  BY DEF MailInv, Timers, Parrot, Pending, MailboxesHold
<1> QED BY <1>1, <1>2, <1>3, PTL DEF MailSpec

(* ------------------------------ Announcers --------------------------- *)

\* The one armed timer of each state of an activity, and whose handle is kept.
OcTimers(s) == [tick   |-> IF s = "active" THEN 1 ELSE 0,
                expire |-> IF s = "tail" THEN 1 ELSE 0]
OcHandle(s) == IF s = "idle" THEN "none" ELSE IF s = "active" THEN "tick" ELSE "expire"

\* A refused timer leaves the activity as without one.
Armed(s) == oc_timers = OcTimers(s) /\ g_oc_timer_id = OcHandle(s)
OcArmed == IF "activity" \in refused THEN Armed("idle") ELSE Armed(g_oc_state)

\* Only mode "on_call" has activities: the schedule stands in for them in the
\* other, whose state is idle.
OcInv ==
    /\ cw_mode \in {"always", "on_call"} /\ g_oc_state \in {"idle", "active", "tail"}
    /\ cw_mode = "always" => (sched \/ "schedule" \in refused) /\ g_oc_state = "idle"
    /\ OcArmed

OwedInv == id_owed => \/ g_pending \/ sched \/ g_oc_state # "idle"
                      \/ id_dropped \/ "schedule" \in refused
EmInv == em_timer \in {0, 1} /\ (emergency = "dtmf" => em_timer = 1 \/ "emergency" \in refused)
AnnInv == OcInv /\ OwedInv /\ EmInv

LEMMA NoneWhenIdle == OcTimers("idle") = NoTimers /\ OcHandle("idle") = "none"
BY DEF OcTimers, OcHandle, NoTimers

LEMMA CancelledIsIdle == ASSUME OcInv PROVE OcCancelled = NoTimers
BY DEF OcInv, OcArmed, Armed, OcCancelled, OcTimers, OcHandle, NoTimers

\* Only the answer to what was asked for changes.
LEMMA OthersUngranted == ASSUME NEW what, NEW made, Granted(what, made)
  PROVE  \A s : s # what => (s \in refused' <=> s \in refused)
BY DEF Granted

LEMMA TimerGranted ==
  ASSUME OcInv, NEW kind \in {"tick", "expire"}, OcTimer(kind),
         g_oc_state' = IF kind = "tick" THEN "active" ELSE "tail"
  PROVE  OcArmed'
<1>1. PICK made \in BOOLEAN :
        /\ g_oc_timer_id' = IF made THEN kind ELSE "none"
        /\ oc_timers' = IF made THEN [NoTimers EXCEPT ![kind] = @ + 1] ELSE NoTimers
        /\ Granted("activity", made)
  BY CancelledIsIdle, Zenon DEF OcTimer
<1>2. CASE made
  <2>1. "activity" \notin refused'
    BY <1>1, <1>2 DEF Granted
  <2>2. CASE kind = "tick"
    <3>1. oc_timers' = [NoTimers EXCEPT !.tick = @ + 1]
      BY <1>1, <1>2, <2>2
    <3>2. oc_timers' = OcTimers("active")
      BY <3>1 DEF OcTimers, NoTimers
    <3>3. g_oc_state' = "active" /\ g_oc_timer_id' = OcHandle("active")
      BY <1>1, <1>2, <2>2 DEF OcHandle
    <3> QED BY <2>1, <3>2, <3>3 DEF OcArmed, Armed
  <2>3. CASE kind = "expire"
    <3>1. oc_timers' = [NoTimers EXCEPT !.expire = @ + 1]
      BY <1>1, <1>2, <2>3
    <3>2. oc_timers' = OcTimers("tail")
      BY <3>1 DEF OcTimers, NoTimers
    <3>3. g_oc_state' = "tail" /\ g_oc_timer_id' = OcHandle("tail")
      BY <1>1, <1>2, <2>3 DEF OcHandle
    <3> QED BY <2>1, <3>2, <3>3 DEF OcArmed, Armed
  <2> QED BY <2>2, <2>3
<1>3. CASE ~made
  <2>1. "activity" \in refused'
    BY <1>1, <1>3 DEF Granted
  <2> QED BY <1>1, <1>3, <2>1, NoneWhenIdle DEF OcArmed, Armed
<1> QED BY <1>2, <1>3

\* What an activity asks for leaves the other answers alone.
LEMMA EntersStep ==
  ASSUME OcInv, EmInv, oc_enter_active \/ oc_enter_tail, cw_mode = "on_call",
         UNCHANGED <<cw_mode, sched, emergency, em_timer>>
  PROVE  /\ OcInv' /\ EmInv' /\ g_oc_state' # "idle"
         /\ "schedule" \in refused' <=> "schedule" \in refused
<1>1. \E kind \in {"tick", "expire"} :
        OcTimer(kind) /\ g_oc_state' = IF kind = "tick" THEN "active" ELSE "tail"
  BY DEF oc_enter_active, oc_enter_tail
<1>2. OcArmed'
  BY <1>1, TimerGranted
<1>3. \A s : s # "activity" => (s \in refused' <=> s \in refused)
  BY <1>1, OthersUngranted DEF OcTimer
<1> QED BY <1>1, <1>2, <1>3 DEF OcInv, EmInv

LEMMA SameOcStep ==
  ASSUME OcInv, EmInv, SameOc, UNCHANGED <<cw_mode, sched, emergency, em_timer>>
  PROVE  OcInv' /\ EmInv' /\ g_oc_state' = g_oc_state /\ refused' = refused
BY DEF SameOc, ocVars, OcInv, OcArmed, Armed, EmInv

\* mod_cwid on a change of the repeater's state: what becomes owed is pending
\* or belongs to the activity that is entered.
LEMMA OnAirStep ==
  ASSUME OcInv, EmInv, NEW q, NEW pending, NEW tail, NEW more, cwid_on_air(q, pending, tail, more),
         UNCHANGED <<cw_mode, sched, emergency, em_timer>>
  PROVE  AnnInv'
<1>1. /\ OcInv' /\ EmInv'
      /\ "schedule" \in refused' <=> "schedule" \in refused
      /\ cw_mode = "on_call" => g_oc_state' # "idle"
  <2>1. CASE cw_mode = "on_call" /\ g_oc_state # "active"
    BY <2>1, EntersStep DEF cwid_on_air
  <2>2. CASE ~(cw_mode = "on_call" /\ g_oc_state # "active")
    <3>1. SameOc
      BY <2>2 DEF cwid_on_air
    <3> QED BY <2>2, <3>1, SameOcStep DEF OcInv
  <2> QED BY <2>1, <2>2
<1> QED BY <1>1 DEF OcInv, OwedInv, AnnInv

LEMMA IdleStep ==
  ASSUME AnnInv, NEW more, cwid_idle(more), UNCHANGED <<cw_mode, sched, emergency, em_timer>>
  PROVE  AnnInv'
<1>1. /\ OcInv' /\ EmInv'
      /\ "schedule" \in refused' <=> "schedule" \in refused
      /\ g_oc_state # "idle" => g_oc_state' # "idle"
  <2>1. CASE cw_mode = "on_call" /\ g_oc_state = "active"
    BY <2>1, EntersStep DEF cwid_idle, AnnInv
  <2>2. CASE ~(cw_mode = "on_call" /\ g_oc_state = "active")
    <3>1. SameOc
      BY <2>2 DEF cwid_idle
    <3> QED BY <2>2, <3>1, SameOcStep DEF AnnInv
  <2> QED BY <2>1, <2>2
<1>2. id_owed' => id_owed /\ g_pending' = g_pending /\ id_dropped' = id_dropped
  BY Zenon DEF cwid_idle, send_cwid, Paid, Silent, owedVars
<1> QED BY <1>1, <1>2 DEF AnnInv, OwedInv

LEMMA AnnStep == ASSUME AnnInv, [AnnNext]_annVars PROVE AnnInv'
<1>1. CASE cwid_timer_cb \/ oc_active_tick
  <2>1. /\ UNCHANGED <<cw_mode, g_oc_state, oc_timers, g_oc_timer_id>>
        /\ UNCHANGED <<sched, refused, emergency, em_timer>>
    BY <1>1 DEF cwid_timer_cb, oc_active_tick, ocVars
  <2>2. id_owed' => id_owed /\ (g_pending => g_pending') /\ id_dropped' = id_dropped
    BY <1>1, Zenon DEF cwid_timer_cb, oc_active_tick, cwid_tick, send_cwid, Paid, Silent, owedVars
  <2> QED BY <2>1, <2>2 DEF AnnInv, OcInv, OcArmed, Armed, OwedInv, EmInv
<1>2. CASE oc_tail_expire
  <2>1. g_oc_state = "tail" /\ "activity" \notin refused /\ oc_timers = OcTimers("tail")
    BY <1>2 DEF oc_tail_expire, AnnInv, OcInv, OcArmed, Armed, OcTimers
  <2>2. oc_timers' = OcTimers("idle") /\ g_oc_timer_id' = OcHandle("idle") /\ ~id_owed'
    BY <1>2, <2>1 DEF oc_tail_expire, OcTimers, OcHandle, send_cwid, Paid
  <2>3. g_oc_state' = "idle" /\ UNCHANGED <<cw_mode, sched, refused, emergency, em_timer>>
    BY <1>2 DEF oc_tail_expire
  <2> QED BY <2>1, <2>2, <2>3 DEF AnnInv, OcInv, OcArmed, Armed, OwedInv, EmInv
<1>3. CASE cli_cwid
  <2>1. /\ UNCHANGED <<cw_mode, g_oc_state, oc_timers, g_oc_timer_id>>
        /\ UNCHANGED <<sched, refused, emergency, em_timer>> /\ ~id_owed'
    BY <1>3 DEF cli_cwid, ocVars, send_cwid, Paid
  <2> QED BY <2>1 DEF AnnInv, OcInv, OcArmed, Armed, OwedInv, EmInv
<1>4. CASE AnnCarrierComes \/ RxTimeout
  BY <1>4, OnAirStep DEF AnnCarrierComes, RxTimeout, AnnInv
<1>5. CASE AnnCarrierGoes
  BY <1>5, OnAirStep, IdleStep DEF AnnCarrierGoes, AnnInv
<1>6. CASE TailExpires
  BY <1>6, IdleStep DEF TailExpires
<1>7. CASE courtesy_on_queue_complete \/ ToneAges \/ on_vcor_drop \/ time_announce \/ HourPasses
  <2>1. UNCHANGED <<cwidVars, refused, emergency, em_timer>>
    BY <1>7 DEF courtesy_on_queue_complete, ToneAges, on_vcor_drop, time_announce, HourPasses
  <2> QED BY <2>1 DEF cwidVars, ocVars, owedVars, AnnInv, OcInv, OcArmed, Armed, OwedInv, EmInv
<1>8. CASE on_emergency_on
  <2>1. PICK made \in BOOLEAN : em_timer' = (IF made THEN 1 ELSE 0) /\ Granted("emergency", made)
    BY <1>8 DEF on_emergency_on
  <2>2. EmInv'
    BY <2>1 DEF EmInv, Granted
  <2>3. \A s : s # "emergency" => (s \in refused' <=> s \in refused)
    BY <2>1, OthersUngranted
  <2>4. UNCHANGED cwidVars
    BY <1>8 DEF on_emergency_on
  <2> QED BY <2>2, <2>3, <2>4 DEF cwidVars, ocVars, owedVars, AnnInv, OcInv, OcArmed, Armed, OwedInv
<1>9. CASE emergency_off \/ core_set_emergency \/ emergency_unload
  <2>1. UNCHANGED <<cwidVars, refused>> /\ em_timer' \in {0, 1} /\ emergency' \in {"off", "other"}
    BY <1>9 DEF emergency_off, core_set_emergency, emergency_unload, AnnInv, EmInv
  <2> QED BY <2>1 DEF cwidVars, ocVars, owedVars, AnnInv, OcInv, OcArmed, Armed, OwedInv, EmInv
<1>10. CASE cwid_configure
  <2>1. PICK mode \in {"always", "on_call"}, made \in BOOLEAN :
          /\ cw_mode' = mode /\ sched' = (mode = "always" /\ made)
          /\ refused' = (refused \ {"activity", "schedule"})
                           \cup {s \in {"schedule"} : mode = "always" /\ ~made}
          /\ oc_timers' = NoTimers /\ g_oc_timer_id' = "none" /\ g_oc_state' = "idle"
          /\ id_dropped' = (mode = "on_call" /\ id_owed /\ ~g_pending)
          /\ UNCHANGED <<g_pending, id_owed, emergency, em_timer>>
    BY <1>10, CancelledIsIdle, Zenon DEF cwid_configure, AnnInv
  <2>2. OcInv'
    BY <2>1, NoneWhenIdle DEF OcInv, OcArmed, Armed
  <2>3. OwedInv'
    BY <2>1 DEF OwedInv
  <2>4. EmInv'
    BY <2>1 DEF AnnInv, EmInv
  <2> QED BY <2>2, <2>3, <2>4 DEF AnnInv
<1>11. CASE UNCHANGED annVars
  BY <1>11 DEF annVars, cwidVars, ocVars, owedVars, AnnInv, OcInv, OcArmed, Armed, OwedInv, EmInv
<1> QED BY <1>1, <1>2, <1>3, <1>4, <1>5, <1>6, <1>7, <1>8, <1>9, <1>10, <1>11 DEF AnnNext

\* While the station owes its identification the pending flag, the schedule
\* or the one timer of the activity will send it, and a dialled emergency has
\* the timer that ends it, whatever traffic, carriers that throw out the
\* queue, quiet hours and other users of the flag do in between; but for a
\* timer or schedule that was refused, and for a reload to mode "on_call"
\* that forgets what its activity owed (mod_cwid, mod_emergency).
THEOREM NothingIsEverForgotten == AnnSpec => []NothingIsForgotten
<1>1. AnnInit => AnnInv
  <2> SUFFICES ASSUME AnnInit PROVE AnnInv
    OBVIOUS
  <2>1. "activity" \notin refused /\ (cw_mode = "always" => sched \/ "schedule" \in refused)
    BY DEF AnnInit
  <2> QED BY <2>1, NoneWhenIdle DEF AnnInit, AnnInv, OcInv, OcArmed, Armed, OwedInv, EmInv
<1>2. AnnInv /\ [AnnNext]_annVars => AnnInv'
  BY AnnStep
<1>3. AnnInv => NothingIsForgotten
  <2> SUFFICES ASSUME AnnInv PROVE NothingIsForgotten
    OBVIOUS
  <2>1. /\ OcTimers("idle") = NoTimers
        /\ OcTimers("active") = [tick |-> 1, expire |-> 0]
        /\ OcTimers("tail") = [tick |-> 0, expire |-> 1]
    BY DEF OcTimers, NoTimers
  <2>2. oc_timers = IF "activity" \in refused THEN NoTimers ELSE OcTimers(g_oc_state)
    BY <2>1 DEF AnnInv, OcInv, OcArmed, Armed
  <2>3. g_oc_state \in {"idle", "active", "tail"}
    BY DEF AnnInv, OcInv
  <2>4. g_oc_state # "idle" => "activity" \in refused \/ oc_timers # NoTimers
    BY <2>2, <2>3 DEF OcTimers, NoTimers
  <2>5. em_timer <= 1 /\ (emergency = "dtmf" => em_timer = 1 \/ "emergency" \in refused)
    BY DEF AnnInv, EmInv
  <2>6. id_owed => \/ g_pending \/ sched \/ oc_timers # NoTimers
                   \/ id_dropped \/ refused \cap {"activity", "schedule"} # {}
    BY <2>4 DEF AnnInv, OwedInv
  <2> QED BY <2>1, <2>2, <2>3, <2>5, <2>6, Zenon DEF NothingIsForgotten
<1> QED BY <1>1, <1>2, <1>3, PTL DEF AnnSpec

(* --------------------------- Caller identity ------------------------- *)

\* The caller and his session.
LoginInv ==
    /\ g_current_method = "login" => g_current_user_id = g_session_user_id
    /\ session_timers = IF g_session_user_id # 0 /\ ~login_untimed THEN 1 ELSE 0

\* What was accepted lies behind the counter kept for the user, so a code that
\* is not refused as replayed has never been accepted.
OtpTypes ==
    /\ users \in UserTables /\ otp_step \in Nat
    /\ otp_sessions \subseteq Ids /\ otp_timers \in [Ids -> Nat] /\ otp_last \in [Ids -> Nat]
    /\ otp_accepted \subseteq Ids \X Nat /\ IsFiniteSet(otp_accepted)
OtpInv ==
    /\ OtpTypes
    /\ otp_elevated = otp_sessions
    /\ \A u \in Ids : otp_timers[u] = IF u \in otp_sessions \ otp_untimed THEN 1 ELSE 0
    /\ \A a \in otp_accepted : a[2] <= otp_last[a[1]]
    /\ otp_grants = Cardinality(otp_accepted)

AccInv == LoginInv /\ OtpInv

\* The parts of mod_otp that OtpInv speaks of.
OtpSame == UNCHANGED <<users, otp_step, grantVars, otp_last, otp_accepted, otp_grants>>

LEMMA TotpUsersAreKnown == ASSUME OtpTypes, NEW u, HasTotp(u) PROVE u \in Ids
<1>1. PICK k \in DOMAIN users : users[k].id = u
  BY DEF HasTotp, First
<1> QED BY <1>1 DEF OtpTypes, Ids

LEMMA OtpKept == ASSUME OtpInv, OtpSame PROVE OtpInv'
BY DEF OtpInv, OtpTypes, OtpSame, grantVars

\* A command of mod_otp, right or wrong, late or again.
LEMMA OtpCommandStep ==
  ASSUME OtpInv, NEW u, NEW arg, OtpCommand(u, arg), UNCHANGED <<users, otp_step>>
  PROVE  OtpInv'
<1>1. CASE UNCHANGED <<grantVars, otp_last, otp_accepted, otp_grants>>
  BY <1>1, OtpKept DEF OtpSame
<1>2. CASE ~UNCHANGED <<grantVars, otp_last, otp_accepted, otp_grants>>
  <2>1. HasTotp(u)
    BY <1>2 DEF OtpCommand
  <2>2. u \in Ids
    BY <2>1, TotpUsersAreKnown DEF OtpInv
  <2>3. PICK c \in Window : /\ ~Replayed(u, c)
                            /\ otp_last' = [otp_last EXCEPT ![u] = c]
                            /\ otp_accepted' = otp_accepted \cup {<<u, c>>}
                            /\ otp_grants' = otp_grants + 1
                            /\ otp_session_start(u)
    BY <1>2 DEF OtpCommand
  <2>4. c \in Nat /\ otp_last[u] \in Nat /\ c > otp_last[u]
    BY <2>2, <2>3 DEF Window, Replayed, OtpInv, OtpTypes
  <2>5. otp_last' \in [Ids -> Nat] /\ \A v \in Ids : otp_last'[v] >= otp_last[v]
    BY <2>2, <2>3, <2>4 DEF OtpInv, OtpTypes
  <2>6. otp_last'[u] = c
    BY <2>2, <2>3 DEF OtpInv, OtpTypes
  <2>7. <<u, c>> \notin otp_accepted
    BY <2>4 DEF OtpInv
  <2>8. /\ otp_accepted' \subseteq Ids \X Nat /\ IsFiniteSet(otp_accepted')
        /\ otp_grants' = Cardinality(otp_accepted')
    <3>1. /\ IsFiniteSet(otp_accepted \cup {<<u, c>>})
          /\ Cardinality(otp_accepted \cup {<<u, c>>}) = Cardinality(otp_accepted) + 1
      BY <2>7, FS_AddElement DEF OtpInv, OtpTypes
    <3>2. otp_accepted \subseteq Ids \X Nat /\ otp_grants = Cardinality(otp_accepted)
      BY DEF OtpInv, OtpTypes
    <3>3. <<u, c>> \in Ids \X Nat
      BY <2>2, <2>4
    <3> QED BY <2>3, <3>1, <3>2, <3>3
  <2>9. ASSUME NEW a \in otp_accepted' PROVE a[2] <= otp_last'[a[1]]
    <3>1. CASE a = <<u, c>>
      BY <2>4, <2>6, <3>1
    <3>2. CASE a \in otp_accepted
      <4>1. a[1] \in Ids /\ a[2] \in Nat /\ a[2] <= otp_last[a[1]]
        BY <3>2 DEF OtpInv, OtpTypes
      <4>2. otp_last[a[1]] \in Nat /\ otp_last'[a[1]] \in Nat /\ otp_last'[a[1]] >= otp_last[a[1]]
        BY <4>1, <2>5 DEF OtpInv, OtpTypes
      <4> QED BY <4>1, <4>2
    <3> QED BY <2>3, <3>1, <3>2
  <2>10. /\ otp_sessions' \subseteq Ids /\ otp_timers' \in [Ids -> Nat]
         /\ otp_elevated' = otp_sessions'
         /\ \A v \in Ids : otp_timers'[v] = IF v \in otp_sessions' \ otp_untimed' THEN 1 ELSE 0
    <3>1. CASE UNCHANGED grantVars
      BY <3>1 DEF OtpInv, OtpTypes, grantVars
    <3>2. CASE /\ otp_sessions' = otp_sessions \cup {u}
               /\ otp_timers' = [otp_timers EXCEPT ![u] = 1] /\ otp_untimed' = otp_untimed \ {u}
               /\ otp_elevated' = otp_elevated \cup {u}
      BY <2>2, <3>2 DEF OtpInv, OtpTypes
    <3>3. CASE /\ otp_sessions' = otp_sessions \cup {u}
               /\ otp_timers' = [otp_timers EXCEPT ![u] = 0] /\ otp_untimed' = otp_untimed \cup {u}
               /\ otp_elevated' = otp_elevated \cup {u}
      BY <2>2, <3>3 DEF OtpInv, OtpTypes
    <3> QED BY <2>3, <3>1, <3>2, <3>3 DEF otp_session_start
  <2> QED BY <2>5, <2>8, <2>9, <2>10 DEF OtpInv, OtpTypes
<1> QED BY <1>1, <1>2

LEMMA DispatchStep ==
  ASSUME OtpInv, NEW cmd, NEW caller, dispatch_command(cmd, caller), UNCHANGED <<users, otp_step>>
  PROVE  OtpInv'
<1>1. CASE OtpCommand(caller, SubSeq(cmd, Len(OtpPattern) + 1, Len(cmd)))
  BY <1>1, OtpCommandStep
<1>2. CASE OtpSame
  BY <1>2, OtpKept
<1> QED BY <1>1, <1>2 DEF dispatch_command, OtpSame

LEMMA OtpStep == ASSUME OtpInv, [AccNext]_accVars PROVE OtpInv'
<1>1. CASE KeyDigit
  <2>1. PICK d \in Digits \cup {"*", "#"} : cmd_digit(d)
    BY <1>1 DEF KeyDigit
  <2>2. UNCHANGED <<users, otp_step>>
    BY <1>1 DEF KeyDigit
  <2>3. CASE dispatch_command(g_buf, otp_caller')
    BY <2>2, <2>3, DispatchStep
  <2>4. CASE NoDispatch
    BY <2>2, <2>4, OtpKept DEF NoDispatch, OtpSame
  <2> QED BY <2>1, <2>3, <2>4 DEF cmd_digit
<1>2. CASE AccCarrierGoes
  <2>1. UNCHANGED <<users, otp_step>> /\ cmd_cor_drop
    BY <1>2 DEF AccCarrierGoes
  <2>2. CASE dispatch_command(g_buf, otp_caller)
    BY <2>1, <2>2, DispatchStep
  <2>3. CASE NoDispatch
    BY <2>1, <2>3, OtpKept DEF NoDispatch, OtpSame
  <2> QED BY <2>1, <2>2, <2>3 DEF cmd_cor_drop
<1>3. CASE AccCarrierComes
  BY <1>3, OtpKept DEF AccCarrierComes, NoDispatch, OtpSame
<1>4. CASE ani_timeout
  <2>1. UNCHANGED otp_step
    BY <1>4 DEF ani_timeout
  <2> QED BY <1>4, <2>1, OtpKept DEF ani_timeout, OtpSame
<1>5. CASE session_timeout_cb \/ cli_caller_logout \/ cmd_timeout_cb \/ UNCHANGED accVars
  BY <1>5, OtpKept DEF session_timeout_cb, cli_caller_logout, cmd_timeout_cb, accVars, otpVars, OtpSame, grantVars
<1>6. CASE otp_expire_cb
  <2>1. PICK u \in Ids : /\ otp_timers[u] > 0 /\ otp_timers' = [otp_timers EXCEPT ![u] = @ - 1]
                         /\ otp_sessions' = otp_sessions \ {u} /\ otp_elevated' = otp_elevated \ {u}
    BY <1>6 DEF otp_expire_cb
  <2>2. UNCHANGED <<users, otp_step, otp_untimed, otp_last, otp_accepted, otp_grants>>
    BY <1>6 DEF otp_expire_cb
  <2>3. otp_timers[u] = 1 /\ u \in otp_sessions
    BY <2>1 DEF OtpInv
  <2>4. otp_timers' = [otp_timers EXCEPT ![u] = 0]
    BY <2>1, <2>3
  <2> QED BY <2>1, <2>2, <2>4 DEF OtpInv, OtpTypes
<1>7. CASE kerchunk_user_init
  <2>1. users' \in UserTables /\ UNCHANGED otpVars
    BY <1>7 DEF kerchunk_user_init
  <2> QED BY <2>1 DEF otpVars, grantVars, OtpInv, OtpTypes
<1>8. CASE AccTime
  <2>1. otp_step' \in Nat
    BY <1>8 DEF AccTime, OtpInv, OtpTypes
  <2>2. UNCHANGED <<users, grantVars, otp_last, otp_accepted, otp_grants>>
    BY <1>8 DEF AccTime
  <2> QED BY <2>1, <2>2 DEF OtpInv, OtpTypes, grantVars
<1> QED BY <1>1, <1>2, <1>3, <1>4, <1>5, <1>6, <1>7, <1>8 DEF AccNext

\* The two ways in which a caller is named, and his leaving.
LEMMA NewTimerFits ==
  ASSUME NewLoginTimer, g_session_user_id' # 0
  PROVE  session_timers' = IF g_session_user_id' # 0 /\ ~login_untimed' THEN 1 ELSE 0
<1>1. PICK made \in BOOLEAN : session_timers' = (IF made THEN 1 ELSE 0) /\ login_untimed' = ~made
  BY DEF NewLoginTimer
<1> QED BY <1>1

LEMMA LoginCodeStep == ASSUME LoginInv, NEW code, LoginCode(code) PROVE LoginInv'
<1>1. CASE NobodyNew /\ SameLogin
  BY <1>1 DEF NobodyNew, SameLogin, LoginInv
<1>2. CASE do_logout
  BY <1>2 DEF do_logout, fire_cleared, LoginInv
<1>3. CASE /\ fire_identified(lookup_by_login(code), "login") /\ lookup_by_login(code) # 0
           /\ g_session_user_id' = lookup_by_login(code) /\ NewLoginTimer
  <2>1. g_session_user_id' # 0 /\ g_current_user_id' = g_session_user_id'
    BY <1>3 DEF fire_identified
  <2> QED BY <1>3, <2>1, NewTimerFits DEF LoginInv
<1> QED BY <1>1, <1>2, <1>3, Zenon DEF LoginCode

LEMMA IdentifyStep ==
  ASSUME LoginInv, NEW ani, Identify(ani), SameLogin
  PROVE  LoginInv'
BY DEF LoginInv, Identify, NobodyNew, SameLogin, fire_identified

LEMMA LoginStep == ASSUME LoginInv, [AccNext]_accVars PROVE LoginInv'
<1>1. CASE KeyDigit
  <2>1. PICK d \in Digits \cup {"*", "#"} : caller_digit(d)
    BY <1>1 DEF KeyDigit
  <2>2. CASE LoginCode(g_login_buf)
    BY <2>2, LoginCodeStep
  <2>3. CASE Identify(g_ani_buf) /\ SameLogin
    BY <2>3, IdentifyStep
  <2>4. CASE NobodyNew /\ SameLogin
    BY <2>4 DEF NobodyNew, SameLogin, LoginInv
  <2> QED BY <2>1, <2>2, <2>3, <2>4 DEF caller_digit
<1>2. CASE AccCarrierComes
  <2>1. caller_cor_assert /\ UNCHANGED g_session_user_id
    BY <1>2 DEF AccCarrierComes, caller_cor_assert
  <2>2. session_timers' = IF g_session_user_id' # 0 /\ ~login_untimed' THEN 1 ELSE 0
    <3>1. CASE UNCHANGED <<session_timers, login_untimed>>
      BY <2>1, <3>1 DEF LoginInv
    <3>2. CASE NewLoginTimer /\ g_session_user_id # 0
      BY <2>1, <3>2, NewTimerFits
    <3> QED BY <2>1, <3>1, <3>2 DEF caller_cor_assert, session_refresh
  <2>3. g_current_method' = "login" => g_current_user_id' = g_session_user_id'
    BY <2>1 DEF caller_cor_assert, NobodyNew, fire_identified, LoginInv
  <2> QED BY <2>2, <2>3 DEF LoginInv
<1>3. CASE AccCarrierGoes
  BY <1>3 DEF AccCarrierGoes, caller_cor_drop, fire_cleared, SameLogin, LoginInv
<1>4. CASE ani_timeout
  BY <1>4, IdentifyStep DEF ani_timeout
<1>5. CASE session_timeout_cb
  BY <1>5 DEF session_timeout_cb, fire_cleared, LoginInv
<1>6. CASE cli_caller_logout
  BY <1>6 DEF cli_caller_logout, do_logout, fire_cleared, LoginInv
<1>7. CASE otp_expire_cb \/ cmd_timeout_cb \/ kerchunk_user_init \/ AccTime \/ UNCHANGED accVars
  BY <1>7 DEF otp_expire_cb, cmd_timeout_cb, kerchunk_user_init, AccTime, accVars, callerVars, LoginInv
<1> QED BY <1>1, <1>2, <1>3, <1>4, <1>5, <1>6, <1>7 DEF AccNext

\* A login caller is the one whose session runs, sessions and elevations have
\* one timer each unless the table refused the one asked for last, and a one-time password is worth one grant, for any user
\* tables, any codes in any order and any reloads (mod_caller, mod_otp).
THEOREM ElevationIsAlwaysEarned == AccSpec => []ElevationIsEarned
<1>1. AccInit => AccInv
  <2> SUFFICES ASSUME AccInit PROVE AccInv
    OBVIOUS
  <2>1. IsFiniteSet({}) /\ Cardinality({}) = 0
    BY FS_EmptySet
  <2>2. OtpTypes
    BY <2>1 DEF AccInit, OtpTypes
  <2>3. OtpInv
    BY <2>1, <2>2 DEF AccInit, OtpInv
  <2>4. LoginInv
    BY DEF AccInit, LoginInv
  <2> QED BY <2>3, <2>4 DEF AccInv
<1>2. AccInv /\ [AccNext]_accVars => AccInv'
  BY OtpStep, LoginStep DEF AccInv
<1>3. AccInv => ElevationIsEarned
  BY DEF AccInv, LoginInv, OtpInv, ElevationIsEarned, SessionsAreTimed, CodeWorksOnce
<1> QED BY <1>1, <1>2, <1>3, PTL DEF AccSpec

\* What waits for the carrier to drop was ended under that carrier, and what
\* was ended waits.
PendingInv ==
    /\ g_pending_dispatch => acc_receiving /\ hash_keyed
    /\ cmd_ended => g_pending_dispatch

LEMMA PendingStep == ASSUME PendingInv, [AccNext]_accVars PROVE PendingInv'
<1> USE DEF PendingInv
<1>1. CASE KeyDigit
  <2>1. PICK d \in Digits \cup {"*", "#"} : cmd_digit(d)
    BY <1>1 DEF KeyDigit
  <2>2. acc_receiving' = acc_receiving
    BY <1>1 DEF KeyDigit
  <2>3. hash_keyed => hash_keyed'
    BY <2>1, Zenon DEF cmd_digit
  <2>4. CASE d = "#" /\ g_active /\ acc_receiving
    <3>1. hash_keyed'
      BY <2>1, <2>4, Zenon DEF cmd_digit
    <3>2. g_pending_dispatch'
      BY <2>1, <2>4, DigitsAreDigits DEF cmd_digit
    <3> QED BY <2>2, <2>4, <3>1, <3>2
  <2>5. CASE ~(d = "#" /\ g_active /\ acc_receiving)
    <3>1. UNCHANGED g_pending_dispatch
      BY <2>1, <2>5, Zenon DEF cmd_digit
    <3>2. ~cmd_ended'
      BY <2>1, <2>5 DEF cmd_digit
    <3> QED BY <2>2, <2>3, <3>1, <3>2
  <2> QED BY <2>4, <2>5
<1>2. CASE AccCarrierComes
  BY <1>2 DEF AccCarrierComes, heardVars
<1>3. CASE AccCarrierGoes
  BY <1>3 DEF AccCarrierGoes, cmd_cor_drop
<1>4. CASE ani_timeout \/ session_timeout_cb \/ cli_caller_logout \/ otp_expire_cb \/ cmd_timeout_cb
  BY <1>4 DEF ani_timeout, session_timeout_cb, cli_caller_logout, otp_expire_cb, cmd_timeout_cb, heardVars
<1>5. CASE kerchunk_user_init \/ AccTime \/ UNCHANGED accVars
  BY <1>5 DEF kerchunk_user_init, AccTime, accVars, cmdVars, heardVars
<1> QED BY <1>1, <1>2, <1>3, <1>4, <1>5 DEF AccNext

\* No command is fired under a carrier; as it drops, the one that was ended
\* last is fired, and one is fired only if "#" ended one under that carrier,
\* whatever digits and time-outs came after it (mod_dtmfcmd).
THEOREM CommandsAlwaysWait == AccSpec => CommandsWait
<1>1. AccInit => PendingInv
  BY DEF AccInit, PendingInv
<1>2. PendingInv /\ [AccNext]_accVars => PendingInv'
  BY PendingStep
<1>3. PendingInv /\ [AccNext]_accVars
        => [/\ dispatched' => ~acc_receiving'
            /\ AccCarrierDrops /\ cmd_ended => dispatched'
            /\ AccCarrierDrops /\ dispatched' => hash_keyed]_accVars
  <2> SUFFICES ASSUME PendingInv, AccNext
               PROVE  /\ dispatched' => ~acc_receiving'
                      /\ AccCarrierDrops /\ cmd_ended => dispatched'
                      /\ AccCarrierDrops /\ dispatched' => hash_keyed
    OBVIOUS
  <2>1. CASE AccCarrierGoes
    <3>1. cmd_cor_drop /\ ~acc_receiving'
      BY <2>1 DEF AccCarrierGoes
    <3>2. dispatched' <=> g_pending_dispatch
      BY <3>1 DEF cmd_cor_drop, NoDispatch, dispatch_command
    <3> QED BY <3>1, <3>2 DEF PendingInv
  <2>2. CASE KeyDigit
    <3>1. PICK d \in Digits \cup {"*", "#"} : cmd_digit(d)
      BY <2>2 DEF KeyDigit
    <3>2. acc_receiving' = acc_receiving
      BY <2>2 DEF KeyDigit
    <3>3. dispatched' => ~acc_receiving
      BY <3>1, Zenon DEF cmd_digit, NoDispatch
    <3> QED BY <3>2, <3>3 DEF AccCarrierDrops
  <2>3. CASE ~AccCarrierGoes /\ ~KeyDigit
    <3>1. ~dispatched' /\ ~AccCarrierDrops
      BY <2>3 DEF AccNext, AccCarrierComes, NoDispatch, ani_timeout, session_timeout_cb, cli_caller_logout,
             otp_expire_cb, cmd_timeout_cb, kerchunk_user_init, AccTime, AccCarrierDrops
    <3> QED BY <3>1
  <2> QED BY <2>1, <2>2, <2>3
<1> QED BY <1>1, <1>2, <1>3, PTL DEF AccSpec, CommandsWait

(* ------------------------------- Records ----------------------------- *)

\* A followed call has its carrier, and whatever file it knows or will be
\* given when the reception ends has heard it.
FollowedInv ==
    /\ followed => cdr_enabled
    /\ in_call /\ followed => /\ carrier
                              /\ call_recording # {} => call_no \in call_recording
                              /\ rx_active => call_no \in rx_calls
    /\ \A r \in rows : r.rec # {} => r.call \in r.rec

\* The user mod_stats will credit when the carrier goes was named in it.
NamedInv ==
    /\ named \subseteq RecUsers \ {0}
    /\ cor_active => carrier /\ current_user_id \in named \cup {0}

CreditInv ==
    /\ rrd_rx \in Nat /\ heard \in [RecUsers -> Nat]
    /\ DOMAIN rrd_user \subseteq RecUsers /\ IsFiniteSet(DOMAIN rrd_user)
    /\ Cardinality(DOMAIN rrd_user) <= RRD_MAX_USERS
    /\ \A u \in DOMAIN rrd_user : rrd_user[u] \in Nat /\ rrd_user[u] <= heard[u]
    /\ credits \subseteq Nat \X RecUsers /\ IsFiniteSet(credits)
    /\ CreditsAddUp

\* What RecCarrierGoes notes of the file of the users.
CreditsNoted ==
    credits' = credits \cup {<<rrd_rx', u>> : u \in {v \in RecUsers : TxCount(v)' > TxCount(v)}}

RecInv == FollowedInv /\ NamedInv /\ CreditInv

LEMMA NoUsersYet == DOMAIN <<>> = {} /\ IsFiniteSet({}) /\ Cardinality({}) = 0
BY FS_EmptySet

\* One user's count is one higher: the credit is his, and the only one of
\* this reception.
LEMMA CreditGiven ==
  ASSUME CreditInv, NEW u \in RecUsers, rrd_rx' = rrd_rx + 1, CreditsNoted,
         \A v \in RecUsers : TxCount(v)' = TxCount(v) + (IF v = u THEN 1 ELSE 0)
  PROVE  credits' \subseteq Nat \X RecUsers /\ IsFiniteSet(credits') /\ CreditsAddUp'
<1> DEFINE new == <<rrd_rx + 1, u>>
           Of(v) == {c \in credits : c[2] = v}
<1>1. /\ rrd_rx \in Nat /\ IsFiniteSet(credits) /\ credits \subseteq Nat \X RecUsers
      /\ \A v \in RecUsers : TxCount(v) = Cardinality(Of(v))
      /\ \A c \in credits : c[1] \in 1 .. rrd_rx
      /\ \A c, d \in credits : c[1] = d[1] => c = d
  BY DEF CreditInv, CreditsAddUp
<1>2. \A v \in RecUsers : TxCount(v) \in Nat /\ IsFiniteSet(Of(v))
  <2> SUFFICES ASSUME NEW v \in RecUsers PROVE TxCount(v) \in Nat /\ IsFiniteSet(Of(v))
    OBVIOUS
  <2>1. IsFiniteSet(Of(v))
    BY <1>1, FS_Subset
  <2> QED BY <1>1, <2>1, FS_CardinalityType
<1>3. {v \in RecUsers : TxCount(v)' > TxCount(v)} = {u}
  <2>1. ASSUME NEW v \in RecUsers PROVE TxCount(v)' > TxCount(v) <=> v = u
    <3>1. TxCount(v) \in Nat
      BY <1>2
    <3>2. TxCount(v)' = TxCount(v) + (IF v = u THEN 1 ELSE 0)
      OBVIOUS
    <3> QED BY <3>1, <3>2
  <2> QED BY <2>1
<1>4. credits' = credits \cup {new}
  BY <1>3 DEF CreditsNoted
<1>5. new \notin credits /\ new[1] = rrd_rx + 1 /\ new[2] = u
  BY <1>1
<1>6. IsFiniteSet(credits') /\ credits' \subseteq Nat \X RecUsers
  <2>1. IsFiniteSet(credits \cup {new})
    BY <1>1, FS_AddElement
  <2>2. new \in Nat \X RecUsers
    BY <1>1
  <2> QED BY <1>1, <1>4, <2>1, <2>2
<1>7. ASSUME NEW v \in RecUsers
      PROVE  TxCount(v)' = Cardinality({c \in credits' : c[2] = v})
  <2>1. CASE v = u
    <3>1. {c \in credits' : c[2] = v} = Of(v) \cup {new}
      BY <1>4, <1>5, <2>1
    <3>2. Cardinality(Of(v) \cup {new}) = Cardinality(Of(v)) + 1
      BY <1>2, <1>5, FS_AddElement
    <3> QED BY <1>1, <2>1, <3>1, <3>2
  <2>2. CASE v # u
    <3>1. {c \in credits' : c[2] = v} = Of(v)
      BY <1>4, <1>5, <2>2
    <3> QED BY <1>1, <1>2, <2>2, <3>1
  <2> QED BY <2>1, <2>2
<1>8. /\ \A c \in credits' : c[1] \in 1 .. rrd_rx'
      /\ \A c, d \in credits' : c[1] = d[1] => c = d
  BY <1>1, <1>4, <1>5
<1> QED BY <1>6, <1>7, <1>8 DEF CreditsAddUp

\* Nobody's count is higher: no credit.
LEMMA NoCreditGiven ==
  ASSUME CreditInv, rrd_rx' \in Nat, rrd_rx' >= rrd_rx, CreditsNoted, rrd_user' = rrd_user
  PROVE  credits' = credits /\ CreditsAddUp'
<1>1. \A v \in RecUsers : TxCount(v)' = TxCount(v)
  BY DEF TxCount
<1>2. \A v \in RecUsers : TxCount(v) \in Nat
  BY DEF TxCount, CreditInv
<1>3. {v \in RecUsers : TxCount(v)' > TxCount(v)} = {}
  BY <1>1, <1>2
<1>4. credits' = credits
  BY <1>3 DEF CreditsNoted
<1> QED BY <1>1, <1>4 DEF CreditInv, CreditsAddUp

\* The file of the users, one reception later.
LEMMA CreditStep ==
  ASSUME CreditInv, NEW u \in RecUsers \cup {0}, record_user(u), rrd_rx' = rrd_rx + 1, CreditsNoted,
         heard' \in [RecUsers -> Nat],
         \A v \in RecUsers : heard'[v] >= heard[v] /\ (v = u /\ u # 0 => heard'[v] = heard[v] + 1)
  PROVE  CreditInv'
<1>0. /\ rrd_rx' \in Nat /\ rrd_rx' >= rrd_rx
      /\ DOMAIN rrd_user \subseteq RecUsers /\ IsFiniteSet(DOMAIN rrd_user)
      /\ Cardinality(DOMAIN rrd_user) <= RRD_MAX_USERS
      /\ \A v \in DOMAIN rrd_user : rrd_user[v] \in Nat /\ rrd_user[v] <= heard[v]
      /\ heard \in [RecUsers -> Nat]
  BY DEF CreditInv
<1>1. CASE rrd_user' = rrd_user
  <2>1. credits' = credits /\ CreditsAddUp'
    BY <1>0, <1>1, NoCreditGiven
  <2>2. ASSUME NEW v \in DOMAIN rrd_user PROVE rrd_user[v] <= heard'[v]
    BY <1>0
  <2> QED BY <1>0, <1>1, <2>1, <2>2 DEF CreditInv
<1>2. CASE u # 0 /\ u \in DOMAIN rrd_user
  <2>1. rrd_user' = [rrd_user EXCEPT ![u] = rrd_user[u] + 1]
    BY <1>2 DEF record_user
  <2>2. DOMAIN rrd_user' = DOMAIN rrd_user
    BY <2>1
  <2>3. \A v \in DOMAIN rrd_user : rrd_user'[v] = IF v = u THEN rrd_user[v] + 1 ELSE rrd_user[v]
    BY <2>1
  <2>4. ASSUME NEW v \in DOMAIN rrd_user
        PROVE  rrd_user'[v] \in Nat /\ rrd_user'[v] <= heard'[v]
    <3>1. rrd_user[v] \in Nat /\ rrd_user[v] <= heard[v] /\ v \in RecUsers
      BY <1>0
    <3>2. heard[v] \in Nat /\ heard'[v] \in Nat
      BY <1>0, <3>1
    <3>3. CASE v = u
      BY <1>2, <2>3, <3>1, <3>2, <3>3
    <3>4. CASE v # u
      BY <2>3, <3>1, <3>2, <3>4
    <3> QED BY <3>3, <3>4
  <2>5. \A v \in RecUsers : TxCount(v)' = TxCount(v) + (IF v = u THEN 1 ELSE 0)
    BY <1>0, <1>2, <2>2, <2>3 DEF TxCount
  <2>6. credits' \subseteq Nat \X RecUsers /\ IsFiniteSet(credits') /\ CreditsAddUp'
    BY <1>0, <1>2, <2>5, CreditGiven
  <2> QED BY <1>0, <2>2, <2>4, <2>6 DEF CreditInv
<1>3. CASE u # 0 /\ u \notin DOMAIN rrd_user /\ ~(Cardinality(DOMAIN rrd_user) >= RRD_MAX_USERS)
  <2>1. rrd_user' = [v \in DOMAIN rrd_user \cup {u} |-> IF v = u THEN 1 ELSE rrd_user[v]]
    BY <1>3 DEF record_user
  <2>2. DOMAIN rrd_user' = DOMAIN rrd_user \cup {u}
    BY <2>1
  <2>3. /\ rrd_user'[u] = 1
        /\ \A v \in DOMAIN rrd_user : rrd_user'[v] = rrd_user[v]
    BY <1>3, <2>1
  <2>4. /\ IsFiniteSet(DOMAIN rrd_user')
        /\ Cardinality(DOMAIN rrd_user') = Cardinality(DOMAIN rrd_user) + 1
    BY <1>0, <1>3, <2>2, FS_AddElement
  <2>5. Cardinality(DOMAIN rrd_user) \in Nat
    BY <1>0, FS_CardinalityType
  <2>6. Cardinality(DOMAIN rrd_user') <= RRD_MAX_USERS
    BY <1>3, <2>4, <2>5, RecAssumption
  <2>7. u \in RecUsers /\ heard'[u] = heard[u] + 1 /\ heard[u] \in Nat
    BY <1>0, <1>3
  <2>8. ASSUME NEW v \in DOMAIN rrd_user
        PROVE  rrd_user'[v] \in Nat /\ rrd_user'[v] <= heard'[v]
    <3>1. rrd_user[v] \in Nat /\ rrd_user[v] <= heard[v] /\ v \in RecUsers
      BY <1>0
    <3>2. heard[v] \in Nat /\ heard'[v] \in Nat
      BY <1>0, <3>1
    <3> QED BY <2>3, <2>7, <3>1, <3>2
  <2>9. rrd_user'[u] \in Nat /\ rrd_user'[u] <= heard'[u]
    BY <2>3, <2>7
  <2>10. \A v \in RecUsers : TxCount(v)' = TxCount(v) + (IF v = u THEN 1 ELSE 0)
    BY <1>0, <1>3, <2>2, <2>3 DEF TxCount
  <2>11. credits' \subseteq Nat \X RecUsers /\ IsFiniteSet(credits') /\ CreditsAddUp'
    BY <2>7, <2>10, CreditGiven
  <2> QED BY <1>0, <2>2, <2>4, <2>6, <2>7, <2>8, <2>9, <2>11 DEF CreditInv
<1> QED BY <1>1, <1>2, <1>3 DEF record_user

LEMMA FollowedStep == ASSUME FollowedInv, [RecNext]_recVars PROVE FollowedInv'
<1> USE DEF FollowedInv
<1>1. CASE RecCarrierComes
  <2>1. UNCHANGED <<rows, cdr_enabled>> /\ carrier' /\ ~carrier
    BY <1>1 DEF RecCarrierComes
  <2>2. rx_active' => calls' \in rx_calls'
    BY <1>1 DEF RecCarrierComes, rx_start
  <2>3. CASE cdr_enabled
    BY <1>1, <2>1, <2>2, <2>3 DEF RecCarrierComes, cdr_cor_assert
  <2>4. CASE ~cdr_enabled
    BY <1>1, <2>1, <2>4 DEF RecCarrierComes, cdr_cor_assert
  <2> QED BY <2>3, <2>4
<1>2. CASE RecCarrierGoes
  <2>1. /\ UNCHANGED <<followed, cdr_enabled, rx_calls, call_no>>
        /\ cdr_cor_drop
    BY <1>2 DEF RecCarrierGoes
  <2>2. in_call /\ followed => (call_recording' # {} => call_no \in call_recording')
    BY <1>2 DEF RecCarrierGoes, rx_stop
  <2>3. CASE cdr_enabled /\ in_call
    BY <2>1, <2>2, <2>3 DEF cdr_cor_drop, write_cdr
  <2>4. CASE ~(cdr_enabled /\ in_call)
    BY <2>1, <2>4 DEF cdr_cor_drop
  <2> QED BY <2>3, <2>4
<1>3. CASE CallerIdentified
  BY <1>3 DEF CallerIdentified
<1>4. CASE on_vcor \/ on_queue_drain \/ rec_on_queue_complete
  BY <1>4 DEF on_vcor, on_queue_drain, rec_on_queue_complete, cdrVars
<1>5. CASE configure
  <2>1. UNCHANGED <<rx_active, rx_calls, in_call, call_no, call_recording, rows, carrier>>
    BY <1>5 DEF configure
  <2>2. PICK rec \in BOOLEAN, cdr \in BOOLEAN : cdr_enabled' = cdr /\ followed' = (followed /\ cdr)
    BY <1>5, Zenon DEF configure
  <2>3. followed' => followed /\ cdr_enabled'
    BY <2>2, Zenon
  <2> QED BY <2>1, <2>3
<1>6. CASE recorder_unload
  BY <1>6 DEF recorder_unload
<1>7. CASE cdr_unload
  <2>1. CASE in_call
    BY <1>7, <2>1 DEF cdr_unload, write_cdr
  <2>2. CASE ~in_call
    BY <1>7, <2>2 DEF cdr_unload
  <2> QED BY <2>1, <2>2
<1>8. CASE NextDay
  BY <1>8 DEF NextDay, recorderVars
<1>9. CASE kerchunk_rrd_reset \/ UNCHANGED recVars
  BY <1>9 DEF kerchunk_rrd_reset, recVars, recorderVars, cdrVars
<1> QED BY <1>1, <1>2, <1>3, <1>4, <1>5, <1>6, <1>7, <1>8, <1>9 DEF RecNext

LEMMA NamedStep == ASSUME NamedInv, [RecNext]_recVars PROVE NamedInv'
<1> USE DEF NamedInv
<1>1. CASE RecCarrierComes
  BY <1>1 DEF RecCarrierComes, stats_cor_assert
<1>2. CASE RecCarrierGoes
  BY <1>2 DEF RecCarrierGoes, stats_cor_drop
<1>3. CASE CallerIdentified
  BY <1>3 DEF CallerIdentified, Named
<1>4. CASE on_vcor \/ on_queue_drain \/ rec_on_queue_complete \/ configure
  BY <1>4 DEF on_vcor, on_queue_drain, rec_on_queue_complete, configure, statsVars
<1>5. CASE recorder_unload \/ cdr_unload \/ NextDay \/ kerchunk_rrd_reset
  BY <1>5 DEF recorder_unload, cdr_unload, NextDay, kerchunk_rrd_reset, statsVars
<1>6. CASE UNCHANGED recVars
  BY <1>6 DEF recVars, statsVars
<1> QED BY <1>1, <1>2, <1>3, <1>4, <1>5, <1>6 DEF RecNext

LEMMA RecStep == ASSUME RecInv, [RecNext]_recVars PROVE RecInv'
<1>1. FollowedInv' /\ NamedInv'
  BY FollowedStep, NamedStep DEF RecInv
<1>2. CreditInv'
  <2>1. CASE RecCarrierGoes
    <3>1. heard' = [u \in RecUsers |-> heard[u] + IF u \in named THEN 1 ELSE 0]
      BY <2>1 DEF RecCarrierGoes
    <3>2. /\ heard' \in [RecUsers -> Nat]
          /\ \A v \in RecUsers : /\ heard'[v] >= heard[v]
                                 /\ v \in named => heard'[v] = heard[v] + 1
      BY <3>1 DEF RecInv, CreditInv
    <3>3. CASE cor_active
      <4>1. current_user_id \in named \cup {0} /\ named \subseteq RecUsers \ {0}
        BY <3>3 DEF RecInv, NamedInv
      <4>2. rrd_rx' = rrd_rx + 1 /\ record_user(current_user_id)
        BY <2>1, <3>3 DEF RecCarrierGoes, stats_cor_drop
      <4>3. CreditsNoted
        BY <2>1 DEF RecCarrierGoes, CreditsNoted
      <4> QED BY <3>2, <4>1, <4>2, <4>3, CreditStep DEF RecInv
    <3>4. CASE ~cor_active
      <4>1. UNCHANGED <<rrd_rx, rrd_user>>
        BY <2>1, <3>4 DEF RecCarrierGoes, stats_cor_drop
      <4>2. ASSUME NEW u \in DOMAIN rrd_user PROVE rrd_user[u] <= heard'[u]
        <5>1. /\ u \in RecUsers /\ rrd_user[u] \in Nat /\ rrd_user[u] <= heard[u]
              /\ heard[u] \in Nat /\ heard'[u] \in Nat /\ heard'[u] >= heard[u]
          BY <3>2 DEF RecInv, CreditInv
        <5> QED BY <5>1
      <4>3. credits' = credits /\ CreditsAddUp'
        <5>1. CreditsNoted
          BY <2>1 DEF RecCarrierGoes, CreditsNoted
        <5> QED BY <4>1, <5>1, NoCreditGiven DEF RecInv, CreditInv
      <4> QED BY <3>2, <4>1, <4>2, <4>3 DEF RecInv, CreditInv
    <3> QED BY <3>3, <3>4
  <2>2. CASE kerchunk_rrd_reset
    <3>1. rrd_rx' = 0 /\ rrd_user' = <<>> /\ heard' = heard /\ credits' = {}
      BY <2>2 DEF kerchunk_rrd_reset
    <3>2. CreditsAddUp'
      BY <3>1, NoUsersYet DEF CreditsAddUp, TxCount
    <3> QED BY <3>1, <3>2, NoUsersYet, RecAssumption DEF RecInv, CreditInv
  <2>3. CASE ~(RecCarrierGoes \/ kerchunk_rrd_reset)
    <3>1. UNCHANGED <<rrd_rx, rrd_user, heard, credits>>
      BY <2>3 DEF RecNext, RecCarrierComes, CallerIdentified, on_vcor, on_queue_drain,
                  rec_on_queue_complete, configure, recorder_unload, cdr_unload, NextDay, recVars,
                  statsVars
    <3> QED BY <3>1 DEF RecInv, CreditInv, CreditsAddUp, TxCount
  <2> QED BY <2>1, <2>2, <2>3
<1> QED BY <1>1, <1>2 DEF RecInv

\* The row of a call during which mod_cdr was never switched off names a file
\* that holds the call, or none; nobody is credited with more transmissions
\* than he was named in, and no reception is credited twice, so all users
\* together have no more than there were, in whatever order carriers, names,
\* the queue, switching, unloading and resets come (mod_recorder, mod_cdr and
\* mod_stats).
THEOREM RecordsAreAlwaysTrue == RecSpec => []RecordsAreTrue
<1>1. RecInit => RecInv
  <2> SUFFICES ASSUME RecInit PROVE RecInv
    OBVIOUS
  <2>1. rrd_user = <<>> /\ rrd_rx = 0 /\ heard = [u \in RecUsers |-> 0] /\ credits = {}
    BY DEF RecInit
  <2>2. CreditInv
    BY <2>1, NoUsersYet, RecAssumption DEF CreditInv, CreditsAddUp, TxCount
  <2>3. FollowedInv /\ NamedInv
    BY DEF RecInit, FollowedInv, NamedInv
  <2> QED BY <2>2, <2>3 DEF RecInv
<1>2. RecInv /\ [RecNext]_recVars => RecInv'
  BY RecStep
<1>3. RecInv => RecordsAreTrue
  BY DEF RecInv, FollowedInv, CreditInv, RecordsAreTrue
<1> QED BY <1>1, <1>2, <1>3, PTL DEF RecSpec
=============================================================================
