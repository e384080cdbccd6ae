--------------------------- MODULE ServicesProofs ---------------------------
(***************************************************************************)
(* The services around the repeater: calls into modules, news and hooks,   *)
(* the assistant's answers, the dashboard, the control socket, received    *)
(* frames; for any modules, events, alerts, threads, clients and packets.  *)
(***************************************************************************)
EXTENDS Modules, FiniteSetTheorems, WellFoundedInduction, TLAPS

(* ------------------------------- Runtime ----------------------------- *)

RtFrames == [kind : {"event", "tap", "sched"}, rest : Seq(RtModules), now : RtModules \cup {Nobody}]
Schedules == [m : RtModules \cup {Nobody}, repeat : BOOLEAN]
RtTypes ==
    /\ subs \in [RtEvents -> Seq(RtModules)] /\ g_taps \in Seq(RtModules)
    /\ g_schedules \in [1..MAX_SCHEDULES -> Schedules]
    /\ frames \in [RtThreads -> Seq(RtFrames)]
TableTypes ==
    /\ handles \in [RtModules -> Nat] /\ overlapped \subseteq RtModules
    /\ DOMAIN rt_pc = RtThreads
    /\ \A t \in RtThreads : /\ rt_pc[t].do \in {"none", "load", "unload", "reload", "again"}
                            /\ rt_pc[t].do # "none" => rt_pc[t].m \in RtModules

\* A list holds a module once, so taking it out once takes it out.
Once(list) == \A i, j \in DOMAIN list : list[i] = list[j] => i = j
ListsInv == Once(g_taps) /\ \A e \in RtEvents : Once(subs[e])

\* The module is registered, or somebody has its handler in a copy.
Listed(m) == Has(g_taps, m) \/ Scheduled(m) \/ \E e \in RtEvents : Has(subs[e], m)
Called(m) == \E t \in RtThreads : Calling(t, m)
Present(m) == Listed(m) \/ Called(m)

\* Two commands at once, or an unload of what another thread calls, are where
\* overlapped begins; in between them a module that may be called is mapped.
OneCommand == \A t, o \in RtThreads :
    t # o /\ rt_pc[t] # RtNoCommand /\ rt_pc[o] # RtNoCommand => RtModules \subseteq overlapped
LoadInv == \A t \in RtThreads :
    rt_pc[t].do = "load" => handles[rt_pc[t].m] > 0 \/ rt_pc[t].m \in overlapped
UnloadInv == \A t \in RtThreads :
    rt_pc[t].do \in {"unload", "reload"} => ~Present(rt_pc[t].m) \/ rt_pc[t].m \in overlapped
MappedInv == \A m \in RtModules \ overlapped : Present(m) => handles[m] > 0
CommandsInv == TableTypes /\ OneCommand /\ LoadInv

DepthInv == \A t \in RtThreads : Depth(t) <= KERCHEVT_MAX_DEPTH
RtInv == RtTypes /\ ListsInv /\ CommandsInv /\ UnloadInv /\ MappedInv /\ DepthInv

(* Lists of modules. *)

LEMMA WithoutIs ==
  ASSUME NEW list \in Seq(RtModules), Once(list), NEW m \in RtModules
  PROVE  /\ Without(list, m) \in Seq(RtModules) /\ Once(Without(list, m))
         /\ ~Has(Without(list, m), m)
         /\ \A x : Has(Without(list, m), x) => Has(list, x)
<1>1. CASE ~Has(list, m)
  BY <1>1 DEF Without
<1>2. CASE Has(list, m)
  <2>1. PICK k \in 1..Len(list) : list[k] = m
    BY <1>2 DEF Has
  <2>2. \A j \in 1..Len(list) : list[j] = m => j = k
    BY <2>1 DEF Once
  <2>3. (CHOOSE i \in DOMAIN list : list[i] = m /\ \A j \in DOMAIN list : j < i => list[j] # m) = k
    BY <2>1, <2>2
  <2> DEFINE w == [j \in 1..Len(list) - 1 |-> IF j < k THEN list[j] ELSE list[j + 1]]
  <2>4. Without(list, m) = w
    BY <1>2, <2>3 DEF Without
  <2>5. Len(list) - 1 \in Nat /\ \A j \in 1..Len(list) - 1 : w[j] \in RtModules
    BY <2>1
  <2>6. w \in Seq(RtModules) /\ DOMAIN w = 1..Len(list) - 1
    BY <2>5
  <2>7. \A j \in DOMAIN w : \E i \in 1..Len(list) : i # k /\ w[j] = list[i]
                                                   /\ i = IF j < k THEN j ELSE j + 1
    BY <2>6
  <2>8. Once(w)
    <3> SUFFICES ASSUME NEW a \in DOMAIN w, NEW b \in DOMAIN w, w[a] = w[b] PROVE a = b
      BY DEF Once
    <3>1. (IF a < k THEN a ELSE a + 1) = (IF b < k THEN b ELSE b + 1)
      BY <2>7 DEF Once
    <3> QED BY <3>1, <2>6
  <2> HIDE DEF w
  <2>9. ~Has(w, m)
    BY <2>2, <2>7 DEF Has
  <2>10. \A x : Has(w, x) => Has(list, x)
    BY <2>7 DEF Has
  <2> QED BY <2>4, <2>6, <2>8, <2>9, <2>10
<1> QED BY <1>1, <1>2

LEMMA AppendOnce ==
  ASSUME NEW list \in Seq(RtModules), Once(list), NEW m \in RtModules, ~Has(list, m)
  PROVE  /\ Append(list, m) \in Seq(RtModules) /\ Once(Append(list, m))
         /\ \A x : Has(Append(list, m), x) => Has(list, x) \/ x = m
BY DEF Once, Has

LEMMA SubscribeIs ==
  ASSUME NEW list \in Seq(RtModules), Once(list), NEW m \in RtModules
  PROVE  /\ kerchevt_subscribe(list, m) \in Seq(RtModules) /\ Once(kerchevt_subscribe(list, m))
         /\ \A x : Has(kerchevt_subscribe(list, m), x) => Has(list, x) \/ x = m
BY AppendOnce DEF kerchevt_subscribe

LEMMA SetLastIs ==
  ASSUME NEW S, NEW s \in Seq(S), NEW n \in DOMAIN s, NEW f \in S
  PROVE  [s EXCEPT ![n] = f] \in Seq(S)
OBVIOUS

LEMMA FrontIs ==
  ASSUME NEW S, NEW s \in Seq(S), s # <<>>
  PROVE  /\ Front(s) \in Seq(S) /\ DOMAIN Front(s) \subseteq DOMAIN s
         /\ \A i \in DOMAIN Front(s) : Front(s)[i] = s[i]
BY DEF Front

LEMMA TupleIs ==
  ASSUME NEW S, NEW n \in Nat, NEW f \in [1..n -> S]
  PROVE  f \in Seq(S)
OBVIOUS

(* What the threads are calling. *)

InFrame(f, m) == f.now = m \/ Has(f.rest, m)
EventFrames(s) == {i \in DOMAIN s : s[i].kind = "event"}

LEMMA EventsAreFinite ==
  ASSUME NEW s \in Seq(RtFrames)
  PROVE  IsFiniteSet(EventFrames(s)) /\ Cardinality(EventFrames(s)) \in Nat
<1>1. EventFrames(s) \subseteq 1..Len(s) /\ Len(s) \in Nat
  BY DEF EventFrames
<1>2. IsFiniteSet(1..Len(s))
  BY <1>1, FS_Interval
<1> QED BY <1>1, <1>2, FS_Subset, FS_CardinalityType

\* The frames after a step of one thread: of every thread, what it is calling
\* and how deep it is in events.
LEMMA FramesAfter ==
  ASSUME RtTypes, DepthInv, NEW t \in RtThreads, NEW s \in Seq(RtFrames),
         frames' = [frames EXCEPT ![t] = s],
         Cardinality(EventFrames(s)) <= KERCHEVT_MAX_DEPTH,
         NEW M, \A m \in RtModules \ M : \A i \in DOMAIN s : InFrame(s[i], m) => Calling(t, m)
  PROVE  /\ frames' \in [RtThreads -> Seq(RtFrames)] /\ DepthInv'
         /\ \A m \in RtModules \ M : Called(m)' => Called(m)
<1>1. /\ frames' \in [RtThreads -> Seq(RtFrames)] /\ frames'[t] = s
      /\ \A o \in RtThreads : o # t => frames'[o] = frames[o]
  BY DEF RtTypes
<1>2. DepthInv'
  BY <1>1 DEF DepthInv, Depth, EventFrames
<1>3. ASSUME NEW m \in RtModules \ M, Called(m)' PROVE Called(m)
  <2>1. PICK o \in RtThreads : \E i \in DOMAIN frames'[o] : InFrame(frames'[o][i], m)
    BY <1>3 DEF Called, Calling, InFrame
  <2>2. CASE o = t
    BY <1>1, <2>1, <2>2 DEF Called
  <2>3. CASE o # t
    BY <1>1, <2>1, <2>3 DEF Called, Calling, InFrame
  <2> QED BY <2>2, <2>3
<1> QED BY <1>1, <1>2, <1>3

\* A copy of a list is about to be called.
LEMMA PushAfter ==
  ASSUME RtTypes, DepthInv, NEW t \in RtThreads, NEW kind \in {"event", "tap", "sched"},
         NEW list \in Seq(RtModules), PushFrame(t, Frame(kind, list)),
         kind = "event" => ~(Depth(t) >= KERCHEVT_MAX_DEPTH)
  PROVE  /\ frames' \in [RtThreads -> Seq(RtFrames)] /\ DepthInv'
         /\ \A m \in RtModules : Called(m)' => Called(m) \/ Has(list, m)
<1> DEFINE M == {m \in RtModules : Has(list, m)}
<1>1. PICK old \in Seq(RtFrames) : old = frames[t]
  BY DEF RtTypes
<1>2. PICK new \in RtFrames : new = Frame(kind, list)
  BY DEF Frame, RtFrames
<1>3. /\ frames' = [frames EXCEPT ![t] = Append(old, new)] /\ Append(old, new) \in Seq(RtFrames)
      /\ DOMAIN Append(old, new) = 1..Len(old) + 1 /\ Append(old, new)[Len(old) + 1] = new
      /\ \A i \in 1..Len(old) : Append(old, new)[i] = old[i]
  BY <1>1, <1>2 DEF PushFrame
<1>4. Cardinality(EventFrames(Append(old, new))) <= KERCHEVT_MAX_DEPTH
  <2>1. Cardinality(EventFrames(old)) <= KERCHEVT_MAX_DEPTH /\ Cardinality(EventFrames(old)) \in Nat
        /\ IsFiniteSet(EventFrames(old)) /\ Depth(t) = Cardinality(EventFrames(old))
    BY <1>1, EventsAreFinite DEF DepthInv, Depth, EventFrames
  <2>2. CASE kind = "event"
    <3>1. new.kind = "event"
      BY <1>2, <2>2 DEF Frame
    <3>2. /\ EventFrames(Append(old, new)) = EventFrames(old) \cup {Len(old) + 1}
          /\ Len(old) + 1 \notin EventFrames(old)
      BY <1>3, <3>1 DEF EventFrames
    <3>3. Cardinality(EventFrames(Append(old, new))) = Cardinality(EventFrames(old)) + 1
      BY <2>1, <3>2, FS_AddElement
    <3> QED BY <2>1, <2>2, <3>3, RtAssumption
  <2>3. CASE kind # "event"
    <3>1. new.kind # "event"
      BY <1>2, <2>3 DEF Frame
    <3>2. EventFrames(Append(old, new)) = EventFrames(old)
      BY <1>3, <3>1 DEF EventFrames
    <3> QED BY <2>1, <3>2
  <2> QED BY <2>2, <2>3
<1>5. ASSUME NEW m \in RtModules \ M, NEW i \in DOMAIN Append(old, new), InFrame(Append(old, new)[i], m)
      PROVE  Calling(t, m)
  <2>1. ~InFrame(new, m)
    BY <1>2, RtAssumption DEF InFrame, Frame, Nobody
  <2>2. i \in 1..Len(old) /\ InFrame(old[i], m)
    BY <1>3, <1>5, <2>1
  <2> QED BY <1>1, <2>2 DEF Calling, InFrame
<1> HIDE DEF M
<1>6. /\ frames' \in [RtThreads -> Seq(RtFrames)] /\ DepthInv'
      /\ \A m \in RtModules \ M : Called(m)' => Called(m)
  BY <1>3, <1>4, <1>5, FramesAfter
<1> QED BY <1>6 DEF M

\* The innermost call of a thread goes on.
LEMMA TopAfter ==
  ASSUME RtTypes, DepthInv, NEW t \in RtThreads, frames[t] # <<>>, NEW f \in RtFrames, SetTop(t, f),
         f.kind = Top(t).kind, \A m \in RtModules : InFrame(f, m) => InFrame(Top(t), m)
  PROVE  /\ frames' \in [RtThreads -> Seq(RtFrames)] /\ DepthInv'
         /\ \A m \in RtModules : Called(m)' => Called(m)
<1>1. PICK old \in Seq(RtFrames) : old = frames[t]
  BY DEF RtTypes
<1>2. Len(old) \in 1..Len(old) /\ Top(t) = old[Len(old)]
  BY <1>1 DEF Top, Last
<1>3. PICK new \in Seq(RtFrames) : new = [old EXCEPT ![Len(old)] = f]
  <2>1. Len(old) \in DOMAIN old
    BY <1>2
  <2>2. [old EXCEPT ![Len(old)] = f] \in Seq(RtFrames)
    BY <2>1, SetLastIs
  <2> QED BY <2>2
<1>4. /\ DOMAIN new = DOMAIN old /\ new[Len(old)] = f
      /\ \A i \in DOMAIN old : i # Len(old) => new[i] = old[i]
  BY <1>2, <1>3
<1>5. frames' = [frames EXCEPT ![t] = new]
  BY <1>1, <1>3 DEF SetTop, RtTypes
<1>6. Cardinality(EventFrames(new)) <= KERCHEVT_MAX_DEPTH
  <2>1. EventFrames(new) = EventFrames(old)
    BY <1>2, <1>4 DEF EventFrames
  <2> QED BY <1>1, <2>1 DEF DepthInv, Depth, EventFrames
<1>7. \A m \in RtModules \ {} : \A i \in DOMAIN new : InFrame(new[i], m) => Calling(t, m)
  BY <1>1, <1>2, <1>4 DEF Calling, InFrame
<1> QED BY <1>5, <1>6, <1>7, FramesAfter

\* The innermost call of a thread has ended.
LEMMA PopAfter ==
  ASSUME RtTypes, DepthInv, NEW t \in RtThreads, frames[t] # <<>>,
         frames' = [frames EXCEPT ![t] = Front(frames[t])]
  PROVE  /\ frames' \in [RtThreads -> Seq(RtFrames)] /\ DepthInv'
         /\ \A m \in RtModules : Called(m)' => Called(m)
<1>1. PICK old \in Seq(RtFrames) : old = frames[t]
  BY DEF RtTypes
<1>2. PICK new \in Seq(RtFrames) : new = Front(old)
  BY <1>1, FrontIs
<1>3. /\ DOMAIN new \subseteq DOMAIN old
      /\ \A i \in DOMAIN new : new[i] = old[i]
  BY <1>1, <1>2, FrontIs
<1>4. Cardinality(EventFrames(new)) <= KERCHEVT_MAX_DEPTH
  <2>1. EventFrames(new) \subseteq EventFrames(old)
    BY <1>3 DEF EventFrames
  <2>2. Cardinality(EventFrames(new)) <= Cardinality(EventFrames(old))
    BY <2>1, EventsAreFinite, FS_Subset
  <2>3. Cardinality(EventFrames(old)) <= KERCHEVT_MAX_DEPTH
    BY <1>1 DEF DepthInv, Depth, EventFrames
  <2> QED BY <2>2, <2>3, EventsAreFinite, RtAssumption
<1>5. \A m \in RtModules \ {} : \A i \in DOMAIN new : InFrame(new[i], m) => Calling(t, m)
  BY <1>1, <1>3 DEF Calling, InFrame
<1> QED BY <1>1, <1>2, <1>4, <1>5, FramesAfter

LEMMA TopIs ==
  ASSUME RtTypes, NEW t \in RtThreads, frames[t] # <<>>
  PROVE  Top(t) \in RtFrames /\ \A m : InFrame(Top(t), m) => Calling(t, m)
<1>1. PICK s \in Seq(RtFrames) : s = frames[t]
  BY DEF RtTypes
<1>2. Len(s) \in DOMAIN s /\ Top(t) = s[Len(s)]
  BY <1>1 DEF Top, Last
<1> QED BY <1>1, <1>2 DEF Calling, InFrame

(* Firing, calling and registering: nobody is reached who was not there. *)

\* What a step of firing and calling may do.
NobodyComes == /\ RtTypes' /\ ListsInv' /\ DepthInv'
               /\ \A m \in RtModules : Present(m)' => Present(m)

LEMMA OnlyFrames ==
  ASSUME RtTypes, ListsInv, UNCHANGED rtListVars,
         frames' \in [RtThreads -> Seq(RtFrames)], DepthInv',
         \A m \in RtModules : Called(m)' => Present(m)
  PROVE  NobodyComes
<1>1. RtTypes' /\ ListsInv' /\ \A m \in RtModules : Listed(m)' <=> Listed(m)
  BY DEF RtTypes, ListsInv, Listed, Scheduled, rtListVars
<1> QED BY <1>1 DEF NobodyComes, Present

LEMMA FireStep ==
  ASSUME RtTypes, ListsInv, DepthInv, NEW t \in RtThreads, NEW e \in RtEvents,
         kerchevt_fire(t, e), UNCHANGED rtListVars
  PROVE  NobodyComes
<1>1. CASE frames' = frames
  <2>1. DepthInv' /\ \A m \in RtModules : Called(m)' => Present(m)
    BY <1>1 DEF DepthInv, Depth, Called, Calling, Present
  <2> QED BY <1>1, <2>1, OnlyFrames DEF RtTypes
<1>2. CASE PushFrame(t, Frame("event", subs[e])) /\ ~(Depth(t) >= KERCHEVT_MAX_DEPTH)
  <2>1. subs[e] \in Seq(RtModules)
    BY DEF RtTypes
  <2>2. /\ frames' \in [RtThreads -> Seq(RtFrames)] /\ DepthInv'
        /\ \A m \in RtModules : Called(m)' => Called(m) \/ Has(subs[e], m)
    BY <1>2, <2>1, PushAfter
  <2> QED BY <2>2, OnlyFrames DEF Present, Listed
<1> QED BY <1>1, <1>2 DEF kerchevt_fire

LEMMA TickStep ==
  ASSUME RtTypes, ListsInv, DepthInv, kerchunk_sched_tick
  PROVE  NobodyComes
<1>0. PICK n \in 1..MAX_SCHEDULES : \E due \in [1..n -> DOMAIN g_schedules] :
        /\ \A i \in 1..n : g_schedules[due[i]].m # Nobody
        /\ PushFrame("main", Frame("sched", [i \in 1..n |-> g_schedules[due[i]].m]))
        /\ g_schedules' = [s \in DOMAIN g_schedules |->
                             IF g_schedules[s].repeat \/ \A i \in 1..n : due[i] # s
                             THEN g_schedules[s] ELSE NoSchedule]
  BY DEF kerchunk_sched_tick
<1>1. PICK due \in [1..n -> DOMAIN g_schedules] :
        /\ \A i \in 1..n : g_schedules[due[i]].m # Nobody
        /\ PushFrame("main", Frame("sched", [i \in 1..n |-> g_schedules[due[i]].m]))
        /\ g_schedules' = [s \in DOMAIN g_schedules |->
                             IF g_schedules[s].repeat \/ \A i \in 1..n : due[i] # s
                             THEN g_schedules[s] ELSE NoSchedule]
  BY <1>0
<1>2. UNCHANGED <<subs, g_taps>>
  BY DEF kerchunk_sched_tick
<1>3. PICK list \in Seq(RtModules) : list = [i \in 1..n |-> g_schedules[due[i]].m]
  <2>1. \A i \in 1..n : g_schedules[due[i]].m \in RtModules
    BY <1>1 DEF RtTypes, Schedules
  <2>2. n \in Nat
    BY RtAssumption
  <2>3. [i \in 1..n |-> g_schedules[due[i]].m] \in [1..n -> RtModules]
    BY <2>1
  <2> QED BY <2>2, <2>3, TupleIs
<1>4. \A m : Has(list, m) => Scheduled(m)
  <2>1. DOMAIN list = 1..n /\ \A i \in 1..n : list[i] = g_schedules[due[i]].m
    BY <1>3
  <2> QED BY <2>1 DEF Has, Scheduled
<1>5. /\ frames' \in [RtThreads -> Seq(RtFrames)] /\ DepthInv'
      /\ \A m \in RtModules : Called(m)' => Called(m) \/ Has(list, m)
  BY <1>1, <1>3, PushAfter DEF RtThreads
<1>6. NoSchedule \in Schedules /\ \A m \in RtModules : NoSchedule.m # m
  BY RtAssumption DEF NoSchedule, Schedules, Nobody
<1>7. /\ g_schedules' \in [1..MAX_SCHEDULES -> Schedules]
      /\ \A s \in DOMAIN g_schedules : g_schedules'[s] = g_schedules[s] \/ g_schedules'[s] = NoSchedule
      /\ DOMAIN g_schedules' = DOMAIN g_schedules
  BY <1>1, <1>6 DEF RtTypes
<1>8. \A m \in RtModules : Scheduled(m)' => Scheduled(m)
  BY <1>6, <1>7 DEF Scheduled
<1>9. RtTypes' /\ ListsInv'
  BY <1>2, <1>5, <1>7 DEF RtTypes, ListsInv
<1>10. \A m \in RtModules : Listed(m)' => Listed(m)
  BY <1>2, <1>8 DEF Listed
<1> QED BY <1>4, <1>5, <1>9, <1>10 DEF NobodyComes, Present, Listed

LEMMA ActsStep ==
  ASSUME RtTypes, ListsInv, DepthInv, HandlerActs
  PROVE  NobodyComes
<1>1. PICK t \in RtThreads :
        /\ frames[t] # <<>> /\ Top(t).now # Nobody
        /\ \/ \E e \in RtEvents : kerchevt_fire(t, e) /\ UNCHANGED rtListVars
           \/ ~Has(g_taps, Top(t).now) /\ audio_tap_register(Top(t).now)
              /\ UNCHANGED <<frames, subs, g_schedules>>
           \/ Has(g_taps, Top(t).now) /\ g_taps' = Without(g_taps, Top(t).now)
              /\ UNCHANGED <<frames, subs, g_schedules>>
           \/ \E r \in BOOLEAN : /\ ~Scheduled(Top(t).now) /\ kerchunk_sched(Top(t).now, r)
                                 /\ UNCHANGED <<frames, subs, g_taps>>
  BY DEF HandlerActs
<1>2. PICK m \in RtModules : m = Top(t).now /\ Calling(t, m)
  <2>1. Top(t) \in RtFrames /\ InFrame(Top(t), Top(t).now)
    BY <1>1, TopIs DEF InFrame
  <2> QED BY <1>1, <2>1, TopIs DEF RtFrames
<1>3. Present(m)
  BY <1>2 DEF Present, Called
<1>4. ASSUME frames' = frames
      PROVE  /\ frames' \in [RtThreads -> Seq(RtFrames)] /\ DepthInv'
             /\ \A x : Called(x)' <=> Called(x)
  BY <1>4 DEF RtTypes, DepthInv, Depth, Called, Calling
<1>5. CASE \E e \in RtEvents : kerchevt_fire(t, e) /\ UNCHANGED rtListVars
  BY <1>5, FireStep
<1>6. CASE /\ g_taps' \in Seq(RtModules) /\ Once(g_taps')
           /\ \A x : Has(g_taps', x) => Has(g_taps, x) \/ x = m
           /\ UNCHANGED <<frames, subs, g_schedules>>
  <2>1. RtTypes' /\ ListsInv' /\ DepthInv'
    BY <1>4, <1>6 DEF RtTypes, ListsInv
  <2>2. \A x \in RtModules : Listed(x)' => Listed(x) \/ x = m
    BY <1>6 DEF Listed, Scheduled
  <2> QED BY <1>3, <1>4, <1>6, <2>1, <2>2 DEF NobodyComes, Present
<1>7. CASE ~Has(g_taps, m) /\ audio_tap_register(m) /\ UNCHANGED <<frames, subs, g_schedules>>
  <2>1. g_taps \in Seq(RtModules) /\ Once(g_taps)
    BY DEF RtTypes, ListsInv
  <2> QED BY <1>6, <1>7, <2>1, AppendOnce DEF audio_tap_register
<1>8. CASE Has(g_taps, m) /\ g_taps' = Without(g_taps, m) /\ UNCHANGED <<frames, subs, g_schedules>>
  <2>1. g_taps \in Seq(RtModules) /\ Once(g_taps)
    BY DEF RtTypes, ListsInv
  <2> QED BY <1>6, <1>8, <2>1, WithoutIs
<1>9. CASE \E r \in BOOLEAN : kerchunk_sched(m, r) /\ UNCHANGED <<frames, subs, g_taps>>
  <2>1. PICK r \in BOOLEAN : kerchunk_sched(m, r) /\ UNCHANGED <<frames, subs, g_taps>>
    BY <1>9
  <2>2. PICK s \in Schedules :
          /\ s.m = m
          /\ g_schedules' = g_schedules \/ \E k : g_schedules' = [g_schedules EXCEPT ![k] = s]
    <3>1. PICK s \in Schedules : s = [m |-> m, repeat |-> r]
      BY DEF Schedules
    <3> QED BY <2>1, <3>1 DEF kerchunk_sched
  <2>3. /\ g_schedules' \in [1..MAX_SCHEDULES -> Schedules]
        /\ \A i \in 1..MAX_SCHEDULES : g_schedules'[i] = g_schedules[i] \/ g_schedules'[i] = s
    BY <2>2 DEF RtTypes
  <2>4. \A x \in RtModules : Scheduled(x)' => Scheduled(x) \/ x = m
    BY <2>2, <2>3 DEF Scheduled, RtTypes
  <2>5. RtTypes' /\ ListsInv' /\ DepthInv'
    BY <1>4, <2>1, <2>3 DEF RtTypes, ListsInv
  <2>6. \A x \in RtModules : Listed(x)' => Listed(x) \/ x = m
    BY <2>1, <2>4 DEF Listed
  <2> QED BY <1>3, <1>4, <2>1, <2>5, <2>6 DEF NobodyComes, Present
<1> QED BY <1>1, <1>2, <1>5, <1>7, <1>8, <1>9

\* Every step outside of the commands.
CallActions == \/ Fires \/ dispatch_taps \/ kerchunk_sched_tick \/ Calls \/ Returns \/ Ends
               \/ HandlerActs

LEMMA CallStep ==
  ASSUME RtTypes, ListsInv, DepthInv, CallActions
  PROVE  NobodyComes /\ UNCHANGED tableVars
<1>1. CASE Fires
  BY <1>1, FireStep DEF Fires
<1>2. CASE dispatch_taps
  <2>1. PushFrame("audio", Frame("tap", g_taps)) /\ UNCHANGED <<tableVars, rtListVars>>
    BY <1>2 DEF dispatch_taps
  <2>2. g_taps \in Seq(RtModules) /\ "audio" \in RtThreads
    BY DEF RtTypes, RtThreads
  <2>3. /\ frames' \in [RtThreads -> Seq(RtFrames)] /\ DepthInv'
        /\ \A m \in RtModules : Called(m)' => Called(m) \/ Has(g_taps, m)
    BY <2>1, <2>2, PushAfter
  <2> QED BY <2>1, <2>3, OnlyFrames DEF Present, Listed
<1>3. CASE kerchunk_sched_tick
  BY <1>3, TickStep DEF kerchunk_sched_tick
<1>4. CASE Calls
  <2>1. PICK t \in RtThreads :
          /\ frames[t] # <<>> /\ Top(t).rest # <<>>
          /\ SetTop(t, [Top(t) EXCEPT !.now = Head(Top(t).rest), !.rest = Tail(@)])
    BY <1>4 DEF Calls
  <2>2. PICK rest \in Seq(RtModules) : rest = Top(t).rest /\ rest # <<>>
    BY <2>1, TopIs DEF RtFrames
  <2>3. /\ Head(rest) \in RtModules /\ Tail(rest) \in Seq(RtModules) /\ Has(rest, Head(rest))
        /\ \A m : Has(Tail(rest), m) => Has(rest, m)
    BY <2>2 DEF Has
  <2>4. PICK f \in RtFrames : /\ f = [Top(t) EXCEPT !.now = Head(rest), !.rest = Tail(rest)]
                             /\ f.kind = Top(t).kind /\ f.now = Head(rest) /\ f.rest = Tail(rest)
    <3>1. Top(t) \in RtFrames
      BY <2>1, TopIs
    <3>2. PICK n \in RtModules : n = Head(rest)
      BY <2>3
    <3>3. PICK r \in Seq(RtModules) : r = Tail(rest)
      BY <2>3
    <3>4. PICK top \in RtFrames : top = Top(t)
      BY <3>1
    <3>5. \E g \in RtFrames : /\ g = [top EXCEPT !.now = n, !.rest = r]
                              /\ g.kind = top.kind /\ g.now = n /\ g.rest = r
      <4>1. [top EXCEPT !.now = n, !.rest = r] \in RtFrames
        BY DEF RtFrames
      <4> QED BY <4>1 DEF RtFrames
    <3> QED BY <3>2, <3>3, <3>4, <3>5, Zenon
  <2>5. SetTop(t, f)
    BY <2>1, <2>2, <2>4
  <2>6. \A m \in RtModules : InFrame(f, m) => InFrame(Top(t), m)
    BY <2>2, <2>3, <2>4 DEF InFrame
  <2>7. /\ frames' \in [RtThreads -> Seq(RtFrames)] /\ DepthInv'
        /\ \A m \in RtModules : Called(m)' => Called(m)
    BY <2>1, <2>4, <2>5, <2>6, TopAfter
  <2> QED BY <1>4, <2>7, OnlyFrames DEF Calls, Present
<1>5. CASE Returns
  <2>1. PICK t \in RtThreads : frames[t] # <<>> /\ SetTop(t, [Top(t) EXCEPT !.now = Nobody])
    BY <1>5 DEF Returns
  <2>2. PICK f \in RtFrames : /\ f = [Top(t) EXCEPT !.now = Nobody]
                             /\ f.kind = Top(t).kind /\ f.now = Nobody /\ f.rest = Top(t).rest
    BY <2>1, TopIs DEF RtFrames
  <2>3. SetTop(t, f)
    BY <2>1, <2>2
  <2>4. \A m \in RtModules : InFrame(f, m) => InFrame(Top(t), m)
    BY <2>2, RtAssumption DEF InFrame, Nobody
  <2>5. /\ frames' \in [RtThreads -> Seq(RtFrames)] /\ DepthInv'
        /\ \A m \in RtModules : Called(m)' => Called(m)
    BY <2>1, <2>2, <2>3, <2>4, TopAfter
  <2> QED BY <1>5, <2>5, OnlyFrames DEF Returns, Present
<1>6. CASE Ends
  <2>1. PICK t \in RtThreads : frames[t] # <<>> /\ frames' = [frames EXCEPT ![t] = Front(frames[t])]
    BY <1>6 DEF Ends
  <2>2. /\ frames' \in [RtThreads -> Seq(RtFrames)] /\ DepthInv'
        /\ \A m \in RtModules : Called(m)' => Called(m)
    BY <2>1, PopAfter
  <2> QED BY <1>6, <2>2, OnlyFrames DEF Ends, Present
<1>7. CASE HandlerActs
  BY <1>7, ActsStep DEF HandlerActs
<1> QED BY <1>1, <1>2, <1>3, <1>4, <1>5, <1>6, <1>7 DEF CallActions

(* Loading and unloading. *)

\* One thread's command goes on: the others are where they were.
LEMMA PcAfter ==
  ASSUME TableTypes, NEW t \in RtThreads, NEW pc, rt_pc' = [rt_pc EXCEPT ![t] = pc]
  PROVE  /\ DOMAIN rt_pc' = RtThreads /\ rt_pc'[t] = pc
         /\ \A o \in RtThreads : o # t => rt_pc'[o] = rt_pc[o]
BY DEF TableTypes

\* A thread that is in a command already, or one that has just found that no
\* other is, or that has given up all modules as overlapped.
LEMMA OneCommandAfter ==
  ASSUME TableTypes, OneCommand, NEW t \in RtThreads, NEW pc, rt_pc' = [rt_pc EXCEPT ![t] = pc],
         overlapped \subseteq overlapped',
         \/ rt_pc[t] # RtNoCommand
         \/ pc = RtNoCommand
         \/ \A o \in RtThreads \ {t} : rt_pc[o] = RtNoCommand
         \/ RtModules \subseteq overlapped'
  PROVE  OneCommand'
BY PcAfter DEF OneCommand

LEMMA BusyThread == ASSUME NEW t \in RtThreads, rt_pc[t].do # "none" PROVE rt_pc[t] # RtNoCommand
BY DEF RtNoCommand

LEMMA OverlapsIs ==
  ASSUME TableTypes, NEW t \in RtThreads, NEW called \in SUBSET RtModules, Overlaps(t, called)
  PROVE  /\ overlapped' \subseteq RtModules /\ overlapped \subseteq overlapped'
         /\ called \subseteq overlapped'
         /\ \/ \A o \in RtThreads \ {t} : rt_pc[o] = RtNoCommand
            \/ RtModules \subseteq overlapped'
BY DEF Overlaps, TableTypes

\* A load has begun: its object is mapped before anything else happens.
LEMMA LoadBeginsStep ==
  ASSUME CommandsInv, UnloadInv, MappedInv, NEW t \in RtThreads, NEW m \in RtModules,
         LoadBegins(t, m), overlapped \subseteq overlapped', overlapped' \subseteq RtModules,
         \/ rt_pc[t] # RtNoCommand
         \/ \A o \in RtThreads \ {t} : rt_pc[o] = RtNoCommand
         \/ RtModules \subseteq overlapped',
         UNCHANGED <<rtListVars, frames>>
  PROVE  CommandsInv' /\ UnloadInv' /\ MappedInv'
<1>1. PICK slot : rt_pc' = [rt_pc EXCEPT ![t] = [do |-> "load", m |-> m, slot |-> slot]]
  BY DEF LoadBegins, Command
<1>2. PICK pc : pc = [do |-> "load", m |-> m, slot |-> slot]
  OBVIOUS
<1>3. rt_pc' = [rt_pc EXCEPT ![t] = pc] /\ pc.do = "load" /\ pc.m = m
  BY <1>1, <1>2
<1>4. /\ DOMAIN rt_pc' = RtThreads /\ rt_pc'[t] = pc
      /\ \A o \in RtThreads : o # t => rt_pc'[o] = rt_pc[o]
  BY <1>3, PcAfter DEF CommandsInv
<1>5. OneCommand'
  BY <1>3, OneCommandAfter DEF CommandsInv
<1>6. /\ handles' \in [RtModules -> Nat] /\ handles'[m] > 0
      /\ \A x \in RtModules : handles[x] > 0 => handles'[x] > 0
  <2>1. handles \in [RtModules -> Nat] /\ handles' = [handles EXCEPT ![m] = @ + 1]
    BY DEF LoadBegins, CommandsInv, TableTypes
  <2> QED BY <2>1
<1>7. \A x : Present(x)' <=> Present(x)
  BY DEF Present, Listed, Called, Calling, Scheduled, rtListVars
<1>8. TableTypes'
  BY <1>3, <1>4, <1>6 DEF CommandsInv, TableTypes
<1>9. LoadInv'
  BY <1>3, <1>4, <1>6 DEF CommandsInv, LoadInv, TableTypes
<1>10. UnloadInv'
  BY <1>3, <1>4, <1>7 DEF CommandsInv, UnloadInv, TableTypes
<1>11. MappedInv'
  BY <1>6, <1>7 DEF MappedInv
<1> QED BY <1>5, <1>8, <1>9, <1>10, <1>11 DEF CommandsInv

LEMMA ListsSame ==
  ASSUME RtTypes, ListsInv, DepthInv, UNCHANGED <<rtListVars, frames>>
  PROVE  RtTypes' /\ ListsInv' /\ DepthInv'
BY DEF RtTypes, ListsInv, DepthInv, Depth, rtListVars

LEMMA LoadStep == ASSUME RtInv, kerchunk_module_load PROVE RtInv'
<1>1. PICK t \in RtThreads, m \in RtModules : LoadBegins(t, m) /\ Overlaps(t, {})
  BY DEF kerchunk_module_load
<1>2. UNCHANGED <<rtListVars, frames>>
  BY DEF kerchunk_module_load
<1>3. CommandsInv' /\ UnloadInv' /\ MappedInv'
  BY <1>1, <1>2, LoadBeginsStep, OverlapsIs DEF RtInv, CommandsInv
<1> QED BY <1>2, <1>3, ListsSame DEF RtInv

LEMMA AgainStep == ASSUME RtInv, kerchunk_module_reload PROVE RtInv'
<1>1. PICK t \in RtThreads :
        /\ rt_pc[t].do = "again"
        /\ \/ LoadBegins(t, rt_pc[t].m)
           \/ rt_pc' = [rt_pc EXCEPT ![t] = RtNoCommand] /\ UNCHANGED <<g_modules, handles>>
  BY DEF kerchunk_module_reload
<1>2. UNCHANGED <<rtListVars, frames, overlapped>>
  BY DEF kerchunk_module_reload
<1>3. rt_pc[t].m \in RtModules /\ rt_pc[t] # RtNoCommand /\ overlapped \subseteq RtModules
  BY <1>1, BusyThread DEF RtInv, CommandsInv, TableTypes
<1>4. CASE LoadBegins(t, rt_pc[t].m)
  <2>1. CommandsInv' /\ UnloadInv' /\ MappedInv'
    BY <1>2, <1>3, <1>4, LoadBeginsStep DEF RtInv
  <2> QED BY <1>2, <2>1, ListsSame DEF RtInv
<1>5. CASE rt_pc' = [rt_pc EXCEPT ![t] = RtNoCommand] /\ UNCHANGED handles
  <2>1. /\ DOMAIN rt_pc' = RtThreads /\ rt_pc'[t] = RtNoCommand
        /\ \A o \in RtThreads : o # t => rt_pc'[o] = rt_pc[o]
    BY <1>5, PcAfter DEF RtInv, CommandsInv
  <2>2. OneCommand'
    BY <1>2, <1>5, OneCommandAfter DEF RtInv, CommandsInv
  <2>3. RtNoCommand.do = "none"
    BY DEF RtNoCommand
  <2>4. TableTypes' /\ LoadInv'
    BY <1>2, <1>5, <2>1, <2>3 DEF RtInv, CommandsInv, TableTypes, LoadInv
  <2>5. \A x : Present(x)' <=> Present(x)
    BY <1>2 DEF Present, Listed, Called, Calling, Scheduled, rtListVars
  <2>6. UnloadInv' /\ MappedInv'
    BY <1>2, <1>5, <2>1, <2>3, <2>5 DEF RtInv, UnloadInv, MappedInv
  <2> QED BY <1>2, <2>2, <2>4, <2>6, ListsSame DEF RtInv, CommandsInv
<1> QED BY <1>1, <1>4, <1>5

\* load() subscribes the module and its place is filled: it is mapped, or it
\* was given up as overlapped.
LEMMA LoadedStep == ASSUME RtInv, ModuleLoaded PROVE RtInv'
<1>1. PICK t \in RtThreads :
        /\ rt_pc[t].do = "load"
        /\ subs' = [e \in RtEvents |-> kerchevt_subscribe(subs[e], rt_pc[t].m)]
        /\ rt_pc' = [rt_pc EXCEPT ![t] = RtNoCommand]
  BY DEF ModuleLoaded
<1>2. UNCHANGED <<handles, g_taps, g_schedules, frames, overlapped>>
  BY DEF ModuleLoaded
<1>3. PICK m \in RtModules : m = rt_pc[t].m /\ (handles[m] > 0 \/ m \in overlapped)
  BY <1>1 DEF RtInv, CommandsInv, TableTypes, LoadInv
<1>4. /\ DOMAIN rt_pc' = RtThreads /\ rt_pc'[t] = RtNoCommand /\ RtNoCommand.do = "none"
      /\ \A o \in RtThreads : o # t => rt_pc'[o] = rt_pc[o]
  BY <1>1, PcAfter DEF RtInv, CommandsInv, RtNoCommand
<1>5. \A e \in RtEvents : /\ subs'[e] \in Seq(RtModules) /\ Once(subs'[e])
                          /\ \A x : Has(subs'[e], x) => Has(subs[e], x) \/ x = m
  BY <1>1, <1>3, SubscribeIs DEF RtInv, RtTypes, ListsInv
<1>6. RtTypes' /\ ListsInv' /\ DepthInv'
  <2>1. subs' \in [RtEvents -> Seq(RtModules)]
    BY <1>1, <1>5
  <2> QED BY <1>2, <1>5, <2>1 DEF RtInv, RtTypes, ListsInv, DepthInv, Depth
<1>7. \A x : Present(x)' => Present(x) \/ x = m
  BY <1>2, <1>5 DEF Present, Listed, Called, Calling, Scheduled
<1>8. OneCommand'
  BY <1>1, <1>2, OneCommandAfter DEF RtInv, CommandsInv
<1>9. TableTypes' /\ LoadInv'
  BY <1>2, <1>4 DEF RtInv, CommandsInv, TableTypes, LoadInv
<1>10. UnloadInv'
  <2> SUFFICES ASSUME NEW o \in RtThreads, rt_pc'[o].do \in {"unload", "reload"},
                      Present(rt_pc[o].m)', rt_pc'[o].m \notin overlapped'
               PROVE  FALSE
    BY DEF UnloadInv
  <2>1. o # t /\ rt_pc'[o] = rt_pc[o] /\ rt_pc[o].m \in RtModules
    BY <1>4 DEF RtInv, CommandsInv, TableTypes
  <2>2. rt_pc[o] # RtNoCommand /\ rt_pc[t] # RtNoCommand
    BY <1>1, <2>1, BusyThread
  <2>3. RtModules \subseteq overlapped
    BY <2>1, <2>2 DEF RtInv, CommandsInv, OneCommand
  <2> QED BY <1>2, <2>1, <2>3
<1>11. MappedInv'
  BY <1>2, <1>3, <1>7 DEF RtInv, MappedInv
<1> QED BY <1>6, <1>8, <1>9, <1>10, <1>11 DEF RtInv, CommandsInv

\* unload() takes back what was registered: unless a thread still holds a copy,
\* nothing of the module is left.
LEMMA UnloadStep == ASSUME RtInv, kerchunk_module_unload PROVE RtInv'
<1>1. PICK t \in RtThreads, m \in RtModules, then \in {"unload", "reload"} :
        /\ Command(t, then, m, FirstSlot(Loaded(m)))
        /\ subs' = [e \in RtEvents |-> kerchevt_unsubscribe(subs[e], m)]
        /\ g_taps' = Without(g_taps, m) /\ kerchunk_sched_cancel(m)
        /\ Overlaps(t, IF \E o \in RtThreads : Calling(o, m) THEN {m} ELSE {})
  BY DEF kerchunk_module_unload
<1>2. UNCHANGED <<handles, frames>>
  BY DEF kerchunk_module_unload
<1>3. PICK pc : pc = [do |-> then, m |-> m, slot |-> FirstSlot(Loaded(m))]
  OBVIOUS
<1>4. rt_pc' = [rt_pc EXCEPT ![t] = pc] /\ pc.do = then /\ pc.m = m
  BY <1>1, <1>3 DEF Command
<1>5. /\ DOMAIN rt_pc' = RtThreads /\ rt_pc'[t] = pc
      /\ \A o \in RtThreads : o # t => rt_pc'[o] = rt_pc[o]
  BY <1>4, PcAfter DEF RtInv, CommandsInv
<1>6. PICK called \in SUBSET RtModules : Overlaps(t, called) /\ (Called(m) => m \in called)
  BY <1>1 DEF Called
<1>7. /\ overlapped' \subseteq RtModules /\ overlapped \subseteq overlapped'
      /\ Called(m) => m \in overlapped'
      /\ \/ \A o \in RtThreads \ {t} : rt_pc[o] = RtNoCommand
         \/ RtModules \subseteq overlapped'
  BY <1>6, OverlapsIs DEF RtInv, CommandsInv
<1>8. OneCommand'
  BY <1>4, <1>7, OneCommandAfter DEF RtInv, CommandsInv
<1>9. TableTypes' /\ LoadInv'
  BY <1>2, <1>4, <1>5, <1>7 DEF RtInv, CommandsInv, TableTypes, LoadInv
<1>10. \A e \in RtEvents : /\ subs'[e] \in Seq(RtModules) /\ Once(subs'[e]) /\ ~Has(subs'[e], m)
                           /\ \A x : Has(subs'[e], x) => Has(subs[e], x)
  BY <1>1, WithoutIs DEF RtInv, RtTypes, ListsInv, kerchevt_unsubscribe
<1>11. /\ g_taps' \in Seq(RtModules) /\ Once(g_taps') /\ ~Has(g_taps', m)
       /\ \A x : Has(g_taps', x) => Has(g_taps, x)
  BY <1>1, WithoutIs DEF RtInv, RtTypes, ListsInv
<1>12. NoSchedule \in Schedules /\ \A x \in RtModules : NoSchedule.m # x
  BY RtAssumption DEF NoSchedule, Schedules, Nobody
<1>13. /\ g_schedules' \in [1..MAX_SCHEDULES -> Schedules]
       /\ ~Scheduled(m)' /\ \A x \in RtModules : Scheduled(x)' => Scheduled(x)
  <2>1. g_schedules' = [i \in 1..MAX_SCHEDULES |->
                          IF g_schedules[i].m = m THEN NoSchedule ELSE g_schedules[i]]
    BY <1>1 DEF RtInv, RtTypes, kerchunk_sched_cancel
  <2> QED BY <1>12, <2>1 DEF RtInv, RtTypes, Scheduled
<1>14. RtTypes' /\ ListsInv' /\ DepthInv'
  <2>1. subs' \in [RtEvents -> Seq(RtModules)]
    BY <1>1, <1>10
  <2> QED BY <1>2, <1>10, <1>11, <1>13, <2>1 DEF RtInv, RtTypes, ListsInv, DepthInv, Depth
<1>15. /\ \A x \in RtModules : Present(x)' => Present(x)
       /\ Present(m)' => m \in overlapped'
  <2>1. \A x : Called(x)' <=> Called(x)
    BY <1>2 DEF Called, Calling
  <2>2. ~Listed(m)' /\ \A x \in RtModules : Listed(x)' => Listed(x)
    BY <1>10, <1>11, <1>13 DEF Listed
  <2> QED BY <1>7, <2>1, <2>2 DEF Present
<1>16. UnloadInv'
  BY <1>4, <1>5, <1>7, <1>15 DEF RtInv, CommandsInv, TableTypes, UnloadInv
<1>17. MappedInv'
  BY <1>2, <1>7, <1>15 DEF RtInv, MappedInv
<1> QED BY <1>8, <1>9, <1>14, <1>16, <1>17 DEF RtInv, CommandsInv

\* The object is given back after everything of it is gone.
LEMMA ClosedStep == ASSUME RtInv, ModuleClosed PROVE RtInv'
<1>1. PICK t \in RtThreads :
        /\ rt_pc[t].do \in {"unload", "reload"}
        /\ handles' = [handles EXCEPT ![rt_pc[t].m] = dlclose(rt_pc[t].m)]
        /\ IF rt_pc[t].do = "reload" THEN Command(t, "again", rt_pc[t].m, 0)
           ELSE rt_pc' = [rt_pc EXCEPT ![t] = RtNoCommand]
  BY DEF ModuleClosed
<1>2. UNCHANGED <<rtListVars, frames, overlapped>>
  BY DEF ModuleClosed
<1>3. PICK m \in RtModules : m = rt_pc[t].m /\ (~Present(m) \/ m \in overlapped)
  BY <1>1 DEF RtInv, CommandsInv, TableTypes, UnloadInv
<1>4. /\ handles' \in [RtModules -> Nat]
      /\ \A x \in RtModules : x # m => handles'[x] = handles[x]
  <2>1. handles \in [RtModules -> Nat]
    BY DEF RtInv, CommandsInv, TableTypes
  <2>2. dlclose(m) \in Nat
    BY <2>1 DEF dlclose
  <2> QED BY <1>1, <1>3, <2>1, <2>2
<1>5. PICK pc : /\ rt_pc' = [rt_pc EXCEPT ![t] = pc]
                /\ pc.do \in {"none", "again"}
                /\ pc.do # "none" => pc.m = m
  <2>1. PICK again : again = [do |-> "again", m |-> m, slot |-> 0]
    OBVIOUS
  <2>2. again.do = "again" /\ again.m = m /\ RtNoCommand.do = "none"
    BY <2>1 DEF RtNoCommand
  <2>3. rt_pc' = [rt_pc EXCEPT ![t] = again] \/ rt_pc' = [rt_pc EXCEPT ![t] = RtNoCommand]
    BY <1>1, <1>3, <2>1 DEF Command
  <2> QED BY <2>2, <2>3
<1>6. /\ DOMAIN rt_pc' = RtThreads /\ rt_pc'[t] = pc
      /\ \A o \in RtThreads : o # t => rt_pc'[o] = rt_pc[o]
  BY <1>5, PcAfter DEF RtInv, CommandsInv
<1>7. rt_pc[t] # RtNoCommand
  BY <1>1, BusyThread
<1>8. OneCommand'
  BY <1>2, <1>5, <1>7, OneCommandAfter DEF RtInv, CommandsInv
<1>9. TableTypes'
  BY <1>2, <1>4, <1>5, <1>6 DEF RtInv, CommandsInv, TableTypes
<1>10. LoadInv'
  <2> SUFFICES ASSUME NEW o \in RtThreads, rt_pc'[o].do = "load", rt_pc'[o].m \notin overlapped'
               PROVE  handles'[rt_pc'[o].m] > 0
    BY DEF LoadInv
  <2>1. o # t /\ rt_pc'[o] = rt_pc[o] /\ rt_pc[o].m \in RtModules
    BY <1>5, <1>6 DEF RtInv, CommandsInv, TableTypes
  <2>2. RtModules \subseteq overlapped
    BY <1>7, <2>1, BusyThread DEF RtInv, CommandsInv, OneCommand
  <2> QED BY <1>2, <2>1, <2>2
<1>11. \A x : Present(x)' <=> Present(x)
  BY <1>2 DEF Present, Listed, Called, Calling, Scheduled, rtListVars
<1>12. UnloadInv'
  BY <1>2, <1>5, <1>6, <1>11 DEF RtInv, UnloadInv
<1>13. MappedInv'
  BY <1>2, <1>3, <1>4, <1>11 DEF RtInv, MappedInv
<1> QED BY <1>2, <1>8, <1>9, <1>10, <1>12, <1>13, ListsSame DEF RtInv, CommandsInv

\* Every module begins loaded and subscribed once.
LEMMA OrderIs ==
  /\ Order \in Seq(RtModules) /\ Once(Order) /\ \A i \in DOMAIN Order : Order[i] \in RtModules
<1>1. Cardinality(RtModules) \in Nat
  BY RtAssumption, FS_CardinalityType
<1>2. PICK f \in [1..Cardinality(RtModules) -> RtModules] : IsInjective(f)
  <2>1. ExistsBijection(1..Cardinality(RtModules), RtModules)
    BY RtAssumption, FS_CardinalityType
  <2> QED BY <2>1 DEF ExistsBijection, Bijection, Injection, IsInjective
<1>3. Order \in [1..Cardinality(RtModules) -> RtModules] /\ IsInjective(Order)
  BY <1>2 DEF Order, SetToSeq
<1> QED BY <1>1, <1>3, TupleIs DEF Once, IsInjective

\* Unless two commands overlap or a module is unloaded while another thread is
\* about to call it, no list and no copy of one holds a handler of a module
\* that is not mapped, for any modules, events and sizes of the tables; and no
\* thread nests events deeper than the limit (kerchunk_events, the scheduler,
\* the taps, kerchunk_modules).
THEOREM CallsAreAlwaysLive == RtSpec => []CallsAreLive
<1>1. RtInit => RtInv
  <2> SUFFICES ASSUME RtInit PROVE RtInv
    OBVIOUS
  <2>1. NoSchedule \in Schedules /\ RtNoCommand.do = "none"
    BY DEF NoSchedule, Schedules, RtNoCommand
  <2>2. RtTypes /\ ListsInv
    BY <2>1, OrderIs DEF RtInit, RtTypes, ListsInv, Once
  <2>3. CommandsInv /\ UnloadInv
    BY <2>1 DEF RtInit, CommandsInv, TableTypes, OneCommand, LoadInv, UnloadInv
  <2>4. MappedInv
    BY DEF RtInit, MappedInv
  <2>5. DepthInv
    <3>1. \A t \in RtThreads : Depth(t) = Cardinality({})
      BY DEF RtInit, Depth
    <3> QED BY <3>1, FS_EmptySet, RtAssumption DEF DepthInv
  <2> QED BY <2>2, <2>3, <2>4, <2>5 DEF RtInv
<1>2. RtInv /\ [RtNext]_rtVars => RtInv'
  <2> SUFFICES ASSUME RtInv, [RtNext]_rtVars PROVE RtInv'
    OBVIOUS
  <2>1. CASE CallActions \/ UNCHANGED rtVars
    <3>1. NobodyComes /\ UNCHANGED tableVars
      <4>1. CASE CallActions
        BY <4>1, CallStep DEF RtInv
      <4>2. CASE UNCHANGED rtVars
        BY <4>2, ListsSame DEF RtInv, rtVars, rtListVars, tableVars, NobodyComes, Present, Listed,
                               Called, Calling, Scheduled
      <4> QED BY <2>1, <4>1, <4>2
    <3>2. CommandsInv'
      BY <3>1 DEF RtInv, CommandsInv, TableTypes, OneCommand, LoadInv, tableVars
    <3>3. UnloadInv' /\ MappedInv'
      BY <3>1 DEF RtInv, CommandsInv, TableTypes, UnloadInv, MappedInv, NobodyComes, tableVars
    <3> QED BY <3>1, <3>2, <3>3 DEF RtInv, NobodyComes
  <2> QED BY <2>1, LoadStep, LoadedStep, UnloadStep, ClosedStep, AgainStep DEF RtNext, CallActions
<1>3. RtInv => CallsAreLive
  <2> SUFFICES ASSUME RtInv PROVE CallsAreLive
    OBVIOUS
  <2>1. \A m \in RtModules : Gone(m) => ~Present(m)
    BY DEF RtInv, MappedInv, Gone
  <2> QED BY <2>1 DEF RtInv, DepthInv, CallsAreLive, Lists, Present, Listed, Called
<1> QED BY <1>1, <1>2, <1>3, PTL DEF RtSpec

(* -------------------------------- Feeds -------------------------------- *)
\* An alert is counted as told only while it is tracked, and it leaves only
\* after its deadline.
ToldInv ==
    /\ news \in [AlertIds -> Nat]
    /\ \A a \in AlertIds \ past : news[a] <= 1 /\ (news[a] = 1 => a \in g_alerts)

\* What waits is in order, younger than the one in hand and than the last that
\* arrived; and the hand is full only while the worker posts.
HandInv ==
    /\ hook_events \in Nat /\ received \in 0..hook_events /\ hook_hand \in 0..hook_events
    /\ hook_hand # Nothing => hook_worker = "posting" /\ hook_hand >= received
QueueInv ==
    /\ hook_queue \in Seq(1..hook_events)
    /\ \A i \in DOMAIN hook_queue : hook_queue[i] > received /\ hook_queue[i] > hook_hand
    /\ \A i, j \in DOMAIN hook_queue : i < j => hook_queue[i] < hook_queue[j]
FeedInv == ToldInv /\ HandInv /\ QueueInv

nwsSeen == <<news, past, g_alerts>>
hookSeen == <<hook_worker, hook_queue, hook_hand, hook_events, received>>

LEMMA ToldSame == ASSUME ToldInv, UNCHANGED nwsSeen PROVE ToldInv'
BY DEF ToldInv, nwsSeen

LEMMA HookSame ==
  ASSUME HandInv, QueueInv, UNCHANGED hookSeen
  PROVE  HandInv' /\ QueueInv'
BY DEF HandInv, QueueInv, hookSeen, Nothing

LEMMA TailIs ==
  ASSUME NEW S, NEW q \in Seq(S), q # <<>>
  PROVE  /\ Head(q) = q[1] /\ 1 \in DOMAIN q /\ Head(q) \in S /\ Tail(q) \in Seq(S)
         /\ \A i \in DOMAIN Tail(q) : i + 1 \in DOMAIN q /\ i \in Nat /\ i > 0 /\ Tail(q)[i] = q[i + 1]
OBVIOUS

LEMMA AppendIs ==
  ASSUME NEW S, NEW q \in Seq(S), NEW e \in S
  PROVE  /\ Append(q, e) \in Seq(S) /\ DOMAIN Append(q, e) = 1..(Len(q) + 1) /\ Len(q) \in Nat
         /\ Append(q, e)[Len(q) + 1] = e
         /\ \A i \in 1..Len(q) : Append(q, e)[i] = q[i] /\ i \in DOMAIN q
OBVIOUS

\* The polls: what is new was not tracked, and what leaves is past its deadline.
LEMMA PollTells ==
  ASSUME ToldInv, UNCHANGED past, NEW feed \in SUBSET AlertIds, process_alerts(feed)
  PROVE  ToldInv'
<1>1. PICK added \in SUBSET (feed \ g_alerts) :
        /\ g_alerts' = (g_alerts \cup added) \ ended(feed)
        /\ news' = [a \in AlertIds |-> IF nws_auto /\ a \in added THEN news[a] + 1 ELSE news[a]]
  BY DEF process_alerts
<1>2. news' \in [AlertIds -> Nat]
  BY <1>1 DEF ToldInv
<1>3. ASSUME NEW a \in AlertIds \ past PROVE news'[a] <= 1 /\ (news'[a] = 1 => a \in g_alerts')
  <2>1. a \notin ended(feed)
    BY DEF ended
  <2>2. CASE nws_auto /\ a \in added
    BY <1>1, <2>1, <2>2 DEF ToldInv
  <2>3. CASE ~(nws_auto /\ a \in added)
    BY <1>1, <2>1, <2>3 DEF ToldInv
  <2> QED BY <2>2, <2>3
<1> QED BY <1>2, <1>3 DEF ToldInv

LEMMA ToldStep == ASSUME ToldInv, [FeedNext]_feedVars PROVE ToldInv'
<1>1. CASE poll_nws
  BY <1>1, PollTells, ToldSame DEF poll_nws, nwsSeen
<1>2. CASE DeadlinePasses
  BY <1>2 DEF DeadlinePasses, ToldInv
<1>3. CASE nws_unloaded
  BY <1>3 DEF nws_unloaded, ToldInv
<1>4. CASE \/ PollRequested \/ poll_worker \/ nws_configure \/ nws_configured \/ nws_unload
  BY <1>4, ToldSame DEF PollRequested, poll_worker, nws_configure, nws_configured, nws_unload, nwsSeen
<1>5. CASE weather_fetch \/ weather_answered \/ weather_configure \/ SetEmergency
  BY <1>5, ToldSame DEF weather_fetch, weather_answered, weather_configure, SetEmergency, nwsSeen, nwsVars
<1>6. CASE \/ on_event \/ webhook_worker \/ post_payload \/ webhook_configure \/ webhook_unload
           \/ webhook_configured
  BY <1>6, ToldSame DEF on_event, webhook_worker, post_payload, webhook_configure, webhook_unload,
     webhook_configured, stop_worker, nwsSeen, nwsVars
<1>7. CASE UNCHANGED feedVars
  BY <1>7, ToldSame DEF feedVars, nwsVars, nwsSeen
<1> QED BY <1>1, <1>2, <1>3, <1>4, <1>5, <1>6, <1>7 DEF FeedNext

\* A new event is younger than all that wait, and the oldest goes if there is no room.
LEMMA EventWaits ==
  ASSUME HandInv, QueueInv, on_event
  PROVE  HandInv' /\ QueueInv'
<1> DEFINE e == hook_events + 1
           kept == IF Len(hook_queue) >= QUEUE_SIZE THEN Tail(hook_queue) ELSE hook_queue
<1>1. /\ hook_events' = e /\ hook_queue' = Append(kept, e)
      /\ UNCHANGED <<hook_worker, hook_hand, received>>
  BY DEF on_event, enqueue_payload
<1>2. /\ hook_events \in Nat /\ e \in Nat /\ e > hook_events /\ received < e /\ hook_hand < e
      /\ hook_queue \in Seq(1..e)
  BY DEF HandInv, QueueInv
<1>3. /\ kept \in Seq(1..e)
      /\ \A i \in DOMAIN kept : kept[i] > received /\ kept[i] > hook_hand /\ kept[i] < e
      /\ \A i, j \in DOMAIN kept : i < j => kept[i] < kept[j]
  <2>1. CASE Len(hook_queue) >= QUEUE_SIZE
    <3>1. hook_queue # <<>>
      BY <2>1, <1>2, FeedAssumption
    <3>2. /\ Tail(hook_queue) \in Seq(1..e)
          /\ \A i \in DOMAIN Tail(hook_queue) : /\ i + 1 \in DOMAIN hook_queue /\ i \in Nat
                                                /\ Tail(hook_queue)[i] = hook_queue[i + 1]
      BY <1>2, <3>1, TailIs
    <3>3. \A i \in DOMAIN Tail(hook_queue) : /\ Tail(hook_queue)[i] > received
                                             /\ Tail(hook_queue)[i] > hook_hand /\ Tail(hook_queue)[i] < e
      BY <1>2, <3>2 DEF QueueInv
    <3>4. \A i, j \in DOMAIN Tail(hook_queue) : i < j => Tail(hook_queue)[i] < Tail(hook_queue)[j]
      BY <1>2, <3>2 DEF QueueInv
    <3> QED BY <2>1, <3>2, <3>3, <3>4
  <2>2. CASE ~(Len(hook_queue) >= QUEUE_SIZE)
    BY <1>2, <2>2 DEF QueueInv
  <2> QED BY <2>1, <2>2
<1>4. /\ Append(kept, e) \in Seq(1..e) /\ DOMAIN Append(kept, e) = 1..(Len(kept) + 1) /\ Len(kept) \in Nat
      /\ Append(kept, e)[Len(kept) + 1] = e
      /\ \A i \in 1..Len(kept) : Append(kept, e)[i] = kept[i] /\ i \in DOMAIN kept
  <2> HIDE DEF kept
  <2> QED BY <1>2, <1>3, AppendIs
<1> HIDE DEF kept, e
<1>5. Len(kept) \in Nat /\ \A i \in DOMAIN kept : kept[i] \in Nat
  BY <1>2, <1>3
<1>6. QueueInv'
  <2>1. \A i \in DOMAIN Append(kept, e) : Append(kept, e)[i] > received /\ Append(kept, e)[i] > hook_hand
    <3> SUFFICES ASSUME NEW i \in 1..(Len(kept) + 1)
                 PROVE  Append(kept, e)[i] > received /\ Append(kept, e)[i] > hook_hand
      BY <1>4
    <3>1. CASE i = Len(kept) + 1
      BY <1>2, <1>4, <3>1
    <3>2. CASE i # Len(kept) + 1
      BY <1>3, <1>4, <3>2
    <3> QED BY <3>1, <3>2
  <2>2. \A i, j \in DOMAIN Append(kept, e) : i < j => Append(kept, e)[i] < Append(kept, e)[j]
    <3> SUFFICES ASSUME NEW i \in 1..(Len(kept) + 1), NEW j \in 1..(Len(kept) + 1), i < j
                 PROVE  Append(kept, e)[i] < Append(kept, e)[j]
      BY <1>4
    <3>1. i \in 1..Len(kept)
      BY <1>4
    <3>2. CASE j = Len(kept) + 1
      <4>1. Append(kept, e)[i] = kept[i] /\ kept[i] < e
        BY <1>3, <1>4, <3>1
      <4>2. Append(kept, e)[j] = e
        BY <1>4, <3>2
      <4> QED BY <4>1, <4>2, Zenon
    <3>3. CASE j # Len(kept) + 1
      <4>1. j \in 1..Len(kept)
        BY <1>4, <3>3
      <4>2. /\ Append(kept, e)[i] = kept[i] /\ Append(kept, e)[j] = kept[j]
            /\ i \in DOMAIN kept /\ j \in DOMAIN kept
        BY <1>4, <3>1, <4>1
      <4>3. kept[i] < kept[j]
        BY <1>3, <4>2
      <4> QED BY <4>2, <4>3, Zenon
    <3> QED BY <3>2, <3>3
  <2> QED BY <1>1, <1>4, <2>1, <2>2 DEF QueueInv
<1> QED BY <1>1, <1>2, <1>6 DEF HandInv

LEMMA HookStep ==
  ASSUME HandInv, QueueInv, [FeedNext]_feedVars
  PROVE  HandInv' /\ QueueInv'
<1>1. CASE on_event
  BY <1>1, EventWaits
<1>2. CASE webhook_worker
  <2>1. CASE hook_queue = <<>>
    BY <1>2, <2>1 DEF webhook_worker, HandInv, QueueInv, Nothing
  <2>2. CASE hook_queue # <<>>
    <3>1. /\ hook_worker' = "posting" /\ hook_hand' = Head(hook_queue) /\ hook_queue' = Tail(hook_queue)
          /\ UNCHANGED <<hook_events, received>>
      BY <1>2, <2>2 DEF webhook_worker
    <3>2. /\ Head(hook_queue) = hook_queue[1] /\ 1 \in DOMAIN hook_queue
          /\ Head(hook_queue) \in 1..hook_events /\ Tail(hook_queue) \in Seq(1..hook_events)
          /\ \A i \in DOMAIN Tail(hook_queue) : /\ i + 1 \in DOMAIN hook_queue /\ i \in Nat /\ i > 0
                                                /\ Tail(hook_queue)[i] = hook_queue[i + 1]
      BY <2>2, TailIs DEF QueueInv
    <3>3. \A i \in DOMAIN Tail(hook_queue) : /\ Tail(hook_queue)[i] > received
                                             /\ Tail(hook_queue)[i] > Head(hook_queue)
      BY <3>2 DEF QueueInv
    <3>4. \A i, j \in DOMAIN Tail(hook_queue) : i < j => Tail(hook_queue)[i] < Tail(hook_queue)[j]
      BY <3>2 DEF QueueInv
    <3>5. HandInv'
      BY <3>1, <3>2 DEF HandInv, QueueInv
    <3> QED BY <3>1, <3>2, <3>3, <3>4, <3>5 DEF QueueInv
  <2> QED BY <2>1, <2>2
<1>3. CASE post_payload
  <2>1. PICK arrives, answered \in BOOLEAN :
          /\ received' = IF arrives THEN hook_hand ELSE received
          /\ IF answered \/ hook_tries = MaxRetries
             THEN hook_worker' = "idle" /\ hook_hand' = Nothing
             ELSE UNCHANGED <<hook_worker, hook_hand>>
          /\ hook_worker = "posting" /\ UNCHANGED <<hook_queue, hook_events>>
    BY <1>3 DEF post_payload
  <2>2. hook_events \in Nat /\ hook_hand \in Nat /\ received \in Nat /\ \A i \in DOMAIN hook_queue : hook_queue[i] \in Nat
    BY DEF HandInv, QueueInv
  <2>3. QueueInv'
    BY <2>1, <2>2 DEF QueueInv, Nothing
  <2>4. HandInv'
    BY <2>1, <2>2 DEF HandInv, Nothing
  <2> QED BY <2>3, <2>4
<1>4. CASE webhook_configured
  <2>1. hook_hand = Nothing /\ UNCHANGED <<hook_hand, hook_events, received>>
    BY <1>4 DEF webhook_configured, HandInv
  <2>2. hook_queue' = <<>> \/ hook_queue' = hook_queue
    BY <1>4 DEF webhook_configured
  <2>3. HandInv'
    BY <2>1 DEF HandInv
  <2>4. CASE hook_queue' = <<>>
    BY <2>1, <2>3, <2>4 DEF HandInv, QueueInv, Nothing
  <2>5. CASE hook_queue' = hook_queue
    BY <2>1, <2>3, <2>5 DEF HandInv, QueueInv, Nothing
  <2> QED BY <2>2, <2>4, <2>5
<1>5. CASE webhook_configure \/ webhook_unload
  BY <1>5, HookSame DEF webhook_configure, webhook_unload, stop_worker, hookSeen
<1>6. CASE \/ PollRequested \/ poll_worker \/ nws_configure \/ nws_configured \/ nws_unload \/ nws_unloaded
           \/ poll_nws \/ DeadlinePasses
  BY <1>6, HookSame DEF PollRequested, poll_worker, nws_configure, nws_configured, nws_unload, nws_unloaded,
     poll_nws, DeadlinePasses, hookSeen, hookVars
<1>7. CASE weather_fetch \/ weather_answered \/ weather_configure \/ SetEmergency
  BY <1>7, HookSame DEF weather_fetch, weather_answered, weather_configure, SetEmergency, hookSeen, hookVars
<1>8. CASE UNCHANGED feedVars
  BY <1>8, HookSame DEF feedVars, hookVars, hookSeen
<1> QED BY <1>1, <1>2, <1>3, <1>4, <1>5, <1>6, <1>7, <1>8 DEF FeedNext

\* What waits, the one in hand first.
LEMMA WaitingIs ==
  ASSUME HandInv, QueueInv
  PROVE  /\ \A i \in DOMAIN Waiting : Waiting[i] > received \/ (i = 1 /\ Waiting[i] = hook_hand)
         /\ \A i, j \in DOMAIN Waiting : i < j => Waiting[i] < Waiting[j]
<1>1. hook_hand \in Nat /\ hook_queue \in Seq(Nat) /\ received \in Nat
  BY DEF HandInv, QueueInv
<1>2. CASE hook_hand = Nothing
  <2>1. Waiting = hook_queue
    BY <1>2 DEF Waiting
  <2> QED BY <1>1, <2>1 DEF QueueInv
<1>3. CASE hook_hand # Nothing
  <2> DEFINE w == <<hook_hand>> \o hook_queue
  <2>1. Waiting = w
    BY <1>3 DEF Waiting
  <2>2. DOMAIN w = 1..(Len(hook_queue) + 1) /\ w[1] = hook_hand
    BY <1>1
  <2>3. \A i \in DOMAIN w : i # 1 => i - 1 \in DOMAIN hook_queue /\ w[i] = hook_queue[i - 1]
    BY <1>1
  <2> HIDE DEF w
  <2>4. \A i \in DOMAIN w : w[i] > received \/ (i = 1 /\ w[i] = hook_hand)
    BY <2>2, <2>3 DEF QueueInv
  <2>5. ASSUME NEW i \in DOMAIN w, NEW j \in DOMAIN w, i < j PROVE w[i] < w[j]
    <3>1. j # 1 /\ i \in Nat /\ j \in Nat /\ j - 1 \in DOMAIN hook_queue /\ w[j] = hook_queue[j - 1]
      BY <1>1, <2>2, <2>3, <2>5
    <3>2. CASE i = 1
      BY <1>1, <2>2, <3>1, <3>2 DEF QueueInv
    <3>3. CASE i # 1
      <4>1. i - 1 \in DOMAIN hook_queue /\ w[i] = hook_queue[i - 1] /\ i - 1 < j - 1
        BY <2>3, <2>5, <3>1, <3>3
      <4> QED BY <3>1, <4>1 DEF QueueInv
    <3> QED BY <3>2, <3>3
  <2>6. Waiting \in Seq(Nat) /\ w \in Seq(Nat)
    BY <1>1, <2>1 DEF w
  <2> QED BY <2>1, <2>4, <2>5, <2>6
<1> QED BY <1>2, <1>3

\* An alert is announced as new once before its deadline, however the feed,
\* the polls and the reloads go; and events reach the hook in the order they
\* happened, through all retries, drops and reloads (process_alerts,
\* enqueue_payload, webhook_worker, post_payload).
THEOREM NewsIsAlwaysToldOnce == FeedSpec => []NewsIsToldOnce
<1>1. FeedInit => FeedInv
  BY DEF FeedInit, FeedInv, ToldInv, HandInv, QueueInv, Nothing
<1>2. FeedInv /\ [FeedNext]_feedVars => FeedInv'
  BY ToldStep, HookStep DEF FeedInv
<1>3. FeedInv => NewsIsToldOnce
  BY WaitingIs DEF FeedInv, ToldInv, NewsIsToldOnce
<1> QED BY <1>1, <1>2, <1>3, PTL DEF FeedSpec

(* -------------------------------- Speech ------------------------------- *)
\* Who asks, and where an announcing thread is.
Whos == AiCallers \cup {0}
AiRequests == [who : Whos, from : SpThreads \cup {"cli"}]
Places == {"none", "announce", "busy_check", "wants_lock", "enqueue"}
AnnouncerStates == [at : Places, who : Whos]
SpTypes == /\ ai_q \in Seq(AiRequests) /\ ai_caller \in Whos
           /\ announcer \in [SpThreads -> AnnouncerStates]

\* A thread queues a request only after it has seen the queue empty, and
\* another's request may come before it, its own may not.
OneEach == \A i, j \in DOMAIN ai_q : ai_q[i].from = ai_q[j].from /\ ai_q[i].from \in SpThreads => i = j
NoneYet == \A t \in SpThreads : announcer[t].at = "enqueue" => \A i \in DOMAIN ai_q : ai_q[i].from # t
SpInv == SpTypes /\ OneEach /\ NoneYet

spSeen == <<ai_q, ai_caller, announcer>>
LEMMA SpSame == ASSUME SpInv, UNCHANGED spSeen PROVE SpInv'
BY DEF SpInv, SpTypes, OneEach, NoneYet, spSeen

\* A request more, and its thread has gone on; "cli" is no thread.
LEMMA QueuedKeeps ==
  ASSUME SpInv, NEW r \in AiRequests, Enqueued(r), UNCHANGED ai_caller,
         announcer' \in [SpThreads -> AnnouncerStates],
         \A t \in SpThreads : announcer'[t].at = "enqueue" => announcer[t].at = "enqueue" /\ t # r.from,
         r.from \in SpThreads => announcer[r.from].at = "enqueue"
  PROVE  SpInv'
<1>1. CASE ai_q' = ai_q
  BY <1>1 DEF SpInv, SpTypes, OneEach, NoneYet
<1>2. CASE ai_q' = Append(ai_q, r)
  <2>1. /\ ai_q' \in Seq(AiRequests) /\ Len(ai_q) \in Nat /\ DOMAIN ai_q' = 1..(Len(ai_q) + 1)
        /\ ai_q'[Len(ai_q) + 1] = r /\ DOMAIN ai_q = 1..Len(ai_q)
        /\ \A i \in 1..Len(ai_q) : ai_q'[i] = ai_q[i]
    BY <1>2 DEF SpInv, SpTypes
  <2>2. r.from \in SpThreads => \A i \in 1..Len(ai_q) : ai_q[i].from # r.from
    BY <2>1 DEF SpInv, NoneYet
  <2>3. OneEach'
    <3> SUFFICES ASSUME NEW i \in 1..(Len(ai_q) + 1), NEW j \in 1..(Len(ai_q) + 1),
                        ai_q'[i].from = ai_q'[j].from, ai_q'[i].from \in SpThreads
                 PROVE  i = j
      BY <2>1 DEF OneEach
    <3>1. CASE i = Len(ai_q) + 1 \/ j = Len(ai_q) + 1
      BY <2>1, <2>2, <3>1
    <3>2. CASE i # Len(ai_q) + 1 /\ j # Len(ai_q) + 1
      <4>1. i \in DOMAIN ai_q /\ j \in DOMAIN ai_q /\ ai_q'[i] = ai_q[i] /\ ai_q'[j] = ai_q[j]
        BY <2>1, <3>2
      <4> QED BY <4>1 DEF SpInv, OneEach
    <3> QED BY <3>1, <3>2
  <2>4. NoneYet'
    <3> SUFFICES ASSUME NEW t \in SpThreads, announcer'[t].at = "enqueue", NEW i \in 1..(Len(ai_q) + 1)
                 PROVE  ai_q'[i].from # t
      BY <2>1 DEF NoneYet
    <3>1. CASE i = Len(ai_q) + 1
      BY <2>1, <3>1
    <3>2. CASE i # Len(ai_q) + 1
      <4>1. i \in DOMAIN ai_q /\ ai_q'[i] = ai_q[i]
        BY <2>1, <3>2
      <4> QED BY <4>1 DEF SpInv, NoneYet
    <3> QED BY <3>1, <3>2
  <2> QED BY <2>1, <2>3, <2>4 DEF SpInv, SpTypes
<1> QED BY <1>1, <1>2 DEF Enqueued

\* The announcer of a thread moves to a place that is not the queue.
LEMMA PlaceKeeps ==
  ASSUME SpInv, UNCHANGED <<ai_q, ai_caller>>, NEW t \in SpThreads, NEW a \in AnnouncerStates,
         a.at # "enqueue" \/ ai_q = <<>>, announcer' = [announcer EXCEPT ![t] = a]
  PROVE  SpInv'
<1>1. announcer' \in [SpThreads -> AnnouncerStates] /\ \A o \in SpThreads \ {t} : announcer'[o] = announcer[o]
  BY DEF SpInv, SpTypes
<1>2. announcer'[t] = a
  BY DEF SpInv, SpTypes
<1> QED BY <1>1, <1>2 DEF SpInv, SpTypes, OneEach, NoneYet

LEMMA PlaceIs ==
  ASSUME SpInv, NEW t \in SpThreads
  PROVE  /\ announcer[t].who \in Whos /\ ai_caller \in Whos /\ SpQuiet \in AnnouncerStates
         /\ \A w \in Whos : \A p \in Places : [at |-> p, who |-> w] \in AnnouncerStates
         /\ SpQuiet.at # "enqueue"
BY DEF SpInv, SpTypes, SpQuiet, Whos, AnnouncerStates, Places

LEMMA DoneKeeps ==
  ASSUME SpInv, UNCHANGED <<ai_q, ai_caller>>, NEW t \in SpThreads, Done(t)
  PROVE  SpInv'
BY PlaceIs, PlaceKeeps DEF Done

LEMMA AtKeeps ==
  ASSUME SpInv, UNCHANGED <<ai_q, ai_caller>>, NEW t \in SpThreads, NEW p \in Places, NEW w \in Whos,
         p # "enqueue" \/ ai_q = <<>>, At(t, p, w)
  PROVE  SpInv'
<1>1. [at |-> p, who |-> w] \in AnnouncerStates /\ [at |-> p, who |-> w].at = p
  BY DEF AnnouncerStates
<1> QED BY <1>1, PlaceKeeps DEF At

LEMMA AnnounceKeeps ==
  ASSUME SpInv, UNCHANGED <<ai_q, ai_caller>>, NEW t \in SpThreads,
         announcer' = [announcer EXCEPT ![t].at = "announce"]
  PROVE  SpInv'
<1>1. PICK p \in AnnouncerStates : p = announcer[t]
  BY DEF SpInv, SpTypes
<1>2. PICK a \in AnnouncerStates : a = [p EXCEPT !.at = "announce"] /\ a.at = "announce"
  <2>1. [p EXCEPT !.at = "announce"] \in AnnouncerStates
    BY DEF AnnouncerStates, Places
  <2> QED BY <2>1 DEF AnnouncerStates
<1>3. announcer' = [announcer EXCEPT ![t] = a]
  BY <1>1, <1>2
<1> QED BY <1>2, <1>3, PlaceKeeps

\* Announcements and their queue.
LEMMA SpStep == ASSUME SpInv, [SpNext]_spVars PROVE SpInv'
<1>1. CASE \E t \in SpThreads : on_announcement(t)
  <2>1. PICK t \in SpThreads : on_announcement(t)
    BY <1>1
  <2>2. CASE Done(t)
    BY <2>1, <2>2, DoneKeeps DEF on_announcement
  <2>3. CASE At(t, "busy_check", ai_caller) \/ At(t, "wants_lock", ai_caller)
    <3>1. ai_caller \in Whos /\ {"busy_check", "wants_lock"} \subseteq Places
      BY PlaceIs DEF Places
    <3>2. UNCHANGED <<ai_q, ai_caller>>
      BY <2>1 DEF on_announcement
    <3> QED BY <2>3, <3>1, <3>2, AtKeeps
  <2> QED BY <2>1, <2>2, <2>3 DEF on_announcement
<1>2. CASE \E t \in SpThreads : FollowsConversation(t)
  <2>1. PICK t \in SpThreads : FollowsConversation(t)
    BY <1>2
  <2>2. Done(t) \/ At(t, "busy_check", announcer[t].who)
    BY <2>1 DEF FollowsConversation
  <2>3. UNCHANGED <<ai_q, ai_caller>>
    BY <2>1 DEF FollowsConversation
  <2>4. announcer[t].who \in Whos /\ {"busy_check"} \subseteq Places
    BY PlaceIs DEF Places
  <2>5. CASE Done(t)
    BY <2>3, <2>5, DoneKeeps
  <2>6. CASE At(t, "busy_check", announcer[t].who)
    BY <2>3, <2>4, <2>6, AtKeeps
  <2> QED BY <2>2, <2>5, <2>6
<1>3. CASE \E t \in SpThreads : BusyCheck(t)
  <2>1. PICK t \in SpThreads : BusyCheck(t)
    BY <1>3
  <2>2. Done(t) \/ (At(t, "enqueue", announcer[t].who) /\ ai_q = <<>>)
    BY <2>1 DEF BusyCheck, ai_is_busy
  <2>3. UNCHANGED <<ai_q, ai_caller>>
    BY <2>1 DEF BusyCheck, aiVars
  <2>4. announcer[t].who \in Whos /\ {"enqueue"} \subseteq Places
    BY PlaceIs DEF Places
  <2>5. CASE Done(t)
    BY <2>3, <2>5, DoneKeeps
  <2>6. CASE At(t, "enqueue", announcer[t].who) /\ ai_q = <<>>
    BY <2>3, <2>4, <2>6, AtKeeps
  <2> QED BY <2>2, <2>5, <2>6
<1>4. CASE \E t \in SpThreads : enqueue_request(t)
  <2>1. PICK t \in SpThreads : enqueue_request(t)
    BY <1>4
  <2>2. PICK r \in AiRequests : r = [who |-> announcer[t].who, from |-> t] /\ r.from = t
    <3>1. [who |-> announcer[t].who, from |-> t] \in AiRequests
      BY PlaceIs DEF AiRequests
    <3> QED BY <3>1
  <2>3. /\ Enqueued(r) /\ UNCHANGED ai_caller /\ announcer[t].at = "enqueue"
        /\ announcer' = [announcer EXCEPT ![t] = SpQuiet]
    BY <2>1, <2>2 DEF enqueue_request, Done
  <2>4. /\ announcer' \in [SpThreads -> AnnouncerStates]
        /\ announcer'[t] = SpQuiet /\ \A o \in SpThreads \ {t} : announcer'[o] = announcer[o]
    BY <2>3, PlaceIs DEF SpInv, SpTypes
  <2>5. \A o \in SpThreads : announcer'[o].at = "enqueue" => announcer[o].at = "enqueue" /\ o # r.from
    BY <2>2, <2>4, PlaceIs
  <2> QED BY <2>2, <2>3, <2>4, <2>5, QueuedKeeps
<1>5. CASE cli_ai_ask
  <2>1. PICK r \in AiRequests : r = [who |-> ai_caller, from |-> "cli"] /\ r.from = "cli"
    <3>1. [who |-> ai_caller, from |-> "cli"] \in AiRequests
      BY DEF SpInv, SpTypes, AiRequests
    <3> QED BY <3>1
  <2>2. Enqueued(r) /\ UNCHANGED <<ai_caller, announcer>> /\ r.from \notin SpThreads
    BY <1>5, <2>1 DEF cli_ai_ask, SpThreads
  <2>3. \A t \in SpThreads : announcer'[t].at = "enqueue" => announcer[t].at = "enqueue" /\ t # r.from
    BY <2>2
  <2>4. announcer' \in [SpThreads -> AnnouncerStates]
    BY <2>2 DEF SpInv, SpTypes
  <2> QED BY <2>2, <2>3, <2>4, QueuedKeeps
<1>6. CASE AiTakes
  <2>1. ai_q # <<>> /\ ai_q' = Tail(ai_q) /\ UNCHANGED <<ai_caller, announcer>>
    BY <1>6 DEF AiTakes
  <2>2. /\ ai_q' \in Seq(AiRequests)
        /\ \A i \in DOMAIN ai_q' : i \in Nat /\ i + 1 \in DOMAIN ai_q /\ ai_q'[i] = ai_q[i + 1]
    BY <2>1 DEF SpInv, SpTypes
  <2>3. OneEach'
    <3> SUFFICES ASSUME NEW i \in DOMAIN ai_q', NEW j \in DOMAIN ai_q',
                        ai_q'[i].from = ai_q'[j].from, ai_q'[i].from \in SpThreads
                 PROVE  i = j
      BY DEF OneEach
    <3>1. i + 1 = j + 1 /\ i \in Nat /\ j \in Nat
      BY <2>2 DEF SpInv, OneEach
    <3> QED BY <3>1
  <2>4. NoneYet'
    BY <2>1, <2>2 DEF SpInv, NoneYet
  <2> QED BY <2>1, <2>2, <2>3, <2>4 DEF SpInv, SpTypes
<1>7. CASE asr_cor_drop
  <2>1. UNCHANGED <<ai_q, ai_caller>>
    BY <1>7 DEF asr_cor_drop, aiVars
  <2>2. UNCHANGED announcer \/ announcer' = [announcer EXCEPT !["main"].at = "announce"]
    BY <1>7 DEF asr_cor_drop
  <2> QED BY <2>1, <2>2, SpSame, AnnounceKeeps DEF spSeen, SpThreads
<1>8. CASE AsrTranscribed
  <2>1. UNCHANGED <<ai_q, ai_caller>>
    BY <1>8 DEF AsrTranscribed, aiVars
  <2>2. UNCHANGED announcer \/ announcer' = [announcer EXCEPT !["asr"].at = "announce"]
    BY <1>8 DEF AsrTranscribed
  <2> QED BY <2>1, <2>2, SpSame, AnnounceKeeps DEF spSeen, SpThreads
<1>9. CASE CallerChanges
  BY <1>9 DEF CallerChanges, SpInv, SpTypes, OneEach, NoneYet, Whos
<1>10. CASE tts_configured \/ tts_unloaded \/ asr_configured \/ asr_unloaded \/ ConversationStops \/ ai_unloaded
  BY <1>10, SpSame DEF tts_configured, tts_unloaded, asr_configured, asr_unloaded, ConversationStops, ai_unloaded,
     spSeen, aiVars
<1>11. CASE WorkerEnds \/ TtsTakes \/ TtsSpoken \/ AsrTakes \/ AiBegins \/ AiLocks \/ ToolRound \/ TurnEnds
  BY <1>11, SpSame DEF WorkerEnds, TtsTakes, TtsSpoken, AsrTakes, AiBegins, AiLocks, ToolRound, TurnEnds,
     spSeen, aiVars
<1>12. CASE \/ tts_configure \/ tts_unload \/ asr_cor_assert \/ asr_vcor_assert \/ asr_vcor_drop
            \/ asr_configure \/ asr_unload \/ on_dtmf_ai \/ ai_configure \/ ai_unload
  BY <1>12, SpSame DEF tts_configure, tts_unload, asr_cor_assert, asr_vcor_assert, asr_vcor_drop,
     asr_configure, asr_unload, on_dtmf_ai, ai_configure, ai_unload, spSeen, aiVars
<1>13. CASE UNCHANGED spVars
  BY <1>13, SpSame DEF spVars, aiVars, spSeen
<1> QED BY <1>1, <1>2, <1>3, <1>4, <1>5, <1>6, <1>7, <1>8, <1>9, <1>10, <1>11, <1>12, <1>13
    DEF SpNext, MainWaits, Works, Announces

\* Each thread that announces transcripts has at most one request in the
\* queue, however check, queue, worker and reloads interleave (ai_is_busy,
\* on_announcement, ai_worker).
THEOREM AnswersNeverPile == SpSpec => []AnswersDoNotPile
<1>1. SpInit => SpInv
  BY DEF SpInit, SpInv, SpTypes, OneEach, NoneYet, Whos, SpQuiet, AnnouncerStates, Places
<1>2. SpInv /\ [SpNext]_spVars => SpInv'
  BY SpStep
<1>3. SpInv => AnswersDoNotPile
  <2> SUFFICES ASSUME SpInv, NEW t \in SpThreads PROVE Cardinality(Open(t)) <= 1
    BY DEF AnswersDoNotPile
  <2>1. CASE Open(t) = {}
    BY <2>1, FS_EmptySet
  <2>2. ASSUME NEW i \in Open(t) PROVE Cardinality(Open(t)) = 1
    <3>1. Open(t) = {i}
      BY <2>2 DEF SpInv, SpTypes, OneEach, Open
    <3> QED BY <3>1, FS_Singleton
  <2> QED BY <2>1, <2>2
<1> QED BY <1>1, <1>2, <1>3, PTL DEF SpSpec

(* --------------------------------- Web --------------------------------- *)
\* The counts and the taps follow the connections, and PTT the socket that
\* holds it.
WebConn == [kind : {"none", "E", "P", "W"}, admin : BOOLEAN, ptt_held : BOOLEAN, told : Nat, heard : SUBSET {"E", "P"}]
Wakeups == [scope : {"P", "E", "A"}, n : Nat]
Publishing == [at : {"none", "store", "tell", "line"}, n : Nat, scope : {"P", "E", "none"}]
WebTypes ==
    /\ web_conns \in [WebConns -> WebConn] /\ g_ptt_holder \in WebConns \cup {NoConn}
    /\ opening \in WebConns \cup {NoConn}
    /\ pipe \in Seq(Wakeups) /\ (\A k \in DOMAIN pipe : pipe[k].n > 0 => pipe[k].scope = "P")
    /\ snapshot \in Nat /\ composed \in Nat
    /\ publishing \in [WebThreads -> Publishing]
    /\ \A t \in WebThreads : publishing[t].at \in {"store", "tell"} => publishing[t].n > 0
    /\ server \in {"up", "stopping", "off"} /\ unsure \in BOOLEAN

Streams == {c \in WebConns : web_conns[c].kind \in {"E", "P"}}
Sockets == {c \in WebConns : web_conns[c].kind = "W"}
CountInv ==
    /\ g_sse_count = Cardinality(Streams)
    /\ g_ws_audio_count = Cardinality(Sockets)
    /\ web_taps <=> g_ws_audio_count > 0
PttInv ==
    /\ \A c \in WebConns : web_conns[c].ptt_held <=> g_ptt_holder = c
    /\ \A c \in WebConns : web_conns[c].ptt_held => web_conns[c].kind = "W"
ScopeInv == \A c \in WebConns : web_conns[c].kind = "P" => "E" \notin web_conns[c].heard
OffInv ==
    /\ server = "off" => \A t \in WebThreads : publishing[t] = Quiet
    /\ server = "off" => Streams = {} /\ pipe = <<>>
    /\ opening # NoConn => web_conns[opening].kind \in {"E", "P"}

\* Unless two threads published at once: what is about to be told is what was
\* kept, and when nothing is about to be told, the last status on its way is
\* the one that was kept, or nothing is on its way and every stream has it.
Telling(t) == publishing[t].at \in {"store", "tell"}
OneTells == \A t, o \in WebThreads : Telling(t) /\ Telling(o) => t = o
Status(k) == pipe[k].n > 0
LastTold ==
    \/ \E k \in DOMAIN pipe : /\ pipe[k].n = snapshot /\ Status(k)
                              /\ \A j \in DOMAIN pipe : j > k => ~Status(j)
    \/ /\ \A k \in DOMAIN pipe : ~Status(k)
       /\ \A c \in Streams \ {opening} : web_conns[c].told = snapshot
NewsInv == ~unsure =>
    /\ OneTells
    /\ \A t \in WebThreads : publishing[t].at = "tell" => publishing[t].n = snapshot
    /\ (\A t \in WebThreads : ~Telling(t)) => LastTold
WebInv == WebTypes /\ CountInv /\ PttInv /\ ScopeInv /\ OffInv /\ NewsInv

LEMMA PublishOrderIs ==
  /\ PublishOrder[1] = "store" /\ After("store") = "tell" /\ After("tell") = "line"
<1>1. PublishOrder[1] = "store" /\ PublishOrder[2] = "tell" /\ PublishOrder[3] = "line"
  BY DEF PublishOrder
<1>2. (CHOOSE i \in 1..3 : PublishOrder[i] = "store") = 1
  <2>1. \A i \in 1..3 : PublishOrder[i] = "store" <=> i = 1
    BY <1>1
  <2> QED BY <2>1
<1>3. (CHOOSE i \in 1..3 : PublishOrder[i] = "tell") = 2
  <2>1. \A i \in 1..3 : PublishOrder[i] = "tell" <=> i = 2
    BY <1>1
  <2> QED BY <2>1
<1> QED BY <1>1, <1>2, <1>3 DEF After

LEMMA OneConn ==
  ASSUME WebTypes, NEW c \in WebConns, NEW s \in WebConn, web_conns' = [web_conns EXCEPT ![c] = s]
  PROVE  /\ web_conns' \in [WebConns -> WebConn] /\ web_conns'[c] = s
         /\ \A d \in WebConns \ {c} : web_conns'[d] = web_conns[d]
         /\ Streams' = IF s.kind \in {"E", "P"} THEN Streams \cup {c} ELSE Streams \ {c}
         /\ Sockets' = IF s.kind = "W" THEN Sockets \cup {c} ELSE Sockets \ {c}
<1>1. /\ web_conns' \in [WebConns -> WebConn] /\ web_conns'[c] = s
      /\ \A d \in WebConns \ {c} : web_conns'[d] = web_conns[d]
  BY DEF WebTypes
<1> QED BY <1>1 DEF Streams, Sockets

LEMMA CountOf ==
  /\ IsFiniteSet(Streams) /\ Cardinality(Streams) \in Nat
  /\ IsFiniteSet(Sockets) /\ Cardinality(Sockets) \in Nat
<1>1. Streams \subseteq WebConns /\ Sockets \subseteq WebConns
  BY DEF Streams, Sockets
<1> QED BY <1>1, FS_Subset, FS_CardinalityType, WebAssumption

LEMMA ClosedIs == /\ Closed \in WebConn /\ Closed.kind = "none" /\ Closed.ptt_held = FALSE /\ Closed.heard = {}
                  /\ Quiet \in Publishing /\ Quiet.at = "none"
BY DEF Closed, WebConn, Quiet, Publishing

\* A socket or a stream that opens, as a record.
LEMMA OpenedIs ==
  ASSUME NEW k \in {"E", "P", "W"}
  PROVE  \E s \in WebConn : /\ s = [Closed EXCEPT !.kind = k]
                            /\ s.kind = k /\ ~s.ptt_held /\ s.heard = {} /\ s.admin = FALSE
<1>1. PICK z \in WebConn : z = Closed /\ ~z.ptt_held /\ z.heard = {} /\ z.admin = FALSE
  BY ClosedIs DEF Closed
<1>2. [z EXCEPT !.kind = k] \in WebConn
  BY DEF WebConn
<1>3. \E s \in WebConn : /\ s = [z EXCEPT !.kind = k]
                         /\ s.kind = k /\ ~s.ptt_held /\ s.heard = {} /\ s.admin = FALSE
  BY <1>1, <1>2 DEF WebConn
<1> QED BY <1>1, <1>3

\* ------- what an action does to the connections
\* Effect(c, s): only connection c changes, to s.
Becomes(c, s) == web_conns' = [web_conns EXCEPT ![c] = s]

LEMMA StreamOpensIs ==
  ASSUME WebTypes, NEW c \in WebConns, StreamOpens(c)
  PROVE  \E s \in WebConn : /\ Becomes(c, s) /\ s.kind \in {"E", "P"} /\ ~s.ptt_held /\ s.heard = {}
<1>1. PICK k \in {"E", "P"} : web_conns' = [web_conns EXCEPT ![c] = [Closed EXCEPT !.kind = k]]
  BY DEF StreamOpens
<1>2. PICK s \in WebConn : s = [Closed EXCEPT !.kind = k] /\ s.kind = k /\ ~s.ptt_held /\ s.heard = {}
  BY OpenedIs
<1> QED BY <1>1, <1>2 DEF Becomes

LEMMA SocketOpensIs ==
  ASSUME WebTypes, NEW c \in WebConns, SocketOpens(c)
  PROVE  \E s \in WebConn : Becomes(c, s) /\ s.kind = "W" /\ ~s.ptt_held
<1>1. PICK a \in BOOLEAN : web_conns' = [web_conns EXCEPT ![c] = [Closed EXCEPT !.kind = "W", !.admin = a]]
  BY DEF SocketOpens
<1>2. PICK s \in WebConn : s = [Closed EXCEPT !.kind = "W", !.admin = a] /\ s.kind = "W" /\ ~s.ptt_held
  <2>1. PICK z \in WebConn : z = Closed /\ ~z.ptt_held
    BY ClosedIs
  <2>2. [z EXCEPT !.kind = "W", !.admin = a] \in WebConn
    BY DEF WebConn
  <2>3. \E s \in WebConn : s = [z EXCEPT !.kind = "W", !.admin = a] /\ s.kind = "W" /\ ~s.ptt_held
    BY <2>1, <2>2 DEF WebConn
  <2> QED BY <2>1, <2>3
<1> QED BY <1>1, <1>2 DEF Becomes

LEMMA HeldIs ==
  ASSUME WebTypes, NEW c \in WebConns, NEW held \in BOOLEAN, web_conns' = [web_conns EXCEPT ![c].ptt_held = held]
  PROVE  \E s \in WebConn : /\ Becomes(c, s) /\ s.ptt_held = held /\ s.kind = web_conns[c].kind
                            /\ s.heard = web_conns[c].heard /\ s.told = web_conns[c].told
<1>1. PICK z \in WebConn : z = web_conns[c]
  BY DEF WebTypes
<1>2. [z EXCEPT !.ptt_held = held] \in WebConn
  BY DEF WebConn
<1>3. PICK s \in WebConn : s = [z EXCEPT !.ptt_held = held] /\ s.ptt_held = held /\ s.kind = z.kind
                           /\ s.heard = z.heard /\ s.told = z.told
  BY <1>2 DEF WebConn
<1>4. web_conns' = [web_conns EXCEPT ![c] = s]
  BY <1>1, <1>3
<1> QED BY <1>1, <1>3, <1>4 DEF Becomes

LEMMA BurstIs ==
  ASSUME WebTypes, emit_snapshot_burst
  PROVE  opening \in WebConns /\ \E s \in WebConn :
           /\ Becomes(opening, s) /\ s.ptt_held = web_conns[opening].ptt_held /\ s.kind = web_conns[opening].kind
           /\ s.heard = web_conns[opening].heard /\ s.told = snapshot
<1>0. opening \in WebConns /\ snapshot \in Nat
  BY DEF WebTypes, emit_snapshot_burst
<1>1. PICK z \in WebConn : z = web_conns[opening]
  BY <1>0 DEF WebTypes
<1>2. [z EXCEPT !.told = snapshot] \in WebConn
  BY <1>0 DEF WebConn
<1>3. PICK s \in WebConn : s = [z EXCEPT !.told = snapshot] /\ s.ptt_held = z.ptt_held /\ s.kind = z.kind
                           /\ s.heard = z.heard /\ s.told = snapshot
  BY <1>2 DEF WebConn
<1>4. web_conns' = [web_conns EXCEPT ![opening] = s]
  BY <1>1, <1>3 DEF emit_snapshot_burst
<1> QED BY <1>0, <1>1, <1>3, <1>4 DEF Becomes

\* ------- what an action does to the publishers and to the pipe
LEMMA PublisherIs ==
  ASSUME WebTypes, NEW t \in WebThreads, NEW p \in Publishing, publishing' = [publishing EXCEPT ![t] = p]
  PROVE  publishing' \in [WebThreads -> Publishing] /\ publishing'[t] = p
         /\ \A o \in WebThreads \ {t} : publishing'[o] = publishing[o]
BY DEF WebTypes

LEMMA PublishesIs ==
  ASSUME WebTypes, NEW t \in WebThreads, NEW scope \in {"P", "E", "none"}, Publishes(t, scope)
  PROVE  /\ publishing' \in [WebThreads -> Publishing]
         /\ publishing'[t].at = "store" /\ publishing'[t].n > 0
         /\ \A o \in WebThreads \ {t} : publishing'[o] = publishing[o]
         /\ composed' \in Nat
         /\ unsure' = (\E o \in WebThreads \ {t} : Telling(o))
         /\ publishing[t].at = "none"
<1>0. composed + 1 \in Nat /\ composed + 1 > 0 /\ composed' = composed + 1
  BY DEF WebTypes, Publishes
<1>1. PICK z \in Publishing : z = [at |-> "store", n |-> composed + 1, scope |-> scope] /\ z.at = "store" /\ z.n = composed + 1
  <2>1. [at |-> "store", n |-> composed + 1, scope |-> scope] \in Publishing
    BY <1>0 DEF Publishing
  <2> QED BY <2>1
<1>2. publishing' = [publishing EXCEPT ![t] = z]
  BY <1>0, <1>1, PublishOrderIs DEF Publishes
<1>3. /\ publishing' \in [WebThreads -> Publishing] /\ publishing'[t] = z
      /\ \A o \in WebThreads \ {t} : publishing'[o] = publishing[o]
  BY <1>2, PublisherIs
<1>4. z.at = "store" /\ z.n > 0 /\ composed' \in Nat
  BY <1>0, <1>1
<1>5. unsure' = (\E o \in WebThreads \ {t} : Telling(o))
  BY Zenon DEF Publishes, Telling
<1>6. publishing[t].at = "none"
  BY ClosedIs DEF Publishes
<1> QED BY <1>3, <1>4, <1>5, <1>6

LEMMA AdvancesIs ==
  ASSUME WebTypes, NEW t \in WebThreads, NEW a \in {"tell", "line"}, publishing' = [publishing EXCEPT ![t].at = a]
  PROVE  /\ publishing' \in [WebThreads -> Publishing]
         /\ publishing'[t].at = a /\ publishing'[t].n = publishing[t].n
         /\ \A o \in WebThreads \ {t} : publishing'[o] = publishing[o]
<1>1. PICK z \in Publishing : z = publishing[t]
  BY DEF WebTypes
<1>2. [z EXCEPT !.at = a] \in Publishing
  BY DEF Publishing
<1>3. PICK p \in Publishing : p = [z EXCEPT !.at = a] /\ p.at = a /\ p.n = z.n
  BY <1>2 DEF Publishing
<1>4. publishing' = [publishing EXCEPT ![t] = p]
  BY <1>1, <1>3
<1> QED BY <1>1, <1>3, <1>4, PublisherIs

LEMMA LineIs ==
  ASSUME WebTypes, NEW t \in WebThreads, NEW scope \in {"P", "E"},
         publishing' = [publishing EXCEPT ![t] = [at |-> "line", n |-> 0, scope |-> scope]]
  PROVE  /\ publishing' \in [WebThreads -> Publishing] /\ publishing'[t].at = "line"
         /\ \A o \in WebThreads \ {t} : publishing'[o] = publishing[o]
<1>1. PICK z \in Publishing : z = [at |-> "line", n |-> 0, scope |-> scope] /\ z.at = "line"
  <2>1. [at |-> "line", n |-> 0, scope |-> scope] \in Publishing
    BY DEF Publishing
  <2> QED BY <2>1
<1> QED BY <1>1, PublisherIs

LEMMA WakeIs ==
  ASSUME WebTypes, NEW scope \in {"P", "E", "A"}, NEW n \in Nat, Wake(scope, n), n > 0 => scope = "P"
  PROVE  /\ pipe' \in Seq(Wakeups) /\ (\A k \in DOMAIN pipe' : pipe'[k].n > 0 => pipe'[k].scope = "P")
         /\ Len(pipe) \in Nat /\ DOMAIN pipe = 1..Len(pipe) /\ DOMAIN pipe' = 1..(Len(pipe) + 1)
         /\ pipe'[Len(pipe) + 1].n = n
         /\ \A k \in DOMAIN pipe : pipe'[k] = pipe[k]
<1>1. PICK w \in Wakeups : w = [scope |-> scope, n |-> n] /\ w.n = n /\ w.scope = scope
  <2>1. [scope |-> scope, n |-> n] \in Wakeups
    BY DEF Wakeups
  <2> QED BY <2>1
<1>2. pipe' = Append(pipe, w)
  BY <1>1 DEF Wake
<1>3. /\ pipe' \in Seq(Wakeups)
      /\ Len(pipe) \in Nat /\ DOMAIN pipe = 1..Len(pipe) /\ DOMAIN pipe' = 1..(Len(pipe) + 1)
      /\ pipe'[Len(pipe) + 1] = w
      /\ \A k \in DOMAIN pipe : pipe'[k] = pipe[k]
  BY <1>2 DEF WebTypes
<1>4. ASSUME NEW k \in DOMAIN pipe', pipe'[k].n > 0 PROVE pipe'[k].scope = "P"
  <2>1. CASE k = Len(pipe) + 1
    BY <1>1, <1>3, <1>4, <2>1
  <2>2. CASE k \in DOMAIN pipe
    BY <1>3, <1>4, <2>2 DEF WebTypes
  <2> QED BY <1>3, <2>1, <2>2
<1> QED BY <1>1, <1>3, <1>4

LEMMA WakeupIs ==
  ASSUME WebTypes, Wakeup
  PROVE  /\ pipe' \in Seq(Wakeups) /\ (\A k \in DOMAIN pipe' : pipe'[k].n > 0 => pipe'[k].scope = "P")
         /\ Len(pipe) \in Nat /\ DOMAIN pipe = 1..Len(pipe) /\ DOMAIN pipe' = 1..(Len(pipe) - 1) /\ Len(pipe) > 0
         /\ \A k \in DOMAIN pipe' : k + 1 \in DOMAIN pipe /\ pipe'[k] = pipe[k + 1]
         /\ web_conns' \in [WebConns -> WebConn]
         /\ \A c \in WebConns :
              /\ web_conns'[c].kind = web_conns[c].kind /\ web_conns'[c].ptt_held = web_conns[c].ptt_held
              /\ web_conns[c].kind = "P" /\ "E" \notin web_conns[c].heard => "E" \notin web_conns'[c].heard
              /\ web_conns[c].kind \in {"E", "P"} =>
                   web_conns'[c].told = IF pipe[1].n > 0 THEN pipe[1].n ELSE web_conns[c].told
<1>1. /\ pipe' \in Seq(Wakeups)
      /\ Len(pipe) \in Nat /\ DOMAIN pipe = 1..Len(pipe) /\ DOMAIN pipe' = 1..(Len(pipe) - 1) /\ Len(pipe) > 0
      /\ \A k \in DOMAIN pipe' : k + 1 \in DOMAIN pipe /\ pipe'[k] = pipe[k + 1]
  <2>1. pipe' = Tail(pipe) /\ pipe # <<>> /\ pipe \in Seq(Wakeups)
    BY DEF Wakeup, WebTypes
  <2> QED BY <2>1
<1>2. \A k \in DOMAIN pipe' : pipe'[k].n > 0 => pipe'[k].scope = "P"
  BY <1>1 DEF WebTypes
<1>3. PICK w \in Wakeups : w = Head(pipe) /\ w = pipe[1] /\ (w.n > 0 => w.scope = "P") /\ w.n \in Nat /\ w.scope \in {"P", "E", "A"}
  <2>1. pipe[1] \in Wakeups /\ Head(pipe) = pipe[1] /\ (pipe[1].n > 0 => pipe[1].scope = "P")
    BY <1>1 DEF WebTypes
  <2> QED BY <2>1 DEF Wakeups
<1>4. CASE w.scope = "A"
  <2>1. web_conns' = web_conns
    BY <1>3, <1>4 DEF Wakeup
  <2> QED BY <1>1, <1>2, <1>3, <1>4, <2>1 DEF WebTypes
<1>5. CASE w.scope # "A"
  <2>1. web_conns' = [c \in WebConns |-> LET s == web_conns[c] IN
                    IF s.kind = "E" \/ (s.kind = "P" /\ w.scope = "P")
                    THEN [s EXCEPT !.told = IF w.n > 0 THEN w.n ELSE @, !.heard = @ \cup {w.scope}]
                    ELSE s]
    BY <1>3, <1>5, Zenon DEF Wakeup
  <2>2. ASSUME NEW c \in WebConns
        PROVE  /\ web_conns'[c] \in WebConn
               /\ web_conns'[c].kind = web_conns[c].kind /\ web_conns'[c].ptt_held = web_conns[c].ptt_held
               /\ web_conns[c].kind = "P" /\ "E" \notin web_conns[c].heard => "E" \notin web_conns'[c].heard
               /\ web_conns[c].kind \in {"E", "P"} =>
                   web_conns'[c].told = IF w.n > 0 THEN w.n ELSE web_conns[c].told
    <3>1. PICK s \in WebConn : s = web_conns[c]
      BY DEF WebTypes
    <3>2. CASE s.kind = "E" \/ (s.kind = "P" /\ w.scope = "P")
      <4>1. PICK told \in Nat, hears \in SUBSET {"E", "P"} :
              /\ told = (IF w.n > 0 THEN w.n ELSE s.told) /\ hears = s.heard \cup {w.scope}
        BY <1>3, <1>5 DEF WebConn
      <4>2. web_conns'[c] = [s EXCEPT !.told = told, !.heard = hears]
        BY <2>1, <3>1, <3>2, <4>1
      <4>3. PICK r \in WebConn : r = [s EXCEPT !.told = told, !.heard = hears] /\ r.kind = s.kind /\ r.ptt_held = s.ptt_held
                                 /\ r.told = told /\ r.heard = hears
        <5>1. [s EXCEPT !.told = told, !.heard = hears] \in WebConn
          BY DEF WebConn
        <5> QED BY <5>1 DEF WebConn
      <4> QED BY <3>1, <3>2, <4>1, <4>2, <4>3, <1>5
    <3>3. CASE ~(s.kind = "E" \/ (s.kind = "P" /\ w.scope = "P"))
      <4>1. web_conns'[c] = s
        BY <2>1, <3>1, <3>3
      <4>2. s.kind = "P" => w.n = 0
        BY <1>3, <3>3
      <4> QED BY <3>1, <3>3, <4>1, <4>2, <1>3
    <3> QED BY <3>2, <3>3
  <2>3. web_conns' \in [WebConns -> WebConn]
    BY <2>1, <2>2
  <2> QED BY <1>1, <1>2, <1>3, <2>2, <2>3
<1> QED BY <1>4, <1>5

LEMMA TypesStep == ASSUME WebInv, WebNext PROVE WebTypes'
<1> USE DEF WebInv
<1>1. CASE web_event_handler
  <2>1. CASE Publishes("main", "P")
    BY <1>1, <2>1, PublishesIs DEF web_event_handler, WebTypes, WebThreads, connVars, setVars, Publishes
  <2>2. CASE ~Publishes("main", "P")
    <3>1. PICK scope \in {"P", "E"} :
            publishing' = [publishing EXCEPT !["main"] = [at |-> "line", n |-> 0, scope |-> scope]]
      BY <1>1, <2>2 DEF web_event_handler
    <3>2. UNCHANGED <<pipe, snapshot, composed, unsure>>
      BY <1>1, <2>2 DEF web_event_handler
    <3>3. /\ publishing' \in [WebThreads -> Publishing] /\ publishing'["main"].at = "line"
          /\ publishing'["web"] = publishing["web"]
      BY <3>1, LineIs DEF WebThreads
    <3> QED BY <1>1, <3>2, <3>3 DEF web_event_handler, WebTypes, WebThreads, connVars, setVars
  <2> QED BY <2>1, <2>2
<1>2. ASSUME NEW t \in WebThreads, Stores(t) PROVE WebTypes'
  <2>1. /\ publishing' \in [WebThreads -> Publishing]
        /\ publishing'[t].at = "tell" /\ publishing'[t].n = publishing[t].n
        /\ \A o \in WebThreads \ {t} : publishing'[o] = publishing[o]
    BY <1>2, AdvancesIs, PublishOrderIs DEF Stores
  <2>2. snapshot' \in Nat
    BY <1>2 DEF Stores, WebTypes, Publishing
  <2> QED BY <1>2, <2>1, <2>2 DEF Stores, WebTypes, connVars, setVars
<1>3. ASSUME NEW t \in WebThreads, sse_publish_impl(t) PROVE WebTypes'
  <2>1. /\ publishing' \in [WebThreads -> Publishing]
        /\ publishing'[t].at = "line" /\ publishing'[t].n = publishing[t].n
        /\ \A o \in WebThreads \ {t} : publishing'[o] = publishing[o]
    BY <1>3, AdvancesIs, PublishOrderIs DEF sse_publish_impl
  <2>2. pipe' \in Seq(Wakeups) /\ (\A k \in DOMAIN pipe' : pipe'[k].n > 0 => pipe'[k].scope = "P") /\ unsure' \in BOOLEAN
    <3>1. CASE g_sse_count > 0 /\ PipeRoom
      <4>1. Wake("P", publishing[t].n) /\ UNCHANGED unsure /\ publishing[t].n \in Nat
        BY <1>3, <3>1 DEF sse_publish_impl, WebTypes, Publishing
      <4> QED BY <4>1, WakeIs DEF WebTypes
    <3>2. CASE ~(g_sse_count > 0 /\ PipeRoom)
      <4>1. /\ UNCHANGED pipe
            /\ unsure' = (unsure \/ g_sse_count > 0 \/ \E k \in DOMAIN pipe : pipe[k].n > 0)
        BY <1>3, <3>2, Zenon DEF sse_publish_impl
      <4> QED BY <4>1 DEF WebTypes
    <3> QED BY <3>1, <3>2
  <2> QED BY <1>3, <2>1, <2>2 DEF sse_publish_impl, WebTypes, connVars, setVars
<1>4. ASSUME NEW t \in WebThreads, EventLine(t) PROVE WebTypes'
  <2>1. /\ publishing' \in [WebThreads -> Publishing]
        /\ publishing'[t] = Quiet
        /\ \A o \in WebThreads \ {t} : publishing'[o] = publishing[o]
    BY <1>4, PublisherIs, ClosedIs DEF EventLine
  <2>2. pipe' \in Seq(Wakeups) /\ (\A k \in DOMAIN pipe' : pipe'[k].n > 0 => pipe'[k].scope = "P")
    <3>1. CASE g_sse_count > 0 /\ publishing[t].scope # "none" /\ PipeRoom
      <4>1. Wake(publishing[t].scope, 0) /\ publishing[t].scope \in {"P", "E"}
        BY <1>4, <3>1 DEF EventLine, WebTypes, Publishing
      <4> QED BY <4>1, WakeIs
    <3>2. CASE ~(g_sse_count > 0 /\ publishing[t].scope # "none" /\ PipeRoom)
      BY <1>4, <3>2 DEF EventLine, WebTypes
    <3> QED BY <3>1, <3>2
  <2> QED BY <1>4, <2>1, <2>2, ClosedIs DEF EventLine, WebTypes, connVars, setVars
<1>5. ASSUME NEW c \in WebConns, StreamOpens(c) PROVE WebTypes'
  <2>1. web_conns' \in [WebConns -> WebConn]
    BY <1>5, StreamOpensIs, OneConn DEF Becomes
  <2> QED BY <1>5, <2>1 DEF StreamOpens, WebTypes, pubVars, setVars
<1>6. ASSUME NEW c \in WebConns, SocketOpens(c) PROVE WebTypes'
  <2>1. web_conns' \in [WebConns -> WebConn]
    BY <1>6, SocketOpensIs, OneConn DEF Becomes
  <2>2. Publishes("web", "none") /\ "web" \in WebThreads
    BY <1>6 DEF SocketOpens, WebThreads
  <2> QED BY <1>6, <2>1, <2>2, PublishesIs DEF SocketOpens, WebTypes, setVars, Publishes
<1>7. ASSUME NEW c \in WebConns, Closes(c) PROVE WebTypes'
  <2>1. web_conns' \in [WebConns -> WebConn]
    BY <1>7, ClosedIs, OneConn DEF Closes
  <2>2. "web" \in WebThreads /\ (Publishes("web", "none") \/ UNCHANGED pubVars)
    BY <1>7 DEF Closes, WebThreads
  <2>3. CASE Publishes("web", "none")
    BY <1>7, <2>1, <2>2, <2>3, PublishesIs DEF Closes, WebTypes, setVars, Publishes
  <2>4. CASE UNCHANGED pubVars
    BY <1>7, <2>1, <2>4 DEF Closes, WebTypes, setVars, pubVars
  <2> QED BY <2>2, <2>3, <2>4
<1>8. ASSUME NEW c \in WebConns, ws_handle_ptt_on(c) \/ ws_handle_ptt_off(c) PROVE WebTypes'
  <2>1. PICK held \in BOOLEAN : web_conns' = [web_conns EXCEPT ![c].ptt_held = held]
    BY <1>8 DEF ws_handle_ptt_on, ws_handle_ptt_off
  <2>2. web_conns' \in [WebConns -> WebConn]
    BY <2>1, HeldIs, OneConn DEF Becomes
  <2>3. /\ publishing' \in [WebThreads -> Publishing] /\ publishing'["web"].at = "line"
        /\ publishing'["main"] = publishing["main"]
    BY <1>8, LineIs DEF ws_handle_ptt_on, ws_handle_ptt_off, VcorLine, WebThreads
  <2>4. g_ptt_holder' \in WebConns \cup {NoConn}
    BY <1>8 DEF ws_handle_ptt_on, ws_handle_ptt_off, WebTypes
  <2> QED BY <1>8, <2>2, <2>3, <2>4 DEF ws_handle_ptt_on, ws_handle_ptt_off, VcorLine, WebTypes, WebThreads, setVars
<1>9. CASE emit_snapshot_burst
  <2>1. web_conns' \in [WebConns -> WebConn]
    BY <1>9, BurstIs, OneConn DEF Becomes
  <2> QED BY <1>9, <2>1 DEF emit_snapshot_burst, WebTypes, setVars, pubVars
<1>10. CASE Wakeup
  BY <1>10, WakeupIs DEF Wakeup, WebTypes, setVars
<1>11. CASE ws_ring_push
  BY <1>11 DEF ws_ring_push, WebTypes, setVars, pubVars, connVars
<1>12. CASE audio_ws_thread
  BY <1>12, WakeIs DEF audio_ws_thread, WebTypes, setVars, connVars
<1>13. CASE web_configure
  BY <1>13 DEF web_configure, WebTypes, pubVars, connVars
<1>14. CASE web_unload
  BY <1>14 DEF web_unload, WebTypes, pubVars, connVars
<1>15. CASE web_unloaded
  <2>1. web_conns' \in [WebConns -> WebConn] /\ pipe' = <<>>
    BY <1>15, ClosedIs DEF web_unloaded
  <2>2. pipe' \in Seq(Wakeups) /\ DOMAIN pipe' = {}
    BY <2>1
  <2> QED BY <1>15, <2>1, <2>2 DEF web_unloaded, WebTypes
<1>16. CASE web_load
  BY <1>16 DEF web_load, WebTypes, connVars
<1> QED BY <1>1, <1>2, <1>3, <1>4, <1>5, <1>6, <1>7, <1>8, <1>9, <1>10, <1>11, <1>12, <1>13, <1>14, <1>15, <1>16 DEF WebNext

LEMMA CountStep == ASSUME WebInv, WebNext PROVE CountInv'
<1> USE DEF WebInv
<1>0. IsFiniteSet(Streams) /\ Cardinality(Streams) \in Nat
      /\ IsFiniteSet(Sockets) /\ Cardinality(Sockets) \in Nat
  BY CountOf
<1>1. ASSUME NEW c \in WebConns, StreamOpens(c) PROVE CountInv'
  <2>1. PICK s \in WebConn : Becomes(c, s) /\ s.kind \in {"E", "P"}
    BY <1>1, StreamOpensIs
  <2>2. Streams' = Streams \cup {c} /\ Sockets' = Sockets \ {c}
    BY <2>1, OneConn DEF Becomes
  <2>3. c \notin Streams /\ c \notin Sockets
    BY <1>1 DEF StreamOpens, Streams, Sockets
  <2>4. Cardinality(Streams') = Cardinality(Streams) + 1 /\ Sockets' = Sockets
    <3>1. Cardinality(Streams \cup {c}) = Cardinality(Streams) + 1
      BY <1>0, <2>3, FS_AddElement, Zenon
    <3> QED BY <2>2, <2>3, <3>1
  <2> QED BY <1>0, <1>1, <2>4 DEF StreamOpens, CountInv
<1>2. ASSUME NEW c \in WebConns, SocketOpens(c) PROVE CountInv'
  <2>1. PICK s \in WebConn : Becomes(c, s) /\ s.kind = "W"
    BY <1>2, SocketOpensIs
  <2>2. Streams' = Streams \ {c} /\ Sockets' = Sockets \cup {c}
    BY <2>1, OneConn DEF Becomes
  <2>3. c \notin Streams /\ c \notin Sockets
    BY <1>2 DEF SocketOpens, Streams, Sockets
  <2>4. Cardinality(Sockets') = Cardinality(Sockets) + 1 /\ Streams' = Streams
    <3>1. Cardinality(Sockets \cup {c}) = Cardinality(Sockets) + 1
      BY <1>0, <2>3, FS_AddElement, Zenon
    <3> QED BY <2>2, <2>3, <3>1
  <2>5. g_sse_count' = g_sse_count /\ g_ws_audio_count' = g_ws_audio_count + 1
    BY <1>2 DEF SocketOpens
  <2>6. (web_taps' <=> (web_taps \/ g_ws_audio_count = 0)) /\ (web_taps <=> g_ws_audio_count > 0)
    BY <1>2, Zenon DEF SocketOpens, CountInv
  <2>7. g_sse_count = Cardinality(Streams) /\ g_ws_audio_count = Cardinality(Sockets)
    BY DEF CountInv
  <2>8. web_taps' <=> g_ws_audio_count' > 0
    BY <1>0, <2>5, <2>6, <2>7
  <2> QED BY <2>4, <2>5, <2>7, <2>8 DEF CountInv
<1>3. ASSUME NEW c \in WebConns, Closes(c) PROVE CountInv'
  <2>1. Streams' = Streams \ {c} /\ Sockets' = Sockets \ {c}
    BY <1>3, OneConn, ClosedIs DEF Closes
  <2>2. web_conns[c].kind \in {"E", "P", "W"}
    BY <1>3 DEF Closes, WebTypes, WebConn
  <2>3. CASE web_conns[c].kind = "W"
    <3>1. c \in Sockets /\ c \notin Streams
      BY <2>3 DEF Streams, Sockets
    <3>2. Cardinality(Sockets') = Cardinality(Sockets) - 1 /\ Streams' = Streams
      <4>1. Cardinality(Sockets \ {c}) = Cardinality(Sockets) - 1
        BY <1>0, <3>1, FS_RemoveElement, Zenon
      <4> QED BY <2>1, <3>1, <4>1
    <3>3. Sockets # {}
      BY <3>1
    <3>4. Cardinality(Sockets) > 0
      BY <1>0, <3>3, FS_EmptySet
    <3>5. g_sse_count' = g_sse_count /\ g_ws_audio_count' = g_ws_audio_count - 1
      BY <1>3, <2>3 DEF Closes
    <3>6. (web_taps' <=> (web_taps /\ g_ws_audio_count # 1)) /\ (web_taps <=> g_ws_audio_count > 0)
      BY <1>3, <2>3, Zenon DEF Closes, CountInv
    <3>7. g_sse_count = Cardinality(Streams) /\ g_ws_audio_count = Cardinality(Sockets)
      BY DEF CountInv
    <3>8. web_taps' <=> g_ws_audio_count' > 0
      BY <1>0, <3>5, <3>6, <3>7
    <3> QED BY <3>2, <3>4, <3>5, <3>7, <3>8 DEF CountInv
  <2>4. CASE web_conns[c].kind # "W"
    <3>1. c \notin Sockets /\ c \in Streams
      BY <2>2, <2>4 DEF Streams, Sockets
    <3>2. Cardinality(Streams') = Cardinality(Streams) - 1 /\ Sockets' = Sockets
      <4>1. Cardinality(Streams \ {c}) = Cardinality(Streams) - 1
        BY <1>0, <3>1, FS_RemoveElement, Zenon
      <4> QED BY <2>1, <3>1, <4>1
    <3> QED BY <1>0, <1>3, <2>4, <3>2 DEF Closes, CountInv
  <2> QED BY <2>3, <2>4
<1>4. ASSUME NEW c \in WebConns, ws_handle_ptt_on(c) \/ ws_handle_ptt_off(c) PROVE CountInv'
  <2>1. PICK held \in BOOLEAN : web_conns' = [web_conns EXCEPT ![c].ptt_held = held]
    BY <1>4 DEF ws_handle_ptt_on, ws_handle_ptt_off
  <2>2. PICK s \in WebConn : Becomes(c, s) /\ s.kind = web_conns[c].kind
    BY <2>1, HeldIs
  <2>3. Streams' = Streams /\ Sockets' = Sockets
    BY <2>2, OneConn DEF Becomes, Streams, Sockets
  <2> QED BY <1>4, <2>3 DEF ws_handle_ptt_on, ws_handle_ptt_off, CountInv
<1>5. CASE emit_snapshot_burst
  <2>1. PICK s \in WebConn : Becomes(opening, s) /\ s.kind = web_conns[opening].kind /\ opening \in WebConns
    BY <1>5, BurstIs
  <2>2. Streams' = Streams /\ Sockets' = Sockets
    BY <2>1, OneConn DEF Becomes, Streams, Sockets
  <2> QED BY <1>5, <2>2 DEF emit_snapshot_burst, CountInv
<1>6. CASE Wakeup
  <2>1. Streams' = Streams /\ Sockets' = Sockets
    BY <1>6, WakeupIs DEF Streams, Sockets
  <2> QED BY <1>6, <2>1 DEF Wakeup, CountInv
<1>7. CASE web_unloaded
  <2>1. Streams' = {} /\ Sockets' = {}
    BY <1>7, ClosedIs DEF web_unloaded, Streams, Sockets
  <2> QED BY <1>7, <2>1, FS_EmptySet DEF web_unloaded, CountInv
<1>8. CASE UNCHANGED <<web_conns, g_sse_count, g_ws_audio_count, web_taps>>
  BY <1>8 DEF CountInv, Streams, Sockets
<1> QED BY <1>1, <1>2, <1>3, <1>4, <1>5, <1>6, <1>7, <1>8
    DEF WebNext, web_event_handler, Stores, sse_publish_impl, EventLine, ws_ring_push, audio_ws_thread,
        web_configure, web_unload, web_load, connVars

LEMMA PttStep == ASSUME WebInv, WebNext PROVE PttInv'
<1> USE DEF WebInv
<1>1. ASSUME NEW c \in WebConns, StreamOpens(c) \/ SocketOpens(c) PROVE PttInv'
  <2>1. PICK s \in WebConn : Becomes(c, s) /\ ~s.ptt_held
    BY <1>1, StreamOpensIs, SocketOpensIs
  <2>2. web_conns'[c] = s /\ \A d \in WebConns \ {c} : web_conns'[d] = web_conns[d]
    BY <2>1, OneConn DEF Becomes
  <2>3. g_ptt_holder' = g_ptt_holder /\ web_conns[c].kind = "none"
    BY <1>1 DEF StreamOpens, SocketOpens
  <2> QED BY <2>1, <2>2, <2>3 DEF PttInv
<1>2. ASSUME NEW c \in WebConns, Closes(c) PROVE PttInv'
  <2>1. web_conns'[c] = Closed /\ \A d \in WebConns \ {c} : web_conns'[d] = web_conns[d]
    BY <1>2, ClosedIs, OneConn DEF Closes
  <2> QED BY <1>2, <2>1, ClosedIs, WebAssumption DEF Closes, PttInv
<1>3. ASSUME NEW c \in WebConns, ws_handle_ptt_on(c) \/ ws_handle_ptt_off(c) PROVE PttInv'
  <2>1. PICK held \in BOOLEAN : /\ web_conns' = [web_conns EXCEPT ![c].ptt_held = held]
                                /\ held <=> ws_handle_ptt_on(c)
    BY <1>3 DEF ws_handle_ptt_on, ws_handle_ptt_off
  <2>2. PICK s \in WebConn : Becomes(c, s) /\ s.kind = web_conns[c].kind /\ s.ptt_held = held
    BY <2>1, HeldIs
  <2>3. web_conns'[c] = s /\ \A d \in WebConns \ {c} : web_conns'[d] = web_conns[d]
    BY <2>2, OneConn DEF Becomes
  <2>4. CASE ws_handle_ptt_on(c)
    BY <2>1, <2>2, <2>3, <2>4, WebAssumption DEF ws_handle_ptt_on, PttInv
  <2>5. CASE ~ws_handle_ptt_on(c)
    BY <1>3, <2>1, <2>2, <2>3, <2>5, WebAssumption DEF ws_handle_ptt_off, PttInv
  <2> QED BY <2>4, <2>5
<1>4. CASE emit_snapshot_burst
  <2>1. PICK s \in WebConn : /\ Becomes(opening, s) /\ s.kind = web_conns[opening].kind /\ opening \in WebConns
                             /\ s.ptt_held = web_conns[opening].ptt_held
    BY <1>4, BurstIs
  <2>2. web_conns'[opening] = s /\ \A d \in WebConns \ {opening} : web_conns'[d] = web_conns[d]
    BY <2>1, OneConn DEF Becomes
  <2> QED BY <1>4, <2>1, <2>2 DEF emit_snapshot_burst, PttInv
<1>5. CASE Wakeup
  BY <1>5, WakeupIs DEF Wakeup, PttInv
<1>6. CASE web_unloaded
  BY <1>6, ClosedIs, WebAssumption DEF web_unloaded, PttInv
<1>7. CASE UNCHANGED <<web_conns, g_ptt_holder>>
  BY <1>7 DEF PttInv
<1> QED BY <1>1, <1>2, <1>3, <1>4, <1>5, <1>6, <1>7
    DEF WebNext, web_event_handler, Stores, sse_publish_impl, EventLine, ws_ring_push, audio_ws_thread,
        web_configure, web_unload, web_load, connVars

LEMMA ScopeStep == ASSUME WebInv, WebNext PROVE ScopeInv'
<1> USE DEF WebInv
<1>1. ASSUME NEW c \in WebConns, StreamOpens(c) \/ SocketOpens(c) \/ Closes(c) PROVE ScopeInv'
  <2>1. PICK s \in WebConn : Becomes(c, s) /\ (s.kind = "P" => "E" \notin s.heard)
    BY <1>1, StreamOpensIs, SocketOpensIs, ClosedIs DEF Closes, Becomes
  <2>2. web_conns'[c] = s /\ \A d \in WebConns \ {c} : web_conns'[d] = web_conns[d]
    BY <2>1, OneConn DEF Becomes
  <2> QED BY <2>1, <2>2 DEF ScopeInv
<1>2. ASSUME NEW c \in WebConns, ws_handle_ptt_on(c) \/ ws_handle_ptt_off(c) PROVE ScopeInv'
  <2>1. PICK held \in BOOLEAN : web_conns' = [web_conns EXCEPT ![c].ptt_held = held]
    BY <1>2 DEF ws_handle_ptt_on, ws_handle_ptt_off
  <2>2. PICK s \in WebConn : Becomes(c, s) /\ s.kind = web_conns[c].kind /\ s.heard = web_conns[c].heard
    BY <2>1, HeldIs
  <2>3. web_conns'[c] = s /\ \A d \in WebConns \ {c} : web_conns'[d] = web_conns[d]
    BY <2>2, OneConn DEF Becomes
  <2> QED BY <2>2, <2>3 DEF ScopeInv
<1>3. CASE emit_snapshot_burst
  <2>1. PICK s \in WebConn : /\ Becomes(opening, s) /\ s.kind = web_conns[opening].kind /\ opening \in WebConns
                             /\ s.heard = web_conns[opening].heard
    BY <1>3, BurstIs
  <2>2. web_conns'[opening] = s /\ \A d \in WebConns \ {opening} : web_conns'[d] = web_conns[d]
    BY <2>1, OneConn DEF Becomes
  <2> QED BY <2>1, <2>2 DEF ScopeInv
<1>4. CASE Wakeup
  BY <1>4, WakeupIs DEF ScopeInv
<1>5. CASE web_unloaded
  BY <1>5, ClosedIs DEF web_unloaded, ScopeInv
<1>6. CASE UNCHANGED web_conns
  BY <1>6 DEF ScopeInv
<1> QED BY <1>1, <1>2, <1>3, <1>4, <1>5, <1>6
    DEF WebNext, web_event_handler, Stores, sse_publish_impl, EventLine, ws_ring_push, audio_ws_thread,
        web_configure, web_unload, web_load, connVars

\* While the module is gone nobody publishes and nobody is connected to it.
LEMMA OffStep == ASSUME WebInv, WebNext PROVE OffInv'
<1> USE DEF WebInv
<1>1. ASSUME NEW c \in WebConns, StreamOpens(c) PROVE OffInv'
  <2>1. PICK s \in WebConn : Becomes(c, s) /\ s.kind \in {"E", "P"}
    BY <1>1, StreamOpensIs
  <2>2. web_conns'[c] = s
    BY <2>1, OneConn DEF Becomes
  <2> QED BY <1>1, <2>1, <2>2 DEF OffInv, StreamOpens, Serving, setVars
<1>2. ASSUME NEW c \in WebConns, SocketOpens(c) \/ Closes(c) PROVE OffInv'
  BY <1>2 DEF OffInv, SocketOpens, Closes, Serving, setVars
<1>3. ASSUME NEW c \in WebConns, ws_handle_ptt_on(c) \/ ws_handle_ptt_off(c) PROVE OffInv'
  BY <1>3 DEF OffInv, ws_handle_ptt_on, ws_handle_ptt_off, Serving, setVars
<1>4. CASE emit_snapshot_burst
  <2>1. opening' = NoConn /\ server' = server /\ publishing' = publishing /\ pipe' = pipe
    BY <1>4 DEF emit_snapshot_burst, setVars, pubVars
  <2>2. PICK s \in WebConn : Becomes(opening, s) /\ s.kind = web_conns[opening].kind /\ opening \in WebConns
    BY <1>4, BurstIs
  <2>3. Streams' = Streams
    BY <2>2, OneConn DEF Becomes, Streams
  <2> QED BY <2>1, <2>3 DEF OffInv
<1>5. CASE Wakeup
  BY <1>5 DEF Wakeup, Serving, OffInv, setVars
<1>6. CASE web_unloaded
  <2>1. Streams' = {}
    BY <1>6, ClosedIs DEF web_unloaded, Streams
  <2>2. publishing' = publishing /\ pipe' = <<>> /\ opening' = NoConn /\ publishing["main"] = Quiet /\ publishing["web"] = Quiet
    BY <1>6 DEF web_unloaded, Serving
  <2> QED BY <2>1, <2>2 DEF OffInv, WebThreads
<1>7. CASE web_event_handler
  BY <1>7 DEF web_event_handler, OffInv, Streams, setVars, connVars
<1>8. ASSUME NEW t \in WebThreads, Stores(t) \/ sse_publish_impl(t) \/ EventLine(t) PROVE OffInv'
  <2>1. publishing[t] # Quiet
    BY <1>8, ClosedIs DEF Stores, sse_publish_impl, EventLine
  <2>2. server # "off" /\ server' = server /\ opening' = opening /\ web_conns' = web_conns
    BY <1>8, <2>1 DEF Stores, sse_publish_impl, EventLine, OffInv, setVars, connVars
  <2> QED BY <2>2 DEF OffInv
<1>9. CASE ws_ring_push \/ audio_ws_thread \/ web_configure \/ web_unload \/ web_load
  <2>1. UNCHANGED <<connVars, publishing>> /\ server' # "off"
    BY <1>9 DEF ws_ring_push, audio_ws_thread, web_configure, web_unload, web_load, setVars, pubVars
  <2> QED BY <2>1 DEF OffInv, connVars, Streams
<1> QED BY <1>1, <1>2, <1>3, <1>4, <1>5, <1>6, <1>7, <1>8, <1>9 DEF WebNext

\* Who is telling, and what, stays as it was.
LEMMA NewsKept ==
  ASSUME WebInv, unsure' = unsure, snapshot' = snapshot, LastTold => LastTold',
         \A t \in WebThreads : \/ publishing'[t].at = publishing[t].at /\ publishing'[t].n = publishing[t].n
                               \/ publishing'[t].at \notin {"store", "tell"} /\ publishing[t].at \notin {"store", "tell"}
  PROVE  NewsInv'
<1>1. \A t \in WebThreads : Telling(t)' <=> Telling(t)
  BY DEF Telling
<1>2. \A t \in WebThreads : publishing'[t].at = "tell" => publishing[t].at = "tell" /\ publishing'[t].n = publishing[t].n
  OBVIOUS
<1>3. OneTells => OneTells'
  BY <1>1 DEF OneTells
<1> QED BY <1>1, <1>2, <1>3, Zenon DEF WebInv, NewsInv

LEMMA ToldKept ==
  ASSUME UNCHANGED <<pipe, snapshot>>,
         \A c \in Streams' \ {opening'} : c \in Streams \ {opening} /\ web_conns'[c].told = web_conns[c].told
  PROVE  LastTold => LastTold'
<1>1. \A k : Status(k)' <=> Status(k)
  BY DEF Status
<1> HIDE DEF Status
<1> QED BY <1>1 DEF LastTold

\* A wakeup that carries no status.
LEMMA WakeKept ==
  ASSUME WebTypes, NEW scope \in {"P", "E", "A"}, Wake(scope, 0), UNCHANGED <<connVars, snapshot>>
  PROVE  LastTold => LastTold'
<1>1. /\ Len(pipe) \in Nat /\ DOMAIN pipe = 1..Len(pipe) /\ DOMAIN pipe' = 1..(Len(pipe) + 1)
      /\ pipe'[Len(pipe) + 1].n = 0
      /\ \A k \in DOMAIN pipe : pipe'[k] = pipe[k]
  BY WakeIs
<1>2. ASSUME NEW k \in DOMAIN pipe, pipe[k].n = snapshot, Status(k), \A j \in DOMAIN pipe : j > k => ~Status(j)
      PROVE  LastTold'
  <2>1. k \in DOMAIN pipe' /\ pipe'[k].n = snapshot' /\ Status(k)'
    BY <1>1, <1>2 DEF Status
  <2>2. ASSUME NEW j \in DOMAIN pipe', j > k PROVE ~Status(j)'
    BY <1>1, <1>2, <2>2 DEF Status
  <2> QED BY <2>1, <2>2 DEF LastTold
<1>3. ASSUME \A k \in DOMAIN pipe : ~Status(k), \A c \in Streams \ {opening} : web_conns[c].told = snapshot
      PROVE  LastTold'
  <2>1. ASSUME NEW j \in DOMAIN pipe' PROVE ~Status(j)'
    BY <1>1, <1>3 DEF Status
  <2>2. \A c \in Streams' \ {opening'} : web_conns'[c].told = snapshot'
    BY <1>3 DEF connVars, Streams
  <2> QED BY <2>1, <2>2 DEF LastTold
<1> QED BY <1>2, <1>3 DEF LastTold

LEMMA PublishesNews ==
  ASSUME WebInv, NEW t \in WebThreads, NEW scope \in {"P", "E", "none"}, Publishes(t, scope)
  PROVE  NewsInv'
<1>1. /\ publishing'[t].at = "store"
      /\ \A o \in WebThreads \ {t} : publishing'[o] = publishing[o]
      /\ unsure' = (\E o \in WebThreads \ {t} : Telling(o))
  BY PublishesIs DEF WebInv
<1>2. SUFFICES ASSUME ~unsure' PROVE NewsInv'
  BY DEF NewsInv
<1>3. \A o \in WebThreads : Telling(o)' <=> o = t
  BY <1>1, <1>2 DEF Telling
<1>4. \A o \in WebThreads : publishing'[o].at # "tell"
  BY <1>1, <1>3 DEF Telling
<1> QED BY <1>3, <1>4, Zenon DEF NewsInv, OneTells

LEMMA WakeupNews == ASSUME WebInv, Wakeup PROVE LastTold => LastTold'
<1>1. /\ Len(pipe) \in Nat /\ DOMAIN pipe = 1..Len(pipe) /\ DOMAIN pipe' = 1..(Len(pipe) - 1) /\ Len(pipe) > 0
      /\ \A k \in DOMAIN pipe' : k + 1 \in DOMAIN pipe /\ pipe'[k] = pipe[k + 1]
      /\ \A c \in WebConns :
           /\ web_conns'[c].kind = web_conns[c].kind
           /\ web_conns[c].kind \in {"E", "P"} =>
                web_conns'[c].told = IF pipe[1].n > 0 THEN pipe[1].n ELSE web_conns[c].told
  BY WakeupIs DEF WebInv
<1>2. Streams' = Streams /\ snapshot' = snapshot /\ opening' = opening /\ opening = NoConn
  BY <1>1 DEF Streams, Wakeup, Serving
<1>3. \A c \in Streams : web_conns'[c].told = IF pipe[1].n > 0 THEN pipe[1].n ELSE web_conns[c].told
  BY <1>1 DEF Streams
<1>4. \A k \in DOMAIN pipe' : Status(k)' <=> Status(k + 1)
  BY <1>1 DEF Status
<1>5. ASSUME NEW k \in DOMAIN pipe, pipe[k].n = snapshot, Status(k), \A j \in DOMAIN pipe : j > k => ~Status(j)
      PROVE  LastTold'
  <2>1. CASE k = 1
    <3>1. \A j \in DOMAIN pipe' : ~Status(j)'
      <4>1. \A j \in DOMAIN pipe' : j + 1 \in DOMAIN pipe /\ j + 1 > k
        BY <1>1, <2>1
      <4> QED BY <1>4, <1>5, <4>1
    <3>2. \A c \in Streams' \ {opening'} : web_conns'[c].told = snapshot'
      BY <1>2, <1>3, <1>5, <2>1 DEF Status
    <3> QED BY <3>1, <3>2 DEF LastTold
  <2>2. CASE k # 1
    <3>1. PICK i \in DOMAIN pipe' : k = i + 1
      <4>1. k - 1 \in DOMAIN pipe' /\ k = (k - 1) + 1
        BY <1>1, <2>2
      <4> QED BY <4>1
    <3>2. pipe'[i].n = snapshot' /\ Status(i)'
      BY <1>1, <1>2, <1>4, <1>5, <3>1
    <3>3. \A j \in DOMAIN pipe' : j > i => ~Status(j)'
      <4>1. \A j \in DOMAIN pipe' : j + 1 \in DOMAIN pipe /\ (j > i => j + 1 > k)
        BY <1>1, <3>1
      <4> QED BY <1>4, <1>5, <4>1
    <3> QED BY <3>1, <3>2, <3>3 DEF LastTold
  <2> QED BY <2>1, <2>2
<1>6. ASSUME \A k \in DOMAIN pipe : ~Status(k), \A c \in Streams \ {opening} : web_conns[c].told = snapshot
      PROVE  LastTold'
  <2>1. \A j \in DOMAIN pipe' : ~Status(j)'
    BY <1>1, <1>4, <1>6
  <2>2. ~(pipe[1].n > 0)
    BY <1>1, <1>6 DEF Status
  <2>3. \A c \in Streams' \ {opening'} : web_conns'[c].told = snapshot'
    BY <1>2, <1>3, <1>6, <2>2
  <2> QED BY <2>1, <2>3 DEF LastTold
<1> QED BY <1>5, <1>6 DEF LastTold

LEMMA ToldNews ==
  ASSUME WebInv, NEW t \in WebThreads, sse_publish_impl(t)
  PROVE  NewsInv'
<1> USE DEF WebInv
<1>1. SUFFICES ASSUME ~unsure' PROVE NewsInv'
  BY DEF NewsInv
<1>2. /\ publishing'[t].at = "line" /\ publishing'[t].n = publishing[t].n
      /\ \A o \in WebThreads \ {t} : publishing'[o] = publishing[o]
  BY AdvancesIs, PublishOrderIs DEF sse_publish_impl
<1>3. UNCHANGED <<connVars, snapshot>> /\ publishing[t].at = "tell"
  BY DEF sse_publish_impl
<1>4. ~unsure
  BY <1>1, Zenon DEF sse_publish_impl
<1>5. publishing[t].n = snapshot /\ snapshot > 0 /\ \A o \in WebThreads \ {t} : ~Telling(o)
  <2>1. publishing[t].n = snapshot
    BY <1>3, <1>4 DEF NewsInv
  <2>2. publishing[t].n > 0
    BY <1>3 DEF WebTypes
  <2>3. Telling(t) /\ OneTells
    BY <1>3, <1>4 DEF Telling, NewsInv
  <2> QED BY <2>1, <2>2, <2>3 DEF OneTells
<1>6. \A o \in WebThreads : ~Telling(o)' /\ publishing'[o].at # "tell"
  BY <1>2, <1>5 DEF Telling
<1>7. LastTold'
  <2>1. CASE g_sse_count > 0 /\ PipeRoom
    <3>1. Wake("P", snapshot) /\ snapshot \in Nat
      BY <1>5, <2>1 DEF sse_publish_impl, WebTypes
    <3>2. /\ Len(pipe) \in Nat /\ DOMAIN pipe = 1..Len(pipe) /\ DOMAIN pipe' = 1..(Len(pipe) + 1)
          /\ pipe'[Len(pipe) + 1].n = snapshot
      BY <3>1, WakeIs
    <3>3. PICK k \in DOMAIN pipe' : pipe'[k].n = snapshot /\ \A j \in DOMAIN pipe' : ~(j > k)
      <4>1. Len(pipe) + 1 \in DOMAIN pipe' /\ \A j \in DOMAIN pipe' : ~(j > Len(pipe) + 1)
        BY <3>2
      <4> QED BY <3>2, <4>1
    <3>4. pipe'[k].n = snapshot' /\ Status(k)'
      BY <1>3, <1>5, <3>3 DEF Status
    <3> QED BY <3>3, <3>4 DEF LastTold
  <2>2. CASE ~(g_sse_count > 0 /\ PipeRoom)
    <3>1. /\ UNCHANGED pipe
          /\ unsure' <=> (unsure \/ g_sse_count > 0 \/ \E k \in DOMAIN pipe : pipe[k].n > 0)
      BY <2>2, Zenon DEF sse_publish_impl
    <3>2. \A k \in DOMAIN pipe' : ~Status(k)'
      BY <1>1, <3>1 DEF Status
    <3>3. Streams = {}
      <4>1. Cardinality(Streams) = 0
        BY <1>1, <3>1, CountOf DEF CountInv
      <4> QED BY <4>1, CountOf, FS_EmptySet
    <3>4. Streams' = {}
      BY <1>3, <3>3 DEF Streams, connVars
    <3> QED BY <3>2, <3>4 DEF LastTold
  <2> QED BY <2>1, <2>2
<1> QED BY <1>6, <1>7, Zenon DEF NewsInv, OneTells

LEMMA NewsStep == ASSUME WebInv, WebNext PROVE NewsInv'
<1> USE DEF WebInv
<1>1. CASE web_event_handler
  <2>1. CASE Publishes("main", "P")
    BY <2>1, PublishesNews DEF WebThreads
  <2>2. CASE ~Publishes("main", "P")
    <3>1. PICK scope \in {"P", "E"} :
            publishing' = [publishing EXCEPT !["main"] = [at |-> "line", n |-> 0, scope |-> scope]]
      BY <1>1, <2>2 DEF web_event_handler
    <3>2. UNCHANGED <<pipe, snapshot, composed, unsure, connVars>> /\ publishing["main"].at = "none"
      BY <1>1, <2>2, ClosedIs DEF web_event_handler
    <3>3. publishing'["main"].at = "line" /\ publishing'["web"] = publishing["web"]
      BY <3>1, LineIs DEF WebThreads
    <3>4. LastTold => LastTold'
      BY <3>2, ToldKept DEF connVars, Streams
    <3> QED BY <3>2, <3>3, <3>4, NewsKept DEF WebThreads
  <2> QED BY <2>1, <2>2
<1>2. ASSUME NEW t \in WebThreads, Stores(t) PROVE NewsInv'
  <2>1. /\ publishing'[t].at = "tell" /\ publishing'[t].n = publishing[t].n
        /\ \A o \in WebThreads \ {t} : publishing'[o] = publishing[o]
    BY <1>2, AdvancesIs, PublishOrderIs DEF Stores
  <2>2. snapshot' = publishing[t].n /\ unsure' = unsure /\ publishing[t].at = "store"
    BY <1>2 DEF Stores
  <2>3. SUFFICES ASSUME ~unsure PROVE NewsInv'
    BY <2>2 DEF NewsInv
  <2>4. \A o \in WebThreads : Telling(o) <=> o = t
    BY <2>2, <2>3 DEF NewsInv, OneTells, Telling
  <2>5. \A o \in WebThreads : Telling(o)' <=> o = t
    BY <2>1, <2>4 DEF Telling
  <2>6. \A o \in WebThreads : publishing'[o].at = "tell" => publishing'[o].n = snapshot'
    BY <2>1, <2>2, <2>5 DEF Telling
  <2> QED BY <2>5, <2>6, Zenon DEF NewsInv, OneTells
<1>3. ASSUME NEW t \in WebThreads, sse_publish_impl(t) PROVE NewsInv'
  BY <1>3, ToldNews
<1>4. ASSUME NEW t \in WebThreads, EventLine(t) PROVE NewsInv'
  <2>1. publishing'[t] = Quiet /\ \A o \in WebThreads \ {t} : publishing'[o] = publishing[o]
    BY <1>4, PublisherIs, ClosedIs DEF EventLine
  <2>2. publishing[t].at = "line" /\ UNCHANGED <<connVars, snapshot, unsure>>
    BY <1>4 DEF EventLine
  <2>3. LastTold => LastTold'
    <3>1. CASE g_sse_count > 0 /\ publishing[t].scope # "none" /\ PipeRoom
      <4>1. Wake(publishing[t].scope, 0) /\ publishing[t].scope \in {"P", "E"}
        BY <1>4, <3>1 DEF EventLine, WebTypes, Publishing
      <4> QED BY <2>2, <4>1, WakeKept
    <3>2. CASE ~(g_sse_count > 0 /\ publishing[t].scope # "none" /\ PipeRoom)
      <4>1. UNCHANGED pipe
        BY <1>4, <3>2 DEF EventLine
      <4> QED BY <2>2, <4>1, ToldKept DEF connVars, Streams
    <3> QED BY <3>1, <3>2
  <2> QED BY <2>1, <2>2, <2>3, NewsKept, ClosedIs
<1>5. ASSUME NEW c \in WebConns, StreamOpens(c) PROVE NewsInv'
  <2>1. PICK s \in WebConn : Becomes(c, s) /\ s.kind \in {"E", "P"}
    BY <1>5, StreamOpensIs
  <2>2. Streams' = Streams \cup {c} /\ \A d \in WebConns \ {c} : web_conns'[d] = web_conns[d]
    BY <2>1, OneConn DEF Becomes
  <2>3. UNCHANGED pubVars /\ opening' = c /\ opening = NoConn
    BY <1>5 DEF StreamOpens, Serving
  <2>4. LastTold => LastTold'
    BY <2>2, <2>3, ToldKept, WebAssumption DEF pubVars, Streams
  <2> QED BY <2>3, <2>4, NewsKept DEF pubVars
<1>6. ASSUME NEW c \in WebConns, SocketOpens(c) PROVE NewsInv'
  BY <1>6, PublishesNews DEF SocketOpens, WebThreads
<1>7. ASSUME NEW c \in WebConns, Closes(c) PROVE NewsInv'
  <2>1. CASE Publishes("web", "none")
    BY <2>1, PublishesNews DEF WebThreads
  <2>2. CASE ~Publishes("web", "none")
    <3>1. UNCHANGED pubVars /\ opening' = opening
      BY <1>7, <2>2 DEF Closes
    <3>2. Streams' = Streams \ {c} /\ \A d \in WebConns \ {c} : web_conns'[d] = web_conns[d]
      BY <1>7, OneConn, ClosedIs DEF Closes
    <3>3. LastTold => LastTold'
      BY <3>1, <3>2, ToldKept DEF pubVars, Streams
    <3> QED BY <3>1, <3>3, NewsKept DEF pubVars
  <2> QED BY <2>1, <2>2
<1>8. ASSUME NEW c \in WebConns, ws_handle_ptt_on(c) \/ ws_handle_ptt_off(c) PROVE NewsInv'
  <2>1. PICK held \in BOOLEAN : web_conns' = [web_conns EXCEPT ![c].ptt_held = held]
    BY <1>8 DEF ws_handle_ptt_on, ws_handle_ptt_off
  <2>2. PICK s \in WebConn : Becomes(c, s) /\ s.kind = web_conns[c].kind /\ s.told = web_conns[c].told
    BY <2>1, HeldIs
  <2>3. web_conns'[c] = s /\ \A d \in WebConns \ {c} : web_conns'[d] = web_conns[d]
    BY <2>2, OneConn DEF Becomes
  <2>4. VcorLine /\ opening' = opening /\ publishing["web"].at = "none"
    BY <1>8, ClosedIs DEF ws_handle_ptt_on, ws_handle_ptt_off, Serving
  <2>5. publishing'["web"].at = "line" /\ publishing'["main"] = publishing["main"] /\ UNCHANGED <<pipe, snapshot, unsure>>
    BY <2>4, LineIs DEF VcorLine, WebThreads
  <2>6. LastTold => LastTold'
    <3>1. Streams' = Streams /\ \A d \in WebConns : web_conns'[d].told = web_conns[d].told
      BY <2>2, <2>3 DEF Streams
    <3> QED BY <2>4, <2>5, <3>1, ToldKept DEF Streams
  <2> QED BY <2>4, <2>5, <2>6, NewsKept DEF WebThreads
<1>9. CASE emit_snapshot_burst
  <2>1. PICK s \in WebConn : Becomes(opening, s) /\ s.kind = web_conns[opening].kind /\ s.told = snapshot /\ opening \in WebConns
    BY <1>9, BurstIs
  <2>2. web_conns'[opening] = s /\ \A d \in WebConns \ {opening} : web_conns'[d] = web_conns[d]
    BY <2>1, OneConn DEF Becomes
  <2>3. Streams' = Streams /\ UNCHANGED pubVars
    BY <1>9, <2>1, <2>2 DEF Streams, emit_snapshot_burst
  <2>4. LastTold => LastTold'
    <3>1. ASSUME \A k \in DOMAIN pipe : ~Status(k), \A c \in Streams \ {opening} : web_conns[c].told = snapshot
          PROVE  LastTold'
      <4>1. \A c \in Streams' \ {opening'} : web_conns'[c].told = snapshot'
        BY <2>1, <2>2, <2>3, <3>1 DEF pubVars, Streams
      <4>2. \A k \in DOMAIN pipe' : ~Status(k)'
        BY <2>3, <3>1 DEF Status, pubVars
      <4> QED BY <4>1, <4>2 DEF LastTold
    <3>2. ASSUME NEW k \in DOMAIN pipe, pipe[k].n = snapshot, Status(k), \A j \in DOMAIN pipe : j > k => ~Status(j)
          PROVE  LastTold'
      <4>1. pipe' = pipe /\ snapshot' = snapshot
        BY <2>3 DEF pubVars
      <4>2. \A j : Status(j)' <=> Status(j)
        BY <4>1 DEF Status
      <4> QED BY <3>2, <4>1, <4>2 DEF LastTold
    <3> QED BY <3>1, <3>2 DEF LastTold
  <2> QED BY <2>3, <2>4, NewsKept DEF pubVars
<1>10. CASE Wakeup
  <2>1. LastTold => LastTold'
    BY <1>10, WakeupNews
  <2>2. UNCHANGED <<snapshot, publishing, unsure>>
    BY <1>10 DEF Wakeup
  <2> QED BY <2>1, <2>2, NewsKept
<1>11. CASE ws_ring_push \/ web_configure \/ web_unload
  <2>1. UNCHANGED <<connVars, pubVars>>
    BY <1>11 DEF ws_ring_push, web_configure, web_unload
  <2>2. LastTold => LastTold'
    BY <2>1, ToldKept DEF connVars, pubVars, Streams
  <2> QED BY <2>1, <2>2, NewsKept DEF pubVars
<1>12. CASE audio_ws_thread
  <2>1. Wake("A", 0) /\ UNCHANGED <<connVars, snapshot, publishing, unsure>>
    BY <1>12 DEF audio_ws_thread
  <2> QED BY <2>1, WakeKept, NewsKept
<1>13. CASE web_unloaded \/ web_load
  <2>1. \A t \in WebThreads : publishing'[t].at = "none"
    <3>1. \A t \in WebThreads : publishing[t] = Quiet
      BY <1>13 DEF web_unloaded, Serving, WebThreads, web_load, OffInv
    <3>2. publishing' = publishing
      BY <1>13 DEF web_unloaded, web_load
    <3> QED BY <3>1, <3>2, ClosedIs
  <2>2. Streams' = {} /\ pipe' = <<>>
    <3>1. CASE web_unloaded
      BY <3>1, ClosedIs DEF web_unloaded, Streams
    <3>2. CASE web_load
      BY <3>2 DEF web_load, OffInv, Streams, connVars
    <3> QED BY <1>13, <3>1, <3>2
  <2>3. LastTold'
    <3>1. DOMAIN pipe' = {}
      BY <2>2
    <3> QED BY <2>2, <3>1 DEF LastTold
  <2>4. \A t \in WebThreads : ~Telling(t)'
    BY <2>1 DEF Telling
  <2> QED BY <2>1, <2>3, <2>4, Zenon DEF NewsInv, OneTells
<1> QED BY <1>1, <1>2, <1>3, <1>4, <1>5, <1>6, <1>7, <1>8, <1>9, <1>10, <1>11, <1>12, <1>13 DEF WebNext

\* Every stream and socket counts while it is open and no longer, PTT belongs to
\* one open socket at a time, a public stream hears no private event, and when
\* nothing is on its way every stream has the last status; but for two status
\* snapshots composed at once, one overtaken in the pipe, and one that found
\* the pipe full, until the next is published (sse_publish_impl, the wakeups,
\* the connection handlers, mod_web's unload).
THEOREM ServedForEver == WebSpec => []StreamsAreServed
<1>1. WebInit => WebInv
  <2> SUFFICES ASSUME WebInit PROVE WebInv
    OBVIOUS
  <2> USE DEF WebInit
  <2>1. Streams = {} /\ Sockets = {}
    BY ClosedIs DEF Streams, Sockets
  <2>2. \A t \in WebThreads : publishing[t] = Quiet /\ publishing[t].at = "none" /\ ~Telling(t)
    BY ClosedIs DEF Telling
  <2>3. pipe \in Seq(Wakeups) /\ DOMAIN pipe = {}
    OBVIOUS
  <2>4. WebTypes
    BY <2>2, <2>3, ClosedIs DEF WebTypes
  <2>5. CountInv
    BY <2>1, FS_EmptySet DEF CountInv
  <2>6. PttInv /\ ScopeInv
    BY ClosedIs, WebAssumption DEF PttInv, ScopeInv
  <2>7. OffInv
    BY <2>2 DEF OffInv
  <2>8. NewsInv
    BY <2>1, <2>2, <2>3 DEF NewsInv, OneTells, LastTold
  <2> QED BY <2>4, <2>5, <2>6, <2>7, <2>8 DEF WebInv
<1>2. WebInv /\ [WebNext]_webVars => WebInv'
  <2>1. CASE WebNext
    BY <2>1, TypesStep, CountStep, PttStep, ScopeStep, OffStep, NewsStep DEF WebInv
  <2>2. ASSUME WebInv, UNCHANGED webVars PROVE WebInv'
    <3>1. UNCHANGED <<connVars, pubVars, server>>
      BY <2>2 DEF webVars, setVars
    <3> QED BY <2>2, <3>1 DEF WebInv, WebTypes, CountInv, PttInv, ScopeInv, OffInv, NewsInv, Streams, Sockets,
              OneTells, Telling, LastTold, Status, connVars, pubVars
  <2> QED BY <2>1, <2>2
<1>3. WebInv => StreamsAreServed
  <2> SUFFICES ASSUME WebInv PROVE StreamsAreServed
    OBVIOUS
  <2>1. ConnectionsAreCounted
    BY DEF WebInv, CountInv, PttInv, ScopeInv, ConnectionsAreCounted, Streams, Sockets
  <2>2. ASSUME ~unsure, opening = NoConn, \A t \in WebThreads : publishing[t] = Quiet,
               \A k \in DOMAIN pipe : pipe[k].n = 0,
               NEW c \in WebConns, web_conns[c].kind \in {"E", "P"}
        PROVE  web_conns[c].told = snapshot
    <3>1. \A t \in WebThreads : ~Telling(t)
      BY <2>2, ClosedIs DEF Telling
    <3>2. LastTold
      BY <2>2, <3>1 DEF WebInv, NewsInv
    <3>3. \A k \in DOMAIN pipe : ~Status(k)
      BY <2>2 DEF Status
    <3>4. c \in Streams \ {opening}
      BY <2>2, WebAssumption DEF Streams
    <3> QED BY <3>2, <3>3, <3>4 DEF LastTold
  <2>3. ListenersAreCurrent
    BY <2>2 DEF ListenersAreCurrent
  <2> QED BY <2>1, <2>3 DEF StreamsAreServed
<1> QED BY <1>1, <1>2, <1>3, PTL DEF WebSpec

(* ---------------------------- ControlSocket ---------------------------- *)
\* What a slot and a far end are.
Far == [link : {"out", "in", "gone"}, reading : BOOLEAN, torn : BOOLEAN, seen : Seq(Nat), sent : SUBSET Nat]
SockSlot == [client : SockClients \cup {NoClient}, subscribed : BOOLEAN, subscribe_level : Levels,
             in_response : BOOLEAN, json_events : BOOLEAN, evt_ring : Seq(Nat)]
SockTypes ==
    /\ g_clients \in [Slots -> SockSlot] /\ peer \in [SockClients -> Far] /\ said \in Nat
    /\ main_pc \in [at : {"poll", "rows", "flush", "ack", "off"}, slot : Slots \cup {0}, rows : Int]

\* Whom the slots belong to, and whom the main thread is answering.
Answering == main_pc.at \in {"rows", "flush"}
SlotInv ==
    /\ \A i, j \in Slots : g_clients[i].client = g_clients[j].client /\ g_clients[i].client # NoClient => i = j
    /\ \A i \in Slots : g_clients[i].client # NoClient => peer[g_clients[i].client].link # "out"
    /\ \A c \in SockClients : (\A i \in Slots : g_clients[i].client # c) => peer[c] = Out
    /\ main_pc.at \in {"rows", "flush", "ack"} => main_pc.slot \in Slots /\ g_clients[main_pc.slot].client # NoClient
    /\ \A i \in Slots : g_clients[i].in_response <=> Answering /\ main_pc.slot = i
    /\ \A i \in Slots : ~g_clients[i].in_response => g_clients[i].evt_ring = <<>>
    /\ \A i \in Slots : g_clients[i].client # NoClient /\ peer[g_clients[i].client].reading
                           => main_pc.at = "rows" /\ main_pc.slot = i

\* What a far end has read and what waits for it, of the lines 1..n.
Missed(p, m) == Cardinality({k \in p.sent : k > m}) >= EVT_RING_SIZE - 1
Whole(ring, p, n) ==
    /\ ~p.torn /\ p.sent \subseteq 1..n /\ Len(ring) <= EVT_RING_SIZE - 1
    /\ \A j \in DOMAIN p.seen : p.seen[j] \in p.sent
    /\ \A j \in DOMAIN ring : ring[j] \in p.sent
    /\ \A j, k \in DOMAIN p.seen : j < k => p.seen[j] < p.seen[k]
    /\ \A j, k \in DOMAIN ring : j < k => ring[j] < ring[k]
    /\ \A j \in DOMAIN p.seen, k \in DOMAIN ring : p.seen[j] < ring[k]
    /\ \A m \in p.sent : \/ \E j \in DOMAIN p.seen : p.seen[j] = m
                         \/ \E j \in DOMAIN ring : ring[j] = m
                         \/ Missed(p, m)
LineInv == \A i \in Slots : g_clients[i].client # NoClient =>
    Whole(g_clients[i].evt_ring, peer[g_clients[i].client], said)
SockInv == SockTypes /\ SlotInv /\ LineInv

\* Young sets are finite, and grow.
LEMMA YoungGrow ==
  ASSUME NEW n \in Nat, NEW S \in SUBSET (1..n), NEW T \in SUBSET (1..n), S \subseteq T, NEW m
  PROVE  /\ IsFiniteSet({k \in T : k > m}) /\ Cardinality({k \in T : k > m}) \in Nat
         /\ Cardinality({k \in S : k > m}) <= Cardinality({k \in T : k > m})
         /\ Cardinality({k \in S : k > m}) \in Nat
<1> DEFINE A == {k \in S : k > m}
           B == {k \in T : k > m}
<1>1. IsFiniteSet(1..n)
  BY FS_Interval
<1>2. B \subseteq 1..n /\ A \subseteq B
  OBVIOUS
<1> HIDE DEF A, B
<1>3. IsFiniteSet(B)
  BY <1>1, <1>2, FS_Subset
<1>4. IsFiniteSet(A) /\ Cardinality(A) <= Cardinality(B)
  BY <1>2, <1>3, FS_Subset
<1>5. Cardinality(A) \in Nat /\ Cardinality(B) \in Nat
  BY <1>3, <1>4, FS_CardinalityType
<1> QED BY <1>3, <1>4, <1>5 DEF A, B

\* A full ring of younger lines.
LEMMA RingOfYoung ==
  ASSUME NEW r \in Nat, NEW ring \in [1..r -> Nat], NEW T, IsFiniteSet(T), NEW m,
         \A j \in 1..r : ring[j] \in T /\ ring[j] > m,
         \A j, k \in 1..r : j < k => ring[j] < ring[k]
  PROVE  Cardinality({k \in T : k > m}) >= r
<1> DEFINE B == {k \in T : k > m}
<1>1. IsFiniteSet(B)
  <2>1. B \subseteq T
    OBVIOUS
  <2> QED BY <2>1, FS_Subset
<1>2. ring \in Injection(1..r, B)
  <2>1. ring \in [1..r -> B]
    OBVIOUS
  <2>2. \A j, k \in 1..r : ring[j] = ring[k] => j = k
    <3>1. SUFFICES ASSUME NEW j \in 1..r, NEW k \in 1..r, ring[j] = ring[k], j # k PROVE FALSE
      OBVIOUS
    <3>2. j < k \/ k < j
      BY <3>1
    <3>3. ring[j] \in Nat /\ ring[k] \in Nat
      OBVIOUS
    <3> QED BY <3>1, <3>2, <3>3
  <2> HIDE DEF B
  <2> QED BY <2>1, <2>2 DEF Injection, IsInjective
<1>3. Cardinality(1..r) <= Cardinality(B)
  BY <1>1, <1>2, FS_Injection
<1>4. Cardinality(1..r) = r
  BY FS_Interval
<1>5. Cardinality(B) \in Nat
  BY <1>1, FS_CardinalityType
<1> QED BY <1>3, <1>4, <1>5

LEMMA MissedGrows ==
  ASSUME NEW n \in Nat, NEW p \in Far, NEW q \in Far, p.sent \subseteq q.sent, q.sent \subseteq 1..n, NEW m, Missed(p, m)
  PROVE  Missed(q, m)
<1>1. Cardinality({k \in p.sent : k > m}) <= Cardinality({k \in q.sent : k > m})
      /\ Cardinality({k \in p.sent : k > m}) \in Nat /\ Cardinality({k \in q.sent : k > m}) \in Nat
  BY YoungGrow
<1> QED BY <1>1, SockAssumption DEF Missed

LEMMA CatIs ==
  ASSUME NEW s \in Seq(Nat), NEW t \in Seq(Nat)
  PROVE  /\ s \o t \in Seq(Nat) /\ Len(s) \in Nat /\ Len(t) \in Nat
         /\ DOMAIN s = 1..Len(s) /\ DOMAIN t = 1..Len(t) /\ DOMAIN (s \o t) = 1..(Len(s) + Len(t))
         /\ \A j \in DOMAIN s : (s \o t)[j] = s[j]
         /\ \A j \in DOMAIN t : (s \o t)[Len(s) + j] = t[j]
OBVIOUS

LEMMA NoLines == <<>> \in Seq(Nat) /\ Len(<<>>) = 0 /\ DOMAIN <<>> = {}
OBVIOUS

LEMMA ReadsEventsIs ==
  ASSUME NEW p \in Far, NEW lines \in Seq(Nat)
  PROVE  \E q \in Far : /\ q = ReadsEvents(p, lines) /\ q.link = p.link /\ q.reading = p.reading
                        /\ q.sent = p.sent /\ q.seen = p.seen \o lines /\ (~p.reading => q.torn = p.torn)
<1>1. PICK seen \in Seq(Nat), torn \in BOOLEAN :
        seen = p.seen \o lines /\ torn = (p.torn \/ (p.reading /\ lines # <<>>))
  BY CatIs DEF Far
<1>2. [p EXCEPT !.seen = seen, !.torn = torn] \in Far
  BY DEF Far
<1>3. PICK q \in Far : /\ q = [p EXCEPT !.seen = seen, !.torn = torn] /\ q.link = p.link /\ q.reading = p.reading
                       /\ q.sent = p.sent /\ q.seen = seen /\ q.torn = torn
  BY <1>2 DEF Far
<1>4. q = ReadsEvents(p, lines)
  BY <1>1, <1>3 DEF ReadsEvents
<1>5. ~p.reading => torn = p.torn
  BY <1>1 DEF Far
<1> QED BY <1>1, <1>3, <1>4, <1>5

LEMMA HearsIs ==
  ASSUME NEW p \in Far, NEW line \in Nat, NEW deferred \in BOOLEAN
  PROVE  \E q \in Far : /\ q = Hears(p, line, deferred) /\ q.link = p.link /\ q.reading = p.reading
                        /\ q.sent = p.sent \cup {line}
                        /\ q.seen = IF deferred THEN p.seen ELSE p.seen \o <<line>>
                        /\ (deferred \/ ~p.reading => q.torn = p.torn)
<1>1. PICK z \in Far : /\ z = [p EXCEPT !.sent = @ \cup {line}] /\ z.link = p.link /\ z.reading = p.reading
                       /\ z.sent = p.sent \cup {line} /\ z.seen = p.seen /\ z.torn = p.torn
  <2>1. [p EXCEPT !.sent = @ \cup {line}] \in Far
    BY DEF Far
  <2> QED BY <2>1 DEF Far
<1>2. CASE deferred
  BY <1>1, <1>2 DEF Hears
<1>3. CASE ~deferred
  <2>1. Hears(p, line, deferred) = ReadsEvents(z, <<line>>)
    BY <1>1, <1>3 DEF Hears
  <2>2. <<line>> \in Seq(Nat)
    OBVIOUS
  <2>3. PICK q \in Far : /\ q = ReadsEvents(z, <<line>>) /\ q.link = z.link /\ q.reading = z.reading
                         /\ q.sent = z.sent /\ q.seen = z.seen \o <<line>> /\ (~z.reading => q.torn = z.torn)
    BY <2>2, ReadsEventsIs
  <2> QED BY <1>1, <1>3, <2>1, <2>3
<1> QED BY <1>2, <1>3

LEMMA WholeLater ==
  ASSUME NEW ring \in Seq(Nat), NEW p \in Far, NEW n \in Nat, Whole(ring, p, n)
  PROVE  Whole(ring, p, n + 1)
BY DEF Whole

\* The far end reads a line as it is said.
LEMMA WholeNow ==
  ASSUME NEW p \in Far, NEW n \in Nat, Whole(<<>>, p, n), NEW q \in Far, ~q.torn,
         q.sent = p.sent \cup {n + 1}, q.seen = p.seen \o <<n + 1>>
  PROVE  Whole(<<>>, q, n + 1)
<1>0. p.seen \in Seq(Nat) /\ <<n + 1>> \in Seq(Nat) /\ Len(<<n + 1>>) = 1 /\ <<n + 1>>[1] = n + 1 /\ DOMAIN <<n + 1>> = 1..1
  BY DEF Far
<1>1. /\ Len(p.seen) \in Nat /\ DOMAIN p.seen = 1..Len(p.seen) /\ DOMAIN q.seen = 1..(Len(p.seen) + 1)
      /\ \A j \in DOMAIN p.seen : q.seen[j] = p.seen[j]
      /\ q.seen[Len(p.seen) + 1] = n + 1
  BY <1>0, CatIs
<1>2. /\ p.sent \subseteq 1..n
      /\ \A j \in DOMAIN p.seen : p.seen[j] \in p.sent
      /\ \A j, k \in DOMAIN p.seen : j < k => p.seen[j] < p.seen[k]
      /\ \A m \in p.sent : (\E j \in DOMAIN p.seen : p.seen[j] = m) \/ Missed(p, m)
  BY NoLines DEF Whole
<1>3. q.sent \subseteq 1..(n + 1) /\ p.sent \subseteq q.sent
  BY <1>2
<1>4. \A j \in DOMAIN q.seen : q.seen[j] \in q.sent
  BY <1>1, <1>2
<1>5. ASSUME NEW j \in DOMAIN q.seen, NEW k \in DOMAIN q.seen, j < k PROVE q.seen[j] < q.seen[k]
  <2>1. j \in DOMAIN p.seen /\ q.seen[j] \in p.sent
    BY <1>1, <1>2, <1>5
  <2>2. CASE k \in DOMAIN p.seen
    BY <1>1, <1>2, <1>5, <2>1, <2>2
  <2>3. CASE k = Len(p.seen) + 1
    BY <1>1, <1>2, <2>1, <2>3
  <2> QED BY <1>1, <2>2, <2>3
<1>6. ASSUME NEW m \in q.sent PROVE (\E j \in DOMAIN q.seen : q.seen[j] = m) \/ Missed(q, m)
  <2>1. CASE m = n + 1
    <3>1. Len(p.seen) + 1 \in DOMAIN q.seen
      BY <1>1
    <3> QED BY <1>1, <2>1, <3>1
  <2>2. CASE m \in p.sent /\ Missed(p, m)
    BY <1>3, <2>2, MissedGrows
  <2>3. CASE \E j \in DOMAIN p.seen : p.seen[j] = m
    <3>1. PICK j \in DOMAIN p.seen : p.seen[j] = m
      BY <2>3
    <3>2. j \in DOMAIN q.seen /\ q.seen[j] = m
      BY <1>1, <3>1
    <3> QED BY <3>2
  <2> QED BY <1>2, <2>1, <2>2, <2>3
<1>7. Len(<<>>) <= EVT_RING_SIZE - 1 /\ DOMAIN <<>> = {}
  BY NoLines, SockAssumption
<1> QED BY <1>3, <1>4, <1>5, <1>6, <1>7 DEF Whole

\* A line waits in the ring; the oldest may make room.
LEMMA WholeDeferred ==
  ASSUME NEW ring \in Seq(Nat), NEW p \in Far, NEW n \in Nat, Whole(ring, p, n), NEW q \in Far, q.torn = p.torn,
         q.sent = p.sent \cup {n + 1}, q.seen = p.seen
  PROVE  Deferred(ring, n + 1) \in Seq(Nat) /\ Whole(Deferred(ring, n + 1), q, n + 1)
<1> DEFINE new == Deferred(ring, n + 1)
           L == Len(ring)
<1>1. /\ L \in Nat /\ DOMAIN ring = 1..L /\ L <= EVT_RING_SIZE - 1 /\ p.sent \subseteq 1..n
      /\ \A j \in 1..L : ring[j] \in p.sent /\ ring[j] \in Nat
      /\ \A j, k \in 1..L : j < k => ring[j] < ring[k]
      /\ \A j \in DOMAIN p.seen, k \in 1..L : p.seen[j] < ring[k]
      /\ \A j \in DOMAIN p.seen : p.seen[j] \in p.sent
      /\ \A m \in p.sent : \/ \E j \in DOMAIN p.seen : p.seen[j] = m
                           \/ \E j \in 1..L : ring[j] = m
                           \/ Missed(p, m)
  BY DEF Whole
<1>2. q.sent \subseteq 1..(n + 1) /\ p.sent \subseteq q.sent /\ n + 1 \in q.sent
  BY <1>1
<1>3. CASE L # EVT_RING_SIZE - 1
  <2>1. /\ new \in Seq(Nat) /\ Len(new) = L + 1 /\ DOMAIN new = 1..(L + 1)
        /\ \A j \in 1..L : new[j] = ring[j]
        /\ new[L + 1] = n + 1
    <3>1. new = Append(ring, n + 1)
      BY <1>3 DEF Deferred
    <3> HIDE DEF new
    <3> QED BY <1>1, <3>1
  <2> HIDE DEF new, L
  <2>2. \A j \in 1..(L + 1) : new[j] \in q.sent
    BY <1>1, <1>2, <2>1
  <2>3. ASSUME NEW j \in 1..(L + 1), NEW k \in 1..(L + 1), j < k PROVE new[j] < new[k]
    <3>1. j \in 1..L /\ new[j] = ring[j] /\ ring[j] \in 1..n
      BY <1>1, <2>1, <2>3
    <3>2. CASE k \in 1..L
      BY <1>1, <2>1, <2>3, <3>1, <3>2
    <3>3. CASE k = L + 1
      BY <2>1, <3>1, <3>3
    <3> QED BY <1>1, <3>2, <3>3
  <2>4. ASSUME NEW j \in DOMAIN q.seen, NEW k \in 1..(L + 1) PROVE q.seen[j] < new[k]
    <3>1. CASE k \in 1..L
      BY <1>1, <2>1, <3>1
    <3>2. CASE k = L + 1
      <4>1. q.seen[j] \in 1..n
        BY <1>1
      <4> QED BY <2>1, <3>2, <4>1
    <3> QED BY <1>1, <3>1, <3>2
  <2>5. ASSUME NEW m \in q.sent
        PROVE  (\E j \in DOMAIN q.seen : q.seen[j] = m) \/ (\E j \in DOMAIN new : new[j] = m) \/ Missed(q, m)
    <3>1. CASE m = n + 1
      <4>1. L + 1 \in DOMAIN new /\ new[L + 1] = m
        BY <1>1, <2>1, <3>1
      <4> QED BY <4>1
    <3>2. CASE Missed(p, m)
      BY <1>2, <3>2, MissedGrows
    <3>3. CASE \E j \in 1..L : ring[j] = m
      <4>1. PICK j \in 1..L : ring[j] = m
        BY <3>3
      <4>2. j \in DOMAIN new /\ new[j] = m
        BY <1>1, <2>1, <4>1
      <4> QED BY <4>2
    <3> QED BY <1>1, <3>1, <3>2, <3>3
  <2>6. Len(new) <= EVT_RING_SIZE - 1
    BY <1>1, <1>3, <2>1, SockAssumption
  <2>7. ~q.torn /\ \A j \in DOMAIN q.seen : q.seen[j] \in q.sent
    BY <1>1, <1>2 DEF Whole
  <2>8. \A j, k \in DOMAIN q.seen : j < k => q.seen[j] < q.seen[k]
    BY DEF Whole
  <2>9. Whole(new, q, n + 1)
    BY <1>2, <2>1, <2>2, <2>3, <2>4, <2>5, <2>6, <2>7, <2>8 DEF Whole
  <2> QED BY <2>1, <2>9 DEF new
<1>4. CASE L = EVT_RING_SIZE - 1
  <2>0. L > 0
    BY <1>4, SockAssumption
  <2>1. /\ new \in Seq(Nat) /\ Len(new) = L /\ DOMAIN new = 1..L
        /\ \A j \in 1..(L - 1) : new[j] = ring[j + 1]
        /\ new[L] = n + 1
    <3>1. new = Append(Tail(ring), n + 1)
      BY <1>4 DEF Deferred
    <3>2. PICK t \in Seq(Nat) : t = Tail(ring) /\ Len(t) = L - 1 /\ \A j \in 1..(L - 1) : t[j] = ring[j + 1]
      <4>1. Tail(ring) \in Seq(Nat) /\ Len(Tail(ring)) = L - 1 /\ \A j \in 1..(L - 1) : Tail(ring)[j] = ring[j + 1]
        BY <1>1, <2>0
      <4> QED BY <4>1
    <3> HIDE DEF new, L
    <3> QED BY <1>1, <2>0, <3>1, <3>2
  <2> HIDE DEF new, L
  <2>2. \A j \in 1..L : new[j] \in q.sent
    <3>1. ASSUME NEW j \in 1..L PROVE new[j] \in q.sent
      <4>1. CASE j = L
        BY <1>2, <2>1, <4>1
      <4>2. CASE j # L
        BY <1>1, <1>2, <2>1, <4>2
      <4> QED BY <4>1, <4>2
    <3> QED BY <3>1
  <2>3. ASSUME NEW j \in 1..L, NEW k \in 1..L, j < k PROVE new[j] < new[k]
    <3>1. j \in 1..(L - 1) /\ j + 1 \in 1..L /\ new[j] = ring[j + 1] /\ ring[j + 1] \in 1..n
      BY <1>1, <2>1, <2>3
    <3>2. CASE k # L
      <4>1. k + 1 \in 1..L /\ new[k] = ring[k + 1]
        <5>1. k \in 1..(L - 1) /\ k + 1 \in 1..L
          BY <1>1, <3>2
        <5> QED BY <2>1, <5>1
      <4> QED BY <1>1, <2>3, <3>1, <4>1
    <3>3. CASE k = L
      BY <2>1, <3>1, <3>3
    <3> QED BY <3>2, <3>3
  <2>4. ASSUME NEW j \in DOMAIN q.seen, NEW k \in 1..L PROVE q.seen[j] < new[k]
    <3>1. CASE k # L
      <4>1. k + 1 \in 1..L /\ new[k] = ring[k + 1]
        BY <1>1, <2>1, <3>1
      <4> QED BY <1>1, <4>1
    <3>2. CASE k = L
      <4>1. q.seen[j] \in 1..n
        BY <1>1
      <4> QED BY <2>1, <3>2, <4>1
    <3> QED BY <3>1, <3>2
  <2>5. Missed(q, ring[1])
    <3>1. IsFiniteSet(q.sent)
      <4>1. n + 1 \in Int /\ IsFiniteSet(1..(n + 1))
        BY FS_Interval
      <4> QED BY <1>2, <4>1, FS_Subset
    <3>2. new \in [1..L -> Nat] /\ ring[1] \in Nat
      BY <1>1, <2>0, <2>1
    <3>3. ASSUME NEW j \in 1..L PROVE new[j] > ring[1]
      <4>1. CASE j = L
        <5>1. ring[1] \in 1..n
          BY <1>1, <2>0
        <5> QED BY <2>1, <4>1, <5>1
      <4>2. CASE j # L
        <5>1. new[j] = ring[j + 1] /\ j + 1 \in 1..L /\ 1 \in 1..L /\ 1 < j + 1
          <6>1. j \in 1..(L - 1) /\ j + 1 \in 1..L /\ 1 \in 1..L /\ 1 < j + 1
            BY <1>1, <2>0, <4>2
          <6> QED BY <2>1, <6>1
        <5>2. ring[1] < ring[j + 1] /\ ring[1] \in Nat /\ ring[j + 1] \in Nat
          BY <1>1, <5>1
        <5> QED BY <5>1, <5>2
      <4> QED BY <4>1, <4>2
    <3>4. Cardinality({k \in q.sent : k > ring[1]}) >= L
      BY <1>1, <2>2, <2>3, <3>1, <3>2, <3>3, RingOfYoung
    <3> QED BY <1>4, <3>4 DEF Missed
  <2>6. ASSUME NEW m \in q.sent
        PROVE  (\E j \in DOMAIN q.seen : q.seen[j] = m) \/ (\E j \in DOMAIN new : new[j] = m) \/ Missed(q, m)
    <3>1. CASE m = n + 1
      <4>1. L \in DOMAIN new /\ new[L] = m
        BY <1>1, <2>0, <2>1, <3>1
      <4> QED BY <4>1
    <3>2. CASE Missed(p, m)
      BY <1>2, <3>2, MissedGrows
    <3>3. CASE \E j \in 1..L : ring[j] = m
      <4>1. PICK j \in 1..L : ring[j] = m
        BY <3>3
      <4>2. CASE j = 1
        BY <2>5, <4>1, <4>2
      <4>3. CASE j # 1
        <5>1. j - 1 \in 1..(L - 1) /\ (j - 1) + 1 = j /\ j - 1 \in DOMAIN new
          BY <1>1, <2>1, <4>3
        <5>2. new[j - 1] = m
          BY <2>1, <4>1, <5>1
        <5> QED BY <5>1, <5>2
      <4> QED BY <4>2, <4>3
    <3> QED BY <1>1, <3>1, <3>2, <3>3
  <2>7. Len(new) <= EVT_RING_SIZE - 1
    BY <1>1, <2>1
  <2>8. ~q.torn /\ \A j \in DOMAIN q.seen : q.seen[j] \in q.sent
    BY <1>1, <1>2 DEF Whole
  <2>9. \A j, k \in DOMAIN q.seen : j < k => q.seen[j] < q.seen[k]
    BY DEF Whole
  <2>10. Whole(new, q, n + 1)
    BY <1>2, <2>1, <2>2, <2>3, <2>4, <2>6, <2>7, <2>8, <2>9 DEF Whole
  <2> QED BY <2>1, <2>10 DEF new
<1> QED BY <1>3, <1>4

\* The end of a response: the far end reads the ring.
LEMMA WholeFlushed ==
  ASSUME NEW ring \in Seq(Nat), NEW p \in Far, NEW n \in Nat, Whole(ring, p, n), NEW q \in Far, q.torn = p.torn,
         q.sent = p.sent, q.seen = p.seen \o ring
  PROVE  Whole(<<>>, q, n)
<1>0. p.seen \in Seq(Nat)
  BY DEF Far
<1> DEFINE A == Len(p.seen)
           B == Len(ring)
<1>1. /\ A \in Nat /\ B \in Nat /\ DOMAIN p.seen = 1..A /\ DOMAIN ring = 1..B /\ DOMAIN q.seen = 1..(A + B)
      /\ \A j \in 1..A : q.seen[j] = p.seen[j]
      /\ \A j \in 1..B : q.seen[A + j] = ring[j]
  BY <1>0, CatIs
<1> HIDE DEF A, B
<1>2. \A j \in 1..(A + B) : j \in 1..A \/ \E k \in 1..B : j = A + k
  <2>1. ASSUME NEW j \in 1..(A + B), j \notin 1..A PROVE j - A \in 1..B /\ j = A + (j - A)
    BY <1>1, <2>1
  <2> QED BY <2>1
<1>3. ASSUME NEW j \in 1..(A + B) PROVE q.seen[j] \in q.sent
  <2>1. CASE j \in 1..A
    BY <1>1, <2>1 DEF Whole
  <2>2. CASE j \notin 1..A
    <3>1. PICK v \in 1..B : j = A + v
      BY <1>2, <2>2
    <3>2. q.seen[j] = ring[v] /\ v \in DOMAIN ring
      BY <1>1, <3>1
    <3> QED BY <3>2 DEF Whole
  <2> QED BY <2>1, <2>2
<1>4. ASSUME NEW j \in 1..(A + B), NEW k \in 1..(A + B), j < k PROVE q.seen[j] < q.seen[k]
  <2>1. CASE j \in 1..A /\ k \in 1..A
    BY <1>1, <1>4, <2>1 DEF Whole
  <2>2. CASE j \in 1..A /\ k \notin 1..A
    <3>1. PICK v \in 1..B : k = A + v
      BY <1>2, <2>2
    <3>2. q.seen[k] = ring[v] /\ q.seen[j] = p.seen[j] /\ j \in DOMAIN p.seen /\ v \in DOMAIN ring
      BY <1>1, <2>2, <3>1
    <3> QED BY <3>2 DEF Whole
  <2>3. CASE j \notin 1..A
    <3>1. PICK u \in 1..B : j = A + u
      BY <1>2, <2>3
    <3>2. PICK v \in 1..B : k = A + v
      BY <1>1, <1>2, <1>4, <2>3
    <3>3. u < v
      BY <1>1, <1>4, <3>1, <3>2
    <3> QED BY <1>1, <3>1, <3>2, <3>3 DEF Whole
  <2> QED BY <2>1, <2>2, <2>3
<1>5. ASSUME NEW m \in q.sent PROVE (\E j \in DOMAIN q.seen : q.seen[j] = m) \/ Missed(q, m)
  <2>1. CASE \E j \in DOMAIN p.seen : p.seen[j] = m
    <3>1. PICK j \in 1..A : p.seen[j] = m
      BY <1>1, <2>1
    <3>2. j \in DOMAIN q.seen /\ q.seen[j] = m
      BY <1>1, <3>1
    <3> QED BY <3>2
  <2>2. CASE \E j \in DOMAIN ring : ring[j] = m
    <3>1. PICK j \in 1..B : ring[j] = m
      BY <1>1, <2>2
    <3>2. A + j \in DOMAIN q.seen /\ q.seen[A + j] = m
      <4>1. A + j \in DOMAIN q.seen
        BY <1>1, <3>1
      <4> QED BY <1>1, <3>1, <4>1
    <3> QED BY <3>2
  <2>3. CASE Missed(p, m)
    BY <2>3 DEF Missed
  <2> QED BY <2>1, <2>2, <2>3 DEF Whole
<1>6. Len(<<>>) <= EVT_RING_SIZE - 1 /\ DOMAIN <<>> = {}
  BY NoLines, SockAssumption
<1> QED BY <1>1, <1>3, <1>4, <1>5, <1>6 DEF Whole

LEMMA WholeSame ==
  ASSUME NEW ring, NEW p, NEW n, Whole(ring, p, n), NEW q, q.torn = p.torn, q.sent = p.sent, q.seen = p.seen
  PROVE  Whole(ring, q, n)
BY DEF Whole, Missed

LEMMA WholeFresh ==
  ASSUME NEW p, NEW n, ~p.torn, p.sent = {}, p.seen = <<>>
  PROVE  Whole(<<>>, p, n)
BY NoLines, SockAssumption DEF Whole

LEMMA OutIs == /\ Out \in Far /\ Out.link = "out" /\ ~Out.reading /\ ~Out.torn /\ Out.seen = <<>> /\ Out.sent = {}
               /\ init_slot \in SockSlot /\ init_slot.client = NoClient /\ ~init_slot.in_response /\ init_slot.evt_ring = <<>>
BY DEF Out, Far, init_slot, SockSlot, Levels

LEMMA SlotOne ==
  ASSUME SockTypes, NEW i \in Slots, NEW s \in SockSlot, g_clients' = [g_clients EXCEPT ![i] = s]
  PROVE  g_clients' \in [Slots -> SockSlot] /\ g_clients'[i] = s /\ \A j \in Slots \ {i} : g_clients'[j] = g_clients[j]
BY DEF SockTypes

LEMMA PeerOne ==
  ASSUME SockTypes, NEW c \in SockClients, NEW p \in Far, peer' = [peer EXCEPT ![c] = p]
  PROVE  peer' \in [SockClients -> Far] /\ peer'[c] = p /\ \A d \in SockClients \ {c} : peer'[d] = peer[d]
BY DEF SockTypes

LEMMA ReadingIs ==
  ASSUME NEW p \in Far, NEW b \in BOOLEAN
  PROVE  \E q \in Far : /\ q = [p EXCEPT !.reading = b] /\ q.reading = b /\ q.link = p.link
                        /\ q.torn = p.torn /\ q.sent = p.sent /\ q.seen = p.seen
<1>1. [p EXCEPT !.reading = b] \in Far
  BY DEF Far
<1> QED BY <1>1 DEF Far

LEMMA LinkIs ==
  ASSUME NEW p \in Far, NEW l \in {"in", "gone"}
  PROVE  \E q \in Far : /\ q = [p EXCEPT !.link = l] /\ q.reading = p.reading /\ q.link = l
                        /\ q.torn = p.torn /\ q.sent = p.sent /\ q.seen = p.seen
<1>1. [p EXCEPT !.link = l] \in Far
  BY DEF Far
<1> QED BY <1>1 DEF Far

\* The client in slot k reads, nothing else changes but what the main thread does.
LEMMA OneReads ==
  ASSUME SockInv, NEW k \in Slots, NEW p \in Far, g_clients[k].client # NoClient,
         peer' = [peer EXCEPT ![g_clients[k].client] = p],
         p.link = peer[g_clients[k].client].link
  PROVE  /\ g_clients[k].client \in SockClients /\ peer[g_clients[k].client] \in Far
         /\ peer' \in [SockClients -> Far] /\ peer'[g_clients[k].client] = p
         /\ \A i \in Slots \ {k} : g_clients[i].client # NoClient =>
               g_clients[i].client \in SockClients /\ peer'[g_clients[i].client] = peer[g_clients[i].client]
         /\ \A i \in Slots : g_clients[i].client # NoClient => peer'[g_clients[i].client].link # "out"
         /\ \A c \in SockClients : (\A i \in Slots : g_clients[i].client # c) => peer'[c] = Out
<1>1. \A i \in Slots : g_clients[i].client \in SockClients \cup {NoClient}
  BY DEF SockInv, SockTypes, SockSlot
<1>2. g_clients[k].client \in SockClients
  BY <1>1
<1>3. /\ peer' \in [SockClients -> Far] /\ peer'[g_clients[k].client] = p
      /\ \A d \in SockClients \ {g_clients[k].client} : peer'[d] = peer[d]
  BY <1>2, PeerOne DEF SockInv
<1>4. \A i \in Slots \ {k} : g_clients[i].client # NoClient => g_clients[i].client # g_clients[k].client
  BY DEF SockInv, SlotInv
<1>5. \A i \in Slots \ {k} : g_clients[i].client # NoClient =>
         g_clients[i].client \in SockClients /\ peer'[g_clients[i].client] = peer[g_clients[i].client]
  BY <1>1, <1>3, <1>4
<1>6. peer[g_clients[k].client] \in Far
  BY <1>2 DEF SockInv, SockTypes
<1>7. \A i \in Slots : g_clients[i].client # NoClient => peer'[g_clients[i].client].link # "out"
  BY <1>3, <1>5 DEF SockInv, SlotInv
<1>8. \A c \in SockClients : (\A i \in Slots : g_clients[i].client # c) => peer'[c] = Out
  BY <1>3 DEF SockInv, SlotInv
<1> QED BY <1>2, <1>3, <1>5, <1>6, <1>7, <1>8

LEMMA RowStep == ASSUME SockInv, Row \/ EndMark \/ Ack PROVE SockInv'
<1> DEFINE k == main_pc.slot
           c == g_clients[k].client
<1>1. k \in Slots /\ c # NoClient /\ main_pc.at \in {"rows", "ack"} /\ UNCHANGED <<g_clients, said, sock_inputs>>
  BY DEF SockInv, SlotInv, Row, EndMark, Ack
<1>2. PICK b \in BOOLEAN : peer' = [peer EXCEPT ![c] = [peer[c] EXCEPT !.reading = b]] /\ (b => Row)
  BY DEF Row, EndMark, Ack, ReadsRow, ReadsEnd
<1>3. c \in SockClients /\ peer[c] \in Far
  BY <1>1 DEF SockInv, SockTypes, SockSlot
<1>4. PICK p \in Far : /\ p = [peer[c] EXCEPT !.reading = b] /\ p.reading = b /\ p.link = peer[c].link
                       /\ p.torn = peer[c].torn /\ p.sent = peer[c].sent /\ p.seen = peer[c].seen
  BY <1>3, ReadingIs
<1>5. /\ peer' \in [SockClients -> Far] /\ peer'[c] = p
      /\ \A i \in Slots \ {k} : g_clients[i].client # NoClient =>
            g_clients[i].client \in SockClients /\ peer'[g_clients[i].client] = peer[g_clients[i].client]
      /\ \A i \in Slots : g_clients[i].client # NoClient => peer'[g_clients[i].client].link # "out"
      /\ \A d \in SockClients : (\A i \in Slots : g_clients[i].client # d) => peer'[d] = Out
  BY <1>1, <1>2, <1>4, OneReads
<1>6. /\ main_pc' \in [at : {"poll", "rows", "flush", "ack", "off"}, slot : Slots \cup {0}, rows : Int]
      /\ main_pc'.at \in {"rows", "flush"} => main_pc'.slot = k /\ main_pc.at = "rows"
      /\ main_pc.at = "rows" => main_pc'.at \in {"rows", "flush"} /\ main_pc'.slot = k
      /\ Row => main_pc'.at = "rows" /\ main_pc.at = "rows"
      /\ main_pc'.at # "ack" /\ (main_pc'.at = "flush" => EndMark)
  <2>1. CASE Row
    BY <2>1 DEF Row, SockInv, SockTypes
  <2>2. CASE EndMark
    BY <2>2 DEF EndMark, SockInv, SockTypes, Row
  <2>3. CASE Ack
    BY <2>3 DEF Ack, SockInv, SockTypes, Polling, Row
  <2> QED BY <2>1, <2>2, <2>3
<1>7. SockTypes'
  BY <1>1, <1>5, <1>6 DEF SockInv, SockTypes
<1> HIDE DEF k, c
<1>8. \A i \in Slots : g_clients[i].client # NoClient /\ peer'[g_clients[i].client].reading
                           => main_pc'.at = "rows" /\ main_pc'.slot = i
  <2>1. SUFFICES ASSUME NEW i \in Slots, g_clients[i].client # NoClient, peer'[g_clients[i].client].reading
                 PROVE  main_pc'.at = "rows" /\ main_pc'.slot = i
    OBVIOUS
  <2>2. CASE i = k
    BY <1>1, <1>2, <1>4, <1>5, <1>6, <2>1, <2>2 DEF c
  <2>3. CASE i # k
    BY <1>5, <2>1, <2>3 DEF SockInv, SlotInv, k
  <2> QED BY <2>2, <2>3
<1>9. SlotInv'
  <2>1. \A i \in Slots : g_clients'[i].in_response <=> (Answering /\ main_pc.slot = i)'
    BY <1>1, <1>6 DEF SockInv, SlotInv, Answering, k
  <2> QED BY <1>1, <1>5, <1>6, <1>8, <2>1 DEF SockInv, SlotInv, k, c
<1>10. LineInv'
  <2>1. SUFFICES ASSUME NEW i \in Slots, g_clients[i].client # NoClient
                 PROVE  Whole(g_clients[i].evt_ring, peer'[g_clients[i].client], said)
    BY <1>1 DEF LineInv
  <2>2. Whole(g_clients[i].evt_ring, peer[g_clients[i].client], said)
    BY <2>1 DEF SockInv, LineInv
  <2>3. CASE i = k
    BY <1>4, <1>5, <2>2, <2>3, WholeSame DEF c
  <2>4. CASE i # k
    BY <1>5, <2>1, <2>2, <2>4
  <2> QED BY <2>3, <2>4
<1> QED BY <1>7, <1>9, <1>10 DEF SockInv

LEMMA PollingIs == Polling.at = "poll"
                   /\ Polling \in [at : {"poll", "rows", "flush", "ack", "off"}, slot : Slots \cup {0}, rows : Int]
BY DEF Polling

LEMMA FlushStep == ASSUME SockInv, end_response PROVE SockInv'
<1> DEFINE k == main_pc.slot
           c == g_clients[k].client
<1>1. k \in Slots /\ c # NoClient /\ main_pc.at = "flush" /\ UNCHANGED <<said, sock_inputs>> /\ main_pc' = Polling
  BY DEF SockInv, SlotInv, end_response
<1>2. c \in SockClients /\ peer[c] \in Far /\ g_clients[k] \in SockSlot /\ g_clients[k].evt_ring \in Seq(Nat)
  BY <1>1 DEF SockInv, SockTypes, SockSlot
<1>3. ~peer[c].reading
  BY <1>1 DEF SockInv, SlotInv
<1>4. PICK p \in Far : /\ p = ReadsEvents(peer[c], g_clients[k].evt_ring) /\ p.link = peer[c].link /\ ~p.reading
                       /\ p.sent = peer[c].sent /\ p.seen = peer[c].seen \o g_clients[k].evt_ring
                       /\ p.torn = peer[c].torn
  <2>1. PICK z \in Far, ring \in Seq(Nat) : z = peer[c] /\ ring = g_clients[k].evt_ring /\ ~z.reading
    BY <1>2, <1>3
  <2>2. PICK p \in Far : /\ p = ReadsEvents(z, ring) /\ p.link = z.link /\ p.reading = z.reading
                         /\ p.sent = z.sent /\ p.seen = z.seen \o ring /\ (~z.reading => p.torn = z.torn)
    BY ReadsEventsIs
  <2> HIDE DEF c, k
  <2> QED BY <2>1, <2>2
<1>5. peer' = [peer EXCEPT ![c] = p]
  BY <1>1, <1>4 DEF end_response
<1>6. /\ peer' \in [SockClients -> Far] /\ peer'[c] = p
      /\ \A i \in Slots \ {k} : g_clients[i].client # NoClient =>
            g_clients[i].client \in SockClients /\ peer'[g_clients[i].client] = peer[g_clients[i].client]
      /\ \A i \in Slots : g_clients[i].client # NoClient => peer'[g_clients[i].client].link # "out"
      /\ \A d \in SockClients : (\A i \in Slots : g_clients[i].client # d) => peer'[d] = Out
  BY <1>1, <1>4, <1>5, OneReads
<1>7. PICK s \in SockSlot : /\ g_clients' = [g_clients EXCEPT ![k] = s]
                            /\ s.client = c /\ ~s.in_response /\ s.evt_ring = <<>>
  <2>1. PICK z \in SockSlot : z = g_clients[k]
    BY <1>2
  <2>2. [z EXCEPT !.in_response = FALSE, !.evt_ring = <<>>] \in SockSlot
    BY NoLines DEF SockSlot
  <2>3. PICK s \in SockSlot : /\ s = [z EXCEPT !.in_response = FALSE, !.evt_ring = <<>>]
                              /\ s.client = z.client /\ ~s.in_response /\ s.evt_ring = <<>>
    BY <2>2 DEF SockSlot
  <2>4. g_clients' = [g_clients EXCEPT ![k] = s]
    <3>1. g_clients' = [g_clients EXCEPT ![k].in_response = FALSE, ![k].evt_ring = <<>>]
      BY DEF end_response
    <3>2. [g_clients EXCEPT ![k].in_response = FALSE, ![k].evt_ring = <<>>]
          = [g_clients EXCEPT ![k] = [z EXCEPT !.in_response = FALSE, !.evt_ring = <<>>]]
      BY <1>1, <2>1 DEF SockInv, SockTypes
    <3> QED BY <2>3, <3>1, <3>2
  <2> QED BY <2>1, <2>3, <2>4
<1>8. g_clients' \in [Slots -> SockSlot] /\ g_clients'[k] = s /\ \A j \in Slots \ {k} : g_clients'[j] = g_clients[j]
  BY <1>1, <1>7, SlotOne DEF SockInv
<1>9. \A j \in Slots : g_clients'[j].client = g_clients[j].client
  BY <1>7, <1>8
<1> HIDE DEF k, c
<1>10. SockTypes'
  BY <1>1, <1>6, <1>8, PollingIs DEF SockInv, SockTypes
<1>11. SlotInv'
  <2>1. \A i \in Slots : ~g_clients'[i].in_response
    BY <1>1, <1>7, <1>8 DEF SockInv, SlotInv, Answering, k
  <2>2. \A i \in Slots : g_clients'[i].evt_ring = <<>>
    BY <1>1, <1>7, <1>8 DEF SockInv, SlotInv, Answering, k
  <2>3. main_pc'.at = "poll"
    BY <1>1, PollingIs
  <2>4. \A i \in Slots : ~(g_clients'[i].client # NoClient /\ peer'[g_clients'[i].client].reading)
    <3>1. SUFFICES ASSUME NEW i \in Slots, g_clients[i].client # NoClient, peer'[g_clients[i].client].reading
                   PROVE  FALSE
      BY <1>9
    <3>2. CASE i = k
      BY <1>4, <1>6, <3>1, <3>2 DEF c
    <3>3. CASE i # k
      BY <1>1, <1>6, <3>1, <3>3 DEF SockInv, SlotInv
    <3> QED BY <3>2, <3>3
  <2>5. \A i, j \in Slots : g_clients'[i].client = g_clients'[j].client /\ g_clients'[i].client # NoClient => i = j
    BY <1>9 DEF SockInv, SlotInv
  <2> QED BY <1>6, <1>9, <2>1, <2>2, <2>3, <2>4, <2>5 DEF SlotInv, Answering
<1>12. LineInv'
  <2>1. SUFFICES ASSUME NEW i \in Slots, g_clients[i].client # NoClient
                 PROVE  Whole(g_clients'[i].evt_ring, peer'[g_clients[i].client], said)
    BY <1>1, <1>9 DEF LineInv
  <2>2. Whole(g_clients[i].evt_ring, peer[g_clients[i].client], said) /\ said \in Nat
    BY <2>1 DEF SockInv, LineInv, SockTypes
  <2>3. CASE i = k
    <3>1. PICK z \in Far, ring \in Seq(Nat), n \in Nat : z = peer[c] /\ ring = g_clients[k].evt_ring /\ n = said
      BY <1>2, <2>2
    <3>2. Whole(ring, z, n) /\ p.torn = z.torn /\ p.sent = z.sent /\ p.seen = z.seen \o ring
      BY <1>4, <2>2, <2>3, <3>1 DEF c
    <3>3. Whole(<<>>, p, n)
      BY <3>2, WholeFlushed
    <3> QED BY <1>6, <1>7, <1>8, <2>3, <3>1, <3>3 DEF c
  <2>4. CASE i # k
    BY <1>6, <1>8, <2>1, <2>2, <2>4
  <2> QED BY <2>3, <2>4
<1> QED BY <1>10, <1>11, <1>12 DEF SockInv

LEMMA LeastSlot == ASSUME FreeClients # {}
                   PROVE  \E i \in FreeClients : \A o \in FreeClients : i <= o
<1> DEFINE Less == {p \in Nat \X Nat : p[1] < p[2]}
<1>1. IsWellFoundedOn(Less, Nat)
  <2>1. IsWellFoundedOn(OpToRel(<, Nat), Nat)
    BY NatLessThanWellFounded
  <2> QED BY <2>1 DEF OpToRel
<1>2. FreeClients \subseteq Nat
  BY DEF FreeClients, Slots
<1> HIDE DEF Less
<1>3. PICK x \in FreeClients : \A y \in FreeClients : ~(<<y, x>> \in Less)
  BY <1>1, <1>2, WFMin
<1>4. \A y \in FreeClients : x <= y
  <2>1. ASSUME NEW y \in FreeClients, y < x PROVE FALSE
    BY <1>2, <1>3, <2>1 DEF Less
  <2> QED BY <1>2, <2>1
<1> QED BY <1>4

LEMMA AcceptStep == ASSUME SockInv, NEW c \in SockClients, Accepts(c) PROVE SockInv'
<1>1. main_pc = Polling /\ peer[c].link = "out" /\ UNCHANGED <<main_pc, said>> /\ c # NoClient
  BY SockAssumption DEF Accepts
<1>2. CASE FreeClients = {}
  <2>1. UNCHANGED <<g_clients, peer, main_pc, said>>
    BY <1>1, <1>2 DEF Accepts
  <2> QED BY <2>1 DEF SockInv, SockTypes, SlotInv, LineInv, Answering
<1>3. CASE FreeClients # {}
  <2>1. PICK i \in FreeClients : /\ g_clients' = [g_clients EXCEPT ![i] = [init_slot EXCEPT !.client = c]]
                                 /\ peer' = [peer EXCEPT ![c].link = "in"]
    <3> DEFINE f == CHOOSE f \in FreeClients : \A o \in FreeClients : f <= o
    <3>1. f \in FreeClients
      BY <1>3, LeastSlot
    <3>2. g_clients' = [g_clients EXCEPT ![f] = [init_slot EXCEPT !.client = c]] /\ peer' = [peer EXCEPT ![c].link = "in"]
      BY <1>3, Zenon DEF Accepts
    <3> HIDE DEF f
    <3> QED BY <3>1, <3>2
  <2>2. i \in Slots /\ g_clients[i].client = NoClient
    BY DEF FreeClients
  <2>3. \A j \in Slots : g_clients[j].client # c
    BY <1>1 DEF SockInv, SlotInv
  <2>4. peer[c] = Out
    BY <2>3 DEF SockInv, SlotInv
  <2>5. PICK s \in SockSlot : s = [init_slot EXCEPT !.client = c] /\ s.client = c /\ ~s.in_response /\ s.evt_ring = <<>>
    <3>1. PICK z \in SockSlot : z = init_slot /\ ~z.in_response /\ z.evt_ring = <<>>
      BY OutIs
    <3>2. [z EXCEPT !.client = c] \in SockSlot
      BY DEF SockSlot
    <3>3. \E s \in SockSlot : s = [z EXCEPT !.client = c] /\ s.client = c /\ ~s.in_response /\ s.evt_ring = <<>>
      BY <3>1, <3>2 DEF SockSlot
    <3> QED BY <3>1, <3>3
  <2>6. PICK p \in Far : /\ peer' = [peer EXCEPT ![c] = p] /\ ~p.reading /\ p.link = "in"
                         /\ ~p.torn /\ p.sent = {} /\ p.seen = <<>>
    <3>1. PICK q \in Far : /\ q = [peer[c] EXCEPT !.link = "in"] /\ q.reading = peer[c].reading /\ q.link = "in"
                           /\ q.torn = peer[c].torn /\ q.sent = peer[c].sent /\ q.seen = peer[c].seen
      BY LinkIs DEF SockInv, SockTypes
    <3> QED BY <2>1, <2>4, <3>1, OutIs
  <2>7. /\ g_clients' \in [Slots -> SockSlot] /\ g_clients'[i] = s /\ \A j \in Slots \ {i} : g_clients'[j] = g_clients[j]
        /\ peer' \in [SockClients -> Far] /\ peer'[c] = p /\ \A d \in SockClients \ {c} : peer'[d] = peer[d]
    BY <2>1, <2>2, <2>5, <2>6, SlotOne, PeerOne DEF SockInv
  <2>8. \A j \in Slots \ {i} : g_clients[j].client # NoClient =>
           g_clients[j].client \in SockClients \ {c} /\ peer'[g_clients[j].client] = peer[g_clients[j].client]
    BY <2>3, <2>7 DEF SockInv, SockTypes, SockSlot
  <2>9. SockTypes'
    BY <1>1, <2>7 DEF SockInv, SockTypes
  <2>10. SlotInv'
    <3>0. /\ g_clients'[i].client = c /\ ~g_clients'[i].in_response /\ g_clients'[i].evt_ring = <<>>
          /\ \A j \in Slots : j # i => g_clients'[j] = g_clients[j]
          /\ peer'[c].link = "in" /\ ~peer'[c].reading
      BY <2>5, <2>6, <2>7
    <3>01. \A j \in Slots : ~g_clients[j].in_response /\ g_clients[j].evt_ring = <<>>
                            /\ ~(g_clients[j].client # NoClient /\ peer[g_clients[j].client].reading)
      BY <1>1, PollingIs DEF SockInv, SlotInv, Answering
    <3>1. ASSUME NEW j \in Slots, NEW k \in Slots, g_clients'[j].client = g_clients'[k].client, g_clients'[j].client # NoClient
          PROVE  j = k
      <4>1. CASE j = i \/ k = i
        BY <2>3, <3>0, <3>1, <4>1
      <4>2. CASE j # i /\ k # i
        BY <3>0, <3>1, <4>2 DEF SockInv, SlotInv
      <4> QED BY <4>1, <4>2
    <3>2. ASSUME NEW j \in Slots, g_clients'[j].client # NoClient PROVE peer'[g_clients'[j].client].link # "out"
      <4>1. CASE j = i
        BY <3>0, <4>1
      <4>2. CASE j # i
        <5>1. g_clients'[j] = g_clients[j] /\ peer'[g_clients[j].client] = peer[g_clients[j].client]
          BY <2>8, <3>0, <3>2, <4>2
        <5> QED BY <3>2, <5>1 DEF SockInv, SlotInv
      <4> QED BY <4>1, <4>2
    <3>3. \A d \in SockClients : (\A j \in Slots : g_clients'[j].client # d) => peer'[d] = Out
      <4>1. SUFFICES ASSUME NEW d \in SockClients, \A j \in Slots : g_clients'[j].client # d PROVE peer'[d] = Out
        OBVIOUS
      <4>2. d # c /\ peer'[d] = peer[d]
        BY <2>2, <2>5, <2>7, <4>1
      <4>3. \A j \in Slots : g_clients[j].client # d
        BY <2>2, <2>7, <4>1, SockAssumption
      <4> QED BY <4>2, <4>3 DEF SockInv, SlotInv
    <3>4. main_pc'.at = "poll"
      BY <1>1, PollingIs
    <3>5. ASSUME NEW j \in Slots PROVE ~g_clients'[j].in_response /\ g_clients'[j].evt_ring = <<>>
      <4>1. CASE j = i
        BY <3>0, <4>1
      <4>2. CASE j # i
        BY <3>0, <3>01, <4>2
      <4> QED BY <4>1, <4>2
    <3>7. ASSUME NEW j \in Slots, g_clients'[j].client # NoClient PROVE ~peer'[g_clients'[j].client].reading
      <4>1. CASE j = i
        BY <3>0, <4>1
      <4>2. CASE j # i
        <5>1. g_clients'[j] = g_clients[j] /\ peer'[g_clients[j].client] = peer[g_clients[j].client]
          BY <2>8, <3>0, <3>7, <4>2
        <5> QED BY <3>01, <3>7, <5>1
      <4> QED BY <4>1, <4>2
    <3> QED BY <3>1, <3>2, <3>3, <3>4, <3>5, <3>7 DEF SlotInv, Answering
  <2>11. LineInv'
    <3>1. SUFFICES ASSUME NEW j \in Slots, g_clients'[j].client # NoClient
                   PROVE  Whole(g_clients'[j].evt_ring, peer'[g_clients'[j].client], said)
      BY <1>1 DEF LineInv
    <3>2. CASE j = i
      <4>1. Whole(<<>>, p, said)
        BY <2>6, WholeFresh
      <4> QED BY <2>5, <2>7, <3>2, <4>1
    <3>3. CASE j # i
      BY <2>7, <2>8, <3>1, <3>3 DEF SockInv, LineInv
    <3> QED BY <3>2, <3>3
  <2> QED BY <2>9, <2>10, <2>11 DEF SockInv
<1> QED BY <1>2, <1>3

LEMMA HangUpStep == ASSUME SockInv, NEW c \in SockClients, HangsUp(c) PROVE SockInv'
<1>1. peer[c].link = "in" /\ UNCHANGED <<g_clients, main_pc, said>>
  BY DEF HangsUp
<1>2. PICK p \in Far : /\ p = [peer[c] EXCEPT !.link = "gone"] /\ p.reading = peer[c].reading /\ p.link = "gone"
                       /\ p.torn = peer[c].torn /\ p.sent = peer[c].sent /\ p.seen = peer[c].seen
  BY LinkIs DEF SockInv, SockTypes
<1>3. peer' \in [SockClients -> Far] /\ peer'[c] = p /\ \A d \in SockClients \ {c} : peer'[d] = peer[d]
  BY <1>2, PeerOne DEF SockInv, HangsUp
<1>4. \A i \in Slots : g_clients[i].client \in SockClients \cup {NoClient}
  BY DEF SockInv, SockTypes, SockSlot
<1>5. SockTypes'
  BY <1>1, <1>3 DEF SockInv, SockTypes
<1>6. SlotInv'
  <2>1. \A i \in Slots : g_clients[i].client # NoClient =>
           /\ peer'[g_clients[i].client].link # "out"
           /\ peer'[g_clients[i].client].reading = peer[g_clients[i].client].reading
    <3>1. SUFFICES ASSUME NEW i \in Slots, g_clients[i].client # NoClient
                   PROVE  /\ peer'[g_clients[i].client].link # "out"
                          /\ peer'[g_clients[i].client].reading = peer[g_clients[i].client].reading
      OBVIOUS
    <3>2. CASE g_clients[i].client = c
      BY <1>2, <1>3, <3>2
    <3>3. CASE g_clients[i].client # c
      <4>1. peer'[g_clients[i].client] = peer[g_clients[i].client]
        BY <1>3, <1>4, <3>1, <3>3
      <4> QED BY <3>1, <4>1 DEF SockInv, SlotInv
    <3> QED BY <3>2, <3>3
  <2>2. \A d \in SockClients : (\A j \in Slots : g_clients[j].client # d) => peer'[d] = Out
    <3>1. ASSUME NEW d \in SockClients, \A j \in Slots : g_clients[j].client # d PROVE d # c
      <4>1. peer[d].link = "out"
        BY <3>1, OutIs DEF SockInv, SlotInv
      <4> QED BY <1>1, <4>1
    <3> QED BY <1>3, <3>1 DEF SockInv, SlotInv
  <2> QED BY <1>1, <2>1, <2>2 DEF SockInv, SlotInv, Answering
<1>7. LineInv'
  <2>1. SUFFICES ASSUME NEW i \in Slots, g_clients[i].client # NoClient
                 PROVE  Whole(g_clients[i].evt_ring, peer'[g_clients[i].client], said)
    BY <1>1 DEF LineInv
  <2>2. Whole(g_clients[i].evt_ring, peer[g_clients[i].client], said)
    BY <2>1 DEF SockInv, LineInv
  <2>3. CASE g_clients[i].client = c
    BY <1>2, <1>3, <2>2, <2>3, WholeSame
  <2>4. CASE g_clients[i].client # c
    BY <1>3, <1>4, <2>1, <2>2, <2>4
  <2> QED BY <2>3, <2>4
<1> QED BY <1>5, <1>6, <1>7 DEF SockInv

\* A command: a response begins, or flags change.
LEMMA ReadsStep == ASSUME SockInv, NEW i \in Slots, Reads(i) PROVE SockInv'
<1>1. main_pc = Polling /\ g_clients[i].client # NoClient /\ UNCHANGED <<peer, said>>
  BY DEF Reads, handle_command, handle_meta_subscribe, handle_meta_unsubscribe, handle_json_events, Flags
<1>2. PICK z \in SockSlot : z = g_clients[i]
  BY DEF SockInv, SockTypes
<1>3. PICK s \in SockSlot, left \in Int, at \in {"rows", "ack"} :
         /\ g_clients' = [g_clients EXCEPT ![i] = s] /\ main_pc' = [at |-> at, slot |-> i, rows |-> left]
         /\ s.client = z.client /\ s.evt_ring = z.evt_ring /\ (s.in_response <=> at = "rows" \/ z.in_response)
  <2>1. CASE handle_command(i)
    <3>1. PICK left \in Int : begin_response(i, left)
      BY <2>1 DEF handle_command
    <3>2. [z EXCEPT !.in_response = TRUE] \in SockSlot
      BY DEF SockSlot
    <3>3. PICK s \in SockSlot : /\ s = [z EXCEPT !.in_response = TRUE] /\ s.client = z.client
                                /\ s.evt_ring = z.evt_ring /\ s.in_response
      BY <3>2 DEF SockSlot
    <3>4. g_clients' = [g_clients EXCEPT ![i] = s]
      BY <1>2, <3>1, <3>3 DEF begin_response
    <3> QED BY <3>1, <3>3, <3>4 DEF begin_response
  <2>2. ASSUME NEW s \in SockSlot, Flags(i, s), s.client = z.client, s.evt_ring = z.evt_ring, s.in_response = z.in_response
        PROVE  \E t \in SockSlot, left \in Int, at \in {"rows", "ack"} :
                 /\ g_clients' = [g_clients EXCEPT ![i] = t] /\ main_pc' = [at |-> at, slot |-> i, rows |-> left]
                 /\ t.client = z.client /\ t.evt_ring = z.evt_ring /\ (t.in_response <=> at = "rows" \/ z.in_response)
    <3>1. g_clients' = [g_clients EXCEPT ![i] = s] /\ main_pc' = [at |-> "ack", slot |-> i, rows |-> 0] /\ 0 \in Int
      BY <2>2 DEF Flags
    <3> QED BY <2>2, <3>1
  <2>3. CASE handle_meta_subscribe(i)
    <3>1. PICK level \in Levels : Flags(i, [z EXCEPT !.subscribed = TRUE, !.subscribe_level = level])
      BY <1>2, <2>3 DEF handle_meta_subscribe
    <3>2. [z EXCEPT !.subscribed = TRUE, !.subscribe_level = level] \in SockSlot
      BY DEF SockSlot
    <3>3. PICK s \in SockSlot : /\ s = [z EXCEPT !.subscribed = TRUE, !.subscribe_level = level] /\ s.client = z.client
                                /\ s.evt_ring = z.evt_ring /\ s.in_response = z.in_response
      BY <3>2 DEF SockSlot
    <3> QED BY <2>2, <3>1, <3>3
  <2>4. CASE handle_meta_unsubscribe(i)
    <3>1. Flags(i, [z EXCEPT !.subscribed = FALSE])
      BY <1>2, <2>4 DEF handle_meta_unsubscribe
    <3>2. [z EXCEPT !.subscribed = FALSE] \in SockSlot
      BY DEF SockSlot
    <3>3. PICK s \in SockSlot : /\ s = [z EXCEPT !.subscribed = FALSE] /\ s.client = z.client
                                /\ s.evt_ring = z.evt_ring /\ s.in_response = z.in_response
      BY <3>2 DEF SockSlot
    <3> QED BY <2>2, <3>1, <3>3
  <2>5. CASE handle_json_events(i)
    <3>1. Flags(i, [z EXCEPT !.subscribed = TRUE, !.subscribe_level = 7, !.json_events = TRUE])
      BY <1>2, <2>5 DEF handle_json_events
    <3>2. [z EXCEPT !.subscribed = TRUE, !.subscribe_level = 7, !.json_events = TRUE] \in SockSlot
      BY DEF SockSlot, Levels
    <3>3. PICK s \in SockSlot : /\ s = [z EXCEPT !.subscribed = TRUE, !.subscribe_level = 7, !.json_events = TRUE]
                                /\ s.client = z.client
                                /\ s.evt_ring = z.evt_ring /\ s.in_response = z.in_response
      BY <3>2 DEF SockSlot
    <3> QED BY <2>2, <3>1, <3>3
  <2> QED BY <2>1, <2>3, <2>4, <2>5 DEF Reads
<1>4. g_clients' \in [Slots -> SockSlot] /\ g_clients'[i] = s /\ \A j \in Slots \ {i} : g_clients'[j] = g_clients[j]
  BY <1>3, SlotOne DEF SockInv
<1>5. \A j \in Slots : g_clients'[j].client = g_clients[j].client /\ g_clients'[j].evt_ring = g_clients[j].evt_ring
  BY <1>2, <1>3, <1>4
<1>6. \A j \in Slots : ~g_clients[j].in_response /\ g_clients[j].evt_ring = <<>>
  BY <1>1, PollingIs DEF SockInv, SlotInv, Answering
<1>7. SockTypes'
  <2>1. main_pc' \in [at : {"poll", "rows", "flush", "ack", "off"}, slot : Slots \cup {0}, rows : Int]
    BY <1>3
  <2> QED BY <1>1, <1>4, <2>1 DEF SockInv, SockTypes
<1>8. SlotInv'
  <2>1. main_pc'.at = at /\ main_pc'.slot = i
    BY <1>3
  <2>2. \A j \in Slots : g_clients'[j].in_response <=> (at = "rows" /\ j = i)
    BY <1>2, <1>3, <1>4, <1>6
  <2>3. \A j \in Slots : ~(g_clients[j].client # NoClient /\ peer[g_clients[j].client].reading)
    BY <1>1, PollingIs DEF SockInv, SlotInv
  <2>4. \A j \in Slots : g_clients'[j].in_response <=> (Answering /\ main_pc.slot = j)'
    BY <1>3, <2>1, <2>2 DEF Answering
  <2>5. \A j \in Slots : ~(g_clients'[j].client # NoClient /\ peer'[g_clients'[j].client].reading)
    BY <1>1, <1>5, <2>3
  <2>6. \A j, k \in Slots : g_clients'[j].client = g_clients'[k].client /\ g_clients'[j].client # NoClient => j = k
    BY <1>5 DEF SockInv, SlotInv
  <2>7. /\ \A j \in Slots : g_clients'[j].client # NoClient => peer'[g_clients'[j].client].link # "out"
        /\ \A d \in SockClients : (\A j \in Slots : g_clients'[j].client # d) => peer'[d] = Out
    BY <1>1, <1>5 DEF SockInv, SlotInv
  <2>8. main_pc'.slot \in Slots /\ g_clients'[main_pc'.slot].client # NoClient
    BY <1>1, <1>5, <2>1
  <2>9. \A j \in Slots : g_clients'[j].evt_ring = <<>>
    BY <1>5, <1>6
  <2> QED BY <2>4, <2>5, <2>6, <2>7, <2>8, <2>9 DEF SlotInv
<1>9. LineInv'
  BY <1>1, <1>5 DEF SockInv, LineInv
<1> QED BY <1>7, <1>8, <1>9 DEF SockInv

LEMMA SockClosesStep == ASSUME SockInv, NEW k \in Slots, SockCloses(k) PROVE SockInv'
<1> DEFINE c == g_clients[k].client
<1>1. main_pc = Polling /\ c # NoClient /\ UNCHANGED <<main_pc, said>>
      /\ g_clients' = [g_clients EXCEPT ![k] = init_slot] /\ peer' = [peer EXCEPT ![c] = Out]
  BY DEF SockCloses
<1>2. c \in SockClients
  BY <1>1 DEF SockInv, SockTypes, SockSlot
<1>3. /\ g_clients' \in [Slots -> SockSlot] /\ g_clients'[k] = init_slot /\ \A j \in Slots \ {k} : g_clients'[j] = g_clients[j]
      /\ peer' \in [SockClients -> Far] /\ peer'[c] = Out /\ \A d \in SockClients \ {c} : peer'[d] = peer[d]
  BY <1>1, <1>2, OutIs, SlotOne, PeerOne DEF SockInv
<1>4. \A j \in Slots : /\ ~g_clients[j].in_response /\ g_clients[j].evt_ring = <<>>
                       /\ ~(g_clients[j].client # NoClient /\ peer[g_clients[j].client].reading)
  BY <1>1, PollingIs DEF SockInv, SlotInv, Answering
<1>5. ASSUME NEW j \in Slots, g_clients'[j].client # NoClient
      PROVE  /\ j # k /\ g_clients'[j] = g_clients[j] /\ g_clients[j].client \in SockClients \ {c}
             /\ peer'[g_clients[j].client] = peer[g_clients[j].client]
  <2>1. j # k /\ g_clients'[j] = g_clients[j]
    BY <1>3, <1>5, OutIs
  <2>2. g_clients[j].client # c
    BY <1>1, <1>5, <2>1 DEF SockInv, SlotInv
  <2>3. g_clients[j].client \in SockClients
    BY <1>5, <2>1 DEF SockInv, SockTypes, SockSlot
  <2> HIDE DEF c
  <2> QED BY <1>3, <2>1, <2>2, <2>3
<1>6. SockTypes'
  BY <1>1, <1>3 DEF SockInv, SockTypes
<1>7. SlotInv'
  <2>1. \A i, j \in Slots : g_clients'[i].client = g_clients'[j].client /\ g_clients'[i].client # NoClient => i = j
    <3>1. SUFFICES ASSUME NEW i \in Slots, NEW j \in Slots, g_clients'[i].client = g_clients'[j].client, g_clients'[i].client # NoClient
                   PROVE  i = j
      OBVIOUS
    <3>2. g_clients'[i] = g_clients[i] /\ g_clients'[j] = g_clients[j]
      BY <1>5, <3>1
    <3> QED BY <3>1, <3>2 DEF SockInv, SlotInv
  <2>2. ASSUME NEW j \in Slots, g_clients'[j].client # NoClient
        PROVE  peer'[g_clients'[j].client].link # "out" /\ ~peer'[g_clients'[j].client].reading
    BY <1>4, <1>5, <2>2 DEF SockInv, SlotInv
  <2>3. ASSUME NEW d \in SockClients, \A j \in Slots : g_clients'[j].client # d PROVE peer'[d] = Out
    <3>1. CASE d = c
      BY <1>3, <3>1
    <3>2. CASE d # c
      <4>1. \A j \in Slots : g_clients[j].client # d
        BY <1>3, <2>3, <3>2
      <4>2. peer'[d] = peer[d]
        BY <1>3, <3>2
      <4> QED BY <4>1, <4>2 DEF SockInv, SlotInv
    <3> QED BY <3>1, <3>2
  <2>4. main_pc'.at = "poll"
    BY <1>1, PollingIs
  <2>5. ASSUME NEW j \in Slots PROVE ~g_clients'[j].in_response /\ g_clients'[j].evt_ring = <<>>
    <3>1. CASE j = k
      BY <1>3, <3>1, OutIs
    <3>2. CASE j # k
      BY <1>3, <1>4, <3>2
    <3> QED BY <3>1, <3>2
  <2> QED BY <2>1, <2>2, <2>3, <2>4, <2>5 DEF SlotInv, Answering
<1>8. LineInv'
  <2>1. SUFFICES ASSUME NEW j \in Slots, g_clients'[j].client # NoClient
                 PROVE  Whole(g_clients'[j].evt_ring, peer'[g_clients'[j].client], said)
    BY <1>1 DEF LineInv
  <2>2. g_clients'[j] = g_clients[j] /\ peer'[g_clients[j].client] = peer[g_clients[j].client]
    BY <1>5, <2>1
  <2> QED BY <2>1, <2>2 DEF SockInv, LineInv
<1> QED BY <1>6, <1>7, <1>8 DEF SockInv

LEMMA ShutdownStep == ASSUME SockInv, kerchunk_socket_shutdown PROVE SockInv'
<1>1. main_pc'.at = "off" /\ main_pc' \in [at : {"poll", "rows", "flush", "ack", "off"}, slot : Slots \cup {0}, rows : Int]
  BY DEF kerchunk_socket_shutdown, Polling
<1>2. /\ \A i \in Slots : g_clients'[i].client = NoClient /\ ~g_clients'[i].in_response /\ g_clients'[i].evt_ring = <<>>
      /\ \A c \in SockClients : peer'[c] = Out
  BY OutIs DEF kerchunk_socket_shutdown
<1>3. SockTypes'
  BY <1>1, OutIs DEF SockInv, SockTypes, kerchunk_socket_shutdown
<1>4. SlotInv'
  BY <1>1, <1>2 DEF SlotInv, Answering
<1>5. LineInv'
  BY <1>2 DEF LineInv
<1> QED BY <1>3, <1>4, <1>5 DEF SockInv

LEMMA BroadcastStep ==
  ASSUME SockInv, NEW to \in SUBSET Slots, \A i \in to : g_clients[i].client # NoClient, Broadcast(to)
  PROVE  SockInv'
<1>1. said' = said + 1 /\ said \in Nat /\ UNCHANGED main_pc
  BY DEF Broadcast, SockInv, SockTypes
<1>2. \A i \in Slots : g_clients[i].client \in SockClients \cup {NoClient} /\ g_clients[i] \in SockSlot
                       /\ g_clients[i].evt_ring \in Seq(Nat) /\ g_clients[i].in_response \in BOOLEAN
  BY DEF SockInv, SockTypes, SockSlot
<1>3. ASSUME NEW i \in to
      PROVE  peer'[g_clients[i].client] = Hears(peer[g_clients[i].client], said + 1, g_clients[i].in_response)
  <2> DEFINE c == g_clients[i].client
  <2>1. c \in SockClients
    BY <1>2
  <2>2. \A s \in to : g_clients[s].client = c <=> s = i
    BY DEF SockInv, SlotInv
  <2>3. (CHOOSE s \in to : g_clients[s].client = c) = i
    <3> HIDE DEF c
    <3> QED BY <2>2
  <2>4. peer'[c] = LET s == CHOOSE s \in to : g_clients[s].client = c
                   IN Hears(peer[c], said + 1, g_clients[s].in_response)
    BY <2>1, Zenon DEF Broadcast
  <2> QED BY <2>3, <2>4
<1>4. ASSUME NEW c \in SockClients, \A i \in to : g_clients[i].client # c PROVE peer'[c] = peer[c]
  BY <1>4, Zenon DEF Broadcast
<1>5. ASSUME NEW i \in Slots \ to, g_clients[i].client # NoClient
      PROVE  peer'[g_clients[i].client] = peer[g_clients[i].client]
  <2>1. \A j \in to : g_clients[j].client # g_clients[i].client
    BY <1>5 DEF SockInv, SlotInv
  <2> QED BY <1>2, <1>4, <1>5, <2>1
<1>6. ASSUME NEW i \in to
      PROVE  \E q \in Far : /\ q = peer'[g_clients[i].client] /\ q.link = peer[g_clients[i].client].link
                            /\ q.reading = peer[g_clients[i].client].reading
                            /\ q.sent = peer[g_clients[i].client].sent \cup {said + 1}
                            /\ q.seen = IF g_clients[i].in_response THEN peer[g_clients[i].client].seen
                                        ELSE peer[g_clients[i].client].seen \o <<said + 1>>
                            /\ q.torn = peer[g_clients[i].client].torn
  <2>1. PICK p \in Far, d \in BOOLEAN, n \in Nat : p = peer[g_clients[i].client] /\ d = g_clients[i].in_response /\ n = said + 1
    BY <1>1, <1>2 DEF SockInv, SockTypes
  <2>2. d \/ ~p.reading
    BY <2>1 DEF SockInv, SlotInv, Answering
  <2>3. PICK q \in Far : /\ q = Hears(p, n, d) /\ q.link = p.link /\ q.reading = p.reading
                         /\ q.sent = p.sent \cup {n} /\ q.seen = (IF d THEN p.seen ELSE p.seen \o <<n>>)
                         /\ (d \/ ~p.reading => q.torn = p.torn)
    BY HearsIs
  <2>4. q = peer'[g_clients[i].client]
    BY <1>3, <2>1, <2>3
  <2> QED BY <2>1, <2>2, <2>3, <2>4
<1>7. ASSUME NEW i \in Slots
      PROVE  \E s \in SockSlot : /\ s = g_clients'[i] /\ s.client = g_clients[i].client /\ s.in_response = g_clients[i].in_response
                                 /\ s.evt_ring = IF i \in to /\ g_clients[i].in_response
                                                 THEN Deferred(g_clients[i].evt_ring, said + 1) ELSE g_clients[i].evt_ring
  <2>1. PICK z \in SockSlot : z = g_clients[i]
    BY <1>2
  <2>2. CASE i \in to /\ z.in_response
    <3>1. Deferred(z.evt_ring, said + 1) \in Seq(Nat)
      <4>1. z.evt_ring \in Seq(Nat) /\ said + 1 \in Nat
        BY <1>1 DEF SockSlot
      <4>2. Len(z.evt_ring) = EVT_RING_SIZE - 1 => z.evt_ring # <<>>
        BY NoLines, SockAssumption
      <4> QED BY <4>1, <4>2 DEF Deferred
    <3>2. PICK r \in Seq(Nat) : r = Deferred(z.evt_ring, said + 1)
      BY <3>1
    <3>3. [z EXCEPT !.evt_ring = r] \in SockSlot
      BY DEF SockSlot
    <3>4. g_clients'[i] = [z EXCEPT !.evt_ring = r]
      BY <2>1, <2>2, <3>2 DEF Broadcast
    <3>5. PICK s \in SockSlot : /\ s = [z EXCEPT !.evt_ring = r] /\ s.client = z.client /\ s.in_response = z.in_response
                                /\ s.evt_ring = r
      BY <3>3 DEF SockSlot
    <3> QED BY <2>1, <2>2, <3>2, <3>4, <3>5
  <2>3. CASE ~(i \in to /\ z.in_response)
    <3>1. g_clients'[i] = z
      BY <2>1, <2>3 DEF Broadcast
    <3> QED BY <2>1, <2>3, <3>1
  <2> QED BY <2>2, <2>3
<1>8. \A i \in Slots : g_clients'[i].client = g_clients[i].client /\ g_clients'[i].in_response = g_clients[i].in_response
                       /\ (~g_clients[i].in_response => g_clients'[i].evt_ring = g_clients[i].evt_ring)
  BY <1>7
<1>9. \A i \in Slots : g_clients[i].client # NoClient =>
         /\ peer'[g_clients[i].client].link = peer[g_clients[i].client].link
         /\ peer'[g_clients[i].client].reading = peer[g_clients[i].client].reading
  <2>1. ASSUME NEW i \in Slots, g_clients[i].client # NoClient
        PROVE  /\ peer'[g_clients[i].client].link = peer[g_clients[i].client].link
               /\ peer'[g_clients[i].client].reading = peer[g_clients[i].client].reading
    <3>1. CASE i \in to
      BY <1>6, <3>1
    <3>2. CASE i \notin to
      BY <1>5, <2>1, <3>2
    <3> QED BY <3>1, <3>2
  <2> QED BY <2>1
<1>10. SockTypes'
  <2>1. g_clients' \in [Slots -> SockSlot]
    <3>1. \A i \in Slots : g_clients'[i] \in SockSlot
      BY <1>7
    <3>2. g_clients' = [i \in Slots |-> g_clients'[i]]
      BY DEF Broadcast
    <3> QED BY <3>1, <3>2
  <2>2. peer' \in [SockClients -> Far]
    <3>1. ASSUME NEW c \in SockClients PROVE peer'[c] \in Far
      <4>1. CASE \E i \in to : g_clients[i].client = c
        BY <1>6, <4>1
      <4>2. CASE \A i \in to : g_clients[i].client # c
        BY <1>4, <4>2 DEF SockInv, SockTypes
      <4> QED BY <4>1, <4>2
    <3>2. peer' = [c \in SockClients |-> peer'[c]]
      BY DEF Broadcast
    <3> QED BY <3>1, <3>2
  <2> QED BY <1>1, <2>1, <2>2 DEF SockInv, SockTypes
<1>11. SlotInv'
  <2>1. \A c \in SockClients : (\A i \in Slots : g_clients'[i].client # c) => peer'[c] = Out
    BY <1>4, <1>8 DEF SockInv, SlotInv
  <2>2. /\ \A i, j \in Slots : g_clients'[i].client = g_clients'[j].client /\ g_clients'[i].client # NoClient => i = j
        /\ \A i \in Slots : g_clients'[i].client # NoClient => peer'[g_clients'[i].client].link # "out"
        /\ main_pc'.at \in {"rows", "flush", "ack"} => main_pc'.slot \in Slots /\ g_clients'[main_pc'.slot].client # NoClient
        /\ \A i \in Slots : ~g_clients'[i].in_response => g_clients'[i].evt_ring = <<>>
    BY <1>1, <1>8, <1>9 DEF SockInv, SlotInv
  <2>3. /\ \A i \in Slots : g_clients'[i].in_response <=> (Answering /\ main_pc.slot = i)'
        /\ \A i \in Slots : g_clients'[i].client # NoClient /\ peer'[g_clients'[i].client].reading
                              => main_pc'.at = "rows" /\ main_pc'.slot = i
    BY <1>1, <1>8, <1>9 DEF SockInv, SlotInv, Answering
  <2> QED BY <2>1, <2>2, <2>3 DEF SlotInv
<1>12. LineInv'
  <2>1. SUFFICES ASSUME NEW i \in Slots, g_clients[i].client # NoClient
                 PROVE  Whole(g_clients'[i].evt_ring, peer'[g_clients[i].client], said + 1)
    BY <1>1, <1>8 DEF LineInv
  <2>2. PICK p \in Far, r \in Seq(Nat), n \in Nat : p = peer[g_clients[i].client] /\ r = g_clients[i].evt_ring /\ n = said
    BY <1>1, <1>2, <2>1 DEF SockInv, SockTypes
  <2>3. Whole(r, p, n)
    BY <2>1, <2>2 DEF SockInv, LineInv
  <2>4. CASE i \notin to
    <3>1. peer'[g_clients[i].client] = p /\ g_clients'[i].evt_ring = r
      BY <1>5, <1>7, <2>1, <2>2, <2>4
    <3> QED BY <2>2, <2>3, <3>1, WholeLater
  <2>5. CASE i \in to
    <3>1. PICK q \in Far : /\ q = peer'[g_clients[i].client] /\ q.sent = p.sent \cup {n + 1} /\ q.torn = p.torn
                           /\ q.seen = IF g_clients[i].in_response THEN p.seen ELSE p.seen \o <<n + 1>>
      BY <1>6, <2>2, <2>5
    <3>2. CASE g_clients[i].in_response
      <4>1. g_clients'[i].evt_ring = Deferred(r, n + 1)
        BY <1>7, <2>2, <2>5, <3>2
      <4>2. Whole(Deferred(r, n + 1), q, n + 1)
        BY <2>3, <3>1, <3>2, WholeDeferred
      <4> QED BY <2>2, <3>1, <4>1, <4>2
    <3>3. CASE ~g_clients[i].in_response
      <4>1. r = <<>> /\ g_clients'[i].evt_ring = <<>>
        BY <1>8, <2>2, <3>3 DEF SockInv, SlotInv
      <4>2. ~q.torn
        BY <2>3, <3>1 DEF Whole
      <4>3. Whole(<<>>, q, n + 1)
        BY <2>3, <3>1, <3>3, <4>1, <4>2, WholeNow
      <4> QED BY <2>2, <3>1, <4>1, <4>3
    <3> QED BY <3>2, <3>3
  <2> QED BY <2>4, <2>5
<1> QED BY <1>10, <1>11, <1>12 DEF SockInv

\* No client reads an event inside a response, the lines it reads are in order,
\* and one sent to it is read, waits, or was pushed out of a full ring by
\* younger ones, for any slots, clients and size of the ring
\* (kerchunk_socket_broadcast_log, evt_ring_push, handle_command, end_response).
THEOREM EveryLineIsWhole == SockSpec => []LinesAreWhole
<1>1. SockInit => SockInv
  <2> SUFFICES ASSUME SockInit PROVE SockInv
    OBVIOUS
  <2> USE DEF SockInit
  <2>1. SockTypes
    BY OutIs, PollingIs DEF SockTypes
  <2>2. \A i \in Slots : g_clients[i].client = NoClient /\ ~g_clients[i].in_response /\ g_clients[i].evt_ring = <<>>
    BY OutIs
  <2> QED BY <2>1, <2>2, PollingIs DEF SockInv, SlotInv, LineInv, Answering
<1>2. SockInv /\ [SockNext]_sockVars => SockInv'
  <2>1. ASSUME SockInv, SockNext PROVE SockInv'
    <3>1. CASE kerchunk_socket_broadcast_log
      <4>1. PICK to \in SUBSET InUse : Broadcast(to)
        BY <3>1 DEF kerchunk_socket_broadcast_log
      <4> QED BY <2>1, <4>1, BroadcastStep DEF InUse
    <3>2. CASE kerchunk_socket_broadcast_event
      <4>1. PICK to \in SUBSET InUse : Broadcast(to)
        BY <3>2 DEF kerchunk_socket_broadcast_event
      <4> QED BY <2>1, <4>1, BroadcastStep DEF InUse
    <3> QED BY <2>1, <3>1, <3>2, RowStep, FlushStep, AcceptStep, HangUpStep, ReadsStep, SockClosesStep, ShutdownStep DEF SockNext
  <2>2. ASSUME SockInv, UNCHANGED sockVars PROVE SockInv'
    BY <2>2 DEF sockVars, SockInv, SockTypes, SlotInv, LineInv, Answering
  <2> QED BY <2>1, <2>2
<1>3. SockInv => LinesAreWhole
  <2> SUFFICES ASSUME SockInv, NEW c \in SockClients
               PROVE  LET p == peer[c] IN
                        /\ ~p.torn
                        /\ \A k \in 1..(Len(p.seen) - 1) : p.seen[k] < p.seen[k + 1]
                        /\ ToSet(p.seen) \subseteq p.sent
                        /\ \A n \in p.sent :
                               \/ n \in ToSet(p.seen)
                               \/ \E i \in Slots : g_clients[i].client = c /\ n \in ToSet(g_clients[i].evt_ring)
                               \/ Cardinality({k \in p.sent : k > n}) >= EVT_RING_SIZE - 1
    BY DEF LinesAreWhole
  <2>1. CASE \A i \in Slots : g_clients[i].client # c
    <3>1. peer[c] = Out
      BY <2>1 DEF SockInv, SlotInv
    <3>2. ToSet(<<>>) = {} /\ Len(<<>>) = 0
      BY NoLines DEF ToSet
    <3> QED BY <3>1, <3>2, OutIs
  <2>2. CASE \E i \in Slots : g_clients[i].client = c
    <3>1. PICK i \in Slots : g_clients[i].client = c
      BY <2>2
    <3>2. PICK p \in Far, r \in Seq(Nat) : p = peer[c] /\ r = g_clients[i].evt_ring
      BY DEF SockInv, SockTypes, SockSlot
    <3>3. Whole(r, p, said)
      BY <3>1, <3>2, SockAssumption DEF SockInv, LineInv
    <3>4. p.seen \in Seq(Nat) /\ DOMAIN p.seen = 1..Len(p.seen) /\ Len(p.seen) \in Nat
      BY DEF Far
    <3>5. ASSUME NEW k \in 1..(Len(p.seen) - 1) PROVE p.seen[k] < p.seen[k + 1]
      <4>1. k \in DOMAIN p.seen /\ k + 1 \in DOMAIN p.seen /\ k < k + 1
        BY <3>4
      <4> QED BY <3>3, <4>1 DEF Whole
    <3>6. ToSet(p.seen) \subseteq p.sent
      BY <3>3 DEF Whole, ToSet
    <3>7. ASSUME NEW n \in p.sent
          PROVE  \/ n \in ToSet(p.seen) \/ n \in ToSet(r) \/ Cardinality({k \in p.sent : k > n}) >= EVT_RING_SIZE - 1
      BY <3>3 DEF Whole, ToSet, Missed
    <3>8. ~p.torn
      BY <3>3 DEF Whole
    <3> QED BY <3>1, <3>2, <3>5, <3>6, <3>7, <3>8
  <2> QED BY <2>1, <2>2
<1> QED BY <1>1, <1>2, <1>3, PTL DEF SockSpec

(* ----------------------------- JitterBuffer ---------------------------- *)
SeqNumbers == 0..SeqWrap - 1
\* The next frame to play is ahead of the last one played by the frames
\* concealed since, and by one.
JbInv ==
    /\ jb_sent \in Nat /\ jb_net \subseteq 0..jb_sent - 1
    /\ jb_slot \in [0..JB_SLOTS - 1 -> SeqNumbers \cup {Empty}]
    /\ jb_cursor \in SeqNumbers /\ jb_last \in SeqNumbers \cup {Empty}
    /\ jb_consec_miss \in 0..JB_PLC_MAX - 1
    /\ jb_last # Empty => /\ jb_initialized
                          /\ \/ jb_cursor = jb_last + 1 + jb_consec_miss
                             \/ jb_cursor = jb_last + 1 + jb_consec_miss - SeqWrap

\* Sequence numbers: remainders, and the difference of two of them.
LEMMA WrapIs ==
  ASSUME NEW n \in Int
  PROVE  /\ n % SeqWrap \in SeqNumbers
         /\ n \in SeqNumbers => n % SeqWrap = n
         /\ n \in SeqWrap..2 * SeqWrap - 1 => n % SeqWrap = n - SeqWrap
         /\ n \in -SeqWrap..-1 => n % SeqWrap = n + SeqWrap
<1>1. SeqWrap \in Nat \ {0}
  BY JbAssumption
<1> QED BY <1>1 DEF SeqNumbers

LEMMA TurnsApart ==
  ASSUME NEW w \in Nat \ {0}, NEW k \in Int, k * w < 2 * w, -(k * w) < 2 * w
  PROVE  k \in {-1, 0, 1}
<1>1. CASE k >= 2
  <2>1. k * w >= 2 * w
    BY <1>1
  <2> QED BY <2>1
<1>2. CASE k <= -2
  <2>1. (-k) * w >= 2 * w
    BY <1>2
  <2> QED BY <2>1
<1> QED BY <1>1, <1>2

\* What a remainder is, on constants: the provers see it of no larger term.
LEMMA Remainder ==
  ASSUME NEW w \in Nat \ {0}, NEW n \in Int, NEW q \in Int, NEW r \in Int,
         q = n \div w, r = n % w
  PROVE  n = q * w + r
OBVIOUS

LEMMA SeqNumber ==
  ASSUME NEW i \in Nat
  PROVE  /\ SeqAt(i) \in SeqNumbers
         /\ \E q \in Int : FirstSeq + i = q * SeqWrap + SeqAt(i)
<1>1. SeqWrap \in Nat \ {0} /\ FirstSeq \in Nat
  BY JbAssumption
<1>2. PICK n \in Int : n = FirstSeq + i
  BY <1>1
<1>3. SeqAt(i) = n % SeqWrap /\ n % SeqWrap \in SeqNumbers
  BY <1>2, WrapIs DEF SeqAt
<1>4. PICK r \in Int : r = n % SeqWrap
  BY <1>1
<1>5. PICK q \in Int : q = n \div SeqWrap
  BY <1>1
<1>6. n = q * SeqWrap + r
  BY <1>1, <1>4, <1>5, Remainder
<1>7. FirstSeq + i = q * SeqWrap + SeqAt(i)
  BY <1>2, <1>3, <1>4, <1>6
<1> QED BY <1>3, <1>7

LEMMA DeltaIs ==
  ASSUME NEW i \in Nat, NEW j \in Nat, i - j \in 1 - FarSeq..Half - 1
  PROVE  Delta(SeqAt(i), SeqAt(j)) = i - j
<1>1. /\ Half \in Nat /\ Half * 2 <= SeqWrap /\ SeqWrap < Half * 2 + 2 /\ SeqWrap \in Nat \ {0}
      /\ FarSeq \in Nat /\ 2 * FarSeq <= SeqWrap /\ FirstSeq \in Nat
  BY JbAssumption DEF Half
<1>2. PICK a \in SeqNumbers, p \in Int : a = SeqAt(i) /\ FirstSeq + i = p * SeqWrap + a
  BY SeqNumber
<1>3. PICK b \in SeqNumbers, q \in Int : b = SeqAt(j) /\ FirstSeq + j = q * SeqWrap + b
  BY SeqNumber
<1>4. a \in Int /\ b \in Int /\ a >= 0 /\ b >= 0 /\ a < SeqWrap /\ b < SeqWrap
  BY <1>1 DEF SeqNumbers
<1>5. PICK n \in Int : n = a - b + Half
  BY <1>1, <1>4
<1>6. PICK x \in Int : x = i - j + Half
  BY <1>1
<1>7. x >= 0 /\ x < SeqWrap
  BY <1>1, <1>6
<1>8. p * SeqWrap + n = q * SeqWrap + x
  <2>1. PICK pw \in Int, qw \in Int : pw = p * SeqWrap /\ qw = q * SeqWrap
    BY <1>1
  <2>2. pw + a - (qw + b) = i - j
    BY <1>1, <1>2, <1>3, <1>4, <2>1
  <2>3. pw + n = qw + x
    BY <1>1, <1>4, <1>5, <1>6, <2>1, <2>2
  <2> QED BY <2>1, <2>3
<1>9. n - x < 2 * SeqWrap /\ x - n < 2 * SeqWrap
  BY <1>1, <1>4, <1>5, <1>7
<1>10. n = x \/ n = x + SeqWrap \/ x = n + SeqWrap
  <2>1. PICK k \in Int : k = q - p
    BY <1>2, <1>3
  <2>2. k * SeqWrap = n - x
    <3>1. p \in Int /\ q \in Int /\ n \in Int /\ x \in Int /\ SeqWrap \in Int
      BY <1>1, <1>2, <1>3, <1>5, <1>6
    <3>2. (q - p) * SeqWrap = q * SeqWrap - p * SeqWrap
      BY <3>1
    <3> QED BY <1>8, <2>1, <3>1, <3>2
  <2>3. PICK kw \in Int : kw = k * SeqWrap
    BY <1>1
  <2>4. kw < 2 * SeqWrap /\ -kw < 2 * SeqWrap
    BY <1>1, <1>9, <2>2, <2>3
  <2>5. k * SeqWrap < 2 * SeqWrap /\ -(k * SeqWrap) < 2 * SeqWrap /\ SeqWrap \in Nat \ {0}
    BY <1>1, <2>3, <2>4
  <2>6. k \in {-1, 0, 1}
    BY <2>5, TurnsApart
  <2> QED BY <1>1, <2>2, <2>6
<1>11. n % SeqWrap = x
  <2>1. CASE n = x
    BY <1>1, <1>7, <2>1, WrapIs DEF SeqNumbers
  <2>2. CASE n = x + SeqWrap
    BY <1>1, <1>7, <2>2, WrapIs
  <2>3. CASE x = n + SeqWrap
    BY <1>1, <1>7, <2>3, WrapIs
  <2> QED BY <1>10, <2>1, <2>2, <2>3
<1> QED BY <1>1, <1>2, <1>3, <1>5, <1>6, <1>11 DEF Delta
LEMMA RingIndex == ASSUME NEW n \in Nat PROVE n % JB_SLOTS \in 0..JB_SLOTS - 1
BY JbAssumption

\* A frame in its slot is the next one to play, ahead of the last one played.
LEMMA CursorIsAhead ==
  ASSUME JbInv, jb_last # Empty
  PROVE  Delta(jb_cursor, jb_last) = jb_consec_miss + 1
<1> DEFINE x == jb_cursor - jb_last + Half
<1>1. /\ Half \in Nat /\ Half * 2 <= SeqWrap /\ SeqWrap < Half * 2 + 2 /\ SeqWrap \in Nat \ {0}
      /\ JB_PLC_MAX \in Nat \ {0} /\ 2 * JB_PLC_MAX < SeqWrap
  BY JbAssumption DEF Half
<1>2. /\ jb_cursor \in Int /\ jb_last \in Int /\ jb_consec_miss \in 0..JB_PLC_MAX - 1
      /\ jb_cursor = jb_last + 1 + jb_consec_miss \/ jb_cursor = jb_last + 1 + jb_consec_miss - SeqWrap
  BY <1>1 DEF JbInv, SeqNumbers, Empty
<1>3. x % SeqWrap = jb_consec_miss + 1 + Half
  <2>1. CASE jb_cursor = jb_last + 1 + jb_consec_miss
    <3>1. x = jb_consec_miss + 1 + Half /\ x \in SeqNumbers
      BY <1>1, <1>2, <2>1 DEF SeqNumbers
    <3> QED BY <1>1, <1>2, <3>1, WrapIs
  <2>2. CASE jb_cursor = jb_last + 1 + jb_consec_miss - SeqWrap
    <3>1. x = jb_consec_miss + 1 + Half - SeqWrap /\ x \in -SeqWrap..-1
      BY <1>1, <1>2, <2>2
    <3> QED BY <1>1, <1>2, <3>1, WrapIs
  <2> QED BY <1>2, <2>1, <2>2
<1> QED BY <1>1, <1>2, <1>3 DEF Delta

LEMMA JbStep == ASSUME JbInv, JbNext PROVE JbInv'
<1> USE DEF JbInv
<1>0. /\ SeqWrap \in Nat \ {0} /\ JB_PLC_MAX \in Nat \ {0} /\ JB_SLOTS \in Nat \ {0} /\ FirstSeq \in Nat
      /\ 0 \in SeqNumbers /\ 0 \in 0..JB_PLC_MAX - 1 /\ Empty \notin SeqNumbers
  BY JbAssumption DEF SeqNumbers, Empty
<1>1. CASE audio_node_send_to
  <2>1. jb_sent' = jb_sent + 1 /\ jb_net' \subseteq jb_net \cup {jb_sent}
    BY <1>1 DEF audio_node_send_to
  <2>2. jb_sent' \in Nat /\ jb_net' \subseteq 0..jb_sent' - 1
    BY <2>1
  <2> QED BY <1>1, <2>2 DEF audio_node_send_to, jbRing
<1>2. CASE ReadPacket
  <2>1. PICK i \in jb_net : jb_insert(SeqAt(i)) /\ jb_net' = jb_net \ {i} /\ jb_sent' = jb_sent
    BY <1>2 DEF ReadPacket
  <2>2. PICK seq \in SeqNumbers : seq = SeqAt(i) /\ seq \in Nat /\ seq % JB_SLOTS \in 0..JB_SLOTS - 1
    <3>1. i \in Nat
      BY <2>1
    <3>2. SeqAt(i) \in SeqNumbers
      BY <3>1, SeqNumber
    <3>3. SeqAt(i) \in Nat
      BY <1>0, <3>2 DEF SeqNumbers
    <3>4. SeqAt(i) % JB_SLOTS \in 0..JB_SLOTS - 1
      BY <3>3, RingIndex, Zenon
    <3> QED BY <3>2, <3>3, <3>4, Zenon
  <2>3. CASE UNCHANGED jbRing
    BY <2>1, <2>3 DEF jbRing
  <2>4. CASE ~UNCHANGED jbRing
    <3>1. PICK restart \in BOOLEAN, old \in [0..JB_SLOTS - 1 -> SeqNumbers \cup {Empty}] :
             /\ jb_initialized' = TRUE /\ (~restart => jb_initialized)
             /\ jb_cursor' = (IF restart THEN seq ELSE jb_cursor)
             /\ jb_consec_miss' = (IF restart THEN 0 ELSE jb_consec_miss)
             /\ jb_last' = (IF restart THEN Empty ELSE jb_last)
             /\ jb_slot' = [old EXCEPT ![seq % JB_SLOTS] = seq]
      <4> DEFINE d == Delta(seq, jb_cursor)
                 r == ~jb_initialized \/ d > FarSeq \/ d < -FarSeq
                 o == IF jb_initialized /\ r THEN [k \in 0..JB_SLOTS - 1 |-> Empty] ELSE jb_slot
      <4>1. /\ jb_initialized' = TRUE
            /\ jb_cursor' = (IF r THEN seq ELSE jb_cursor)
            /\ jb_consec_miss' = (IF r THEN 0 ELSE jb_consec_miss)
            /\ jb_last' = (IF r THEN Empty ELSE jb_last)
            /\ jb_slot' = [o EXCEPT ![seq % JB_SLOTS] = seq]
        BY <2>1, <2>2, <2>4, Zenon DEF jb_insert
      <4>2. o \in [0..JB_SLOTS - 1 -> SeqNumbers \cup {Empty}]
        OBVIOUS
      <4>3. ~r => jb_initialized
        OBVIOUS
      <4>4. r \in BOOLEAN
        OBVIOUS
      <4> HIDE DEF r, o
      <4> QED BY <4>1, <4>2, <4>3, <4>4, Zenon
    <3>2. jb_slot' \in [0..JB_SLOTS - 1 -> SeqNumbers \cup {Empty}]
      BY <2>2, <3>1
    <3>3. CASE restart
      BY <1>0, <2>1, <2>2, <3>1, <3>2, <3>3
    <3>4. CASE ~restart
      BY <1>0, <2>1, <2>2, <3>1, <3>2, <3>4
    <3> QED BY <3>3, <3>4
  <2> QED BY <2>3, <2>4
<1>3. CASE jb_playout_tick
  <2>1. UNCHANGED <<jb_sent, jb_net>>
    BY <1>3 DEF jb_playout_tick
  <2>2. CASE Misses(Hit(jb_cursor)) >= JB_PLC_MAX
    BY <1>0, <1>3, <2>1, <2>2 DEF jb_playout_tick, jb_reset
  <2>3. CASE ~(Misses(Hit(jb_cursor)) >= JB_PLC_MAX)
    <3>1. /\ jb_slot' = (IF Hit(jb_cursor) THEN [jb_slot EXCEPT ![jb_cursor % JB_SLOTS] = Empty] ELSE jb_slot)
          /\ jb_last' = (IF Hit(jb_cursor) THEN jb_cursor ELSE jb_last)
          /\ jb_consec_miss' = (IF Hit(jb_cursor) THEN 0 ELSE jb_consec_miss + 1)
          /\ jb_cursor' = (jb_cursor + 1) % SeqWrap
          /\ jb_initialized /\ jb_initialized' = jb_initialized
      BY <1>3, <2>3 DEF jb_playout_tick, Misses, Hit, Due
    <3>2. jb_slot' \in [0..JB_SLOTS - 1 -> SeqNumbers \cup {Empty}]
      BY <3>1
    <3>3. jb_consec_miss' \in 0..JB_PLC_MAX - 1
      BY <1>0, <2>3, <3>1 DEF Misses
    <3>4. jb_cursor \in Nat /\ jb_cursor < SeqWrap /\ jb_cursor' \in SeqNumbers
          /\ (jb_cursor' = jb_cursor + 1 \/ jb_cursor' = jb_cursor + 1 - SeqWrap)
      <4>1. jb_cursor \in Nat /\ jb_cursor < SeqWrap
        BY <1>0 DEF SeqNumbers
      <4>2. CASE jb_cursor + 1 < SeqWrap
        <5>1. jb_cursor + 1 \in SeqNumbers
          BY <1>0, <4>1, <4>2 DEF SeqNumbers
        <5> QED BY <3>1, <4>1, <5>1, WrapIs
      <4>3. CASE jb_cursor + 1 = SeqWrap
        <5>1. PICK n \in Int : n = jb_cursor + 1
          BY <4>1
        <5>2. n \in SeqWrap..2 * SeqWrap - 1 /\ jb_cursor' = n % SeqWrap
          BY <1>0, <3>1, <4>1, <4>3, <5>1
        <5>3. n % SeqWrap = n - SeqWrap /\ n % SeqWrap \in SeqNumbers
          BY <5>2, WrapIs
        <5> QED BY <1>0, <4>1, <5>1, <5>2, <5>3
      <4> QED BY <1>0, <4>1, <4>2, <4>3
    <3>5. CASE Hit(jb_cursor)
      BY <1>0, <2>1, <3>1, <3>2, <3>3, <3>4, <3>5 DEF SeqNumbers
    <3>6. CASE ~Hit(jb_cursor)
      <4>1. jb_last' # Empty =>
               \/ jb_cursor' = jb_last' + 1 + jb_consec_miss'
               \/ jb_cursor' = jb_last' + 1 + jb_consec_miss' - SeqWrap
        <5>1. SUFFICES ASSUME jb_last # Empty
                       PROVE  \/ jb_cursor' = jb_last + 1 + (jb_consec_miss + 1)
                              \/ jb_cursor' = jb_last + 1 + (jb_consec_miss + 1) - SeqWrap
          BY <3>1, <3>6
        <5>2. jb_last \in Nat /\ jb_last < SeqWrap /\ jb_consec_miss \in Nat /\ jb_cursor' \in Nat /\ jb_cursor' < SeqWrap
              /\ jb_consec_miss < JB_PLC_MAX /\ 2 * JB_PLC_MAX < SeqWrap
          BY <1>0, <3>4, <5>1, JbAssumption DEF SeqNumbers
        <5> QED BY <1>0, <3>4, <5>1, <5>2
      <4> QED BY <1>0, <2>1, <3>1, <3>2, <3>3, <3>4, <3>6, <4>1
    <3> QED BY <3>5, <3>6
  <2> QED BY <2>2, <2>3
<1>4. CASE send_quality_report \/ ReadEnds \/ PlayEnds \/ LinkTail \/ JbMute \/ JbTime
  BY <1>4 DEF send_quality_report, ReadEnds, PlayEnds, LinkTail, JbMute, JbTime, jbRing
<1> QED BY <1>1, <1>2, <1>3, <1>4 DEF JbNext

\* What is heard of one stream comes in the order it was sent, for any ring,
\* limit of concealed frames and width of the sequence number that is more than
\* twice that limit (jb_insert, jb_playout_tick).
THEOREM FramesStayInOrder == JbSpec => JbInOrder
<1>1. JbInit => JbInv
  BY JbAssumption DEF JbInit, JbInv, SeqNumbers, Empty
<1>2. JbInv /\ [JbNext]_jbVars => JbInv'
  <2>1. CASE JbNext
    BY <2>1, JbStep
  <2>2. CASE UNCHANGED jbVars
    BY <2>2 DEF JbInv, jbVars, jbRing
  <2> QED BY <2>1, <2>2
<1>3. JbInv /\ [JbNext]_jbVars
      => [jb_last # Empty /\ jb_last' \notin {Empty, jb_last} => Delta(jb_last', jb_last) > 0]_jbVars
  <2> SUFFICES ASSUME JbInv, JbNext, jb_last # Empty, jb_last' \notin {Empty, jb_last}
               PROVE  Delta(jb_last', jb_last) > 0
    BY DEF jbVars, jbRing
  <2>1. jb_playout_tick
    <3>1. ASSUME NEW i \in jb_net, jb_insert(SeqAt(i)) PROVE jb_last' \in {Empty, jb_last}
      BY <3>1 DEF jb_insert, jbRing
    <3> QED BY <3>1 DEF JbNext, audio_node_send_to, send_quality_report, ReadPacket, ReadEnds, PlayEnds, LinkTail, JbMute, JbTime, jbRing
  <2>2. jb_last' = jb_cursor
    BY <2>1 DEF jb_playout_tick, jb_reset, Hit
  <2>3. Delta(jb_last', jb_last) = jb_consec_miss + 1 /\ jb_consec_miss \in Nat
    BY <2>2, CursorIsAhead, JbAssumption DEF JbInv
  <2> QED BY <2>3
<1> QED BY <1>1, <1>2, <1>3, PTL DEF JbSpec, JbInOrder

\* Since nothing is counted that is still to come, what is lost or read, and
\* what is on its way or read, is among the packets up to the newest one read.
UptoNewest == {j \in jb_net : j <= jb_read.newest}
LossInv ==
    /\ jb_quality \in [have : BOOLEAN, last : SeqNumbers \cup {0}, lost : Nat, received : Nat]
    /\ jb_read \in [count : Nat, newest : Nat, stale : BOOLEAN]
    /\ ~jb_quality.have => jb_quality.lost = 0 /\ jb_read.count = 0
    /\ jb_quality.have /\ ~jb_read.stale =>
          /\ jb_quality.last = SeqAt(jb_read.newest)
          /\ jb_read.newest < jb_sent /\ jb_read.newest \notin jb_net
          /\ jb_quality.lost + jb_read.count <= jb_read.newest + 1
          /\ Cardinality(UptoNewest) + jb_read.count <= jb_read.newest + 1

\* The gap up to a packet just read, when it is a new one and when it is late.
LEMMA NewPacket ==
  ASSUME NEW S, IsFiniteSet(S), S \subseteq Nat, NEW i \in S, NEW m \in Nat, m < i
  PROVE  /\ Cardinality({j \in S : j <= m}) \in Nat
         /\ Cardinality({j \in S \ {i} : j <= i}) <= Cardinality({j \in S : j <= m}) + (i - m - 1)
<1> DEFINE T == {j \in S : j <= m}
           U == {j \in S \ {i} : j <= i}
           V == m + 1..i - 1
<1>1. i \in Nat /\ m + 1 \in Int /\ i - 1 \in Int
  OBVIOUS
<1>2. IsFiniteSet(T) /\ Cardinality(T) \in Nat
  <2>1. T \in SUBSET S
    OBVIOUS
  <2> HIDE DEF T
  <2>2. IsFiniteSet(T)
    BY <2>1, FS_Subset, Zenon
  <2> QED BY <2>2, FS_CardinalityType, Zenon
<1>3. IsFiniteSet(V) /\ Cardinality(V) = i - m - 1
  <2>1. IsFiniteSet(V) /\ Cardinality(V) = (IF m + 1 > i - 1 THEN 0 ELSE (i - 1) - (m + 1) + 1)
    BY <1>1, FS_Interval, Zenon
  <2> HIDE DEF V
  <2> QED BY <1>1, <2>1
<1>4. U \in SUBSET (T \cup V)
  <2>1. ASSUME NEW j \in S \ {i}, j <= i, ~(j <= m) PROVE j \in V
    BY <1>1, <2>1
  <2> HIDE DEF V
  <2> QED BY <2>1
<1> HIDE DEF T, U, V
<1>5. IsFiniteSet(T \cup V) /\ Cardinality(T \cup V) = Cardinality(T) + Cardinality(V) - Cardinality(T \cap V)
  BY <1>2, <1>3, FS_Union, Zenon
<1>6. Cardinality(T \cap V) \in Nat
  <2>1. T \cap V \in SUBSET T
    OBVIOUS
  <2>2. IsFiniteSet(T \cap V)
    BY <1>2, <2>1, FS_Subset, Zenon
  <2> QED BY <2>2, FS_CardinalityType, Zenon
<1>7. Cardinality(U) <= Cardinality(T \cup V)
  BY <1>4, <1>5, FS_Subset, Zenon
<1>8. Cardinality(U) \in Nat
  <2>1. IsFiniteSet(U)
    BY <1>4, <1>5, FS_Subset, Zenon
  <2> QED BY <2>1, FS_CardinalityType, Zenon
<1>9. Cardinality(U) <= Cardinality(T) + (i - m - 1)
  BY <1>1, <1>2, <1>3, <1>5, <1>6, <1>7, <1>8
<1> QED BY <1>2, <1>9 DEF T, U

LEMMA FirstPacket ==
  ASSUME NEW S, NEW i \in Nat, S \subseteq Nat
  PROVE  Cardinality({j \in S \ {i} : j <= i}) <= i
<1> DEFINE U == {j \in S \ {i} : j <= i}
<1>1. U \in SUBSET (0..i - 1)
  <2>1. ASSUME NEW j \in S \ {i}, j <= i PROVE j \in 0..i - 1
    BY <2>1
  <2> QED BY <2>1
<1>2. 0 \in Int /\ i - 1 \in Int
  OBVIOUS
<1>3. IsFiniteSet(0..i - 1) /\ Cardinality(0..i - 1) = (IF 0 > i - 1 THEN 0 ELSE (i - 1) - 0 + 1)
  BY <1>2, FS_Interval, Zenon
<1> HIDE DEF U
<1>4. Cardinality(U) <= Cardinality(0..i - 1)
  BY <1>1, <1>3, FS_Subset, Zenon
<1>5. Cardinality(0..i - 1) = i
  BY <1>3
<1> QED BY <1>4, <1>5 DEF U

LEMMA LatePacket ==
  ASSUME NEW S, IsFiniteSet(S), S \subseteq Nat, NEW i \in S, NEW m \in Nat, i <= m
  PROVE  /\ Cardinality({j \in S : j <= m}) \in Nat \ {0}
         /\ Cardinality({j \in S \ {i} : j <= m}) = Cardinality({j \in S : j <= m}) - 1
<1> DEFINE T == {j \in S : j <= m}
           U == {j \in S \ {i} : j <= m}
<1>1. U = T \ {i} /\ i \in T /\ T \in SUBSET S
  OBVIOUS
<1> HIDE DEF T, U
<1>2. IsFiniteSet(T)
  BY <1>1, FS_Subset, Zenon
<1>3. Cardinality(T \ {i}) = Cardinality(T) - 1 /\ IsFiniteSet(T \ {i})
  BY <1>1, <1>2, FS_RemoveElement, Zenon
<1>4. Cardinality(T) \in Nat /\ Cardinality(T \ {i}) \in Nat
  BY <1>2, <1>3, FS_CardinalityType, Zenon
<1>5. Cardinality(T) \in Nat \ {0} /\ Cardinality(U) = Cardinality(T) - 1
  BY <1>1, <1>3, <1>4
<1> QED BY <1>5 DEF T, U

\* What one packet does to the count, in the order the code decides it.
LEMMA PacketIsCounted ==
  ASSUME JbInv, LossInv, NEW i \in jb_net, quality_track_seq(SeqAt(i)), Reads1(i),
         jb_net' = jb_net \ {i}, jb_sent' = jb_sent
  PROVE  LossInv'
<1> DEFINE d == Delta(SeqAt(i), jb_quality.last)
<1>0. /\ SeqWrap \in Nat \ {0} /\ Half \in Nat /\ FarSeq \in Nat
      /\ i \in Nat /\ i < jb_sent /\ SeqAt(i) \in SeqNumbers /\ jb_sent \in Nat /\ jb_net \subseteq Nat
  <2>1. i \in Nat /\ i < jb_sent /\ jb_sent \in Nat /\ jb_net \subseteq Nat
    BY DEF JbInv
  <2> QED BY <2>1, SeqNumber, JbAssumption DEF Half
<1>1. d \in Int
  <2>1. PICK b \in Int, c \in Int : b = SeqAt(i) /\ c = jb_quality.last
    BY <1>0 DEF LossInv, SeqNumbers
  <2>2. PICK n \in Int : n = b - c + Half
    BY <1>0
  <2>3. n % SeqWrap \in Int
    BY <2>2, WrapIs DEF SeqNumbers
  <2> QED BY <1>0, <2>1, <2>2, <2>3 DEF Delta
<1>2. /\ jb_quality.have \in BOOLEAN /\ jb_quality.lost \in Nat /\ jb_quality.received \in Nat
      /\ jb_read.count \in Nat /\ jb_read.newest \in Nat /\ jb_read.stale \in BOOLEAN
  BY DEF LossInv
<1>3. /\ jb_read'.count = jb_read.count + 1
      /\ jb_read'.newest = (IF jb_quality.have /\ i < jb_read.newest THEN jb_read.newest ELSE i)
      /\ jb_read'.stale = (jb_read.stale \/ (jb_quality.have /\ i - jb_read.newest \notin 1 - FarSeq..Half - 1))
      /\ jb_read' \in [count : Nat, newest : Nat, stale : BOOLEAN]
  BY <1>0, <1>2 DEF Reads1
<1>4. /\ jb_quality' \in [have : BOOLEAN, last : SeqNumbers \cup {0}, lost : Nat, received : Nat]
      /\ jb_quality'.have
  <2>1. CASE ~jb_quality.have
    BY <1>0, <1>2, <2>1 DEF quality_track_seq
  <2>2. CASE jb_quality.have /\ d = 0
    BY <2>2 DEF quality_track_seq, LossInv
  <2>3. CASE jb_quality.have /\ d # 0
    <3> HIDE DEF d
    <3>1. jb_quality' = [jb_quality EXCEPT
               !.last = IF d > 0 THEN SeqAt(i) ELSE @,
               !.lost = IF d > 0 /\ d < FarSeq THEN @ + (d - 1)
                        ELSE IF d < 0 /\ d > -FarSeq /\ @ > 0 THEN @ - 1 ELSE @,
               !.received = @ + 1]
      BY <2>3 DEF quality_track_seq, d
    <3>2. PICK last \in SeqNumbers \cup {0} : last = (IF d > 0 THEN SeqAt(i) ELSE jb_quality.last)
      BY <1>0 DEF LossInv
    <3>3. PICK lost \in Nat : lost = (IF d > 0 /\ d < FarSeq THEN jb_quality.lost + (d - 1)
                                     ELSE IF d < 0 /\ d > -FarSeq /\ jb_quality.lost > 0
                                          THEN jb_quality.lost - 1 ELSE jb_quality.lost)
      BY <1>0, <1>1, <1>2
    <3>4. jb_quality' = [jb_quality EXCEPT !.last = last, !.lost = lost, !.received = @ + 1]
      BY <3>1, <3>2, <3>3 DEF LossInv
    <3>5. PICK got \in Nat : got = jb_quality.received + 1
      BY <1>2
    <3>6. jb_quality' = [jb_quality EXCEPT !.last = last, !.lost = lost, !.received = got]
      BY <3>4, <3>5
    <3>7. /\ jb_quality \in [have : BOOLEAN, last : SeqNumbers \cup {0}, lost : Nat, received : Nat]
          /\ jb_quality.have
      BY <2>3 DEF LossInv
    <3> QED BY <3>6, <3>7
  <2> QED BY <1>2, <2>1, <2>2, <2>3
<1>5. ASSUME ~jb_read'.stale
      PROVE  /\ jb_quality'.last = SeqAt(jb_read'.newest)
             /\ jb_read'.newest < jb_sent /\ jb_read'.newest \notin jb_net'
             /\ jb_quality'.lost + jb_read'.count <= jb_read'.newest + 1
             /\ Cardinality(UptoNewest') + jb_read'.count <= jb_read'.newest + 1
  <2>0. IsFiniteSet(jb_net)
    <3>1. 0 \in Int /\ jb_sent - 1 \in Int /\ jb_net \in SUBSET (0..jb_sent - 1)
      BY <1>0 DEF JbInv
    <3>2. IsFiniteSet(0..jb_sent - 1)
      BY <3>1, FS_Interval, Zenon
    <3> QED BY <3>1, <3>2, FS_Subset, Zenon
  <2>1. CASE ~jb_quality.have
    <3>1. /\ jb_quality'.last = SeqAt(i) /\ jb_quality'.lost = 0 /\ jb_read'.count = 1
          /\ jb_read'.newest = i /\ i \notin jb_net'
      BY <1>2, <1>3, <2>1 DEF quality_track_seq, LossInv
    <3>2. UptoNewest' = {j \in jb_net \ {i} : j <= i}
      BY <3>1 DEF UptoNewest
    <3>3. Cardinality(UptoNewest') <= i
      BY <1>0, <3>2, FirstPacket
    <3>4. Cardinality(UptoNewest') \in Nat
      <4>1. UptoNewest' \in SUBSET jb_net
        BY <3>2
      <4>2. IsFiniteSet(UptoNewest')
        BY <2>0, <4>1, FS_Subset, Zenon
      <4> QED BY <4>2, FS_CardinalityType, Zenon
    <3> QED BY <1>0, <3>1, <3>3, <3>4
  <2>2. CASE jb_quality.have
    <3>1. /\ ~jb_read.stale /\ i - jb_read.newest \in 1 - FarSeq..Half - 1
          /\ jb_quality.last = SeqAt(jb_read.newest)
          /\ jb_read.newest < jb_sent /\ jb_read.newest \notin jb_net
          /\ jb_quality.lost + jb_read.count <= jb_read.newest + 1
          /\ Cardinality(UptoNewest) + jb_read.count <= jb_read.newest + 1
      BY <1>2, <1>3, <1>5, <2>2 DEF LossInv
    <3>2. d = i - jb_read.newest /\ d # 0
      BY <1>0, <1>2, <3>1, DeltaIs
    <3>3. jb_quality' = [jb_quality EXCEPT
               !.last = IF d > 0 THEN SeqAt(i) ELSE @,
               !.lost = IF d > 0 /\ d < FarSeq THEN @ + (d - 1)
                        ELSE IF d < 0 /\ d > -FarSeq /\ @ > 0 THEN @ - 1 ELSE @,
               !.received = @ + 1]
      BY <2>2, <3>2 DEF quality_track_seq
    <3> HIDE DEF d
    <3>4. /\ jb_quality'.last = (IF d > 0 THEN SeqAt(i) ELSE jb_quality.last)
          /\ jb_quality'.lost = (IF d > 0 /\ d < FarSeq THEN jb_quality.lost + (d - 1)
                                 ELSE IF d < 0 /\ d > -FarSeq /\ jb_quality.lost > 0
                                      THEN jb_quality.lost - 1 ELSE jb_quality.lost)
      BY <3>3 DEF LossInv
    <3>5. CASE d > 0
      <4>1. jb_read.newest < i /\ jb_read'.newest = i /\ i \notin jb_net'
        BY <1>0, <1>2, <1>3, <3>2, <3>5
      <4>2. UptoNewest' = {j \in jb_net \ {i} : j <= i}
        BY <4>1 DEF UptoNewest
      <4>3. /\ Cardinality(UptoNewest) \in Nat
            /\ Cardinality(UptoNewest') <= Cardinality(UptoNewest) + (i - jb_read.newest - 1)
        <5>1. i \in jb_net /\ jb_net \subseteq Nat /\ jb_read.newest \in Nat /\ jb_read.newest < i
          BY <1>0, <1>2, <4>1
        <5>2. /\ Cardinality({j \in jb_net : j <= jb_read.newest}) \in Nat
              /\ Cardinality({j \in jb_net \ {i} : j <= i})
                   <= Cardinality({j \in jb_net : j <= jb_read.newest}) + (i - jb_read.newest - 1)
          BY <2>0, <5>1, NewPacket, Zenon
        <5> QED BY <4>2, <5>2, Zenon DEF UptoNewest
      <4>4. Cardinality(UptoNewest') \in Nat
        <5>1. UptoNewest' \in SUBSET jb_net
          BY <4>2
        <5>2. IsFiniteSet(UptoNewest')
          BY <2>0, <5>1, FS_Subset, Zenon
        <5> QED BY <5>2, FS_CardinalityType, Zenon
      <4>5. Cardinality(UptoNewest') + jb_read'.count <= i + 1
        BY <1>0, <1>2, <1>3, <3>1, <4>1, <4>3, <4>4
      <4>6. jb_quality'.lost + jb_read'.count <= i + 1
        BY <1>0, <1>2, <1>3, <3>1, <3>2, <3>4, <3>5
      <4> QED BY <1>0, <3>4, <3>5, <4>1, <4>5, <4>6
    <3>6. CASE d < 0
      <4>1. i < jb_read.newest /\ jb_read'.newest = jb_read.newest /\ d > -FarSeq
        BY <1>0, <1>2, <1>3, <2>2, <3>1, <3>2, <3>6
      <4>2. UptoNewest' = {j \in jb_net \ {i} : j <= jb_read.newest}
        BY <4>1 DEF UptoNewest
      <4>3. /\ Cardinality(UptoNewest) \in Nat \ {0}
            /\ Cardinality(UptoNewest') = Cardinality(UptoNewest) - 1
        <5>1. i \in jb_net /\ jb_net \subseteq Nat /\ jb_read.newest \in Nat /\ i <= jb_read.newest
          BY <1>0, <1>2, <4>1
        <5>2. /\ Cardinality({j \in jb_net : j <= jb_read.newest}) \in Nat \ {0}
              /\ Cardinality({j \in jb_net \ {i} : j <= jb_read.newest})
                   = Cardinality({j \in jb_net : j <= jb_read.newest}) - 1
          BY <2>0, <5>1, LatePacket, Zenon
        <5> QED BY <4>2, <5>2, Zenon DEF UptoNewest
      <4>4. Cardinality(UptoNewest') + jb_read'.count <= jb_read.newest + 1
        BY <1>2, <1>3, <3>1, <4>3
      <4>5. jb_quality'.lost + jb_read'.count <= jb_read.newest + 1
        <5>1. CASE jb_quality.lost > 0
          <6>1. jb_quality'.lost = jb_quality.lost - 1
            BY <1>0, <1>1, <3>4, <3>6, <4>1, <5>1
          <6> QED BY <1>2, <1>3, <3>1, <6>1
        <5>2. CASE jb_quality.lost = 0
          <6>1. jb_quality'.lost = 0
            BY <1>0, <1>1, <3>4, <3>6, <5>2
          <6> QED BY <1>2, <1>3, <3>1, <4>3, <6>1
        <5> QED BY <1>2, <5>1, <5>2
      <4>6. jb_quality'.last = SeqAt(jb_read'.newest)
        BY <1>1, <3>1, <3>4, <3>6, <4>1
      <4>7. jb_read'.newest < jb_sent /\ jb_read'.newest \notin jb_net'
        BY <3>1, <4>1
      <4> QED BY <4>1, <4>4, <4>5, <4>6, <4>7
    <3> QED BY <1>1, <3>2, <3>5, <3>6 DEF d
  <2> QED BY <1>2, <2>1, <2>2
<1> QED BY <1>3, <1>4, <1>5 DEF LossInv

LEMMA LossStep == ASSUME JbInv, LossInv, JbNext PROVE LossInv'
<1>1. CASE audio_node_send_to
  <2>1. /\ jb_sent \in Nat /\ jb_sent' = jb_sent + 1 /\ UNCHANGED <<jb_quality, jb_read>>
        /\ jb_net' = jb_net \cup {jb_sent} \/ jb_net' = jb_net
    BY <1>1 DEF audio_node_send_to, JbInv
  <2>2. CASE jb_quality.have /\ ~jb_read.stale
    <3>1. jb_read.newest \in Nat /\ jb_read.newest < jb_sent /\ jb_read.newest \notin jb_net
      BY <2>2 DEF LossInv
    <3>2. jb_read'.newest < jb_sent' /\ jb_read'.newest \notin jb_net'
      BY <2>1, <3>1
    <3>3. UptoNewest' = UptoNewest
      BY <2>1, <3>1 DEF UptoNewest
    <3> QED BY <2>1, <3>2, <3>3 DEF LossInv
  <2>3. CASE ~(jb_quality.have /\ ~jb_read.stale)
    BY <2>1, <2>3 DEF LossInv
  <2> QED BY <2>2, <2>3
<1>2. CASE send_quality_report
  <2>1. UNCHANGED <<jb_sent, jb_net, jb_read>> /\ UptoNewest' = UptoNewest
    BY <1>2 DEF send_quality_report, UptoNewest
  <2>2. /\ jb_quality' \in [have : BOOLEAN, last : SeqNumbers \cup {0}, lost : Nat, received : Nat]
        /\ jb_quality'.have = jb_quality.have /\ jb_quality'.last = jb_quality.last
        /\ jb_quality'.lost = 0
    BY <1>2 DEF send_quality_report, LossInv
  <2>3. jb_quality.lost \in Nat /\ jb_read.count \in Nat /\ jb_read.newest \in Nat
    BY DEF LossInv
  <2> QED BY <2>1, <2>2, <2>3 DEF LossInv
<1>3. CASE ReadPacket
  BY <1>3, PacketIsCounted DEF ReadPacket
<1>4. CASE \/ ReadEnds \/ jb_playout_tick \/ PlayEnds \/ LinkTail \/ JbMute \/ JbTime
  BY <1>4 DEF ReadEnds, jb_playout_tick, PlayEnds, LinkTail, JbMute, JbTime, LossInv, UptoNewest
<1> QED BY <1>1, <1>2, <1>3, <1>4 DEF JbNext

\* A quality report never counts more packets lost than were sent and not read,
\* whatever is lost, reordered or wrapped, while none is read further behind
\* than the credit for late packets reaches (quality_track_seq).
THEOREM LossIsNeverInvented == JbSpec => []JbLossIsReal
<1>1. JbInit => JbInv /\ LossInv
  BY JbAssumption DEF JbInit, JbInv, LossInv, SeqNumbers, Empty
<1>2. JbInv /\ LossInv /\ [JbNext]_jbVars => (JbInv /\ LossInv)'
  <2>1. CASE JbNext
    BY <2>1, JbStep, LossStep
  <2>2. CASE UNCHANGED jbVars
    BY <2>2 DEF JbInv, LossInv, UptoNewest, jbVars, jbRing
  <2> QED BY <2>1, <2>2
<1>3. JbInv /\ LossInv => JbLossIsReal
  BY DEF JbInv, LossInv, JbLossIsReal
<1> QED BY <1>1, <1>2, <1>3, PTL DEF JbSpec

(* ------------------------------- Modules ----------------------------- *)

\* A behaviour of the thirteen parts is one of each of them, since those that
\* are not in focus rest: what is proved of a part holds there too.
THEOREM EveryPartRuns ==
  Spec => /\ JbSpec /\ AccSpec /\ RecSpec /\ AnnSpec /\ MailSpec /\ FsSpec /\ GwSpec
          /\ SpSpec /\ RtSpec /\ FeedSpec /\ SockSpec /\ WebSpec
<1>1. Init => /\ JbInit /\ AccInit /\ RecInit /\ AnnInit /\ MailInit /\ FsInit /\ GwInit
              /\ SpInit /\ RtInit /\ FeedInit /\ SockInit /\ WebInit
  BY DEF Init
<1>2. [Next]_vars => /\ [JbNext]_jbVars /\ [AccNext]_accVars /\ [RecNext]_recVars /\ [AnnNext]_annVars
                     /\ [MailNext]_mailVars /\ [FsNext]_fsVars /\ [GwNext]_gwVars
                     /\ [SpNext]_spVars /\ [RtNext]_rtVars /\ [FeedNext]_feedVars
                     /\ [SockNext]_sockVars /\ [WebNext]_webVars
  BY DEF Next, vars
<1> QED BY <1>1, <1>2, PTL DEF Spec, JbSpec, AccSpec, RecSpec, AnnSpec, MailSpec, FsSpec, GwSpec,
                          SpSpec, RtSpec, FeedSpec, SockSpec, WebSpec

\* So the run's own specification keeps what the services promise.
THEOREM ServicesKeepTheirPromises ==
  Spec => [](CallsAreLive /\ NewsIsToldOnce /\ AnswersDoNotPile /\ StreamsAreServed /\ LinesAreWhole
             /\ JbLossIsReal)
BY EveryPartRuns, CallsAreAlwaysLive, NewsIsAlwaysToldOnce, AnswersNeverPile, ServedForEver,
   EveryLineIsWhole, LossIsNeverInvented, PTL
=============================================================================
