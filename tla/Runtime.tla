------------------------------ MODULE Runtime ------------------------------
(***************************************************************************)
(* kerchunk_modules, kerchunk_events, kerchunk_sched and the audio taps of *)
(* kerchunk_core: shared objects are loaded and unloaded while their       *)
(* handlers are called.  Every list of handlers is copied under a lock and *)
(* called after it, so an unload on another thread (the console, the web   *)
(* server and the assistant run commands too) may overtake a call that was *)
(* copied before; on one thread it must not.                               *)
(***************************************************************************)
EXTENDS Naturals, Sequences, FiniteSets, SequencesExt

CONSTANTS RtModules, RtEvents,
          KERCHUNK_MAX_MODULES, KERCHEVT_MAX_SUBS, KERCHEVT_MAX_DEPTH, MAX_TAPS, MAX_SCHEDULES,
          MaxRtInputs              \* bound: events, commands, ticks, registrations

ASSUME RtAssumption ==
    /\ IsFiniteSet(RtModules) /\ "none" \notin RtModules
    /\ KERCHEVT_MAX_DEPTH \in Nat /\ MAX_SCHEDULES \in Nat

VARIABLES g_modules,     \* the table: [name, loaded]
          handles,       \* references of dlopen to each object
          rt_pc,         \* the load or unload a thread is in
          subs,          \* whose handlers each event has, in the order of the calls
          g_taps,
          g_schedules,   \* the slots of the table
          frames,        \* what each thread is calling, innermost last
          overlapped,    \* history: modules unloaded while another thread was to call them,
                         \* or while two threads were in commands of modules
          rt_inputs

rtVars == <<g_modules, handles, rt_pc, subs, g_taps, g_schedules, frames, overlapped, rt_inputs>>
rtListVars == <<subs, g_taps, g_schedules>>
tableVars == <<g_modules, handles, rt_pc, overlapped>>

RtThreads == {"main", "console", "audio"}
Nobody == "none"
RtNoCommand == [do |-> "none", m |-> Nobody, slot |-> 0]
NoSchedule == [m |-> Nobody, repeat |-> FALSE]
Order == SetToSeq(RtModules)

RtInit ==
    /\ g_modules = [i \in 1..Len(Order) |-> [name |-> Order[i], loaded |-> TRUE]]
    /\ handles = [m \in RtModules |-> 1]
    /\ rt_pc = [t \in RtThreads |-> RtNoCommand]
    /\ subs = [e \in RtEvents |-> Order]
    /\ g_taps = <<>> /\ g_schedules = [i \in 1..MAX_SCHEDULES |-> NoSchedule]
    /\ frames = [t \in RtThreads |-> <<>>]
    /\ overlapped = {} /\ rt_inputs = 0

RtInput == rt_inputs < MaxRtInputs /\ rt_inputs' = rt_inputs + 1
Free(t) == frames[t] = <<>> /\ rt_pc[t] = RtNoCommand

(* -------------------------------- events -------------------------------- *)

Has(list, m) == \E i \in DOMAIN list : list[i] = m

\* The first entry of the module is taken out and those after it move up.
Without(list, m) ==
    IF ~Has(list, m) THEN list
    ELSE LET i == CHOOSE k \in DOMAIN list : list[k] = m /\ \A j \in DOMAIN list : j < k => list[j] # m
         IN [j \in 1..Len(list) - 1 |-> IF j < i THEN list[j] ELSE list[j + 1]]

\* A second subscription and one more than the list holds change nothing.
kerchevt_subscribe(list, m) ==
    IF Has(list, m) \/ Len(list) >= KERCHEVT_MAX_SUBS THEN list ELSE Append(list, m)

(* Mutant: the count is lowered and the entries are not moved up.           *)
kerchevt_unsubscribe_NoShift(list, m) == IF Has(list, m) THEN Front(list) ELSE list

kerchevt_unsubscribe(list, m) == Without(list, m)

\* The copy a thread is going to call, and the call it is in.
Frame(kind, list) == [kind |-> kind, rest |-> list, now |-> Nobody]
PushFrame(t, frame) == frames' = [frames EXCEPT ![t] = Append(@, frame)]
Depth(t) == Cardinality({i \in DOMAIN frames[t] : frames[t][i].kind = "event"})

\* The seventeenth nested event of a thread is dropped to break the cycle.
kerchevt_fire(t, e) ==
    IF Depth(t) >= KERCHEVT_MAX_DEPTH THEN UNCHANGED frames ELSE PushFrame(t, Frame("event", subs[e]))

Fires == \E t \in RtThreads, e \in RtEvents :
    /\ Free(t) /\ RtInput /\ kerchevt_fire(t, e) /\ UNCHANGED <<tableVars, rtListVars>>

(* ------------------------- taps and schedules --------------------------- *)

\* The audio thread gives every frame of sound to a copy of the taps.
dispatch_taps ==
    /\ Free("audio") /\ RtInput /\ g_taps # <<>> /\ PushFrame("audio", Frame("tap", g_taps))
    /\ UNCHANGED <<tableVars, rtListVars>>

\* The due entries are copied, slot by slot; those that do not repeat leave
\* the table.
kerchunk_sched_tick == \E n \in 1..MAX_SCHEDULES : \E due \in [1..n -> DOMAIN g_schedules] :
    /\ Free("main") /\ RtInput
    /\ \A i \in 1..n : g_schedules[due[i]].m # Nobody /\ \A j \in 1..i - 1 : due[j] < due[i]
    /\ PushFrame("main", Frame("sched", [i \in 1..n |-> g_schedules[due[i]].m]))
    /\ g_schedules' = [s \in DOMAIN g_schedules |->
                          IF g_schedules[s].repeat \/ \A i \in 1..n : due[i] # s
                          THEN g_schedules[s] ELSE NoSchedule]
    /\ UNCHANGED <<tableVars, subs, g_taps>>

audio_tap_register(m) ==
    g_taps' = IF Len(g_taps) < MAX_TAPS THEN Append(g_taps, m) ELSE g_taps

FirstSlot(S) == CHOOSE i \in S : \A j \in S : i <= j
Scheduled(m) == \E i \in DOMAIN g_schedules : g_schedules[i].m = m

kerchunk_sched(m, repeat) ==
    LET free == {i \in DOMAIN g_schedules : g_schedules[i] = NoSchedule}
    IN g_schedules' = IF free = {} THEN g_schedules
                      ELSE [g_schedules EXCEPT ![FirstSlot(free)] = [m |-> m, repeat |-> repeat]]
kerchunk_sched_cancel(m) ==
    g_schedules' = [i \in DOMAIN g_schedules |->
                      IF g_schedules[i].m = m THEN NoSchedule ELSE g_schedules[i]]

(* -------------------------------- calls --------------------------------- *)

Top(t) == Last(frames[t])
SetTop(t, f) == frames' = [frames EXCEPT ![t][Len(frames[t])] = f]

Calls == \E t \in RtThreads :
    /\ frames[t] # <<>> /\ Top(t).now = Nobody /\ Top(t).rest # <<>>
    /\ SetTop(t, [Top(t) EXCEPT !.now = Head(Top(t).rest), !.rest = Tail(@)])
    /\ UNCHANGED <<tableVars, rtListVars, rt_inputs>>

Returns == \E t \in RtThreads :
    /\ frames[t] # <<>> /\ Top(t).now # Nobody
    /\ SetTop(t, [Top(t) EXCEPT !.now = Nobody])
    /\ UNCHANGED <<tableVars, rtListVars, rt_inputs>>

Ends == \E t \in RtThreads :
    /\ frames[t] # <<>> /\ Top(t).now = Nobody /\ Top(t).rest = <<>>
    /\ frames' = [frames EXCEPT ![t] = Front(@)]
    /\ UNCHANGED <<tableVars, rtListVars, rt_inputs>>

\* A handler fires an event, taps the audio at the start of a recording and
\* lets go at its end, asks to be called later.
HandlerActs == \E t \in RtThreads :
    /\ frames[t] # <<>> /\ Top(t).now # Nobody /\ Top(t).kind # "tap" /\ RtInput
    /\ LET m == Top(t).now IN
       \/ \E e \in RtEvents : kerchevt_fire(t, e) /\ UNCHANGED rtListVars
       \/ ~Has(g_taps, m) /\ audio_tap_register(m) /\ UNCHANGED <<frames, subs, g_schedules>>
       \/ Has(g_taps, m) /\ g_taps' = Without(g_taps, m) /\ UNCHANGED <<frames, subs, g_schedules>>
       \/ \E r \in BOOLEAN : /\ ~Scheduled(m) /\ kerchunk_sched(m, r)
                             /\ UNCHANGED <<frames, subs, g_taps>>
    /\ UNCHANGED tableVars

(* --------------------------- loading, unloading ------------------------- *)

Loaded(m) == {i \in DOMAIN g_modules : g_modules[i].name = m /\ g_modules[i].loaded}
FreeSlots == {i \in DOMAIN g_modules : ~g_modules[i].loaded}
RtCommands(t) == t \in {"main", "console"} /\ Free(t) /\ RtInput
Command(t, do, m, slot) == rt_pc' = [rt_pc EXCEPT ![t] = [do |-> do, m |-> m, slot |-> slot]]

Calling(t, m) == \E i \in DOMAIN frames[t] : frames[t][i].now = m \/ Has(frames[t][i].rest, m)

Overlaps(t, called) ==
    overlapped' = IF \E o \in RtThreads \ {t} : rt_pc[o] # RtNoCommand THEN RtModules ELSE overlapped \cup called

\* Not loaded yet, the object is opened and a place found, without a lock.
LoadBegins(t, m) ==
    /\ Loaded(m) = {} /\ handles' = [handles EXCEPT ![m] = @ + 1]
    /\ \/ FreeSlots # {} /\ Command(t, "load", m, FirstSlot(FreeSlots)) /\ UNCHANGED g_modules
       \/ /\ FreeSlots = {} /\ Len(g_modules) < KERCHUNK_MAX_MODULES
          /\ g_modules' = Append(g_modules, [name |-> Nobody, loaded |-> FALSE])
          /\ Command(t, "load", m, Len(g_modules) + 1)

kerchunk_module_load == \E t \in RtThreads, m \in RtModules :
    /\ RtCommands(t) /\ LoadBegins(t, m) /\ Overlaps(t, {})
    /\ UNCHANGED <<rtListVars, frames>>

\* load() subscribes, then the place is filled, whoever filled it meanwhile.
ModuleLoaded == \E t \in RtThreads :
    /\ rt_pc[t].do = "load"
    /\ subs' = [e \in RtEvents |-> kerchevt_subscribe(subs[e], rt_pc[t].m)]
    /\ g_modules' = [g_modules EXCEPT ![rt_pc[t].slot] = [name |-> rt_pc[t].m, loaded |-> TRUE]]
    /\ rt_pc' = [rt_pc EXCEPT ![t] = RtNoCommand]
    /\ UNCHANGED <<handles, g_taps, g_schedules, frames, overlapped, rt_inputs>>

\* unload() takes back everything the module registered; a reload goes on to load it.
kerchunk_module_unload == \E t \in RtThreads, m \in RtModules, then \in {"unload", "reload"} :
    /\ RtCommands(t) /\ Loaded(m) # {} /\ Command(t, then, m, FirstSlot(Loaded(m)))
    /\ subs' = [e \in RtEvents |-> kerchevt_unsubscribe(subs[e], m)]
    /\ g_taps' = Without(g_taps, m) /\ kerchunk_sched_cancel(m)
    /\ Overlaps(t, IF \E o \in RtThreads : Calling(o, m) THEN {m} ELSE {})
    /\ UNCHANGED <<g_modules, handles, frames>>

dlclose(m) == IF handles[m] > 0 THEN handles[m] - 1 ELSE 0

ModuleClosed == \E t \in RtThreads :
    /\ rt_pc[t].do \in {"unload", "reload"}
    /\ handles' = [handles EXCEPT ![rt_pc[t].m] = dlclose(rt_pc[t].m)]
    /\ g_modules' = [g_modules EXCEPT ![rt_pc[t].slot].loaded = FALSE]
    /\ IF rt_pc[t].do = "reload" THEN Command(t, "again", rt_pc[t].m, 0)
       ELSE rt_pc' = [rt_pc EXCEPT ![t] = RtNoCommand]
    /\ UNCHANGED <<rtListVars, frames, overlapped, rt_inputs>>

\* kerchunk_module_reload ignores whether there was anything to unload.
kerchunk_module_reload == \E t \in RtThreads :
    /\ rt_pc[t].do = "again"
    /\ IF Loaded(rt_pc[t].m) = {} THEN LoadBegins(t, rt_pc[t].m)
       ELSE rt_pc' = [rt_pc EXCEPT ![t] = RtNoCommand] /\ UNCHANGED <<g_modules, handles>>
    /\ UNCHANGED <<rtListVars, frames, overlapped, rt_inputs>>

RtNext == \/ Fires \/ dispatch_taps \/ kerchunk_sched_tick \/ Calls \/ Returns \/ Ends \/ HandlerActs
          \/ kerchunk_module_load \/ ModuleLoaded \/ kerchunk_module_unload \/ ModuleClosed
          \/ kerchunk_module_reload

RtSpec == RtInit /\ [][RtNext]_rtVars
-----------------------------------------------------------------------------
Gone(m) == handles[m] = 0 /\ m \notin overlapped
Lists == {g_taps} \cup {subs[e] : e \in RtEvents}

(* After an unload that found no other thread about to call the module, no  *)
(* list and no copy of one holds a handler of it, and none is called, until *)
(* it is loaded again, whatever the handlers registered, the reloads and    *)
(* the other loads did meanwhile; and no cycle of events nests deeper than  *)
(* its limit (kerchevt_fire, subscribe and unsubscribe, kerchunk_sched_tick,*)
(* the taps, kerchunk_module_load, unload and reload).                      *)
CallsAreLive ==
    /\ \A t \in RtThreads : Depth(t) <= KERCHEVT_MAX_DEPTH
    /\ \A m \in RtModules : Gone(m) => /\ \A t \in RtThreads : ~Calling(t, m)
                                       /\ ~Scheduled(m) /\ \A list \in Lists : ~Has(list, m)
=============================================================================
