# A TLA+ model of kerchunk

kerchunk is a repeater controller: a daemon that listens to a radio, keys its
transmitter, relays what it hears, plays announcements and links with other
nodes through a reflector. This directory models the daemon and the reflector:
first the part that decides *when the transmitter is on and why* (repeater,
queue, transmit path), then the link with its reflector, then the parts beside
them, from access control to the web server. TLC checks it on small instances,
and TLAPS proves the main invariants for every value of the constants.

Paths below are relative to the repository; the modules keep the names of the
C functions and variables they translate. `PROJECT.json` maps every definition
to its lines.

## 1. The system

### Parts and how they interact

| part | state | operations | talks to |
|---|---|---|---|
| main loop (`src/main.c`), every 20 ms | `g_reload`, the detector | reload, COS/DTMF sampling, detector, COR events, preempt, tick, timers, scheduler, socket | everything, through the event bus |
| audio thread (`src/main.c`, `src/kerchunk_audio_tick.c`), every 20 ms, real time | `g_audio_state`: relay drain, TX delay, tail, hold, `queue_ptt` | receive sub-tick, up to three transmit passes, the shell that carries out their actions | queue, PTT, playback ring, event bus |
| PTT arbiter (`src/kerchunk_core.c`) | `g_ptt_refcount`, `g_ptt_active` | `core_request_ptt`, `core_release_ptt` | HID adapter; called by the queue, the repeater, the link, the operator |
| playback queue (`src/kerchunk_queue.c`) | the list, `g_count`, what is being drained, the gap, the batch flag | add, tag, flush, preempt, drain, shutdown | any thread adds; the audio thread drains; the main loop preempts |
| TX-activity detector (`src/kerchunk_txactivity.c`) | sticky COS bit, silence counter, time since a tone, flap flag | one tick | fed by the HID adapter and the audio thread's DTMF flag |
| repeater (`modules/mod_repeater.c`) | `g_state`, four timer handles, configuration | COR assert and drop, three timer callbacks, link events, caller events, configure, load, unload | PTT, timers, events |
| timers (`src/kerchunk_timer.c`) | a table of 128 slots, no lock | create, cancel, tick | modules |
| event bus, scheduler, taps, loader (`src/kerchunk_events.c`, `_sched.c`, `_core.c`, `_modules.c`) | tables under a mutex each | subscribe, fire from a copy, schedule, tap, load, unload, replace | all modules |
| managed threads (`src/kerchunk_threads.c`) | a table of slots | create, stop, join | speech, feeds, link, web |
| access control (`modules/mod_caller.c`, `mod_otp.c`, `mod_dtmfcmd.c`, `src/kerchunk_user.c`) | ANI window, login session, a command in the making, elevated sessions with their timers, accepted codes, failures | digits, carriers, timeouts, logouts, a rebuilt table | repeater (`CALLER_IDENTIFIED`), commands of all modules |
| announcers (`mod_cwid`, `mod_courtesy`, `mod_time`, `mod_emergency`) | pending flag, over-the-air state, two timers, a schedule; the emergency timer | events of repeater, queue and timers | queue |
| mailbox (`mod_voicemail`, `mod_parrot`) | armed, recording, their timers and taps, the messages | commands, carriers, audio, timers, unload | taps, files, queue |
| recorder and call records (`mod_recorder`, `mod_cdr`, `mod_stats`, `src/kerchunk_rrd.c`) | open recordings, the call being followed, rows, counters | COR, virtual COR, caller and queue events; switching, unloading, the next day | taps, files, each other |
| linking, client (`mod_link`) | connection and its state, back-off, session, PTT reference, requests of other threads; jitter buffer, loss history | connect, messages, close, audio, configure | PTT, repeater, reflector |
| linking, reflector (`src/reflectd/`) | roster, runtime by position, talkgroups with talker, lease and recording, connections | log-in, talkgroup changes, audio, leases, kick, mute, keepalive, reload, restart | every client |
| telephone (`mod_freeswitch`) | a call, its three timers, taps, sockets, PTT reference; the event socket and its circuit breaker | dial, events, speech detection, timers, carrier, reload | PTT, taps, queue; an external server |
| internet gateways (`mod_zello`, `mod_poc`) | client and stream, talker and floor, PTT reference | talks of either side, log-on, loss, reload | PTT, taps; external libraries |
| speech (`mod_asr`, `mod_ai`, `mod_tts`) | workers, queues, conversations and their lock | capture, transcribe, answer, speak; configure and unload wait for workers | each other, the announcement event, queue |
| feeds (`mod_nws`, `mod_weather`, `mod_webhook`) | alerts, a poll thread, a bounded queue with retries | poll, fetch, post | external services, queue |
| control socket (`src/kerchunk_socket.c`) | client slots, one ring of deferred lines each | accept, commands, broadcasts of any thread | every command, log and event |
| web server (`mod_web`) | streams, audio sockets, the PTT holder, a snapshot, a wakeup pipe, taps | requests, publishing by any thread, sockets opening and closing | events, taps, users |
| users and configuration (`src/kerchunk_config.c`, `_user.c`, requests of `mod_web`) | sections in memory, the file, the table built from them | requests, save by rename, reload, a crash | access control |
| codecs, rendering, console, command-line client | — | — | see "Not modelled" |

### What is hard about it

* Five kinds of threads (main loop, audio thread, sound-card callback, web
  thread, module workers) share the queue, the reference count and `g_state`.
* The PTT count is anonymous: one missing release keys the radio for ever, one
  too many takes another module off the air.
* The audio thread decides on a snapshot and carries the actions out one at a
  time.
* Timers outlive the state they were started in unless every path cancels them.
* Every session of the link can end in a dozen ways on either side, and each
  side learns of it on its own.
* Modules come and go while their handlers are being called.
* Workers hold locks the main loop waits for, and the main loop must not stop:
  it is what listens to the radio.
* The adapter reports *changes*; what is missed is not repeated, and the loop
  stops listening while the node itself transmits.

The hazards, each with its line and with the properties that would notice it,
are listed in `PROJECT.json`.

### What makes each part correct

* PTT: the line is keyed exactly while somebody has a reason.
* Repeater: its reference follows its session; its timers belong to its state;
  an unkeyed session ends.
* Detector and loop: the COS bit tracks the line; a session ends only after an
  unbroken silence; a key-up is noticed and an unkey leads back to IDLE.
* Queue: the count is the length, no buffer is used after it is freed or
  forgotten, order is kept, tags stay with their items, everything leaves.
* Transmit path: the queue's reference is exact, nothing is played off the air,
  the transmitter is given back.
* Link: one session per roster position, no floor and no PTT without its
  session, a refusal is final, and otherwise the client comes up. Received
  frames play in order, losses are counted honestly, PTT ends with the talk.
* Access: elevation is earned, lasts as long as its timer, and a code works
  once; commands wait for the carrier to drop.
* Announcers, mailbox, telephone, gateways: what a state needs (timers, taps,
  sockets, references) is there exactly while the state lasts, and what is owed
  is remembered somewhere.
* Records: a row names the recording of its own call, and nobody is credited
  with more than he did.
* Speech and feeds: answers do not pile up, news is told once and in order, the
  main loop comes back from every wait.
* Runtime: nothing calls into a module that was unloaded.
* Socket, web, users: lines are whole, listeners end up with the newest status,
  counts fit the connections, file, memory and table agree in the end.

## 2. The modules

| module | models | role |
|---|---|---|
| `Transmitter` | — | abstract specification: reasons to transmit and a line |
| `Ptt` | `src/kerchunk_core.c`, `kerchunk_hid_set_ptt` | the reference count. `held` is auxiliary: who is behind the count |
| `Repeater` | `modules/mod_repeater.c`, the timer table, the link's two helpers | extends `Ptt` |
| `TxActivity` | `src/kerchunk_txactivity.c` | the detector's tick |
| `Node` | the main loop from the COS line to the timers | composes `Repeater` and `TxActivity` with the line, the HID reports and the DTMF flag |
| `Queue` | `src/kerchunk_queue.c` | producers, operator, main loop and audio thread around the list |
| `TxPath` | `src/kerchunk_audio_tick.c`, the audio thread | composes `Queue` and `Ptt` with the ring and the sound card |
| `LinkWire` | WebSocket over TCP (external) | messages in order until a close or a cut; half-open connections |
| `Link` | `modules/mod_link.c` | the client without its audio path |
| `Reflector` | `src/reflectd/main.c`, `audio.c`, `ws.c` | log-in, floor, leases, recordings, administration, reload, restart |
| `LinkNet` | — | composes `Link`, `Reflector` and `LinkWire` with the other nodes and the faults |
| `JitterBuffer` | the receive path of `mod_link.c`; the renumbering of `audio.c` | packets, slots, playout, tail, loss count |
| `Access` | `mod_caller.c`, `mod_otp.c`, `mod_dtmfcmd.c` | digits, sessions, commands, one-time passwords |
| `Records` | `mod_recorder.c`, `mod_cdr.c`, `mod_stats.c`, `kerchunk_rrd.c` | recordings, rows, counters |
| `Announcers` | `mod_cwid.c`, `mod_courtesy.c`, `mod_time.c`, `mod_emergency.c` | what is said, and when it is still owed |
| `Mailbox` | `mod_voicemail.c`, `mod_parrot.c` | recordings that are armed, run and are saved |
| `Autopatch` | `mod_freeswitch.c` | the telephone call and the event socket |
| `Gateways` | `mod_zello.c`, `mod_poc.c` | talkers of both sides |
| `Speech` | `mod_asr.c`, `mod_ai.c`, `mod_tts.c`, `kerchunk_threads.c` | workers, locks, queues and what the main loop waits for |
| `Runtime` | `kerchunk_modules.c`, `kerchunk_events.c`, `kerchunk_sched.c`, taps of `kerchunk_core.c` | handlers called from copies while modules come and go |
| `Feeds` | `mod_nws.c`, `mod_weather.c`, `mod_webhook.c` | polls, fetches, posts with retries |
| `ControlSocket` | `kerchunk_socket.c` | responses and broadcasts on one connection |
| `Directory` | `kerchunk_config.c`, `kerchunk_user.c`, requests of `mod_web.c` | users in memory, file and table |
| `Web` | `mod_web.c` | streams, sockets, PTT holder, publishing |
| `Modules` | — | the thirteen parts from `JitterBuffer` to `Web` in one specification |
| `PttLemmas`, `RepeaterProofs`, `QueueProofs`, `TxPathProofs`, `NodeProofs`, `LinkProofs`, `CallersProofs`, `ServicesProofs` | — | proofs |
| `MCCore` | — | the repeater alone, the node and the queue, one of them at work, for TLC |
| `MCModules` | — | `Modules` and `TxPath`, one of them at work, for TLC |
| `MCLinkNet` | — | `LinkNet` for TLC |
| `MCRepeater`, `MCNode`, `MCTxPath`, `MCAccess` | — | the values the two above and the runs of section 4 give the constants |

### How state and actions correspond to the code

* **Ptt.** `core_request_ptt` and `core_release_ptt` are one step each: the code
  holds `g_ptt_mutex` throughout. `pin` is the radio's line; with
  `HidFails = TRUE` a write may be lost, as the ignored result of
  `kerchunk_hid_set_ptt` allows.
* **Repeater.** One action per handler or callback; all of a handler that runs
  on the main loop is one step. The link handlers run on mod_link's thread and
  test `g_state` before they write it: `link_rx_assert`/`link_rx_drop` take the
  PTT step and the test, `link_change_state` the write. With `LinkRaces` the
  main loop may run in between. The timer table is a function from identifiers
  to callbacks; `kerchunk_timer_create` refuses 0 ms and a full table, as the
  code does. Time is abstract: an armed timer may fire at any moment. Durations
  matter where the code clamps them or refuses them.
* **Node.** `Sample` is the reading of PTT, COS and the DTMF flag, `Detect` the
  detector and the COR event with all its effects in the repeater; other
  threads run in between. A report is sent when the line changes, and reading
  takes all that wait and keeps the last. `deaf`, `calm` and `quiet` are
  auxiliary and only read by properties.
* **Queue.** One action per critical section: `kerchunk_queue_add_*_src` is an
  insertion and, in a second section, the tag. An item is its identifier, kind,
  priority, number of frames and source; `heap` is the set of allocated sample
  buffers. Sample values, file parsing and wording are left out. `Poll` and
  `Drain` are the audio thread's look at the queue and its later drain.
* **TxPath.** `RxTick`, `TxPass`, one `TxAct` per action, `TxPassEnds`. A pass
  takes its inputs in one step; the code reads them one after the other, but
  what the pass derives from depth and draining flag is the same, because only
  the audio thread itself starts an item. Producers, operator, main loop,
  repeater and sound card run between any two steps. The catch-up burst of the
  receive side, DTMF decoding, taps and scramblers do not touch this state.
* **Link, Reflector, LinkNet.** Each program is one thread that runs a handler to
  its end, so an action is a handler; requests of other threads of the client
  are flags it reads, as in the code. A node's runtime sits at the node's
  position in the roster, and a reload replaces the roster under it. Messages
  that only inform are not put on the wire. Durations (back-off, lease,
  keepalive, kick window) are events. One node is a full client, the others are
  their connection and what they send. The wire keeps order; when one end
  closes, the other finds out after it has read the rest; a cut loses what is in
  flight and neither end is told.
* **JitterBuffer.** Time is counted in frames and the playout thread may be up
  to `MaxLag` late. A packet on its way is its place in the stream; its number
  is that place modulo `SeqWrap`, a slot is chosen modulo `JB_SLOTS`, and like
  the code's 5 and 65536 the second does not divide the first. Concealed frames
  count as received audio. `jb_read` is auxiliary and only read by
  `JbLossIsReal`.
* **Access, Records, Announcers, Mailbox.** One action per event, timer or
  command; all handlers of an event are one step, in the order in which the
  modules are loaded, with the events fired inside a handler dispatched at once.
  Where the order decides (a command that is run before the recording of the
  same carrier is stopped), the model has it as the code does. A timer or a
  schedule may be refused, as `kerchunk_timer_create` refuses 0 ms and a full
  table; the handle is then -1 and nobody tries again (`login_untimed`,
  `otp_untimed`, `refused`). The announcers' queue is the list of sources that
  wait; `insert_item` never throws one out, and a carrier throws out all of them
  (`AnnCarrierComes`) and tells mod_cwid the source of the first.
* **Autopatch, Gateways.** The far side is external: it answers, refuses, hangs
  up, talks and goes away when it likes. Events of the telephone server arrive
  late and in order, so those of an earlier call are met by a later one. The
  number of references, timers and taps a module holds is counted beside its
  flags, since the flags are what the code goes by. The telephone's timers may be
  refused. `freeswitch dial` and `hangup` of the web page run on the web thread
  (`kerchunk_dispatch_command`), with no lock against the main loop: dialling,
  hanging up and the voice's PTT are two steps each (`hand`), and `overlap`
  remembers that the two threads met between the halves.
* **Speech, Feeds.** `main_at` and `feed_main` say what the main loop waits for; a
  worker moves between two of its steps. Locks are held exactly over the steps
  the code holds them for. What a service answers is arbitrary.
* **Runtime.** A list of handlers is copied under its lock, and the calls are
  steps of their own on one of two threads (`rt_pc` is a stack of frames, since
  a handler fires events). A module that is replaced gets a new handle; an
  unload calls the module's own `unload`, removes what the code removes and
  closes the object.
* **ControlSocket, Web.** Every write to a connection is a step; broadcasts and
  publishing by other threads come between any two. Statuses are numbers, so
  that newer and older are told apart. The web server's wakeup pipe does not
  block: a status or an event that finds it full is dropped.
* **Directory.** A section is an id with a name. Memory, file and table are three
  functions; a save writes a new file and renames it, a request signals after it
  gave the mutex back, a crash comes between any two steps.
* **Modules.** The thirteen parts share no state any of the properties is about.
  A behaviour picks one (`focus`) and the others rest, so each is explored
  completely and none multiplies the states of another. `EveryPartRuns` (section
  5) is the proof that nothing is lost by that.

## 3. The runs

| run | configuration | what it shows |
|---|---|---|
| `core` | `MCCore.cfg` | three parts, one at a time: the state machine with reload, unload, emergency mode, link traffic and a third PTT holder, which implements `Transmitter`; the chain from the COS line to the session, for a software relay and for a radio that relays by itself; the queue, with two producers, flush, preempt and shutdown against the audio thread |
| `link` | `MCLinkNet.cfg` | one client, one reflector, a second node: sessions, floor, PTT, refusals, and that the client comes up |
| `modules` | `MCModules.cfg` | the promises of the thirteen other parts, listed in `Modules`; and the transmit path: who holds the transmitter while the queue plays, that it is given back, and that the queue's claim and the repeater's implement `Transmitter` |
| `repeater_tot_rekey` | `MCRepeaterTot.cfg` | *violation* of `ReceptionIsTimed` |
| `repeater_race_ptt` | `MCRepeaterRacePtt.cfg` | *violation* of `IdleHoldsNoPtt` |
| `node_relay` | `MCNodeRelay.cfg` | *violation* of `EndNeedsQuiet` |
| `txpath_complete` | `MCTxPathComplete.cfg` | *violation* of `CompleteBeforeRelease` |
| `txpath_priority` | `MCTxPathPriority.cfg` | *violation* of `IdleQueueSorted` |
| `link_reload` | `MCLinkNetReload.cfg` | *violation* of `RuntimeIsOwn` |
| `access_ended` | `MCAccessEnded.cfg` | *violation* of `CommandWasEnded` |
| `repeater_timeout_ptt` | `MCRepeaterTimeout.cfg` | *violation* of `TimeoutReleasesPtt` |
| `repeater_carrier_wins` | `MCRepeaterCarrier.cfg` | *violation* of `CarrierWins` |

Every property of a passing run has a mutant of the model, written beside the
definition it replaces, that TLC refutes.

### Bounds, and why they are enough

* Repeater: three timers (never more than one of the repeater's is armed at
  once, so identifiers change hands and a forgotten timer has room to show; the
  full table is covered by the proofs, which allow any set of timers), three
  configurations: relay with debounce, no relay with values out of range, and
  closed access whose debounce comes from `require_identification`. The file's
  values are out of range on both sides so that every clamp acts.
* Node: `EndSilence` 1, `EndSilenceDtmf` 3, `DtmfGrace` 2 ticks. The long window
  is longer than the grace, so the window shrinks while silence is counted; the
  code's defaults (15, 50 and 150 ticks) keep the first two in this order.
* Queue: depth 2, identifiers up to 3, items of 0 to 2 frames, two priorities,
  two threads, one source: an item can be refused, overtaken, empty, or drained
  between its insertion and its tag. `MaxIds` caps `g_next_id` in the guards of
  the add actions; it is the only bound there, and the proofs do not use it.
* TxPath: delay 2, tail 1, relay drain 1, ring 2 frames, action list 4: the ring
  and the list both fill before the delay has been written.
* LinkNet: two connection identities (a half-open one and its successor), one
  peer, two talkgroups, two roster positions, two messages in flight each way.
  Cuts, crashes, kicks, mutes, requests, reloads and talkgroup changes number
  `MaxActs` = 2 together: two are what it takes to disturb the recovery from a
  disturbance, while everything the programs do by themselves is unbounded. One
  failed log-in kicks and one bad report trips the loss alarm
  (`AuthFailKick` = 0, `LOSS_HIST_TRIP` = 1), so that both are within reach.
* JitterBuffer: 3 slots, 16 sequence numbers that start at 13 so that they wrap,
  4 packets, concealment for 2 frames: a packet can be lost, late for its slot,
  meet the one that shares the slot, and come after the guard has ended the
  talk. `FarSeq` is 3, so that a gap is counted and credited, a packet can be too
  late for its credit, and one from far behind the cursor restarts the buffer;
  the proofs allow any `FarSeq` up to half of the numbers, the code's 200 of
  65536 among them.
* Access: two users whose ANI codes are prefixes of each other, one of whom can
  log in; 8 inputs, which is a log-in, a code and a second one; one session, so
  the second user is refused. Records: two carriers, three users and two other
  events, a statistics file with room for two of the users, so that two of them
  may be credited and the third finds it full. Announcers: 3 inputs (traffic,
  clock, reload), timers free. Mailbox: a limit of one message and 8 inputs,
  enough to arm, record and pass the limit. Autopatch: 2 calls, so that events
  of the first reach the second, and 2 inputs; states after an overlap of the
  two threads are not followed (`Claimed` in `MCModules`), since the property
  claims nothing there and `overlap` is never reset. Gateways: two telephones in two
  groups, 5 inputs. Speech: one failure, one round of tools, queues of 2 and 1
  requests, 4 thread slots, 3 inputs. Runtime: two modules and one event,
  tables of 2 entries, nesting to 2. Feeds: two alerts and room for one, a
  queue of one post, one retry. ControlSocket: two far ends and one slot, so a
  slot changes hands; a ring of 3. Directory: two ids, two changes, one fault
  (a crash or a file that cannot be read or written). Web: two connections, 3
  inputs, 2 wakeups on the way. Every table is one its run fills.

### Fairness

Weak fairness of the audio thread (a 20 ms real-time loop), of the main loop's
`Sample` and `Detect`, of the sound card and of the link worker's second half:
all of them are loops that do not wait for anything. Timers are weakly fair in
`Repeater` and strongly fair in `Node`, where they take turns with the other
parts of the loop: `kerchunk_timer_tick` runs in every iteration and an armed
timer comes due. `CorEnd` is weakly fair in `TxPath`: a person does not hold
the key for ever, and while one does the queue has to wait. Nobody is assumed
to key, to unkey in `Node`, to queue, to flush or to reload.

In `LinkNet` both programs poll: reading, closing, reconnecting when due and
answering are weakly fair, and so is the keepalive of a connection whose client
cannot answer (an answer that is only late is never forced to miss). Dialling
and setting the session up are strongly fair: each may fail, but not for ever.
In `JitterBuffer` the two threads and the tail are weakly fair and time is
strongly fair, because the clock moves between the steps of threads that do not
wait. In `Speech` the workers, the transcripts' announcer and the main loop's
own return are weakly fair: requests to the services have time-outs. In
`Directory` a request that has begun is saved and signalled, the main loop
reloads, and who edited the file asks for the reload. Nobody is assumed to talk,
to dial, to log in or to make a request, and no fault has to happen.

`MCLinkNet.cfg`, `MCLinkNetReload.cfg`, `MCModules.cfg` and `MCAccessEnded.cfg`
switch the deadlock check off: when the bounded inputs are used up and everything
has been given back, nothing is left to do. The other runs have it on; in
`MCCore` a queue that was shut down, or whose identifiers are used up, is the one
state that may rest (`QueueEnded`).

### What the properties leave out on purpose

* `PttFollowsSession` and what rests on it assume `Orderly`: no link event
  interleaved with the main loop, no reload that flips `software_relay` during a
  session, no unload during RX_TIMEOUT. In each of the three the code loses or
  leaks a reference; the constants `LinkRaces`, `RelayEdits` and `UnloadStates`
  switch them on.
* `PttFollowsSession` counts RX_TIMEOUT among the states that hold PTT, and
  `SessionSteps` has no step from BRIDGING to RECEIVING: both follow the code.
  What the documents say instead is `TimeoutReleasesPtt` and `CarrierWins`, which
  fail (section 4).
* `EndIsPatient` counts silence as the loop can hear it. While PTT gates the
  detector, and after it until the line reports again (`deaf`), a sample counts as
  silent whatever the line does. That a user is still keyed then is
  `EndNeedsQuiet`, which fails.
* A timer that was refused is missing for good: a log-in, an elevation, a call or
  an emergency without its timer never ends by itself. `ElevationIsEarned`,
  `NothingIsForgotten` and `CallIsWhole` name these cases, and only these.
* `CommandsWait` does not say that a command that runs was ended: `CommandWasEnded`
  does, and it fails.
* `NothingIsForgotten` leaves out a reload to mode `on_call` in the middle of an
  activity (`id_dropped`): nothing sends the identification until the next
  key-up. What has been queued counts as sent, as in the code: a carrier throws
  the queue out, and only an identification on the air is told to mod_cwid; one
  that waits behind another item is lost.
* `RecordsAreTrue` is about calls that mod_cdr has followed from their carrier on
  (`followed`); switched on again within a later call it goes on with the one
  before (`modules/mod_cdr.c:263`).
* `CallIsWhole` is stated between two handlers and until a command of the web
  thread has overlapped a handler of the main loop. After that PTT can stay held
  for good: a teardown tests `g_vox_ptt_held` (`modules/mod_freeswitch.c:1118`)
  after `request_ptt` (1316) and before the flag (1317).
* `RefusalIsFinal` lets the client leave STOPPED in the three ways of
  `LINK-PROTOCOL.md:521-525`; the code knows fewer (end of section 4).
* `UnkeyEndsSession` is checked with positive `tail_time` and `hang_time`. The
  configuration accepts 0, the timer table refuses it, and the session then
  stays in TAIL_WAIT or HANG_WAIT.
* `BitTracksLine`, a part of `DetectorState`, excludes the time after a transmission of the node itself
  (`deaf`), when the loop waits for a report that a steady line does not send.
* `FairOrder` excludes a flush during the gap between two files (`gap_flushed`):
  flush clears the batch flag and leaves `g_gap_remaining`.
* `TagsAreOwn`, a part of `ItemsAreOwn`, allows an item to be drained before it is tagged.
* `BuffersReclaimed` is about rendered and copied samples. Samples read from a
  file are not freed unless they are played (`free_item`).
* `QueueEmpties`, a part of `QueueIsServed`, is stated for a radio that relays by itself; with software relay
  `relay_drain` can be left positive when PTT is released, and the queue then
  waits for the next relayed transmission.
* `TalkersHoldTheirPtt` counts the references that the code loses (`z_orphans`,
  `p_orphans`): a client torn down or a telephone lost during a talk, and a
  second talker who overwrites the first. It says that there are no others.
* `MailboxesHold` allows one message beyond the limit: recording is checked when
  it is armed, and the command may be run before the recording of the same
  carrier is counted.
* `CallsAreLive` excludes modules that were unloaded while another thread had
  copied their handlers and not yet called them (`overlapped`): there the code
  does call code that is no longer mapped, and nothing prevents it.
* `NewsIsToldOnce` lets the post in hand arrive twice: a lost answer cannot be
  told from a lost post.
* `ListenersAreCurrent`, a part of `StreamsAreServed`, leaves out, until the next
  status is published (`unsure`), what two threads publish at the same time and a
  status that found the wakeup pipe full: `mg_wakeup` drops it
  (`modules/mod_web.c:3279-3284`), and a stream then shows the one before.
* `AnswersDoNotPile` is stated for each thread that announces. The comment at
  `modules/mod_ai.c:1436` promises more: that nothing is queued behind a request
  in hand. Between taking a request (line 1270) and raising `g_inflight` (line
  1283) the worker looks idle, and two threads may both pass the check.
* `JbLossIsReal` leaves out streams in which a packet was read `FarSeq` or more
  places behind the newest (`stale`): the code credits none that late, and its
  place stays counted as lost.
* `UsersSettle` speaks of the file, not of the requests: two requests in a row
  choose the same id, because ids are looked up in the table that only the later
  reload renews, and the second overwrites the first.
* `MainLoopReturns` promises a return, not a prompt one: a command that waits for
  the conversations' lock waits for a whole turn of the assistant.
* `RuntimeIsOwn` holds as long as a reload keeps order and length of the roster;
  `link` is checked with such reloads.

## 4. What the violations mean

1. **A rekey in the tail is not timed** (`modules/mod_repeater.c:210`).
   `on_cor_drop` cancels the time-out timer, the rekey from HANG_WAIT arms a new
   one, the rekey from TAIL_WAIT does not.
2. **A link event can strand the repeater's PTT** (`modules/mod_repeater.c:286`).
   The handler tests IDLE on the link's thread; the main loop starts a
   reception; the handler overwrites RECEIVING with BRIDGING; the link's drop
   leads to IDLE and nobody releases.
3. **With software relay a session ends under the user** (`src/main.c:1791`).
   The gate that hides the node's own transmissions from the detector also hides
   the user whose session keyed it.
4. **Items queued in the hold window** (`src/kerchunk_audio_tick.c:238`) are
   played without `QUEUE_COMPLETE` and without a tail.
5. **Priorities stop working after the first batch**
   (`src/kerchunk_queue.c:389`). The batch flag is cleared by a drain that finds
   nothing; the audio thread does not drain when there is nothing.
6. **A reload moves nodes under their connections**
   (`src/reflectd/main.c:1873`). The runtime is parallel to the roster and the
   connections remember a position; when the new file lost a node, those after
   it go on as somebody else.
7. **A command that was not ended runs** (`modules/mod_dtmfcmd.c:169`). A `#` under
   a carrier sets `g_pending_dispatch`, and neither a new `*` nor further digits
   clear it: `*A#*B` and a drop run B, unfinished, and never A. The comment at line
   194 speaks of the command that `#` ended.
8. **A time-out does not release PTT** (`modules/mod_repeater.c:156`). With software
   relay `tot_expired` changes the state and leaves the reference to the next
   carrier drop, so a stuck carrier keeps the transmitter keyed.
   `ARCHITECTURE.md:348-349` says the time-out releases PTT, `README.md:1348` that it
   prevents stuck transmissions.
9. **A user does not win over a bridge** (`modules/mod_repeater.c:237`).
   `on_cor_assert` has no case for BRIDGING, so the key-up is ignored, also when the
   bridge ends before the user lets go. The comment at lines 30-31 says that COR
   wins and RECEIVING takes precedence.

One more disagreement has no run, since the model has nothing to add to reading
it: after a final refusal `LINK-PROTOCOL.md:521-525`, `README.md:1192-1195` and
`ARCHITECTURE.md:819-821` let `link reconnect` start the client again, while
`modules/mod_link.c` drops the request in LST_STOPPED (1154-1157, 1187) and leaves
that state for a cleared alarm or, at a reload, when the link is switched off
(1346). `Link` has what the code does.

Smaller differences met on the way, modelled as they are: a web socket
that closes while it holds PTT fires no `VCOR_DROP` (`modules/mod_web.c:2822`);
unsubscribing leaves `json_events` set (`src/kerchunk_socket.c:469`);
a joined thread's slot is not given back (`src/kerchunk_threads.c:163`), so
restarts of workers use the table up; a telephone call that is given up before
its answer goes on ringing, since its channel is not known yet; a request that
writes the configuration saves the main file and not a separate file of users
(`modules/mod_web.c:1394-1444`), and `kerchunk_config_save` does not look at write
errors before it renames (`src/kerchunk_config.c:352-362`): `Directory` has one
file and saves that succeed or fail as a whole.

## 5. The proofs

All theorems are of the form `Spec => []...` or `Spec => [][...]_v` for every
value of the constants that satisfies the named assumptions. Each assumption
stands in the module that declares the constants, TLC evaluates it in the run of
that module, and it says no more than the code's headers do: tables and rings
have room, a table of buffers has distinct entries, "nobody" is nobody
(`PttAssumption`, `RepeaterAssumption`, `ConfigAssumption`, `QueueAssumption`,
`TxAssumption`, `TxActivityAssumption`, `LinkWireAssumption`,
`ReflectorAssumption`, `RecAssumption`, `RtAssumption`, `FeedAssumption`,
`WebAssumption`, `SockAssumption`, `JbAssumption`, or an assumption in the
theorem itself). Each invariant was checked by TLC on the instances above before
it was proved. Fairness plays no part in any of the proofs. Every module's own
sequence, set and record lemmas stand in front of the steps that need them, one
lemma per handler, and the last theorem of a part combines them.

**Repeater** (`RepeaterProofs`, on `PttLemmas`).
`RepeaterTypes` needs no more than the types themselves.
`PttAlwaysFollowsSession` is not inductive: that a callback releases PTT exactly
once depends on which timers can be armed in which state. The invariant adds
`TimersBelongToState`, `HandlesLive`, `NoTimerAfterUnload` and what is pending
between the halves of a link handler, under `Orderly`.
`SessionAlwaysWhole` adds to that invariant that the count is exact and `Bridge`: BRIDGING
lasts as long as the link's reference, also between the two events.
`SessionTakesItsSteps` is an action property: in a state that satisfies the
invariant, no timer callback of an earlier state can move the machine.

`RepeaterImplementsTransmitter` needs the count besides: `PttExact` says that
the count is the number of holders and that the line follows it, and every
action of `Repeater` is shown to be an `Acquire`, a `Drop` or a stutter. It
assumes a working adapter (`HidFails = FALSE`). The lemmas on counting rest on
the library's cardinality theorems.

**Queue** (`QueueProofs`). `QInv` joins the types, `CountIsDepth`,
`DrainOwnsBuffer`, `NoDanglingBuffer`, `BuffersReclaimed` and `FairOrder` with
three facts nobody would state for their own sake: identifiers in use are below
`g_next_id` (a new buffer is really new), only files can be empty (skipping
empty items loses no buffer that must be freed), and the batch flag or the gap
covers an unsorted list (`BatchCovers`, why the walk by priority meets a sorted
one). No part is inductive alone: fairness needs identifiers to grow, no-dangling
needs the drain to own its buffer, reclaiming needs both. There is one lemma per
operation; `RunLengthIs`, `EmptyRunIs`, `InsertedIs` and `PoppedIs` say what
the list operators return. Where induction would be natural (the first item of
lower priority), a least-number lemma is used instead.

`QueueItemsAreOwn` (in `QueueProofs`) adds `TagsPending` to `QInv`: between its
two critical sections a producer holds an identifier older than `g_next_id`, and
the item that still has it, if any, is the producer's own.

**TxPath** (`TxPathProofs`, `TransmitterAlwaysKeyed`, under `TxAssumption`: any
delays, any ring, at least two actions in the list, and whether or not GPIO
writes get lost). The tick writes a list of actions, and the shell carries it
out on states the tick has not seen, so that `queue_ptt` and the reference it
stands for differ in between. The invariant `TxInv` joins `QInv`, an exact count
and `Claim`, which says what may stand in the list: `ASSERT_PTT` only in front
and only before a claimed reference is taken, `RELEASE_PTT` only alone and only
when nothing is drained and, without software relay, the ring is empty, sound
only behind a claim (`Placed`, `Exact`, `ReleaseIsSafe`). `HoldAfterTail` is why a release is
alone: the hold is counted when delay and tail are over, so the tick that
releases has written no silence, and the limit of the list cannot drop the
release. There is one lemma per block of `kerchunk_audio_tick_tx` (`AssertIs` to
`CancelIs`), `HeadIs` for carrying out an action, and one per step of the thread;
everybody else's steps are one lemma, `ClaimStays`, since they neither start an
item nor fill the ring nor touch the list. `QInv` is taken over from
`QueueProofs`.

`TxPathImplementsTransmitter` is the refinement: under a working adapter
(`HidFails = FALSE`) every step of the daemon is an `Acquire`, a `Drop` or a
stutter of `Transmitter`. What has to be shown is that the shell is disciplined
although its list is stale (`TxStepsAreDisciplined`): by `HeadIs`, an `ASSERT_PTT`
is carried out only while the queue holds nothing and a `RELEASE_PTT` only while
it holds, so the anonymous count cannot run away from its holders.

**Node** (`NodeProofs`, under `TxActivityAssumption`). `NodeStepIsRepeaterStep`
shows that a step of the node is a step of `Repeater` or leaves its variables
alone (`NodeImplementsRepeater`), so that `NodeSessionsAreWhole` follows from
`RepeaterProofs`. `DetectorAlwaysTracks` and `SessionsEndPatiently` are about the three
copies of the carrier: the line, the last report and the value the detector
sampled. Its counters know only the third. The invariant `DetectorInv` says that a
waiting report tells the line (`ReportIsLine`), that the sampled value does
unless a newer report waits (`SeenIsLine`), and that the silence counted is never
longer than the one the loop could hear (`SilenceWasCalm`, `SampleWasCalm`): a
late report delays the end of a reception and cannot bring it forward. The gate
of the node's own PTT can: the silence it feeds the detector counts.

**Mailbox** (`CallersProofs`, `MailboxesAlwaysHold`, for `VM_MAX \in Nat`).
The limit is not inductive: the invariant's `Pending` says that the mailbox an
armed or running recording belongs to has not passed the limit, that recording
and arming exclude each other, and that recording needs a carrier. The command
and the stop, which can both happen at the end of one carrier, are a lemma each.

**Autopatch** (`CallersProofs`, `CallIsAlwaysWhole`). The call is a record that
a handler takes through several intermediate calls (torn down, set up again), so
the lemmas are about the operators on calls: each keeps a call whole or yields
`NoCall`, whether or not its timers are granted. Besides, events name a channel,
and `CallInv` says of a handler in its middle that its other half (the flag of the
voice, the dial timer, the rest of a hang-up) makes the call whole, until the
handlers of two threads overlap.

**Gateways** (`CallersProofs`, `TalkersAlwaysHoldTheirPtt`, when `NoUser` is no
user). `ZelloInv` adds that what is on the air has its client and its stream,
`PocInv` that flag and speaker change together: that is why a reference is never
given back twice.

**Link** (`LinkProofs`, under `LinkWireAssumption` and `ReflectorAssumption`).
`SessionOwner` and `PttNeedsSession` are facts about both ends that neither end
can see. The invariant `NetInv` has a client's half and a server's half.
`ClientInv`: an end the client reads from is open at the client (`EndsMatch`); of
`hello`, `login` and `login_ok` at most one is ever on the way on a connection,
whichever way it goes, and none once the reflector has answered (`OneLogin`);
therefore a client with a session cannot be refused, and one that holds PTT has
a session (`SessionSettled`). `ServerInv`: an authenticated connection and the
roster position it logged in for name each other (`Owners`), and a floor, a
lease and a recording belong to a member that may talk (`FloorTypes`). Steps that
do not carry a log-in are one lemma (`QuietKeeps`), since they leave the tokens
calm; a handler of the reflector is shown to leave its half alone whatever it
drains, releases or answers (`Handled`). `ReflectorStaysSane` is stated under
`PositionsStay`, reloads that keep the order of the roster: without it
`RuntimeIsOwn` fails, as run `link_reload` shows. `StoppedStaysStopped` is the
action property `RefusalIsFinal`, with the three ways out that the document names.

**Announcers** (`CallersProofs`, `NothingIsEverForgotten`). Whether an
identification is owed can be read from no single variable; `AnnInv` says that
the timers and the handle are a function of the mode's state (`OcInv`), which is
why what is owed has a timer behind it, unless it was refused or a reload cut the
activity off (`OwedInv`, `EmInv`).

**Access** (`CallersProofs`, `ElevationIsAlwaysEarned`, `CommandsAlwaysWait`). A
code is never accepted twice because everything accepted lies behind the counter
kept for its user, which survives log-outs and a rebuilt user table (`OtpInv`);
the log-in session has its one timer or was refused it (`LoginInv`). A pending
command has a carrier, under which a command was ended (`PendingInv`).

**Records** (`CallersProofs`, `RecordsAreAlwaysTrue`, under `RecAssumption`). Three
modules follow one call without speaking to each other. `FollowedInv` relates the
call that mod_cdr follows to the file that mod_recorder has open, `NamedInv` says
that whom mod_stats will credit was named under the same carrier, and
`CreditInv` bounds each user's counter by what was heard of him and counts it in
receptions that credit nobody else, so that the counts of all users together are
no more than there were.

**Runtime** (`ServicesProofs`, `CallsAreAlwaysLive`, under `RtAssumption`). The
invariant follows the module loader: one command at a time unless two overlap
(`OneCommand`), a module on its way in has been mapped and one on its way out has
left the lists it is taken out of so far (`LoadInv`, `UnloadInv`), lists hold a
module once, so that taking it out once is enough (`ListsInv`), and so whoever is
listed, copied or called is mapped (`MappedInv`). The nesting limit is `DepthInv`.

**Feeds** (`ServicesProofs`, `NewsIsAlwaysToldOnce`, under `FeedAssumption`). An
alert is told when it is first tracked and forgotten after its deadline only
(`ToldInv`); what waits for the hook is younger than what is in hand, and that is
younger than what has arrived (`HandInv`, `QueueInv`).

**Speech** (`ServicesProofs`, `AnswersNeverPile`). Check and queue are two
critical sections. The invariant's `NoneYet` says that a thread between the two
has nothing in the queue; others may have.

**Web** (`ServicesProofs`, `ServedForEver`, under `WebAssumption`). Counters and
taps are proved equal to cardinalities of the open connections (`CountInv`), PTT
belongs to one socket (`PttInv`). The hard part is `NewsInv`: while nobody is
about to publish, the last status on its way is the one kept, or none is and
every open stream has it (`LastTold`), unless a full pipe has dropped one; it holds because a status is kept before
it is told, which the mutant of `StreamsAreServed` reverses.

**ControlSocket** (`ServicesProofs`, `EveryLineIsWhole`, under `SockAssumption`).
`LineInv` describes what one far end has read and what waits in its slot's ring
as one rising sequence without gaps, but for lines that `EVT_RING_SIZE - 1`
younger ones pushed out (`Whole`, `Missed`). `SlotInv` says whose slot it is and
that only the client being answered has a response open: that is why a ring is
empty when its slot changes hands.

**JitterBuffer** (`ServicesProofs`, under `JbAssumption`). `FramesStayInOrder`: the
cursor is ahead of the last frame played by one and by the frames concealed since
(`JbInv`), fewer than half of the numbers, so that the signed difference of two
numbers tells the order also where they wrap (`CursorIsAhead`).
`LossIsNeverInvented`: `LossInv` counts twice among the packets up to the newest
one read, what is lost or read and what is on its way or read; the second is why a
late packet whose loss went out with an earlier report is not one too many.
`DeltaIs` is the lemma on remainders both rest on: the difference of two numbers
is that of their places, while those are less than half of the numbers apart.

**Modules** (`ServicesProofs`). The theorems of the thirteen parts speak of each
part's own specification; `EveryPartRuns` shows that the composition the run
checks implies those of all but the users' directory, and
`ServicesKeepTheirPromises` draws the conclusion for the services.

**Only model-checked.** Liveness and what rests on fairness (`ItemsLeave`,
`KeyIsHeard`, `UnkeyEndsSession`, `QueueIsServed`, `ComesUp`, `JbPttEnds`,
`MainLoopReturns`, `UsersSettle`) is out of the prover's reach: it has no rule for
fairness and cannot evaluate ENABLED. Nothing is proved of `Directory`, whose
only property is one of these. Every other property of a passing run is stated
by a theorem, but with the hypothesis that the theorem names (`Orderly`, a
working adapter, `PositionsStay`) where the run gives it by its constants.

## 6. Not modelled

* **Signal processing and codecs** (`libplcode`, DTMF, CTCSS and tone detection,
  scramblers, resampling, Opus, SRTP): arithmetic on samples. What they decide
  (a digit, a tone, a frame below the noise floor) is an arbitrary input.
* **Parsing, rendering and formatting** (the INI parser, JSON, pages, log lines,
  sound files): no property is about them.
* **TX state and tap selection** (`kerchunk_tx_state.c`): a pure classification
  for labels, without a state of its own.
* **The audio ring's indices**: `TxPath` has its number of frames.
* **Console and command-line client**: they send commands, and commands may come
  at any time in every module.
* **Push notifications** (`mod_poc_apns.c`), the vendored web server, PortAudio,
  HID discovery: input and output.
* **Start-up and command line** of both programs.
* The timer table's use from several threads without a lock
  (`src/kerchunk_timer.c:52`) is a data race on indices; the model's table is
  changed in one step.
* Full tables of one-time-password counters and sessions beyond what `Access`
  has, and `write_all` giving up inside a line (`ControlSocket`) are outside the
  instances.

## 7. Plan

Done: the transmitter's side (`Transmitter`, `Ptt`, `Repeater`, `Queue`, `TxPath`,
`TxActivity`, `Node`), the link and its reflector, the thirteen parts of
`Modules`, and the theorems of section 5. What is left, by worth:

1. **The transmitter's holders together**: `Link`, `Gateways` and `Autopatch` as
   holders of one `Ptt`, as `Repeater` and `TxPath` already are, and the proof
   that the count stays exact with all of them.
2. **Refinements**: `Queue` and `ControlSocket` against the plain queues they
   promise.
3. **Timers and threads without a lock**: the table's indices as read and written
   by two threads.
