# open-xiaoai-client in TLA+

TLA+ models of the speaker client in `src/`, the TLC configurations that check
them on small instances, and proofs that TLAPS checks for every instance.

The client runs on a Xiaomi speaker. It listens for websocket connections and
also makes one of its own, groups the connected peers into one *session*, runs
their commands (record, play, shell) and reports what happens on the device.
It is a program of plain threads, a few tokio tasks, bounded channels, and
child processes (`arecord`, `aplay`, `ubus listen`). What is hard to test in it
is the order in which all of these end.

## 1. Inventory

| part | code | state | operations |
|---|---|---|---|
| Ingress | `app/ws_ingress.rs` | the gate `ConnectServerStatus` | accept, connect, `mark_connected`, `mark_disconnected`, `wait_until_inactive` |
| Supervisor | `app/supervisor.rs` | event bus, the active `SessionRuntime` | handle `PendingPeer`, `PeerTaskExited`, `RouterExited` |
| Session | `app/session.rs` | `session_id`, `peer_tasks`, monitors, router, player | `new`, `attach_peer`, `handle_peer_departure`, `shutdown`, exit waiters |
| Peer registry | `app/peer_context.rs` | the peers and their senders and recorders | register, remove, dispatch, `clear_audio_queue` |
| Router | `protocol/router.rs`, `protocol/registry.rs`, `app/commands.rs` | the route channel | dispatch outbound messages, execute commands, end |
| Writer | `transport/ws_pump.rs`, `transport/control.rs` | control queue, audio queue, `WriteSignal` | enqueue and notify, drop, sleep, drain, clear, close, abort |
| Recorder | `audio/recorder.rs` | `child`, `task`, `profile`, each under its own lock | start, stop, the reading thread |
| Playing monitor | `monitor/playing.rs`, `app/fanout.rs` | listener child, last report | listen, query, report, restart, stop |
| File monitors | `monitor/file.rs`, `kws.rs`, `instruction.rs` | file, position, inotify watch, shutdown flag and eventfd | open, watch, read, reset, reopen, close |
| Player | `audio/player.rs` | queue, play thread, `aplay` | start, enqueue, stop |
| LX06 fast recording | `shell/lx06_audio.rs`, `app/capabilities.rs` | patched files, bind mounts | prepare, restore |
| Codec and data | `transport/codec.rs`, `protocol/data.rs` | none | parse, format |
| Startup, shell, logging | `main.rs`, `config.rs`, `shell/`, `base/` | none that outlives a call | parse, run a command, log |

How they interact:

- The listener and the connector send `PendingPeer` to the supervisor's bus.
  The supervisor attaches the peer: it registers it and spawns a reader and a
  writer task. An exit waiter for each task sends `PeerTaskExited` to the bus,
  and one for the router sends `RouterExited`. The bus is unbounded and the
  supervisor is its only consumer.
- The gate keeps the connector from connecting while an outbound peer is there.
  The connector closes it; the supervisor opens it.
- Readers and monitors send into the session's route channel (256 messages).
  The router takes from it, executes commands itself, one at a time, and
  dispatches what goes out to the writers' control queues (256 each).
- Each recorder thread fills its peer's audio queue (128 frames, frames are
  dropped when it is full). The writer serves both queues of its peer.
- The router and the supervisor both call the recorder of a peer: the router
  for commands, the supervisor when the peer has gone.
- On shutdown the supervisor closes the peers, the router and the player, and
  joins the monitors.

Hard behaviours, with the properties that make each part right:

- **Exits race each other.** Both tasks of a peer report, a router may fail at
  the same time, a session may end in between. No exit may be lost, handled
  twice or charged to another session; the session must end with its last peer;
  the gate must open again. -> `Supervisor`
- **Sleeping writers.** A message is queued first and notified later, the
  writer looks at two queues one after the other, a socket may never accept a
  frame. No wake-up may be lost, a clear must be answerable, a forced close
  must end the writer. -> `WriterPump`
- **Two callers of one recorder** whose fields have separate locks. The device
  is opened once, formats are kept, stops stop, commands return. -> `Recorder`
- **A listener that is killed to wake its reader**, and restarts by itself.
  One at a time, no repeated reports, nothing heard is lost, the join returns.
  -> `PlayingMonitor`
- **Files that change while they are looked at.** Lines once and in order, none
  lost that an event told of, close reaches the thread. -> `FileMonitor`
  An event queue that overflows must cost no line an event in it tells of.
- **A playback thread that is joined before its `aplay` is killed**, under locks
  that a full queue keeps taken. One `aplay`, stops stop, the router and a
  departure come back, a lost peer falls silent. -> `Player`
- **Bounded queues in a circle, on two worker threads.** The route channel waits
  for the router, the router for a control queue, the writer of that queue for a
  worker, and the workers may be held by readers that wait for the route
  channel. A shutdown must end, and what is sent must be served. -> `Routing`
- **A setup that is cut short** by an error, a kill or a reboot and meets its own
  leftovers at the next start. The capability is announced only when all is in
  order, mounts do not pile up over a
  copy that is recognised. -> `LxSetup`

`PROJECT.json` lists every hazard at its line with the properties that cover it.

## 2. Modules

| module | models | composed with |
|---|---|---|
| `SessionLifecycle` | abstract: what the README promises of a session | - |
| `DeviceUse` | abstract: how a peer uses a sound device, one use after the other | - |
| `Supervisor` | ingress, bus, supervisor, session, tasks, waiters, router's life, gate | implements `SessionLifecycle` |
| `SupervisorProofs` | inductive invariant and proofs | extends `Supervisor` |
| `WriterPump` | one peer's queues, signal, senders, writer task, forced close | - |
| `WriterPumpProofs` | inductive invariant and proofs | extends `WriterPump` |
| `Recorder` | one peer's recorder with the router's commands, the supervisor's stop, the capture processes and threads, and the part of the writer that orders frames and answers | implements `DeviceUse` |
| `RecorderProofs` | inductive invariant and proofs | extends `Recorder` |
| `Player` | one peer's player with the router's play commands and chunks, the supervisor's stop, the `aplay` processes and playback threads, and the end of the player with its last holder | implements `DeviceUse` |
| `PlayerProofs` | inductive invariant and proofs | extends `Player` |
| `Routing` | one session's readers, monitors, router, writers and supervisor with the bounded queues between them and the workers they run on | - |
| `RoutingProofs` | inductive invariant and proofs | extends `Routing` |
| `PlayingMonitor` | monitor thread, `ubus listen`, player status, router, shutdown | - |
| `PlayingMonitorProofs` | inductive invariant and proofs | extends `PlayingMonitor` |
| `FileMonitor` | monitor thread, the file and its writers, inotify, shutdown | - |
| `FileMonitorProofs` | inductive invariant and proofs | extends `FileMonitor` |
| `LxSetup` | the LX06 setup over several starts of the client, with failures, kills and reboots | - |
| `LxSetupProofs` | inductive invariant and proofs | extends `LxSetup` |
| `MCSupervisor`, `MCWriterPump`, `MCRecorder` | instances for TLC; they extend the proof modules, so that TLC can check the inductive invariants too | |

Variables and actions carry the names of the code where TLA+ allows it; a
comment at each variable names the field when it differs. The `map` of
`PROJECT.json` gives the lines of every definition. Operators under a comment
`Mutant:` are faulty variants of the definition after them. They are not part
of `Next` and serve to show that a property notices the fault.

### Supervisor

`bus` is the mpsc channel, `session` the active session's number, `registry`
the shared peer table, `peerTasks` the session's own one, `gate` the connector's
gate, `task[c]` the state of the two tasks of a peer and `routers` that of every
router so far. A handler of the supervisor is split where it blocks (the 200 ms
grace of `handle_peer_departure`, the joins of `shutdown`) and at the later
writes other threads can see: `HandleTaskExit`, `RemovePeer`, `FinishDeparture`
are one call of `handle_peer_departure` and what follows it; `HandleRouterExit`,
`DrainSession`, `FinishShutdown` the end of a session. A stale or repeated exit
has its own action, as it has its own early return.

`SessionLifecycle` says what the README says: the first peer begins a session,
later ones join, it ends as a whole with its last peer or its router.
`ImplementsLifecycle` maps a session to it from the first attach until its
registry is empty.

### WriterPump

`notify`, `close` and `wait` of `WriteSignal` are critical sections of one mutex
and so one step each. What is not atomic in the code is not here: filling a
queue and notifying (`SendControl`, then `Notify`), `drop`'s notification and
the release of the channel after it (`DropNotifies`, then `DropReleases`), and
the writer's look at one queue and then the other. A send to the socket starts
at `TakesControl` or `TakesAudio` and ends with an action of `WireNext`, or
never: the abort is what then ends it (`AbortStrikes`).

While it sleeps or drains, the writer has a thread of its own (`block_in_place`).
Suspended in a send it needs one of the runtime's two workers to poll it, to go on
and to be aborted. Who holds the workers is not known here: `worker` says whether
one is free, and `WorkerChanges` lets the other tasks take and give it back as they
like. `Routing` has the workers with their holders.

### Recorder

`start_recording_with_profile` and `stop_recording` are split wherever they let
go of a lock. `TakesTask` keeps the `task` lock until `Joins`, as the guard in
the code lives as long as the `if let`. Both threads run the same `StopNext(t)`.
A frame is the profile it was recorded under; `announced` is the format the
last answer promised and the peer has received.

`DeviceUse` is what the locks are for: a use of the device is a child process
and a thread at its pipe, which end in any order, and the device is taken again
only when both have ended. `ImplementsDevice` maps the capture started last to
it; captures before it must be over, or a step of theirs would have no step of
`DeviceUse` to be.

### Player

`start`, `enqueue` and `stop` are split wherever they let go of one of the three
locks. Two of them are held across a wait: `enqueue` keeps `sender` while its
queue is full (`SenderLocked`), `stop` keeps `task` while it joins
(`TaskLocked`). A playback is its `aplay`, what its thread is at, and how many
chunks wait for it, and the configuration it was started with; what the chunks hold
does not matter. The thread sees the
end of its channel when the channel is empty and nobody has a sender
(`Connected`). The registry, a running handler and the supervisor each may have
a copy of the `PeerContext`; `Dropped` is the drop of the last one, which takes
the sender away from the thread and so ends an `aplay` nobody stops. Playbacks
implement `DeviceUse` as captures do.

### Routing

The place where all queues meet. `route` holds frames (named after their peer),
reports and the supervisor's `Close`; `control[p]` counts the messages for
`p`. A reader that waits for room in `route` keeps a worker of the runtime,
because it sends with std's blocking `send` and not in `block_in_place`;
`FreeWorker` says that one is left. What has to be polled (`Receives`,
`ReaderExits`, `Resumes`, the exit of a suspended writer) has it as a guard;
what runs on a thread of its own, or in `block_in_place`, does not. A command is
one step, and whether it is answered is left open (`Targets`). `Supervisor` has
the control plane with more than one session, `WriterPump` the inside of one
writer, `Player` and `Recorder` the inside of the commands; `Routing` has what
they assume of each other.

### PlayingMonitor

The monitor's loop is split at every call (spawn, store in the slot, query,
send, read, wait for the child). The listener process, its subscription and the
player are external. A read error skips the kill, as in the code.

### FileMonitor

Files are inodes with a sequence of numbered lines and a place: at the path,
moved away, or gone. The kernel's part is external and models what the monitor
relies on: events are queued only for a watch that exists, equal neighbours are
merged, an unlink of an open file is an `IN_ATTRIB` and no `IN_DELETE_SELF`.
`exists`, `open`, and `inotify_add_watch` are separate steps (`LooksUp`,
`Opens`, `WatchesFile` or `WatchesDir`), reading and handing over a line too.

When the kernel's queue is full only the fact that events were lost is queued
(`overflow`), and the monitor logs it (`IgnoresOverflow`). `OneLoss` lets the
writing programs wait once that has happened until the queue has been read.

### LxSetup

One start of the client is a walk through the configurations: read what is
visible, mount a copy that is there already, or write one in three steps
(created, past the PCM's name, complete), set its permissions, mount it.
`Fails`, `Killed` and `Reboots` may come at every step; `spoiled` remembers, for
the properties only, which copies have been left unfinished. What has been written
survives a reboot, although the code does not sync it: a copy that comes back cut
short is a copy that was left unfinished.

A later start takes an unfinished copy for a good one, and what then holds is said
exactly. `EnabledMeansReady` excuses a configuration over which such a copy is
mounted (`MountedUnfinished`) and nothing else. `PilesOnlyOverCut` is about all
configurations: one mount each, but for a copy that was cut before the name of the
PCM. That one is not recognised when it is in force (`lx06_audio.rs` 120) and is
mounted once more at every start (139-149).

## 3. Runs

Passing runs:

| run | instance | what it shows |
|---|---|---|
| `supervisor` | two connections, both kinds, every failure | no exit is lost or charged to the wrong session, nothing outlives its session, the refinement; the gate reopens, a peer one of whose tasks ends is detached everywhere and closed, a failed router ends its session |
| `writer` | two control handles, one audio handle, queues of two | no lost wake-up, answerable clears, forced close ends the writer as long as workers become free, control is served once audio pauses |
| `recorder` | two starts of `arecord`, all commands, a departure at any time | the refinement of `DeviceUse`, formats, stops, every command returns, a departure that meets no start leaves nothing recording |
| `player` | three starts of `aplay`, two configurations, a queue of two, `aplay` dying and a departure at any time | the refinement of `DeviceUse`, stops, every command and chunk comes back, a stop that meets no start returns and leaves silence, a lost peer falls silent |
| `routing` | two peers on one worker, one of which may stop reading | a `Close` is sent with every peer closed before; while a worker is free again and again a shutdown that sends into a full channel ends, all is served, and the tasks of detached peers end |
| `playing` | three statuses, pipe and channel of two | one listener, no repeats, what is heard is delivered, a dead listener is replaced or the monitor ends, killing the listener ends the thread |
| `file` | two files, two lines, event queue of two that overflows | lines once and in order, a line an event told of is delivered, a truncation an event told of is noticed, a file that appears is read, `close` ends the thread |
| `setup` | two configurations, four starts | the capability is announced only when every configuration is in order or an unfinished copy is mounted over it, mounts pile up only over a copy that was cut before the PCM, only a reboot undoes what is in order |

Runs that show where code and documentation disagree; each checks the one
property that states the quoted sentence (see `findings` in `PROJECT.json`):

| run | sentence | what happens |
|---|---|---|
| `supervisor_gate` | at most one connected outbound peer (README 270) | the second exit of an old outbound peer opens the gate for the next one |
| `supervisor_isolation` | a peer's exit closes only that peer (README 260) | a dispatch to a peer whose writer has ended ends the router, and all peers with it |
| `recorder_lost` | the recorder of a lost peer is stopped (README 424) | a start under way at the detach comes after the last stop |
| `routing_close` | both tasks of a closed peer exit in the end (`ws_pump.rs` 99-103) | two readers that wait for the route channel hold both workers, and nobody polls the writer the router waits for. With more peers than workers a supervisor that shuts down can be caught in it as well: its `Close` finds no room in the route channel |

The other configurations are kept for whoever looks into these places; TLC ends
each with a counterexample to the one property it names:

| configuration | sentence | what happens |
|---|---|---|
| `WriterStarvation.cfg` | control is not held back by audio (`ws_pump.rs` 454, 539) | the audio queue is drained to its end, which need not come |
| `RecorderRestart.cfg` | a second `start_recording` restarts with its config (README 473) | profiles are compared, configs are not |
| `RecorderJoin.cfg` | after the child's end the thread ends by itself (`recorder.rs` 315) | `stop` finds no child, but a thread, and joins it for ever |
| `PlayerRestart.cfg` | a second `start_play` restarts with its config (README 459) | a start is ignored while there is a sender (`player.rs` 55-59, whose comment says so), whatever config it asks for |
| `PlayerJoin.cfg` | without a sender the thread ends by itself (`player.rs` 188, 195) | the supervisor's stop comes between the stores of a start that puts its sender in place after all, and joins that thread |
| `FileMonitorPath.cfg` | while the file exists it is listened to (`file.rs` 227) | a file created between `exists()` and the directory watch is not seen |
| `LxSetupTorn.cfg` | `Ok(true)`: both files have the PCM (`lx06_audio.rs` 38, README 130) | a copy that a kill has cut short is mounted by the next start |

They run with the module their name begins with (`MCWriterPump`, `MCRecorder`,
`Player`, `FileMonitor`, `LxSetup`).

### Bounds

| constant | value | why it is enough |
|---|---|---|
| `Conn` | 2 (3 in `supervisor_gate`) | a connection is one whole life of a peer; two give every overlap of arrival, departure and shutdown, and two sessions after each other; the gate needs an old peer, the next one and one too many |
| `ControlSender`, `AudioSender` | 2 and 1 | registry and router share the control queue, the recorder has the audio queue to itself; handles may be cloned again after they are dropped |
| `ControlCapacity`, `AudioCapacity` | 1 or 2 (256 and 128 in the code) | full, partly full and empty are all reached; capacities enter guards only |
| `MaxStarts`, `Backlog` | 2, 2 | an old and a new recording, and an answer of an earlier command still queued |
| `RouteCapacity`, `MaxLines` (playing) | 2, 2 | a report sent while one is queued; a broadcast heard while one is unread |
| `MaxStarts`, `QueueCapacity` (player) | 3, 2 | an old playback, its successor and one more while the supervisor stops; a queue that is empty, partly full and full. `AplayMayDie` is on |
| `Peer`, `Workers` | 2, 1 (2, 2 in `routing_close`) | the smallest instance with more peers than workers, in which one reader holds all of them; a fast peer and one that need not read (`Reading`). In `routing_close` there are no more peers than workers, and it takes all of them |
| `RouteCapacity`, `ControlCapacity`, `MaxFrames`, `MaxReports` | 1, 1, 3, 1 | one frame in the route channel, one in the router's hand and one that waits, for each peer; capacities enter guards only |
| `MaxFiles`, `MaxLines`, `MaxEvents` (file) | 2, 2, 2 | a file and its successor, a line behind the position and one before it, `attrib` and `gone` from one unlink. `MaxEvents` is the kernel's `max_queued_events`; a third event overflows the queue |
| `Targets`, `MaxStarts` (setup) | 2, 4 | the number of configurations in the code; a start that is cut short, one that takes the leftovers for good, one after a reboot and one more |

The counters that would grow without end are bounded in guards: starts of
`arecord`, `aplay` and the client by `MaxStarts`, answers by `Backlog`,
broadcasts in the pipe and log lines by `MaxLines`, frames and reports by
`MaxFrames` and `MaxReports`; sessions by the number of connections, and after
an overflow the writing programs wait for the queue to be read (`OneLoss`).
Deadlock is checked in `supervisor`, `supervisor_gate` and `setup`; the other
systems really stop (a writer that has ended, a session that is shut down, a
recorder out of starts), so their configurations say so.

### Fairness

Weak fairness is given to what a scheduler runs as soon as it is able to, and to
nothing that depends on a person, a peer or a device:

- `Supervisor`: the supervisor's steps, the connector's steps other than the
  outcome of a connect, the waiters. That
  `SupervisorNext` is fair assumes that the calls it makes return: the stop of a
  recorder and of the player, the joins of the monitors, the send of `Close`
  into the route channel. `Routing` shows that the send does return as long as
  workers become free, `Recorder`, `Player` and `PlayingMonitor` have the cases in
  which a stop or a join does not. An aborted task owes nothing: the abort takes
  effect when one of the two workers polls the task, and readers that wait for the
  route channel can hold both (`routing_close`). `DepartureCompletes` therefore ends
  with the abort; that the tasks then end is `ServedWhileWorkersFree` of `Routing`,
  with its premise.
- `WriterPump`: the writer's own steps on its thread, notifications and drops once
  begun, the abort call after the 100 ms of `close`. That the abort takes effect
  (`AbortStrikes`) is strongly fair only, and has a free worker as its guard:
  `ForcedCloseEnds` takes as its premise that one is free again and again
  (`WorkersComeFree`), and is false without it. The runtime does not promise that;
  `routing_close` has the state in which it does not happen. The socket owes nothing; `ControlServed`
  takes as its premise that the peer reads (`PeerReads`) and that the recorder
  pauses (`AudioStops`).
- `Recorder`: both callers and the end of a thread whose `arecord` is dead. The
  writer owes nothing, because the router gives up waiting after two seconds.
- `Player`: the router inside a command, the supervisor inside a stop, the
  playback threads. An `aplay` takes what is written to it unless it dies, and
  ends at the end of its input; no peer owes a command.
- `Routing`: what runs on a thread of its own is weakly fair. What a worker has
  to poll is strongly fair, for the peers that read (`Resumes`) and for the tasks
  of closed peers (`ReaderExits`, `WriterExits`): tokio's run queue is fair, so a
  ready task is polled when a worker is free again and again, also when it is
  not free all the time. No peer owes a frame, and a peer outside `Reading` need
  not read. `ServedWhileWorkersFree` and `ShutdownCompletes` take as their premise
  that a worker is free again and again; `routing_close` is what happens without
  it. With no more peers than workers a shutdown that waits for the route channel
  has the worker it needs (`ShutdownHasWorker`, proved).
- `PlayingMonitor`: the monitor, the router while it runs, the shutdown once it
  has begun. A started listener subscribes, and a listener can be started at
  some time if that is tried again and again (strong fairness of `Spawns`).
- `FileMonitor`: the monitor and a shutdown that has begun. Nothing is assumed
  of the programs that write the file. A report is taken at once or refused:
  the router empties its channel as long as it runs, and its end drops the
  receiver, which wakes a sender.
- `LxSetup`: none. It has safety properties only, and nobody owes a start.

## 4. Proofs

`tlapm` checks every step of these modules. The assumptions are those the
component's module states about its constants: kinds of value, distinctness of
"nobody" from the members of a set, capacities of at least one. No set and no
bound has a size.

Each proof has the same shape: an inductive invariant `IInv`, a lemma for the
initial state, one lemma per action or group of actions with a step for every
conjunct the action can disturb, and the theorems of the properties as
consequences.

- **SupervisorProofs**: `TypeOK`, the six safety invariants, the action property
  `DetachedForCause` and the refinement `ImplementsLifecycle`. The invariants
  alone are not inductive: they speak of reports that are on the bus, so `IInv`
  adds what the bus can hold (`QueuedPeersAreFresh`, `QueuedExitsAreReal`,
  `PendingIsFresh`, `NoTraceBefore`), what the supervisor's place in its handler
  says of the two peer tables (`SupervisorPlace`), and that members belong to
  the active session (`MembersOfSession`).
- **WriterPumpProofs**: `TypeOK`, `NoLostWakeup`, `ClearIsAnswerable`,
  `FinishLeavesNothing` (a writer that ends by itself has nothing left to send).
  `NoLostWakeup` speaks only of a sleeping writer; it holds because a message
  that arrives behind the writer's back is remembered from the moment it has
  passed that queue (`ControlRemembered`, `AudioRemembered`), and because a
  queue once found closed stays so (`ClosedForGood`).
- **RecorderProofs**: `TypeOK`, `OneArecord`, `StopStops`, `FormatKept`, the
  refinement `ImplementsDevice`, `QuietDeparture` and `JoinHasEnd`. The core
  is that a running `arecord` or thread can always be found: in its field, or in
  the hands of a caller on its way there or from there (`ArecordIsHeld`,
  `ThreadIsHeld`, `FieldsEmpty`), and that only the latest recording has either
  (`OnlyLatestReads`). `FormatKept` adds the way of a switch: the clear is alone
  (`ClearIsAlone`), and from its answer on only the promised profile is recorded,
  queued and sent (`OnlyPromised`). The refinement takes from `SilentAfterStop`
  that a start finds nobody reading, and from `OnlyLatestReads` that an `arecord`
  without its thread does not run either. What the supervisor leaves behind
  (`QuietDeparture`) follows from what it has emptied and nobody has filled again:
  `ChildTaken`, `TaskTaken`, `QuietBehind`. `JoinHasEnd` says why a join returns.
- **PlayerProofs**: `TypeOK`, `OneAplay`, `StopPlayStops`, the refinement
  `ImplementsDevice`, `QuietDeparture` and `JoinHasEnd`. As for the recorder, a
  running `aplay` or thread can be found in its field, in the hands of a caller,
  or belongs to a player that has been dropped (`AplayIsHeld`, `ThreadIsHeld`),
  and only the latest playback has either (`OnlyLatestPlays`). That joins exclude
  each other (`JoinsAlone`) and that the field `task` stays empty from the join
  to the next start (`TaskEmpty`) is what makes the silence after a stop hold
  while the supervisor stops as well (`SilentAfterStop`). Behind the supervisor the
  fields stay empty unless a start is under way (`SenderEmpty`, `TaskTaken`,
  `QuietBehind`); this gives `QuietDeparture`, and `JoinHasEnd`: the thread that is
  joined has lost its sender.
- **RoutingProofs**: `TypeOK`, which includes the bounds of the queues,
  `CloseCanBeSent`, `ShutdownHasWorker` and `OnlyWritersHoldUp`. Whoever is not registered any more has been
  closed as long as no shutdown has begun (`NobodyForgotten`), and a shutdown
  begins with nobody registered or with a router that has ended. A peer is closed
  only when one of its tasks has exited (`ClosedHaveExited`): if that is not the
  writer the router waits for, then it is the reader, which holds no worker; so in
  a session with no more peers than workers there is one for the writer.
  `OnlyWritersHoldUp` is freedom from deadlock without the word ENABLED, which the
  prover has not: `StandsStill` spells out that no guard of router, sending readers
  and running writers holds (on the instance of `routing` TLC finds it equal to
  `~ENABLED`), and then suspended writers are what all wait for. It uses that the
  queue of a writer that has exited is empty (`ExitedIsEmpty`).
- **PlayingMonitorProofs**: `TypeOK`, `OneListener`, `NoRepeats`, and the action
  property `NoStatusForgotten`. The monitor's idea
  of the last report is the newest one on its way to the router, or differs from
  it exactly while a report is to be sent (`LastIsNewest`); it must hold across
  restarts of the listener and only as long as there is a receiver.
  `NoStatusForgotten` needs it too, for an answer that is not sent because it is
  the last report already, and that a listener given up has been read to its end
  (`ReadToEnd`).
- **FileMonitorProofs**: `TypeOK`, `OnceInOrder`, and the action properties
  `NoHeardLineLost`, `NoTruncationMissed`, `NoAppearanceMissed`. Files grow by newer lines
  (`LinesGrow`), and what a file holds behind the position, or anywhere after a
  truncation not yet noticed, is newer than what has been read (`AheadIsNewer`).
  The rest says where the monitor has a file and a watch, and that the events of
  a directory never lead it to read (`DirectoryEvents`). The action properties
  add that events are read only when none is left in hand (`BatchPlace`), and
  lemmas about the queue: what is put, merged or lost never takes an event away
  that is in it (`PutKeeps`, `FilesKeepEvents`), and a line stays at its place in a
  file that is not truncated (`FilesKeepLines`).
- **LxSetupProofs**: `TypeOK`, `EnabledMeansReady`, `PilesOnlyOverCut`, and the
  action property `StaysInOrder`. Copies
  are finished but for the one in work and the spoiled ones (`CopiesFinished`),
  the configurations already passed are in order or have an unfinished copy over
  them (`DoneAreReady`), what is written and mounted is needed, and a configuration
  that is mounted over once more has a cut copy (`WorkIsNeeded`), and a start mounts each
  configuration once at most (`MountsCounted`), which bounds `mounts`. An
  unfinished copy is never taken up again, and nothing is mounted over a
  configuration in order (`WorkIsFresh`): so a step other than a reboot changes
  only what is not in order yet, spoiled or not.

Every invariant, action property and refinement of the passing runs is proved.
Type invariants are theorems only, as are the conjuncts of the invariants which
the runs check together, `OneArecord` and `OneAplay`, which `ImplementsDevice`
has in it, and the following, which stand between the invariants and the liveness
properties.

Liveness properties are only model-checked: fairness is out of reach of the
prover. What is proved of them, for all values of the constants, is their safety
part: that what is owed stays owed until it is done, and that whoever waits waits
for something that can still come.

| liveness property (TLC) | its safety part (TLAPS) |
|---|---|
| `GateReopens`, `DepartureCompletes`, `RouterFailureEndsSession` | `GateNotStuck`, `NoZombiePeer`, `NoZombieSession` |
| `ControlServed` | `NoLostWakeup` |
| `CommandCompletes`, `DepartureEndsRecording` | `JoinHasEnd`, `QuietDeparture` |
| `RequestCompletes`, `QuietStopReturns` | `JoinHasEnd` |
| `ShutdownCompletes`, `ServedWhileWorkersFree` | `CloseCanBeSent`, `ShutdownHasWorker`, `OnlyWritersHoldUp` |
| `HeardStatusDelivered` | `NoStatusForgotten` |
| `HeardLineDelivered`, `TruncationNoticed`, `AppearanceNoticed` | `NoHeardLineLost`, `NoTruncationMissed`, `NoAppearanceMissed` |

Of `ForcedCloseEnds`, `LostPeerFallsSilent`, `DeadListenerReplaced`,
`KillEndsMonitor` and `CloseEndsMonitor` nothing is proved beyond the invariants
of their modules. What ends in a counterexample is, of course, only model-checked.

## 5. What is not modelled

- The content of messages: parsing and formatting (`transport/codec.rs`,
  `protocol/data.rs`) are total functions of one message. A frame that cannot be
  decoded ends its reader, which `ReaderExits` includes.
- The rebind loop of the listener and errors of `attach_peer`: no state, or
  impossible by construction of the objects involved.
- `get_version`, `run_shell`, the conversion of samples, configuration, device
  identification, logging: functions of one call. `run_shell` runs in the router
  and takes as long as its command; the router's fairness assumes that it ends.
- The filter of the kws monitor by timestamp, a function of two neighbouring
  lines, and lines read while they are half written, which the filter takes for
  a record with a cut keyword; resets as reports of their own (`NewFile`), the
  removal of a watched directory, other errors of system calls.
- A reader or writer task that is aborted at an await other than those named in
  `Routing` and `WriterPump`: they hold nothing there that outlives them.
- A thread that cannot be made for an `aplay` or `arecord` that has been spawned
  (`player.rs` 115-136, `recorder.rs` 228-306): the error is returned and nobody
  waits for the process. Its pipe is dropped with the closure, so it ends by itself
  a moment later; `SpawnFails` leaves that moment out.
- A log file that is cut in the middle. `Truncates` empties it; after another
  truncation the reset to 0 (`file.rs` 891-899) reads what is left once more, which
  `OnceInOrder` does not speak of.
- A reboot that loses what was written and not synced, beyond what an unfinished
  copy shows.
- Where the LX06 setup inserts the PCM in the text of a configuration.
- `shell/speaker.rs`, which is not part of the build.

## 6. Plan

Done, in this order: `Supervisor` with `SessionLifecycle`, `WriterPump`,
`Recorder`, `PlayingMonitor`, `FileMonitor`, `Player`, `Routing`, `LxSetup`, each
with proofs of its safety properties; `DeviceUse` with its two refinements, and the
safety parts of the liveness properties.

1. The kws filter on top of `FileMonitor`, with half-written lines: which records
   are reported whole, and once.
2. An abstract outbox (messages leave in their order, one at a time, and none is
   dropped before the end) that `WriterPump` implements, and an abstract "tail of a
   file" for `FileMonitor`.
3. `WriterPump` in place of the counted control queues of `Routing`: the same
   circle with the writer's own order of audio and control.
