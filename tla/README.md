# A TLA+ model of Flycast (gdxsv fork)

Flycast emulates the Sega Dreamcast and its arcade relatives (NAOMI, NAOMI 2,
Atomiswave); this fork adds gdxsv, network play for one game. The program's own
code is in `src/core` (about 110 000 lines; `core/deps` is vendored, but its
GGPO library is adapted to these battles and modelled). This
directory models the parts whose correctness depends on *order*: threads that
wait for each other, events that outlive their reason, a clock that wraps,
states that are loaded over running ones, messages that are lost or come twice,
frames that are run before it is known what the players did.

Contents: [1 inventory](#1-inventory) · [2 plan](#2-plan) ·
[3 modules](#3-the-modules) · [4 runs](#4-the-runs) · [5 proofs](#5-the-proofs) ·
[6 findings](#6-what-the-model-found) · [7 limits](#7-what-is-not-covered)

## 1 Inventory

### Threads

| Thread | Code | Does |
|---|---|---|
| emulation ("Flycast-emu") | `Emulator::start` | runs the CPU by timeslices of 448 cycles, and on it every device of the console: scheduler, DMA, interrupts, sound, and the GGPO session |
| user interface ("Flycast-rend") | `mainui_loop`, `Emulator::render` | takes messages from the render queue, draws and presents; starts, stops, loads and unloads games |
| network | `GdxsvBackendUdp::NetThreadLoop`, picoppp, ICE, naomi_network, GGPO start | sockets; exchange bytes with the emulation thread through locked buffers |
| workers | `util/worker_thread.h`, `periodic_thread.h` | file output, modem polling, achievements, texture loading |

Without threaded rendering the first two are one thread; the models are about
the threaded mode, which is the default.

### Components

| Component | State | Operations | Talks to | What makes it correct |
|---|---|---|---|---|
| **Emulator lifecycle** `emulator.cpp` | `state`, the future of the emulation thread, `CpuRunning`, `resetRequested` | load, start, stop, render, reset, unload, term | GUI calls it; it starts the CPU, closes GGPO, cancels the renderer's waits | one thread at most; a stopped CPU stays stopped; `stop()` returns; errors end in a state from which a game can be unloaded |
| **Render hand-off** `Renderer_if.cpp` | message queue, events `renderEnd`, `enqueueEvent`, `dequeueEvent`, `vramRollback` | start/end render, vblank, swap, dequeue, execute, cancel | guest writes and SPG callbacks on one side, `rend_single_frame` on the other | no frame orphaned or lost, waits end, a render to texture is complete when the guest is told |
| **TA contexts** `ta_ctx.cpp` | slot `rqueue`, event `frame_finished`, pool of contexts | queue, dequeue, finish, recycle | both threads | a context is in one place at a time |
| **SH4 scheduler** `sh4_sched.cpp` | slots (start, end), clock, countdown | register, request, tick, reset, save, load | every device registers callbacks | a request is served once, in time, and periodic devices do not drift |
| **GGPO session** `ggpo.cpp` | session, `ggpoMutex`, `_endOfFrame`, delta states, skipped frames | end of frame, next frame, save, load, run again, free, close | emulation thread, `stop()`, GGPO library, memwatch | a rollback reproduces the state; the session is not closed while in use |
| **GGPO library** `deps/ggpo` | input queues, ring of saved states, frame counters, who is disconnected | add and get inputs, poll, check and adjust the simulation, disconnect | calls back into the session; its UDP protocol brings the inputs of the peers | what is confirmed is a game in lock step; the state to go back to is there |
| **gdxsv UDP backend** `gdxsv_backend_udp.cpp` | send/receive buffers, window, acknowledgements, filter | connect, read, write, close, network loop | guest RPCs, battle server | messages arrive once and in order, the stream of the game has no gap |
| gdxsv rollback backend, lobby, replay | protocol state, GGPO configuration | matching, ping, start battle, replay seek | stops and starts the emulator | |
| interrupt controllers | pending, masks, level | raise, clear, mask | devices, CPU | an unmasked pending interrupt reaches the CPU |
| system bus, DMA | DMA registers, busy flags | start, end | scheduler, interrupts | one end interrupt per transfer |
| TA FSM, SPG, PVR registers | list state, scanline | write, vblank | scheduler, hand-off | lists end, vblanks are periodic |
| CPU: interpreter, dynarec, block manager | registers, block cache | run, invalidate | memory protection | no stale block is executed |
| **memwatch** `mem_watch.h` | protected pages, saved pages | protect, hit, reset | GGPO states | every page written since the last save is saved, once; a page that faults is unprotected |
| AICA, GD-ROM, Maple, modem (V.42), BBA, flash, NAOMI boards | device registers | register accesses, scheduled steps | bus, interrupts, scheduler | device protocols |
| NAOMI network | role, slots, packet ring | handshake, send, receive | peers over UDP | all cabinets agree on the slots |
| thread utilities | queue, running flag | start, run, stop | | tasks run once, `stop()` returns |
| serialization, audio, renderers, disc images, configuration, input, UI, Lua, cheats, achievements, debugger | | | | mostly data and I/O |

`PROJECT.json` lists each with its status. **Bold** ones are modelled.

### What is hard here

- Auto-reset events (`cResetEvent`) keep a signal that nobody waited for; the next
  wait takes it for its own.
- `Emulator::stop()` must get the emulation thread out of any of six waits, in
  an order that no new wait undoes, while the thread may start the CPU again at
  the end of a GGPO frame or after a guest reset.
- The slot `rqueue` and the message that announces it are written apart.
- Scheduler times are 32-bit words with a sentinel among them, compared as signed
  differences; callbacks change the list that calls them.
- GGPO rolls back from inside `nextFrame`, under a mutex that `stop()` also wants.
- A battle message over UDP is sent again until it is acknowledged; acknowledgements
  carry a position in a window that moves, and may be late or repeated.
- A saved state holds only the pages that its frame overwrote. What a rollback
  restores is put together from several such states, which are freed and written
  again while rollbacks go over them; input queues, ring and states each count frames
  on their own, and players leave in between.

## 2 Plan

In this order; what is done is marked.

1. `RenderHandoff`, `RenderHandoffProofs` - **done**: the two threads and a stop.
2. `Timers`, `Sh4Sched`, `Sh4SchedProofs` - **done**: the clock of everything, with
   an abstract specification and a proved refinement.
3. `EmuLifecycle`, `EmuLifecycleProofs` - **done**: start/stop/reset/unload and GGPO.
4. `GdxsvUdp`, `BattleChannel`, `GdxsvUdpProofs`, `GdxsvUdpStreamProofs` - **done**: the window, acknowledgement
   and filter of battle messages over a network that loses, repeats and reorders; each
   direction refines a FIFO channel, and the bytes of the game stay whole, proved. Left: the reconnect race of `NetThreadLoop`.
5. Interrupts: `holly_intc.cpp` and `sh4_interrupts.cpp` composed: what is
   pending and unmasked is what the CPU sees, after any order of raise, clear, mask.
6. `Rollback`, `LockStep`, `RollbackProofs` - **done**: the GGPO library, the states of
   `ggpo.cpp` and memwatch composed; loading frame *f* restores the memory of frame *f*, and
   the battle refines a game in lock step, both proved.
7. Thread utilities (worker, periodic, runner), V.42 LAPM, NAOMI ring, GD-ROM packet
   states, maple DMA, block manager, as far as they fit.
8. Proofs still worth their while: an abstract specification of the render hand-off (each frame
   is drawn once or dropped before it is started) with its refinement, and for the waits of
   `EmuWaitEnds` and `FrameRendered` a count of steps as in `StopCountsDown`.

## 3 The modules

### RenderHandoff

Three actors: `emu` (program counter of the emulation thread inside a timeslice),
`ui` (that of `rend_single_frame`) and `stopper` (that of `Emulator::stop()`, which is the
UI thread between two frames, or with `ForeignStop` a thread of its own as on
Android). One step of the model ends where another thread can see a difference:
after each access to the queue, an event, `rqueue` or the pool.

| Code | Model |
|---|---|
| `PvrMessageQueue::queue`, its two events | `queue`, `enqueueEvent`, `dequeueEvent` |
| `renderEnd`, `frame_finished`, `vramRollback` | variables of those names; a wait is an action enabled while the event is set, that resets it |
| `rqueue`, `ctx_pool` | `rqueue`, `pool` (sets of identities) |
| `rend_start_render`, `QueueRender` | `StartRender` ... `Claim` |
| `enqueue` | `Enqueue`, `SignalEnqueue`, `AwaitRoom`; the messages still to send are `outbox` |
| `rend_end_render`, `rend_vblank`, `rend_swap_frame` | `RenderDoneDue`, `WaitRenderEnd`, `VBlankFramebuffer`, `SwapFrame` |
| `dequeue`, `execute`, `render`, `FinishRender` | `Dequeue` ... `FinishFrame` |
| `stop`, `rend_cancel_emu_wait`, `checkStatus(true)` | `StopEmulator` ... `Join` |
| `start`, `rend_deserialize`, `rend_reset` | `Resume`, `LoadState`, `Unload` |

`frame` and `cancelled` are history variables: what became of the frame queued last.
A chain of contexts (a multi-pass frame) is one context. `Renderer` is a choice
among success, nothing to present and an exception.

### Sh4Sched and Timers

Every function of `sh4_sched.cpp`, on words of `2 * Half` values (2^32 in the code) with
the last one meaning "not scheduled". A walk of `sh4_sched_tick` is a sequence of
`Pass`, `Fire`, device requests made by the callback, and `Return`, up to `EndWalk`.
`sh4_sched_next_id` is kept as whether it is -1, which is all the code asks of it;
`sh4_sched_ffb` as its low word; the `start` of an idle slot, never read, is normalised.
`asked` and `left` are history: what each device was promised. So is `wasDue`: when the
callback that is running was due.

`Timers` is that promise without slots, words or walks: timers are armed with a delay,
time passes by slices, a timer fires when it is due and at most one slice late, time
does not pass over a timer that is due. `Sh4Sched` implements it with the refinement
mapping `armed <- scheduled slots`, `due <- signed distance of the end from the clock`.

### EmuLifecycle

`state`, `cpuRunning` and the program counters `emu` (loop of the emulation thread,
`runInternal`, `ggpo::nextFrame` with its rollbacks) and `ui` (`stop()` step by step).
`ggpoMutex` is a variable only for the emulation thread, since the UI thread never keeps
it from one step to the next. Of the renderer only `frameQueued` and `vramRollback`
remain; `RenderHandoff` has the rest. Left out and listed as hazards: a reset or an
exception inside a frame that a rollback runs again, and the debugger's `step()`.

### GdxsvUdp and BattleChannel

The two ends of a gdxsv battle: the thread of `NetThreadLoop` and the game, whose RPCs fill
and empty the buffers, are this program; the server is external and behaves as the loop
expects (it answers Hello and Ping, and relays with the same window and filter). The
network is two sets of datagrams, `up` and `down`: any one of them is received next, `SendUp` and
`SendDown` may lose one, `TakeUp` and `TakeDown` may leave one to be received again.

| Code | Model |
|---|---|
| `Connect`, `Reset`, close, reads and writes of the socket | `ConnectClose` `ConnectStart` `ConnectFail`, `Reset`, `SockClose`, `SockRead`, `SockWrite`, on `send_buf` and `recv_buf` |
| states of the loop: session exchange, ping test, battle | `loop.state`; `TakeSession`, `SayHello`, `SendPing`, `BeginBattle` |
| packets received | `RecvDrop`, `RecvHello`, `RecvPong`, `RecvBattle`, `RecvFin`, `ReadMessage` |
| `MessageBuffer` (push, fill, acknowledge) | `PushBattleMessage`, `CanPush`, `ApplySeqAck` |
| retransmission countdown (all values below zero are one, see `Counted`) | `Wait`, `Due`, `Send` |
| a message takes as many items as fit, the rest stays in `send_buf` | `Send(n)`, for any number n |
| session exchange or ping that cannot be serialized: `remote_.Close()` | `QueryFails` |
| `MessageFilter::IsNextMessage` | `IsNextMessage`, one number for each sender |

`BattleChannel` is what one direction promises: messages are put in, and a prefix of
what was put in comes out. It is instantiated twice, `Relay` (game to server) and `Feed`.

### Rollback and LockStep

`Rollback` composes three parts that the emulation thread runs by turns: GGPO's
`Sync`, `InputQueue` and the poll of `Peer2PeerBackend`; the callbacks of `ggpo.cpp`; memwatch.
The console is its history `cpu`: for each frame the inputs it was run on. A page's
content is named by the history at its last write and the emulation is an unknown
function (`Dirty`) of the history, so that a page restored wrongly, or a frame run again on
other memory, cannot look right by accident.

| Code | Model |
|---|---|
| `InputQueue` | record `queue[p]`: inputs from frame 0, first kept, prediction, first mistake, last request |
| `Sync::_savedstate` | `saved`, `head`: a ring of `Ring` slots |
| `nextFrame`, `ggpo_advance_frame`, `AddLocalInput` | `pc` from `run` over `advance`, `events`, `confirm`, `input` back to `run` |
| `DoPoll`, `CheckSimulation`, `AdjustSimulation` | `Receive`, `Disconnect`, `AdjustSimulation`, then `ReplayFrame`, `ReplaySaved` for each frame |
| `Poll2Players`, `SetLastConfirmedFrame` | `SetLastConfirmedFrame` (gdxsv sets disconnect-without-rollback) |
| `save_game_state`, `load_game_state`, `free_buffer` | `SaveCurrentFrame`, `LoadFrame` with `Restored`, `delta`, `skipped`, `lastSaved` |
| `Watcher` | `prot`, `watch`, `started`; a fault is part of `Execute` |
| the loop of `nextFrame` at the prediction barrier | `Refused`, which polls again |
| `ggpo_disconnect_player` of the local player, by the UI thread or in a frame | `Leave`: all peers at once |
| `emu.start()`, which protects the memory before frame 0 | `Init`, `StartSession` |
| `stopSession`; an assertion of the library that throws | `Close`; `AssertFails` |

`LockStep` promises: each player has a script, and the frames that are final are those
scripts, extended and never changed. The mapping: final is what has been run and is
confirmed. `MCRollback` gives TLC the players and what they do.

## 4 The runs

| Run | Checks | Shows |
|---|---|---|
| `handoff_safety` | `TypeOK FrameNotOrphaned RenderedFrameInSlot ContextConserved RollbackAfterProcess NoLostWakeup` | everything at once: skipped frames, rollbacks, foreign stop at any step, exceptions, spurious wakeups, load, unload: no frame is orphaned, no rollback starts under a frame, no wakeup is lost (1.4 million states) |
| `handoff_live` | `StopReturns FrameRendered EmuWaitEnds RollbackStarts` | with fair threads no wait lasts for good |
| `handoff_sync` | `RenderEndInOrder` | without a stop, the guest is never told too early |
| `handoff_resume` | `RenderEndInOrder` **violated** | finding 1 |
| `handoff_lost` | `NoFrameLost` **violated** | finding 2 |
| `sched` | `TypeOK RequestsKept NextIsSoonest JitterInRange PeriodicWithoutDrift ImplementsTimers` | the scheduler keeps its promises across wraps, callbacks and loads, and a period runs from the time one call was due to the time the next one is |
| `life` | `TypeOK RunVerified ResetVerified ThreadJoined SessionOpenInFrame StopEnds ErrorNoticed` | start, stop, reset, error, unload and GGPO in every order |
| `udp` | `AckInWindow StreamIntact RelayedInOrder HeardInOrder` | one battle with two peers, datagrams in flight that overtake each other, a full window and failing sends: both directions are FIFO channels, no acknowledgement deletes too much, and the bytes of the game stay in frame |
| `udp_live` | `TypeOK ReadsOwnBattle HandshakeEnds WindowDrains` | two battles in a row with retransmission: the handshake ends and the window empties although datagrams are lost; nothing of the first battle is read in the second |
| `rollback` | `TypeOK RollbackExact NoFaultLoop TargetSaved InputsKept Converged ImplementsLockStep BarrierLifts` | three players, rollbacks on top of rollbacks, skips, players that leave, an assertion that fails, a second session: memory is exact, lock step is implemented, the barrier lifts (460 000 states) |
| `life_stop` | `StopReturns` **violated** | finding 3 |
| `life_mutex` | `NoMutualWait` **violated** | finding 4 |

**Bounds.** `Ctx`: two contexts let one be queued and one in the making, the third
one be recycled meanwhile; `ContextSymmetry` is sound because no context is
distinguished. `MaxQueue` stops the guest from adding messages: four hold one of each
kind, and a kind other than Present is never queued twice. `sched`: two slots, so that a callback
can touch a slot before, at and after the walk; a clock of 16 values, which wraps
every few slices, so that every alignment of ends, slices and the sentinel happens;
delays 0 and 3 are below and above a slice of 2; states are saved at one reading
of the clock just before the wrap. `EmuLifecycle` needs no bound. `udp`: a window of one
message (`BufSize`) is full at once, three messages make numbers that the filter must tell
apart, two datagrams in flight are enough to overtake and to repeat; `MaxFaults`
bounds losses and copies, `MaxConnects` the battles, `PingRounds` and `Retransmit` are the code's
counters made short. `udp_live` trades the second datagram for a second battle.
`rollback`: `MaxPrediction` 3 and `Ring` 3 (6 and 8 in the code) are tighter than the code's, since
the ring has no slot to spare; four frames let the ring wrap, one in two can be skipped
(one in ten in the code); a second session of two frames meets what the first one left;
only player A is uncertain, as one wrong guess needs one, B has a frame delay, and
both leave at any poll, or both at once in a frame or before an input.

**Fairness.** `FairSpec` of `RenderHandoff`: weak fairness of the emulation thread, of the
render loop and of the cancelling steps. Both are OS threads that are never
suspended; the UI loop runs for as long as the program does; `stop()` does not
return half way. Nothing obliges the guest to render or the user to stop or resume.
`EmuLifecycle`: weak fairness of the emulation thread and of what the UI thread has begun
or does in every iteration (render, check the thread); not of the user's choices.
`LiveSpec` of `GdxsvUdp`: the loop and the server run (weak). The loop empties its socket in every
iteration and reads faster than datagrams arrive, so it goes round again and receives what is
there, battle messages and others (strong); the faults are bounded by `MaxFaults`.
`LiveSpec` of `Rollback`: the emulation thread runs (weak); from each peer an input arrives or it is
disconnected (strong, since polling comes and goes): `udp_proto.cpp` retransmits
until acknowledged and has a disconnect timeout.

**Deadlock** is checked in the hand-off and scheduler runs. In the lifecycle runs it
is not: `Terminated` is final. In `udp`, `udp_live` and `rollback` it is not either: a battle may be
over, or its bounds used up, with nothing left to do.

## 5 The proofs

For every value of the constants (every set of contexts, every setting, every clock
width and list length). `SchedAssumption` asks that the longest delay and a
slice stay below half the range of a word: in the code 200 000 000 + 448 against 2^31.

- **RenderHandoffProofs**: `HandoffInv` is inductive. `FrameNotOrphaned` alone is not,
  since `QueueRender` looks at `rqueue` several steps before it takes the slot; the
  invariant adds what each program counter implies about who holds which context and
  which messages are still to be sent. It gives `HandoffTypeCorrect`, `NoOrphan`,
  `FinishRenderVerified` and `ContextsConserved`. Two more invariants build on it. `WakeInv`
  says of each event, and of the stage that its waiter has reached, who has still to signal
  it: the queued frame, its message, the renderer or `stop()`. It gives
  `RollbackAfterProcessed` (no rollback restores video memory under a frame that is still
  queued, unless a stop has lifted the ban) and `NoWakeupLost`: whoever waits finds the event set or another thread
  on the way to set it, the safety part of `EmuWaitEnds`, `StopReturns` and
  `RollbackStarts`. `EndInv` says that `renderEnd` is set only for the frame the guest waits
  for; it gives the action property of `RenderEndsInOrder` under four hypotheses: no stop
  (finding 1), no rollback, no spurious wakeup, and a guest that waits for the end of a
  render before it starts the next. TLC finds a counterexample without any one of them.
- **Sh4SchedProofs**: `SchedInv` says how far each scheduled end is from the clock: never
  more than a slice back, and back only in front of the walk; between walks
  nothing is overdue and the countdown ends at the first request. It gives
  `RequestsAreKept`, `NoRequestSleptThrough`, `JitterIsBounded`, `NoDrift`, and
  `Implementation`: `Spec => ImplementsTimers`, step by step. For `NoDrift` the invariant ties the
  jitter, which `handle_cb` computes from two differences of words, to the time since the call
  was due (`wasDue`); the period is then one from due time to due time.
- **EmuLifecycleProofs**: `LifeInv`; between the close of the session and the end of
  `stop()` there is no session, so no thread is in `nextFrame`, so only the Start() at the
  head of the thread's loop can still start the CPU. It gives `RunIsVerified`,
  `ResetIsVerified`, `ThreadIsJoined`, `SessionIsOpen` and `LifeTypeCorrect`. With the same
  invariant `StopCountsDown` shows what `StopEnds` rests on: while `stop()` waits with the CPU
  stopped, and outside the window of finding 3, every step of the thread lowers
  `StepsLeft`, so that no guest reset, frame or exception can keep it alive. What TLC adds
  is that the thread is scheduled.
- **GdxsvUdpProofs**: `UdpInv`, with `UpInv` and `DownInv` for the two directions: every datagram in
  flight holds a stretch of what was sent that starts no later than the first message
  not acknowledged, no acknowledgement in flight is ahead of the other end's, which is ahead of
  what it has taken only by the packet it is reading, and the filter holds the last number
  taken of each sender. It gives `UdpTypeCorrect`, `AcksStayInWindow`, and the refinements `RelayIsChannel` and `FeedIsChannel` of `BattleChannel`.
- **GdxsvUdpStreamProofs**: what is in those messages. `OwnInv`: `recv_buf` is empty whenever no
  loop is there to fill it, because the loop clears it at both ends, hence
  `OnlyOwnBattleRead`. `StreamInv`: what has been pushed is a stretch of consecutive items of
  this battle that starts after the session message, and `send_buf` goes on where it stops;
  the game adds one item, `NetThreadLoop` moves the first of them, any number, into one message.
  What the server took is a front of that (`UpInv`), and laid end to end a front is a run of
  consecutive items (`FlattenStream`), which gives `StreamIsIntact`. `NothingIsForgotten`: a
  message that the server has not taken is still in the window or being read, the safety
  part of `WindowDrains`.
- **RollbackProofs**: `BattleInv`, for every number of players, delay, emulation and ring of at
  least `MaxPrediction` slots. Its parts: the slot that was written *n* saves ago holds the
  frame *n* back, or in a rollback one that is about to be run again (`RingInv`); each delta in
  reach is exactly what its frame overwrote (`DeltaInv`); what memwatch has saved is what the running
  frame overwrote (`WatchInv`). From these a load is exact: the oldest delta that has a page was
  written first after the frame that is loaded. For the inputs: frames beyond the known
  inputs were run on the latest one (`Guessed`), those before on the right one up to the
  first mistake (`Right`), which lies after the last confirmed frame (`ConfirmInv`), and this one is
  at most `MaxPrediction` frames back (`LocalInv`). It gives `RollbackIsExact`,
  `NoPageFaultsForEver`, `TargetIsSaved`, `InputsAreKept`, `FramesConverge`, and `BattleIsLockStep`:
  `Spec => ImplementsLockStep`, where every step extends the final frames, or an input extends
  a script, a player leaves, or the session starts anew. `MinInv` adds that the frame
  confirmed when an input is asked for is what the slowest connected player has sent, unless
  all the peers have just been dropped; `BarrierIsThePeers` follows: as long as there are peers,
  that player is one of them at the barrier, and its own barrier does not hold it, so that no
  two wait for each other (the safety part of `BarrierLifts`).

`RollbackAssumption` asks for a prediction of at least two frames and a ring not shorter than
it (6 and 8 in the code, so that two of its slots are spare); `UdpAssumption` asks only for a window that holds a message.

Every invariant, action property and refinement that a passing run checks is a theorem,
`RenderEndInOrder` with the hypotheses above. Only model-checked: the liveness properties
`StopReturns`, `StopEnds`, `ErrorNoticed`, `FrameRendered`, `EmuWaitEnds`, `RollbackStarts`, `HandshakeEnds`,
`WindowDrains` and `BarrierLifts`. They need fairness and ENABLED, which the prover cannot reason
about; the theorems called their safety parts above say that there is always something
left to do, and TLC, with fairness, that it is done.

## 6 What the model found

1. `Renderer_if.cpp:496` - every stop leaves `renderEnd` set; after resuming, each
   `rend_end_render` is one frame early.
2. `ta_ctx.cpp:102` - `FinishRender` frees the slot before it signals; the signal may then
   belong to no frame, and a later frame is dropped although skipping is off.
3. `emulator.cpp:1016` - the unguarded Start() of the thread's loop may undo `stop()`,
   which then waits for good.
4. `emulator.cpp:812` - unloading during a GGPO rollback deadlocks: `stop()` wants
   `ggpoMutex` before it cancels the wait of the thread that holds it.

Also met, and listed as hazards rather than as runs:

- `input_queue.cpp:91` - a player whose wrong guess has not been corrected yet leaves;
  `CheckSimulationConsistency` skips it, the next rollback resets its queue too, and the
  assertion ends the battle for everybody. The model takes that path (`AssertFails`).
- `ggpo.cpp:501` - saving a frame again frees the number of skips it was run with, before
  it is run again: the second frame of a rollback and later ones lose their skips.
- `ggpo.cpp:342` - a rollback copies pages back without invalidating what is derived from them
  (decoded textures, compiled blocks).

Further hazards without a property are in `PROJECT.json` with the reason.

## 7 What is not covered

Rendering without the emulation thread; the contents of frames, states and packets;
timing in real time; memory safety (iterators of `sch_list` while a callback registers a
slot, the unlocked delete of `NetworkHandshake::instance`); gdxsv battles, whose session
`stop()` does not close, in `EmuLifecycle`; slots outside of a save state in `Sh4Sched`.

`GdxsvUdp`: a new battle begins only after the loop of the old one has ended (two loops
at once are a hazard without a property), and no datagram outlives its battle (the
client does not check the session of what it receives). A send that fails as the
countdown reaches zero leaves it negative, so that nothing is sent until the next
message is pushed: `WindowDrains` allows for that. The bytes of an item and of a packet are not counted: how many items
fit in a message is a choice, and a window that cannot be serialized any more
(`gdxsv_backend_udp.cpp:195`) is a send that fails, at most `MaxFaults` times. A failing bind is a
failed connect, and a read takes all there is.

`Rollback`: a gdxsv session only, which disconnects without rollback; sessions of other
games, spectators and the sync test are not modelled. The UDP protocol of GGPO brings inputs in order,
as it asserts; a disconnection that a peer reports is one that happens here, and what other
peers say they have received (`PollNPlayers`) does not lower what is confirmed. A player that
left keeps the frames that were guessed for it. No state of frame 0 is ever
saved, and nothing is skipped in it. The four watchers (RAM, VRAM, sound RAM,
Elan RAM) are one, and the pages that texture cache and dynarec protect for themselves are
not in it.

Not modelled, with the reason for each in `PROJECT.json`: most of the remaining lines are
tables (ROM lists, opcodes, option texts), generated protocol code, code generators
and instruction semantics, registers of devices without concurrency, renderers and the
libretro and UI shells. The share of lines that the models map to is small for that
reason and will remain so; the models follow the control that is shared among threads,
machines or saved states. What would come next, in the order of section 2: the interrupt
controllers, the phases of the gdxsv rollback backend before its GGPO session, and the
thread utilities.
