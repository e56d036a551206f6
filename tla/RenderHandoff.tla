--------------------------- MODULE RenderHandoff ---------------------------
(***************************************************************************)
(* The hand-off of frames from the emulation thread ("Flycast-emu") to the *)
(* user interface thread, which renders and presents them, in threaded     *)
(* rendering mode: PvrMessageQueue and the rend_* entry points of          *)
(* hw/pvr/Renderer_if.cpp, the one-slot queue rqueue and the recycling of  *)
(* TA contexts in hw/pvr/ta_ctx.cpp, and the way Emulator::stop() cancels  *)
(* the waits of the emulation thread.                                      *)
(*                                                                         *)
(* Three actors: the emulation thread (emu), the render loop of the user   *)
(* interface thread (ui), and whoever runs Emulator::stop() (stopper): the *)
(* user interface thread itself between two frames, or, with ForeignStop,  *)
(* another thread.                                                         *)
(*                                                                         *)
(* Abstractions.  A TA context is an identity; a chain of contexts is one  *)
(* context.  The guest program is a free choice of what one CPU timeslice  *)
(* does: at most one write to a render register, then the scheduler        *)
(* callbacks that are due, render end before vertical blank (the order     *)
(* they are registered in).  The emulation thread leaves the CPU loop only *)
(* at the end of a timeslice.  Resume puts it straight into that loop: the *)
(* test and the Start() on the way there, and the GGPO session that stop() *)
(* closes first, are module EmuLifecycle's.  Rollbacks are those of a      *)
(* replay, or of a gdxsv battle, whose session stop() does not close.      *)
(***************************************************************************)
EXTENDS Naturals, Sequences, FiniteSets

CONSTANTS
  Ctx,                \* identities of TA contexts
  NoCtx,              \* the null TA_context pointer
  MaxQueue,           \* bound: the guest adds nothing to a queue this long
  AutoSkipFrame,      \* config::AutoSkipFrame: 0 never, 1 if the CPU is slow, 2 always
  EmulateFramebuffer, \* config::EmulateFramebuffer
  DelayFrameSwapping, \* config::DelayFrameSwapping
  FrameSkipping,      \* may a frame be skipped (SkipFrame, fast forward, GGPO time sync)?
  Rollbacks,          \* does a replay or a battle restore earlier states?
  StopAllowed,        \* may the user interface stop and resume the emulator?
  ForeignStop,        \* is Emulator::stop() called from a thread of its own (Android)?
  RendererFails,      \* may Renderer::Process and Renderer::Render throw?
  SpuriousWakeup,     \* may a condition variable wake its waiter for no reason?
  GuestWaitsForDone   \* does the guest start a render only after the previous one is done?

ASSUME HandoffAssumption ==
  /\ NoCtx \notin Ctx
  /\ MaxQueue \in Nat
  /\ AutoSkipFrame \in 0..2
  /\ Rollbacks \in BOOLEAN

VARIABLES
  \* PvrMessageQueue
  queue, enqueueEvent, dequeueEvent,
  \* the other events, and the state shared by the two threads
  renderEnd, frameFinished, vramRollback, rqueue, pool, rtt, rendererEnabled,
  \* the emulation thread
  emu, back, outbox, ectx, pendRend, doneScheduled,
  \* the user interface thread
  ui, msg, rctx, presented,
  \* Emulator::state = Running, Sh4Context::CpuRunning, and Emulator::stop()
  running, cpuRunning, stopper,
  \* history: what became of the last frame queued, and whether something else than
  \* its rendering (a cancel, a spurious wakeup) has ended a wait for it
  frame, cancelled

queueVars == <<queue, enqueueEvent, dequeueEvent>>
sharedVars == <<renderEnd, frameFinished, vramRollback, rqueue, pool, rtt, rendererEnabled>>
emuVars == <<emu, back, outbox, ectx, pendRend, doneScheduled>>
uiVars == <<ui, msg, rctx, presented>>
stopVars == <<running, cpuRunning, stopper>>
history == <<frame, cancelled>>
vars == <<queueVars, sharedVars, emuVars, uiVars, stopVars, history>>

Message == {"Render", "RenderFramebuffer", "Present", "Stop"}

EmuPC == {"dead", "instr", "queueRender", "waitFinished", "admit", "claim", "enqueue",
          "signal", "awaitRoom", "renderDone", "waitRenderEnd", "vblank", "slice",
          "rollback", "restore"}
UiPC == {"idle", "dequeue", "taken", "execute", "process", "allowRollback", "render",
         "release", "recycle", "finish", "failed"}
StopPC == {"none", "finishFrame", "endRender", "allowRollback", "cancelQueue", "enqueueStop",
           "signalStop", "join"}

\* One type invariant: every variable has its type.
TypeOK ==
  /\ queue \in Seq(Message)
  /\ enqueueEvent \in BOOLEAN /\ dequeueEvent \in BOOLEAN
  /\ renderEnd \in BOOLEAN /\ frameFinished \in BOOLEAN /\ vramRollback \in BOOLEAN
  /\ rqueue \in Ctx \cup {NoCtx} /\ ectx \in Ctx \cup {NoCtx} /\ rctx \in Ctx \cup {NoCtx}
  /\ pool \subseteq Ctx /\ rtt \subseteq Ctx
  /\ emu \in EmuPC /\ ui \in UiPC /\ stopper \in StopPC
  /\ back \in {"renderDone", "slice"}
  /\ outbox \in Seq(Message) /\ msg \in Message \cup {"NoMessage"}
  /\ rendererEnabled \in BOOLEAN /\ pendRend \in BOOLEAN /\ doneScheduled \in BOOLEAN
  /\ presented \in BOOLEAN /\ running \in BOOLEAN /\ cpuRunning \in BOOLEAN
  /\ frame \in {"none", "queued", "processed", "rendered"} /\ cancelled \in BOOLEAN

Init ==
  /\ queue = << >> /\ enqueueEvent = FALSE /\ dequeueEvent = FALSE
  /\ renderEnd = FALSE /\ frameFinished = TRUE
  /\ vramRollback = Rollbacks \* a session or a replay starts with rend_allow_rollback()
  /\ rqueue = NoCtx /\ pool = Ctx /\ rtt = {} /\ rendererEnabled = TRUE
  /\ emu = "instr" /\ back = "slice" /\ outbox = << >> /\ ectx = NoCtx
  /\ pendRend = FALSE /\ doneScheduled = FALSE
  /\ ui = "idle" /\ msg = "NoMessage" /\ rctx = NoCtx /\ presented = FALSE
  /\ running = TRUE /\ cpuRunning = TRUE /\ stopper = "none"
  /\ frame = "none" /\ cancelled = FALSE

-----------------------------------------------------------------------------
(***************************************************************************)
(* Helpers                                                                 *)
(***************************************************************************)
Queued(m) == \E i \in DOMAIN queue : queue[i] = m

\* Is the frame a render to the screen?
ToScreen(c) == c \notin rtt /\ ~EmulateFramebuffer

NoRenders == << >> \* mutant of OnlyRenders: every message is erased
\* What cancelEnqueue() leaves of the queue: its Render messages.
OnlyRenders ==
  [i \in 1..Cardinality({j \in DOMAIN queue : queue[j] = "Render"}) |-> "Render"]

Forget(c) == UNCHANGED <<pool, rtt>> \* mutant of Recycle: the context leaks
\* tactx_Recycle(c): the context goes back to the pool.  The isRTT flag of a pooled
\* context is never read, and is cleared here to tell fewer states apart.
Recycle(c) == pool' = pool \cup {c} /\ rtt' = rtt \ {c}

\* The rest of a handler is to enqueue messages, then to continue at pc.
Post(messages, pc) ==
  /\ outbox' = messages
  /\ back' = pc
  /\ emu' = IF messages = << >> THEN pc ELSE "enqueue"

-----------------------------------------------------------------------------
(***************************************************************************)
(* The emulation thread: rend_start_render, QueueRender                    *)
(***************************************************************************)
\* The guest writes STARTRENDER.  The context it filled may not be found.
StartRender ==
  /\ emu = "instr" /\ Len(queue) + 2 <= MaxQueue
  /\ GuestWaitsForDone => ~doneScheduled
  /\ pendRend' = FALSE /\ doneScheduled' = TRUE
  /\ \/ emu' = "renderDone" /\ UNCHANGED <<ectx, pool, rtt>>
     \/ \E c \in pool, isRTT \in BOOLEAN :
          /\ pool' = pool \ {c} /\ ectx' = c
          /\ rtt' = IF isRTT THEN rtt \cup {c} ELSE rtt
          /\ emu' = "queueRender"
  /\ UNCHANGED <<queueVars, renderEnd, frameFinished, vramRollback, rqueue, rendererEnabled,
                 back, outbox, uiVars, stopVars, history>>

\* The frame is dropped: QueueRender returns false.
DropFrame ==
  /\ Recycle(ectx) /\ ectx' = NoCtx /\ emu' = "renderDone"
  /\ UNCHANGED <<queueVars, renderEnd, frameFinished, vramRollback, rqueue, rendererEnabled,
                 back, outbox, pendRend, doneScheduled, uiVars, stopVars, history>>

SkipFrame ==
  /\ emu = "queueRender"
  /\ ~rendererEnabled \/ FrameSkipping
  /\ DropFrame

\* Wait for the previous frame, or not, before looking at rqueue again.
QueueRender ==
  /\ emu = "queueRender" /\ rendererEnabled
  /\ \/ rqueue # NoCtx /\ AutoSkipFrame < 2 /\ emu' = "waitFinished"
     \/ (rqueue = NoCtx \/ AutoSkipFrame > 0) /\ emu' = "admit"
  /\ UNCHANGED <<queueVars, sharedVars, back, outbox, ectx, pendRend, doneScheduled, uiVars,
                 stopVars, history>>

WaitFrameFinished ==
  /\ emu = "waitFinished"
  /\ frameFinished \/ SpuriousWakeup
  /\ frameFinished' = FALSE /\ emu' = "admit"
  /\ UNCHANGED <<queueVars, renderEnd, vramRollback, rqueue, pool, rtt, rendererEnabled, back,
                 outbox, ectx, pendRend, doneScheduled, uiVars, stopVars, history>>

DropLateFrame == emu = "admit" /\ rqueue # NoCtx /\ DropFrame

\* Mutant: QueueRender does not look at rqueue again after its wait.
DisableRollbackUnchecked ==
  /\ emu = "admit"
  /\ vramRollback' = FALSE /\ emu' = "claim"
  /\ cancelled' = FALSE
  /\ UNCHANGED <<queueVars, renderEnd, frameFinished, rqueue, pool, rtt, rendererEnabled, back,
                 outbox, ectx, pendRend, doneScheduled, uiVars, stopVars, frame>>

\* Mutant: QueueRender does not disable rollbacks.
DisableNothing ==
  /\ emu = "admit" /\ rqueue = NoCtx
  /\ emu' = "claim"
  /\ cancelled' = FALSE
  /\ UNCHANGED <<queueVars, renderEnd, frameFinished, vramRollback, rqueue, pool, rtt,
                 rendererEnabled, back, outbox, ectx, pendRend, doneScheduled, uiVars, stopVars,
                 frame>>

\* rend_disable_rollback()
DisableRollback ==
  /\ emu = "admit" /\ rqueue = NoCtx
  /\ vramRollback' = FALSE /\ emu' = "claim"
  /\ cancelled' = FALSE
  /\ UNCHANGED <<queueVars, renderEnd, frameFinished, rqueue, pool, rtt, rendererEnabled, back,
                 outbox, ectx, pendRend, doneScheduled, uiVars, stopVars, frame>>

\* The frame takes the slot; rend_start_render posts the messages for it.
Claim ==
  /\ emu = "claim"
  /\ frameFinished' = FALSE /\ rqueue' = ectx /\ ectx' = NoCtx
  /\ pendRend' = TRUE
  /\ Post(IF DelayFrameSwapping \/ ~ToScreen(ectx) THEN <<"Render">>
                                                   ELSE <<"Render", "Present">>, "renderDone")
  /\ frame' = "queued"
  /\ UNCHANGED <<queueVars, renderEnd, vramRollback, pool, rtt, rendererEnabled, doneScheduled,
                 uiVars, stopVars, cancelled>>

-----------------------------------------------------------------------------
(***************************************************************************)
(* The emulation thread: PvrMessageQueue::enqueue                          *)
(***************************************************************************)
Enqueue ==
  /\ emu = "enqueue"
  /\ IF Queued(Head(outbox)) /\ Head(outbox) # "Present"
     THEN emu' = "awaitRoom" /\ UNCHANGED <<queue, outbox>>
     ELSE emu' = "signal" /\ queue' = Append(queue, Head(outbox)) /\ outbox' = Tail(outbox)
  /\ UNCHANGED <<enqueueEvent, dequeueEvent, sharedVars, back, ectx, pendRend, doneScheduled,
                 uiVars, stopVars, history>>

SignalEnqueue ==
  /\ emu = "signal"
  /\ enqueueEvent' = TRUE
  /\ emu' = IF outbox = << >> THEN back ELSE "enqueue"
  /\ UNCHANGED <<queue, dequeueEvent, sharedVars, back, outbox, ectx, pendRend, doneScheduled,
                 uiVars, stopVars, history>>

AwaitRoom ==
  /\ emu = "awaitRoom"
  /\ dequeueEvent \/ SpuriousWakeup
  /\ dequeueEvent' = FALSE /\ emu' = "enqueue"
  /\ UNCHANGED <<queue, enqueueEvent, sharedVars, back, outbox, ectx, pendRend, doneScheduled,
                 uiVars, stopVars, history>>

-----------------------------------------------------------------------------
(***************************************************************************)
(* The emulation thread: the other handlers of a timeslice                 *)
(***************************************************************************)
\* rend_swap_frame: FB_R_SOF is written with the address being rendered.
SwapFrame ==
  /\ emu = "instr" /\ Len(queue) + 2 <= MaxQueue
  /\ ~EmulateFramebuffer /\ rendererEnabled
  /\ Post(<<"Present">>, "renderDone")
  /\ UNCHANGED <<queueVars, sharedVars, ectx, pendRend, doneScheduled, uiVars, stopVars, history>>

NoRegisterWrite ==
  /\ emu = "instr" /\ emu' = "renderDone"
  /\ UNCHANGED <<queueVars, sharedVars, back, outbox, ectx, pendRend, doneScheduled, uiVars,
                 stopVars, history>>

\* The callback rend_end_render is due; it raises its interrupts, then may wait.
RenderDoneDue ==
  /\ emu = "renderDone" /\ doneScheduled
  /\ doneScheduled' = FALSE
  /\ emu' = IF pendRend THEN "waitRenderEnd" ELSE "vblank"
  /\ UNCHANGED <<queueVars, sharedVars, back, outbox, ectx, pendRend, uiVars, stopVars, history>>

RenderDoneNotDue ==
  /\ emu = "renderDone" /\ emu' = "vblank"
  /\ UNCHANGED <<queueVars, sharedVars, back, outbox, ectx, pendRend, doneScheduled, uiVars,
                 stopVars, history>>

WaitRenderEnd ==
  /\ emu = "waitRenderEnd"
  /\ renderEnd \/ SpuriousWakeup
  /\ renderEnd' = FALSE /\ emu' = "vblank"
  /\ UNCHANGED <<queueVars, frameFinished, vramRollback, rqueue, pool, rtt, rendererEnabled, back,
                 outbox, ectx, pendRend, doneScheduled, uiVars, stopVars, history>>

\* rend_vblank, when the guest writes the framebuffer itself or it is emulated.
VBlankFramebuffer ==
  /\ emu = "vblank" /\ Len(queue) + 2 <= MaxQueue /\ rendererEnabled
  /\ Post(<<"RenderFramebuffer", "Present">>, "slice")
  /\ UNCHANGED <<queueVars, sharedVars, ectx, pendRend, doneScheduled, uiVars, stopVars, history>>

NoVBlank ==
  /\ emu = "vblank" /\ emu' = "slice"
  /\ UNCHANGED <<queueVars, sharedVars, back, outbox, ectx, pendRend, doneScheduled, uiVars,
                 stopVars, history>>

\* The CPU loop goes on as long as CpuRunning; then the thread ends, since
\* Emulator::stop() has left the state Running.
NextSlice ==
  /\ emu = "slice"
  /\ emu' = IF cpuRunning THEN "instr" ELSE "dead"
  /\ UNCHANGED <<queueVars, sharedVars, back, outbox, ectx, pendRend, doneScheduled, uiVars,
                 stopVars, history>>

-----------------------------------------------------------------------------
(***************************************************************************)
(* The emulation thread: a rollback restores an earlier state, then runs   *)
(* the frames since with the renderer disabled.  It happens between two    *)
(* frames of a GGPO session or of a replay: here, after any timeslice.     *)
(***************************************************************************)
StartRollback ==
  /\ Rollbacks /\ emu = "slice" /\ cpuRunning /\ rendererEnabled
  /\ emu' = "rollback"
  /\ UNCHANGED <<queueVars, sharedVars, back, outbox, ectx, pendRend, doneScheduled, uiVars,
                 stopVars, history>>

\* rend_start_rollback()
WaitRollbackAllowed ==
  /\ emu = "rollback"
  /\ vramRollback \/ SpuriousWakeup
  /\ vramRollback' = FALSE /\ emu' = "restore"
  /\ cancelled' = (cancelled \/ ~vramRollback)
  /\ UNCHANGED <<queueVars, renderEnd, frameFinished, rqueue, pool, rtt, rendererEnabled, back,
                 outbox, ectx, pendRend, doneScheduled, uiVars, stopVars, frame>>

\* Mutant: the next rollback has to wait for the next frame.
RestoreOnce ==
  /\ emu = "restore"
  /\ pendRend' = FALSE /\ doneScheduled' \in BOOLEAN /\ rendererEnabled' = FALSE
  /\ emu' = "instr"
  /\ UNCHANGED <<queueVars, renderEnd, frameFinished, vramRollback, rqueue, pool, rtt, back,
                 outbox, ectx, uiVars, stopVars, history>>

\* rend_deserialize; the restored scheduler may or may not hold a render end.  The
\* rollback is allowed again at once ("ggpo might load another state right after this one").
Restore ==
  /\ emu = "restore"
  /\ pendRend' = FALSE /\ doneScheduled' \in BOOLEAN /\ rendererEnabled' = FALSE
  /\ vramRollback' = TRUE /\ emu' = "instr"
  /\ UNCHANGED <<queueVars, renderEnd, frameFinished, rqueue, pool, rtt, back, outbox, ectx,
                 uiVars, stopVars, history>>

EndRollback ==
  /\ emu = "slice" /\ ~rendererEnabled
  /\ rendererEnabled' = TRUE
  /\ UNCHANGED <<queueVars, renderEnd, frameFinished, vramRollback, rqueue, pool, rtt, emuVars,
                 uiVars, stopVars, history>>

EmuNext ==
  \/ StartRender \/ SkipFrame \/ QueueRender \/ WaitFrameFinished \/ DropLateFrame
  \/ DisableRollback \/ Claim
  \/ Enqueue \/ SignalEnqueue \/ AwaitRoom
  \/ SwapFrame \/ NoRegisterWrite \/ RenderDoneDue \/ RenderDoneNotDue \/ WaitRenderEnd
  \/ VBlankFramebuffer \/ NoVBlank \/ NextSlice
  \/ StartRollback \/ WaitRollbackAllowed \/ Restore \/ EndRollback

-----------------------------------------------------------------------------
(***************************************************************************)
(* The user interface thread: rend_single_frame and PvrMessageQueue        *)
(***************************************************************************)
UiUnchanged == UNCHANGED <<emuVars, stopVars>>

\* Emulator::render(): nothing to do unless the emulator is running.
BeginFrame ==
  /\ ui = "idle" /\ running
  /\ stopper = "none" \/ ForeignStop
  /\ presented' = FALSE /\ ui' = "dequeue"
  /\ UNCHANGED <<queueVars, sharedVars, msg, rctx, history>> /\ UiUnchanged

Dequeue ==
  /\ ui = "dequeue" /\ queue # << >>
  /\ msg' = Head(queue) /\ queue' = Tail(queue) /\ ui' = "taken"
  /\ UNCHANGED <<enqueueEvent, dequeueEvent, sharedVars, rctx, presented, history>> /\ UiUnchanged

\* enqueueEvent.Wait(timeout) is signalled: look at the queue again.
WaitEnqueue ==
  /\ ui = "dequeue" /\ queue = << >> /\ enqueueEvent
  /\ enqueueEvent' = FALSE
  /\ UNCHANGED <<queue, dequeueEvent, sharedVars, uiVars, history>> /\ UiUnchanged

\* enqueueEvent.Wait(timeout) times out: NoMessage, rend_single_frame gives up.
DequeueTimeout ==
  /\ ui = "dequeue" /\ queue = << >> /\ ~enqueueEvent
  /\ ui' = "idle"
  /\ UNCHANGED <<queueVars, sharedVars, msg, rctx, presented, history>> /\ UiUnchanged

\* Mutant: the room made in the queue is not signalled.
TakeSilently ==
  /\ ui = "taken" /\ ui' = "execute"
  /\ UNCHANGED <<queueVars, sharedVars, msg, rctx, presented, history>> /\ UiUnchanged

SignalDequeue ==
  /\ ui = "taken"
  /\ dequeueEvent' = TRUE /\ ui' = "execute"
  /\ UNCHANGED <<queue, enqueueEvent, sharedVars, msg, rctx, presented, history>> /\ UiUnchanged

\* The loop of rend_single_frame ends once a frame has been presented.
Loop == ui' = IF presented' THEN "idle" ELSE "dequeue"

ExecuteStop ==
  /\ ui = "execute" /\ msg = "Stop"
  /\ msg' = "NoMessage" /\ ui' = "idle"
  /\ UNCHANGED <<queueVars, sharedVars, rctx, presented, history>> /\ UiUnchanged

ExecuteRenderFramebuffer ==
  /\ ui = "execute" /\ msg = "RenderFramebuffer"
  /\ msg' = "NoMessage" /\ UNCHANGED presented /\ Loop
  /\ UNCHANGED <<queueVars, sharedVars, rctx, history>> /\ UiUnchanged

\* Renderer::Present() reports whether there was anything to show.
ExecutePresent ==
  /\ ui = "execute" /\ msg = "Present"
  /\ presented' = TRUE \/ UNCHANGED presented
  /\ msg' = "NoMessage" /\ Loop
  /\ UNCHANGED <<queueVars, sharedVars, rctx, history>> /\ UiUnchanged

-----------------------------------------------------------------------------
(***************************************************************************)
(* The user interface thread: PvrMessageQueue::render                      *)
(***************************************************************************)
\* DequeueRender() reads rqueue and leaves the frame there.
ExecuteRender ==
  /\ ui = "execute" /\ msg = "Render"
  /\ rctx' = rqueue /\ msg' = "NoMessage"
  /\ UNCHANGED presented
  /\ IF rqueue = NoCtx THEN Loop ELSE ui' = "process"
  /\ UNCHANGED <<queueVars, sharedVars, history>> /\ UiUnchanged

\* Mutant: the emulation thread is released at once for every kind of frame.
ProcessReleases ==
  /\ ui = "process"
  /\ renderEnd' = TRUE
  /\ frame' = "processed" /\ ui' = "allowRollback"
  /\ UNCHANGED <<queueVars, frameFinished, vramRollback, rqueue, pool, rtt, rendererEnabled,
                 msg, rctx, presented, cancelled>> /\ UiUnchanged

\* Renderer::Process(); for a frame on the screen the emulation goes on from here.
Process ==
  /\ ui = "process"
  /\ renderEnd' = (renderEnd \/ ToScreen(rctx))
  /\ frame' = "processed" /\ ui' = "allowRollback"
  /\ UNCHANGED <<queueVars, frameFinished, vramRollback, rqueue, pool, rtt, rendererEnabled,
                 msg, rctx, presented, cancelled>> /\ UiUnchanged

\* Renderer::Process() throws: nothing is left to wait for.  The exception will leave
\* rend_single_frame, as a presented frame does; presented is not read before it is reset.
ProcessFails ==
  /\ ui = "process" /\ RendererFails
  /\ renderEnd' = TRUE /\ frame' = "rendered" /\ presented' = TRUE /\ ui' = "failed"
  /\ UNCHANGED <<queueVars, frameFinished, vramRollback, rqueue, pool, rtt, rendererEnabled,
                 msg, rctx, cancelled>> /\ UiUnchanged

\* rend_allow_rollback()
AllowRollback ==
  /\ ui \in {"allowRollback", "failed"}
  /\ vramRollback' = TRUE
  /\ ui' = IF ui = "failed" THEN "release" ELSE "render"
  /\ UNCHANGED <<queueVars, renderEnd, frameFinished, rqueue, pool, rtt, rendererEnabled, msg,
                 rctx, presented, history>> /\ UiUnchanged

\* Renderer::Render(), then present() if frame swapping is delayed; or it throws.
Render ==
  /\ ui = "render"
  /\ renderEnd' = (renderEnd \/ ~ToScreen(rctx))
  /\ \/ UNCHANGED presented
     \/ (RendererFails \/ (DelayFrameSwapping /\ ToScreen(rctx))) /\ presented' = TRUE
  /\ frame' = "rendered" /\ ui' = "release"
  /\ UNCHANGED <<queueVars, frameFinished, vramRollback, rqueue, pool, rtt, rendererEnabled,
                 msg, rctx, cancelled>> /\ UiUnchanged

\* FinishRender(rctx): rqueue = nullptr ...
Release ==
  /\ ui = "release"
  /\ rqueue' = NoCtx /\ ui' = "recycle"
  /\ UNCHANGED <<queueVars, renderEnd, frameFinished, vramRollback, pool, rtt, rendererEnabled,
                 msg, rctx, presented, history>> /\ UiUnchanged

\* ... tactx_Recycle(rctx) ...
RecycleRendered ==
  /\ ui = "recycle"
  /\ Recycle(rctx) /\ rctx' = NoCtx /\ ui' = "finish"
  /\ UNCHANGED <<queueVars, renderEnd, frameFinished, vramRollback, rqueue, rendererEnabled,
                 msg, presented, history>> /\ UiUnchanged

\* ... frame_finished.Set().
FinishFrame ==
  /\ ui = "finish"
  /\ frameFinished' = TRUE
  /\ UNCHANGED presented /\ Loop
  /\ UNCHANGED <<queueVars, renderEnd, vramRollback, rqueue, pool, rtt, rendererEnabled, msg,
                 rctx, history>> /\ UiUnchanged

UiNext ==
  \/ BeginFrame \/ Dequeue \/ WaitEnqueue \/ DequeueTimeout \/ SignalDequeue
  \/ ExecuteStop \/ ExecuteRenderFramebuffer \/ ExecutePresent \/ ExecuteRender
  \/ Process \/ ProcessFails \/ AllowRollback \/ Render
  \/ Release \/ RecycleRendered \/ FinishFrame

-----------------------------------------------------------------------------
(***************************************************************************)
(* Emulator::stop(), rend_cancel_emu_wait, and what may follow             *)
(***************************************************************************)
StopUnchanged == UNCHANGED <<emuVars, uiVars, frame>>

StopEmulator ==
  /\ StopAllowed /\ running /\ stopper = "none"
  /\ ui = "idle" \/ ForeignStop
  /\ running' = FALSE /\ cpuRunning' = FALSE /\ stopper' = "finishFrame"
  /\ UNCHANGED <<queueVars, sharedVars, cancelled>> /\ StopUnchanged

\* FinishRender(NULL)
CancelFrameWait ==
  /\ stopper = "finishFrame"
  /\ frameFinished' = TRUE /\ cancelled' = TRUE /\ stopper' = "endRender"
  /\ UNCHANGED <<queueVars, renderEnd, vramRollback, rqueue, pool, rtt, rendererEnabled, running,
                 cpuRunning>> /\ StopUnchanged

\* Mutant: rend_cancel_emu_wait forgets the wait for the end of a render.
CancelNoRenderEnd ==
  /\ stopper = "endRender" /\ stopper' = "allowRollback"
  /\ UNCHANGED <<queueVars, sharedVars, running, cpuRunning, cancelled>> /\ StopUnchanged

CancelRenderEnd ==
  /\ stopper = "endRender"
  /\ renderEnd' = TRUE /\ cancelled' = TRUE /\ stopper' = "allowRollback"
  /\ UNCHANGED <<queueVars, frameFinished, vramRollback, rqueue, pool, rtt, rendererEnabled,
                 running, cpuRunning>> /\ StopUnchanged

CancelRollbackWait ==
  /\ stopper = "allowRollback"
  /\ vramRollback' = TRUE /\ cancelled' = TRUE /\ stopper' = "cancelQueue"
  /\ UNCHANGED <<queueVars, renderEnd, frameFinished, rqueue, pool, rtt, rendererEnabled, running,
                 cpuRunning>> /\ StopUnchanged

CancelEnqueue ==
  /\ stopper = "cancelQueue"
  /\ queue' = OnlyRenders /\ dequeueEvent' = TRUE /\ stopper' = "enqueueStop"
  /\ UNCHANGED <<enqueueEvent, sharedVars, running, cpuRunning, cancelled>> /\ StopUnchanged

EnqueueStop ==
  /\ stopper = "enqueueStop"
  /\ IF Queued("Stop") THEN UNCHANGED queue /\ stopper' = "join"
                       ELSE queue' = Append(queue, "Stop") /\ stopper' = "signalStop"
  /\ UNCHANGED <<enqueueEvent, dequeueEvent, sharedVars, running, cpuRunning, cancelled>>
  /\ StopUnchanged

SignalStop ==
  /\ stopper = "signalStop"
  /\ enqueueEvent' = TRUE /\ stopper' = "join"
  /\ UNCHANGED <<queue, dequeueEvent, sharedVars, running, cpuRunning, cancelled>>
  /\ StopUnchanged

\* checkStatus(true): wait for the emulation thread to end.
Join ==
  /\ stopper = "join" /\ emu = "dead"
  /\ stopper' = "none"
  /\ UNCHANGED <<queueVars, sharedVars, running, cpuRunning, cancelled>> /\ StopUnchanged

Stopped == ~running /\ stopper = "none"

\* Emulator::start(): a new emulation thread.
Resume ==
  /\ Stopped
  /\ running' = TRUE /\ cpuRunning' = TRUE /\ emu' = "instr"
  /\ UNCHANGED <<queueVars, sharedVars, back, outbox, ectx, pendRend, doneScheduled, uiVars,
                 stopper, history>>

\* Emulator::loadstate() between stop() and start(): rend_deserialize.
LoadState ==
  /\ Stopped /\ ui = "idle"
  /\ pendRend' = FALSE /\ doneScheduled' \in BOOLEAN
  /\ UNCHANGED <<queueVars, sharedVars, emu, back, outbox, ectx, uiVars, stopVars, history>>

\* Mutant: rend_reset recycles what is in the slot even if it is the null pointer.
UnloadNull ==
  /\ Stopped /\ ui = "idle"
  /\ rqueue' = NoCtx /\ queue' = << >> /\ frameFinished' = TRUE
  /\ Recycle(rqueue)
  /\ pendRend' = FALSE /\ doneScheduled' = FALSE /\ rendererEnabled' = TRUE
  /\ vramRollback' = (vramRollback \/ Rollbacks)
  /\ frame' = "none"
  /\ UNCHANGED <<enqueueEvent, dequeueEvent, renderEnd, emu, back, outbox, ectx, uiVars,
                 stopVars, cancelled>>

\* Emulator::unloadGame(): dc_reset(true), rend_reset() and FinishRender in it;
\* the game that is loaded next, and its session or replay, start from here.
Unload ==
  /\ Stopped /\ ui = "idle"
  /\ rqueue' = NoCtx /\ queue' = << >> /\ frameFinished' = TRUE
  /\ IF rqueue = NoCtx THEN UNCHANGED <<pool, rtt>> ELSE Recycle(rqueue)
  /\ pendRend' = FALSE /\ doneScheduled' = FALSE /\ rendererEnabled' = TRUE
  /\ vramRollback' = (vramRollback \/ Rollbacks)
  /\ frame' = "none"
  /\ UNCHANGED <<enqueueEvent, dequeueEvent, renderEnd, emu, back, outbox, ectx, uiVars,
                 stopVars, cancelled>>

StopNext ==
  \/ StopEmulator \/ CancelFrameWait \/ CancelRenderEnd \/ CancelRollbackWait
  \/ CancelEnqueue \/ EnqueueStop \/ SignalStop \/ Join
  \/ Resume \/ LoadState \/ Unload

Next == EmuNext \/ UiNext \/ StopNext

Spec == Init /\ [][Next]_vars

-----------------------------------------------------------------------------
(***************************************************************************)
(* Safety                                                                  *)
(***************************************************************************)
Rendering == ui \in {"process", "allowRollback", "failed", "render", "release"}

\* The Render messages that stand for the frame in rqueue: the one the emulation
\* thread is about to enqueue, the queued ones, the one being executed.
RenderPosted == outbox # << >> /\ Head(outbox) = "Render"
RenderTaken == ui \in {"taken", "execute"} /\ msg = "Render"

\* No frame is orphaned: the slot rqueue is taken exactly as long as one Render message
\* for it is somewhere between rend_start_render and the end of PvrMessageQueue::render.
\* An orphan would block every later frame in QueueRender; a second message would make
\* render() work on a frame that was given back.
FrameNotOrphaned ==
  /\ rqueue # NoCtx <=> RenderPosted \/ Queued("Render") \/ RenderTaken \/ Rendering
  /\ \A i, j \in DOMAIN queue : queue[i] = "Render" /\ queue[j] = "Render" => i = j
  /\ Queued("Render") => ~RenderPosted /\ ~RenderTaken /\ ~Rendering
  /\ RenderTaken \/ Rendering => ~RenderPosted

\* verify(rqueue == ctx) of FinishRender never fails: the frame being rendered stays in
\* the slot until the user interface thread itself releases it.
RenderedFrameInSlot == Rendering => rctx = rqueue /\ rctx # NoCtx

\* Every TA context is in one place: the pool, the hands of rend_start_render, the slot,
\* or the last steps of FinishRender.  None leaks, none is recycled twice.
ContextConserved ==
  LET recycled == IF ui = "recycle" THEN rctx ELSE NoCtx IN
  /\ pool \cup ({ectx, rqueue, recycled} \ {NoCtx}) = Ctx
  /\ pool \cap {ectx, rqueue, recycled} = {}
  /\ ectx # NoCtx => ectx \notin {rqueue, recycled}
  /\ rqueue # NoCtx => rqueue # recycled

\* A rollback does not overwrite video memory while the frame queued last is still to be
\* processed from it ("disable net rollbacks until the render thread has processed the
\* frame"), unless rend_cancel_emu_wait has lifted the ban since.
RollbackAfterProcess == emu = "restore" /\ ~cancelled => frame # "queued"

\* No wakeup is lost: when the emulation thread waits for an event that is not set, the one
\* who will set it is still on its way there.  While the emulator runs that is the user
\* interface thread with a frame or a message to take; once Emulator::stop() has left the
\* user interface thread nothing to do, it is a cancel of rend_cancel_emu_wait to come.
NoLostWakeup ==
  /\ emu = "waitFinished" /\ ~frameFinished =>
       IF running THEN rqueue # NoCtx \/ ui \in {"recycle", "finish"}
                  ELSE stopper = "finishFrame"
  /\ emu = "waitRenderEnd" /\ ~renderEnd =>
       IF running THEN frame = "queued" \/ (frame = "processed" /\ ~ToScreen(rqueue))
                  ELSE stopper \in {"finishFrame", "endRender"}
  /\ emu = "rollback" /\ ~vramRollback =>
       IF running THEN rqueue # NoCtx /\ ui \notin {"render", "release"}
                  ELSE stopper \in {"finishFrame", "endRender", "allowRollback"}
  /\ emu = "awaitRoom" /\ ~dequeueEvent =>
       IF running THEN Queued(Head(outbox)) \/ ui = "taken"
                  ELSE stopper \in {"finishFrame", "endRender", "allowRollback", "cancelQueue"}

\* The emulation thread passes the wait of rend_end_render only when the frame it waits for
\* has been processed, and rendered if it is rendered to a texture ("continue locking
\* until the frame is rendered"): the guest sees its texture complete.
FrameReady == frame = "rendered" \/ (frame = "processed" /\ ToScreen(rqueue))
RenderEndInOrder == [][WaitRenderEnd /\ running => FrameReady]_vars

\* With AutoSkipFrame = 0 a running emulator waits for the previous frame and loses none.
NoFrameLost == [][DropLateFrame /\ AutoSkipFrame = 0 => ~running]_vars

-----------------------------------------------------------------------------
(***************************************************************************)
(* Liveness.  Both threads are scheduled fairly; nothing obliges the user  *)
(* to stop or to resume the emulator, but Emulator::stop() runs to its end *)
(***************************************************************************)
CancelNext ==
  \/ CancelFrameWait \/ CancelRenderEnd \/ CancelRollbackWait
  \/ CancelEnqueue \/ EnqueueStop \/ SignalStop \/ Join
FairSpec == Spec /\ WF_vars(EmuNext) /\ WF_vars(UiNext) /\ WF_vars(CancelNext)

\* Emulator::stop() returns once the thread is in its CPU loop: whatever the emulation thread waits for when the user
\* interface thread stops serving it, rend_cancel_emu_wait lets it reach the end.
StopReturns == stopper # "none" ~> stopper = "none"

\* A queued frame is rendered, as long as the emulator is not stopped.
FrameRendered == rqueue # NoCtx ~> rqueue = NoCtx \/ ~running

\* The emulation thread is never left waiting for good by the renderer.
EmuWaitEnds ==
  emu \in {"waitFinished", "waitRenderEnd", "awaitRoom"} ~>
    emu \notin {"waitFinished", "waitRenderEnd", "awaitRoom"}

\* A rollback of a running emulator starts eventually.
RollbackStarts == emu = "rollback" ~> emu # "rollback"
=============================================================================
