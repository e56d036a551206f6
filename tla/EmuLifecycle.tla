---------------------------- MODULE EmuLifecycle ----------------------------
(***************************************************************************)
(* The life of the emulator (core/emulator.cpp) in threaded rendering mode: *)
(* the state machine of class Emulator, the emulation thread that start()  *)
(* launches, what stops and restarts its CPU (stop(), a guest soft reset,  *)
(* the end of a GGPO frame), and the GGPO session (core/network/ggpo.cpp)  *)
(* that the emulation thread runs under ggpoMutex and that stop() closes.  *)
(*                                                                         *)
(* Two actors: the emulation thread (emu) and the user interface thread    *)
(* (ui), which loads, starts, stops, unloads, and renders frames.          *)
(*                                                                         *)
(* Abstractions.  A timeslice of the CPU is one step in which the guest    *)
(* does at most one of the things that matter here.  Of the render queue   *)
(* (module RenderHandoff) only what a rollback waits for is kept: whether  *)
(* a frame is queued that is still to be processed.  The GGPO library      *)
(* decides freely when to roll back and whether it fails; waiting at the   *)
(* prediction barrier is staying in "idle".  NetworkHandshake::term() is   *)
(* one step: two threads are not in it at once.  In a frame that a         *)
(* rollback runs again the guest neither asks for a reset, which would     *)
(* close the session that is running it, nor makes the emulator throw.     *)
(***************************************************************************)
EXTENDS Naturals

CONSTANTS
  GGPOModes,       \* the values config::GGPOEnable may have for a game
  GuestThrows      \* may the guest make the emulator throw (FlycastException)?

ASSUME LifecycleAssumption == GGPOModes \subseteq BOOLEAN

VARIABLES
  state,          \* Emulator::state
  cpuRunning,     \* Sh4Context::CpuRunning
  resetRequested, \* Emulator::resetRequested
  emu,            \* where the emulation thread is; "none", "ended" or "failed" without one
  ui,             \* where the user interface thread is
  leaving,        \* is stop() called by unloadGame()?
  ggpoEnable,     \* config::GGPOEnable
  handshake,      \* NetworkHandshake::instance # nullptr
  session,        \* ggpoSession # nullptr
  ggpoMutex,      \* is ggpoMutex held by the emulation thread?
  endOfFrame,     \* ggpo.cpp's _endOfFrame
  inRollback,     \* ggpo.cpp's inRollback
  frameQueued,    \* is a frame queued that the renderer has not processed?
  vramRollback    \* is the event vramRollback set?

ggpoVars == <<ggpoEnable, handshake, session, ggpoMutex, endOfFrame, inRollback>>
frameVars == <<frameQueued, vramRollback>>
uiVars == <<ui, leaving>>
vars == <<state, cpuRunning, resetRequested, emu, uiVars, ggpoVars, frameVars>>

Dead == {"none", "ended", "failed"}
InGGPO == {"idle", "rollback", "rerun", "advanced"}
EmuPC == Dead \cup InGGPO \cup
         {"test", "start", "slice", "check", "leave", "reset", "restart", "nextFrame", "lock",
          "catch"}
UiPC == {"idle", "term", "halt", "cancel", "join", "unload"}

\* Every variable has its type.
TypeOK ==
  /\ state \in {"Init", "Loaded", "Running", "Error", "Terminated"}
  /\ emu \in EmuPC /\ ui \in UiPC
  /\ cpuRunning \in BOOLEAN /\ resetRequested \in BOOLEAN /\ leaving \in BOOLEAN
  /\ ggpoEnable \in BOOLEAN /\ handshake \in BOOLEAN /\ session \in BOOLEAN
  /\ ggpoMutex \in BOOLEAN /\ endOfFrame \in BOOLEAN /\ inRollback \in BOOLEAN
  /\ frameQueued \in BOOLEAN /\ vramRollback \in BOOLEAN

\* After Emulator::init().
Init ==
  /\ state = "Init" /\ emu = "none" /\ ui = "idle"
  /\ cpuRunning = FALSE /\ resetRequested = FALSE /\ leaving = FALSE
  /\ ggpoEnable = FALSE /\ handshake = FALSE /\ session = FALSE
  /\ ggpoMutex = FALSE /\ endOfFrame = FALSE /\ inRollback = FALSE
  /\ frameQueued = FALSE /\ vramRollback = FALSE

\* NetworkHandshake::term(), here always with ggpo::stopSession().
TermHandshake == handshake' = FALSE /\ session' = (session /\ ~handshake)

-----------------------------------------------------------------------------
(***************************************************************************)
(* The emulation thread: the loop of start(), runInternal()                *)
(***************************************************************************)
TestRunning ==
  /\ emu = "test"
  /\ emu' = IF state = "Running" THEN "start" ELSE "ended"
  /\ UNCHANGED <<state, cpuRunning, resetRequested, uiVars, ggpoVars, frameVars>>

\* "gdxsv: fix blackout on threaded rendering": the CPU is started whatever the state.
StartCpu ==
  /\ emu = "start"
  /\ cpuRunning' = TRUE /\ resetRequested' = FALSE /\ emu' = "slice"
  /\ UNCHANGED <<state, uiVars, ggpoVars, frameVars>>

Slice ==
  /\ emu = "slice"
  /\ emu' = "check"
  /\ UNCHANGED <<state, cpuRunning, resetRequested, uiVars, ggpoVars, frameVars>>

\* QueueRender: no rollbacks until the frame has been processed.
QueueFrame ==
  /\ emu = "slice" /\ ~frameQueued /\ ~inRollback
  /\ frameQueued' = TRUE /\ vramRollback' = FALSE /\ emu' = "check"
  /\ UNCHANGED <<state, cpuRunning, resetRequested, uiVars, ggpoVars>>

\* ggpo::endOfFrame(), from vblank() or from the end of a render.
EndOfFrame ==
  /\ emu = "slice" /\ session
  /\ endOfFrame' = TRUE /\ cpuRunning' = FALSE /\ emu' = "check"
  /\ UNCHANGED <<state, resetRequested, uiVars, ggpoEnable, handshake, session, ggpoMutex,
                 inRollback, frameVars>>

RequestReset ==
  /\ emu = "slice" /\ ~inRollback
  /\ resetRequested' = TRUE /\ cpuRunning' = FALSE /\ emu' = "check"
  /\ IF ggpoEnable THEN TermHandshake ELSE UNCHANGED <<handshake, session>>
  /\ UNCHANGED <<state, uiVars, ggpoEnable, ggpoMutex, endOfFrame, inRollback, frameVars>>

\* Mutant: the exception leaves the function of the thread as well.
ThrowUncaught ==
  /\ emu = "slice" /\ GuestThrows /\ ~inRollback
  /\ emu' = "terminate"
  /\ UNCHANGED <<state, cpuRunning, resetRequested, uiVars, ggpoVars, frameVars>>

\* An exception leaves the CPU loop without clearing CpuRunning.
Throw ==
  /\ emu = "slice" /\ GuestThrows /\ ~inRollback
  /\ emu' = "catch"
  /\ UNCHANGED <<state, cpuRunning, resetRequested, uiVars, ggpoVars, frameVars>>

CheckCpuRunning ==
  /\ emu = "check"
  /\ emu' = IF cpuRunning THEN "slice" ELSE "leave"
  /\ UNCHANGED <<state, cpuRunning, resetRequested, uiVars, ggpoVars, frameVars>>

LeaveRun ==
  /\ emu = "leave"
  /\ cpuRunning' = FALSE /\ emu' = IF resetRequested THEN "reset" ELSE "nextFrame"
  /\ UNCHANGED <<state, resetRequested, uiVars, ggpoVars, frameVars>>

\* dc_reset(false), and the reset of the CPU in it.
SoftReset ==
  /\ emu = "reset"
  /\ emu' = "restart"
  /\ UNCHANGED <<state, cpuRunning, resetRequested, uiVars, ggpoVars, frameVars>>

RestartAlways == \* mutant: the CPU is restarted without a look at the state
  /\ emu = "restart"
  /\ cpuRunning' = TRUE /\ resetRequested' = FALSE /\ emu' = "slice"
  /\ UNCHANGED <<state, uiVars, ggpoVars, frameVars>>

\* restartCpu() decides under the mutex that stop() takes.
RestartCpu ==
  /\ emu = "restart"
  /\ IF state = "Running" THEN cpuRunning' = TRUE /\ emu' = "slice"
                          ELSE UNCHANGED cpuRunning /\ emu' = "nextFrame"
  /\ resetRequested' = FALSE
  /\ UNCHANGED <<state, uiVars, ggpoVars, frameVars>>

\* Mutant: the CPU of a thread that dies is left running.
CatchOnly ==
  /\ emu = "catch"
  /\ ggpoMutex' = FALSE /\ emu' = "failed"
  /\ UNCHANGED <<state, cpuRunning, resetRequested, uiVars, ggpoEnable, handshake, session,
                 endOfFrame, inRollback, frameVars>>

\* The catch (...) of the thread: the future holds the exception.
Catch ==
  /\ emu = "catch"
  /\ cpuRunning' = FALSE /\ ggpoMutex' = FALSE /\ emu' = "failed"
  /\ UNCHANGED <<state, resetRequested, uiVars, ggpoEnable, handshake, session, endOfFrame,
                 inRollback, frameVars>>

-----------------------------------------------------------------------------
(***************************************************************************)
(* The emulation thread: ggpo::nextFrame(), and the rollbacks in it        *)
(***************************************************************************)
\* Without a session or the end of a frame, nothing to do.
NextFrame ==
  /\ emu = "nextFrame"
  /\ endOfFrame' = (endOfFrame /\ ~session)
  /\ emu' = IF inRollback THEN "advanced" ELSE IF session /\ endOfFrame THEN "lock" ELSE "test"
  /\ UNCHANGED <<state, cpuRunning, resetRequested, uiVars, ggpoEnable, handshake, session,
                 ggpoMutex, inRollback, frameVars>>

LockUnchecked == \* mutant: the session is not looked at again under the mutex
  /\ emu = "lock"
  /\ ggpoMutex' = TRUE /\ emu' = "idle"
  /\ UNCHANGED <<state, cpuRunning, resetRequested, uiVars, ggpoEnable, handshake, session,
                 endOfFrame, inRollback, frameVars>>

\* The session may have been closed before ggpoMutex was taken.
Lock ==
  /\ emu = "lock"
  /\ ggpoMutex' = session /\ emu' = IF session THEN "idle" ELSE "test"
  /\ UNCHANGED <<state, cpuRunning, resetRequested, uiVars, ggpoEnable, handshake, session,
                 endOfFrame, inRollback, frameVars>>

\* ggpo_idle: the input that came in differs from the one predicted.
BeginRollback ==
  /\ emu = "idle"
  /\ emu' = "rollback"
  /\ UNCHANGED <<state, cpuRunning, resetRequested, uiVars, ggpoVars, frameVars>>

\* load_game_state: rend_start_rollback() consumes the event, rend_allow_rollback() sets it.
LoadGameState ==
  /\ emu = "rollback" /\ vramRollback
  /\ emu' = "rerun"
  /\ UNCHANGED <<state, cpuRunning, resetRequested, uiVars, ggpoVars, frameVars>>

\* advance_frame: Emulator::run()
Rerun ==
  /\ emu = "rerun"
  /\ inRollback' = TRUE /\ cpuRunning' = TRUE /\ resetRequested' = FALSE /\ emu' = "slice"
  /\ UNCHANGED <<state, uiVars, ggpoEnable, handshake, session, ggpoMutex, endOfFrame, frameVars>>

\* The end of advance_frame, or of one of its skipped frames; more frames may follow.
AdvanceFrame ==
  /\ emu = "advanced"
  /\ \/ emu' = "rerun" /\ UNCHANGED <<endOfFrame, inRollback>>
     \/ emu' = "idle" /\ endOfFrame' = FALSE /\ inRollback' = FALSE
  /\ UNCHANGED <<state, cpuRunning, resetRequested, uiVars, ggpoEnable, handshake, session,
                 ggpoMutex, frameVars>>

\* The local input is accepted: on to the next frame.
AddLocalInput ==
  /\ emu = "idle"
  /\ cpuRunning' = TRUE /\ ggpoMutex' = FALSE /\ emu' = "test"
  /\ UNCHANGED <<state, resetRequested, uiVars, ggpoEnable, handshake, session, endOfFrame,
                 inRollback, frameVars>>

\* GGPO reports an error: stopSession(), and throw.
GgpoError ==
  /\ emu = "idle"
  /\ session' = FALSE /\ emu' = "catch"
  /\ UNCHANGED <<state, cpuRunning, resetRequested, uiVars, ggpoEnable, handshake, ggpoMutex,
                 endOfFrame, inRollback, frameVars>>

EmuNext ==
  \/ TestRunning \/ StartCpu \/ Slice \/ QueueFrame \/ EndOfFrame \/ RequestReset \/ Throw
  \/ CheckCpuRunning \/ LeaveRun \/ SoftReset \/ RestartCpu \/ Catch
  \/ NextFrame \/ Lock \/ BeginRollback \/ LoadGameState \/ Rerun \/ AdvanceFrame
  \/ AddLocalInput \/ GgpoError

-----------------------------------------------------------------------------
(***************************************************************************)
(* The user interface thread                                               *)
(***************************************************************************)
\* loadGame() succeeds or throws.
LoadGame ==
  /\ ui = "idle" /\ state = "Init"
  /\ \E enable \in GGPOModes :
       \/ state' = "Loaded" /\ ggpoEnable' = enable /\ handshake' = enable
       \/ state' = "Error" /\ ggpoEnable' = enable /\ UNCHANGED handshake
  /\ UNCHANGED <<cpuRunning, resetRequested, emu, uiVars, session, ggpoMutex, endOfFrame,
                 inRollback, frameVars>>

\* GGPONetworkHandshake::start(): the peers are synchronized.
Connect ==
  /\ ui = "idle" /\ state = "Loaded" /\ handshake /\ ~session
  /\ session' = TRUE /\ vramRollback' = TRUE
  /\ UNCHANGED <<state, cpuRunning, resetRequested, emu, uiVars, ggpoEnable, handshake,
                 ggpoMutex, endOfFrame, inRollback, frameQueued>>

\* Emulator::start(), once the handshake, if there is one, has succeeded.
Start ==
  /\ ui = "idle" /\ state = "Loaded" /\ (handshake => session)
  /\ state' = "Running" /\ cpuRunning' = TRUE /\ emu' = "test"
  /\ UNCHANGED <<resetRequested, uiVars, ggpoVars, frameVars>>

\* Emulator::render(): the queued frame is processed ...
RenderFrame ==
  /\ ui = "idle" /\ state = "Running" /\ emu \notin Dead /\ frameQueued
  /\ frameQueued' = FALSE /\ vramRollback' = TRUE
  /\ UNCHANGED <<state, cpuRunning, resetRequested, emu, uiVars, ggpoVars>>

\* Mutant: the exception of the thread is not looked for.
NoticeNothing == FALSE /\ UNCHANGED vars

\* ... unless checkStatus() finds that the thread has died; then gui_stop_game.
NoticeError ==
  /\ ui = "idle" /\ state = "Running" /\ emu = "failed"
  /\ state' = "Error" /\ ui' = "unload"
  /\ UNCHANGED <<cpuRunning, resetRequested, emu, leaving, ggpoVars, frameVars>>

\* Mutant: the state is changed before GGPO is stopped.
StopEarly ==
  /\ ui = "idle" /\ state = "Running"
  /\ \/ ~session /\ leaving' = FALSE
     \/ leaving' = TRUE
  /\ state' = "Loaded" /\ ui' = IF ggpoEnable THEN "term" ELSE "halt"
  /\ UNCHANGED <<cpuRunning, resetRequested, emu, ggpoVars, frameVars>>

\* stop(), from the menu, which does not open during a session, or from unloadGame().
Stop ==
  /\ ui = "idle" /\ state = "Running"
  /\ \/ ~session /\ leaving' = FALSE
     \/ leaving' = TRUE
  /\ ui' = IF ggpoEnable THEN "term" ELSE "halt"
  /\ UNCHANGED <<state, cpuRunning, resetRequested, emu, ggpoVars, frameVars>>

\* NetworkHandshake::term() waits for ggpoMutex, if there is a session to close.
CloseSession ==
  /\ ui = "term" /\ (handshake => ~ggpoMutex)
  /\ TermHandshake /\ ui' = "halt"
  /\ UNCHANGED <<state, cpuRunning, resetRequested, emu, leaving, ggpoEnable, ggpoMutex,
                 endOfFrame, inRollback, frameVars>>

\* state = Loaded and Stop(), under the mutex.
Halt ==
  /\ ui = "halt"
  /\ state' = "Loaded" /\ cpuRunning' = FALSE /\ ui' = "cancel"
  /\ UNCHANGED <<resetRequested, emu, leaving, ggpoVars, frameVars>>

\* rend_cancel_emu_wait()
CancelEmuWait ==
  /\ ui = "cancel"
  /\ vramRollback' = TRUE /\ ui' = "join"
  /\ UNCHANGED <<state, cpuRunning, resetRequested, emu, leaving, ggpoVars, frameQueued>>

JoinNothing == \* mutant: stop() does not wait for the thread
  /\ ui = "join"
  /\ ui' = IF leaving THEN "unload" ELSE "idle"
  /\ UNCHANGED <<state, cpuRunning, resetRequested, emu, leaving, ggpoVars, frameVars>>

\* checkStatus(true), which throws what the thread has thrown.
Join ==
  /\ ui = "join" /\ emu \in Dead
  /\ IF emu = "failed" THEN state' = "Error" /\ ui' = "unload"
                       ELSE UNCHANGED state /\ ui' = IF leaving THEN "unload" ELSE "idle"
  /\ UNCHANGED <<cpuRunning, resetRequested, emu, leaving, ggpoVars, frameVars>>

\* unloadGame() of a game that is not running: stop() does nothing.
BeginUnload ==
  /\ ui = "idle" /\ state \in {"Loaded", "Error"}
  /\ ui' = "unload"
  /\ UNCHANGED <<state, cpuRunning, resetRequested, emu, leaving, ggpoVars, frameVars>>

\* The rest of unloadGame(): dc_reset(true).
UnloadGame ==
  /\ ui = "unload" /\ (handshake => ~ggpoMutex)
  /\ TermHandshake
  /\ state' = "Init" /\ ui' = "idle" /\ leaving' = FALSE /\ frameQueued' = FALSE
  /\ UNCHANGED <<cpuRunning, resetRequested, emu, ggpoEnable, ggpoMutex, endOfFrame, inRollback,
                 vramRollback>>

Term ==
  /\ ui = "idle" /\ state = "Init"
  /\ state' = "Terminated"
  /\ UNCHANGED <<cpuRunning, resetRequested, emu, uiVars, ggpoVars, frameVars>>

UiNext ==
  \/ LoadGame \/ Connect \/ Start \/ RenderFrame \/ NoticeError \/ Stop \/ CloseSession
  \/ Halt \/ CancelEmuWait \/ Join \/ BeginUnload \/ UnloadGame \/ Term

Next == EmuNext \/ UiNext

Spec == Init /\ [][Next]_vars

-----------------------------------------------------------------------------
(***************************************************************************)
(* Safety                                                                  *)
(***************************************************************************)
\* verify(state == Running) of Emulator::run() holds in every frame of a rollback: stop()
\* changes the state only once GGPO is stopped, "since it may run some rollback frames".
RunVerified == emu = "rerun" => state = "Running"

\* verify(!CpuRunning) of the CPU's Reset() holds for the soft reset of the emulation thread
\* and the hard reset of unloadGame(), also after a thread that died.
ResetVerified == emu = "reset" \/ ui = "unload" => ~cpuRunning

\* There is one emulation thread at most: when the user interface may start, load or
\* unload a game, the thread that stop() or checkStatus() saw the end of is gone.
ThreadJoined == ui = "unload" \/ (ui = "idle" /\ state # "Running") => emu \in Dead

\* The session is not closed under the hands of the thread that runs it: nextFrame works
\* on a live session from the lock of ggpoMutex to its release, rollbacks included.
SessionOpenInFrame == emu \in InGGPO \/ (inRollback /\ emu \notin Dead) => session /\ ggpoMutex

\* stop() never waits for ggpoMutex while its holder waits for a frame that only the
\* thread in stop() can render.
NoMutualWait == ~(ui = "term" /\ handshake /\ ggpoMutex /\ emu = "rollback" /\ ~vramRollback)

-----------------------------------------------------------------------------
(***************************************************************************)
(* Liveness.  The emulation thread is scheduled fairly; the user interface *)
(* thread finishes what it has begun and goes on rendering frames.         *)
(***************************************************************************)
UiProgress ==
  RenderFrame \/ NoticeError \/ CloseSession \/ Halt \/ CancelEmuWait \/ Join \/ UnloadGame
FairSpec == Spec /\ WF_vars(EmuNext) /\ WF_vars(UiProgress)

\* Emulator::stop() "stops the execution thread": it returns.
Stopping == ui \in {"term", "halt", "cancel", "join"}
StopReturns == Stopping ~> ~Stopping

\* A CPU that stop() has stopped stays stopped and its thread ends, soft resets included,
\* unless the thread was between its test of the state and its Start().
StopEnds == ui = "join" /\ ~cpuRunning /\ emu # "start" ~> ui # "join"

\* A thread that died is noticed: the emulator does not stay Running without one.
ErrorNoticed == state = "Running" /\ emu = "failed" ~> state # "Running"
=============================================================================
