-------------------------- MODULE EmuLifecycleProofs --------------------------
(***************************************************************************)
(* Proofs about EmuLifecycle, for every choice of GGPO and of exceptions.  *)
(*                                                                         *)
(* The safety properties meet in one inductive invariant.  Its core is the *)
(* order of Emulator::stop(): between the close of the session and the end *)
(* of stop() there is no session, so no thread is in nextFrame, so nothing *)
(* that starts the CPU without a look at the state is left to run but the  *)
(* Start() at the head of the thread's loop.                               *)
(***************************************************************************)
EXTENDS EmuLifecycle, TLAPS

Halted == {"cancel", "join"} \* stop() has changed the state

\* The state follows the thread, and stop().
StateInv ==
  /\ ui = "unload" => emu \in Dead
  /\ ui \in {"idle", "term", "halt"} /\ emu \notin Dead => state = "Running"
  /\ ui \in {"term", "halt"} => state = "Running"
  /\ ui \in Halted => state = "Loaded"

\* The session and ggpoMutex, and where the thread is in nextFrame.
SessionInv ==
  /\ session => handshake
  /\ handshake => ggpoEnable
  /\ state = "Init" => ~handshake
  /\ ui \in Halted \cup {"halt"} => ~session
  /\ ggpoMutex => emu \in InGGPO \cup {"catch"} \/ inRollback
  /\ emu \in InGGPO => session /\ ggpoMutex
  /\ inRollback => session /\ ggpoMutex
  /\ inRollback => emu \in {"slice", "check", "leave", "nextFrame", "advanced", "rerun"}
  /\ inRollback => ~resetRequested

\* Where the CPU is stopped.
CpuInv ==
  /\ emu \in InGGPO \cup Dead \cup {"reset", "restart", "nextFrame", "lock"} => ~cpuRunning
  /\ emu = "test" /\ ui \in Halted => ~cpuRunning

LifeInv == TypeOK /\ StateInv /\ SessionInv /\ CpuInv

\* Emulator::init() leaves no game, no thread and no session.
LEMMA InitKeeps == Init => LifeInv
BY DEF Init, LifeInv, TypeOK, StateInv, SessionInv, CpuInv, EmuPC, UiPC, Dead, InGGPO, Halted

\* Every step of either thread preserves the invariant.
LEMMA NextKeeps == LifeInv /\ [Next]_vars => LifeInv'
<1> SUFFICES ASSUME LifeInv, [Next]_vars PROVE LifeInv'
  OBVIOUS
<1> USE LifecycleAssumption DEF LifeInv, TypeOK, StateInv, SessionInv, CpuInv, EmuPC, UiPC, Dead,
    InGGPO, Halted, ggpoVars, frameVars, uiVars
<1>1. CASE TestRunning
  BY <1>1 DEF TestRunning
<1>2. CASE StartCpu
  BY <1>2 DEF StartCpu
<1>3. CASE Slice
  BY <1>3 DEF Slice
<1>4. CASE QueueFrame
  BY <1>4 DEF QueueFrame
<1>5. CASE EndOfFrame
  BY <1>5 DEF EndOfFrame
<1>6. CASE RequestReset
  BY <1>6 DEF RequestReset, TermHandshake
<1>7. CASE Throw
  BY <1>7 DEF Throw
<1>8. CASE CheckCpuRunning
  BY <1>8 DEF CheckCpuRunning
<1>9. CASE LeaveRun
  BY <1>9 DEF LeaveRun
<1>10. CASE SoftReset
  BY <1>10 DEF SoftReset
<1>11. CASE RestartCpu
  BY <1>11 DEF RestartCpu
<1>12. CASE Catch
  BY <1>12 DEF Catch
<1>13. CASE NextFrame
  BY <1>13 DEF NextFrame
<1>14. CASE Lock
  BY <1>14 DEF Lock
<1>15. CASE BeginRollback
  BY <1>15 DEF BeginRollback
<1>16. CASE LoadGameState
  BY <1>16 DEF LoadGameState
<1>17. CASE Rerun
  BY <1>17 DEF Rerun
<1>18. CASE AdvanceFrame
  <2>1. TypeOK'
    BY <1>18 DEF AdvanceFrame
  <2>2. StateInv'
    BY <1>18 DEF AdvanceFrame
  <2>3. SessionInv'
    BY <1>18 DEF AdvanceFrame
  <2>4. CpuInv'
    BY <1>18 DEF AdvanceFrame
  <2> QED
    BY <2>1, <2>2, <2>3, <2>4
<1>19. CASE AddLocalInput
  BY <1>19 DEF AddLocalInput
<1>20. CASE GgpoError
  BY <1>20 DEF GgpoError
<1>21. CASE LoadGame
  <2>1. TypeOK'
    BY <1>21 DEF LoadGame
  <2>2. StateInv'
    BY <1>21 DEF LoadGame
  <2>3. SessionInv'
    BY <1>21 DEF LoadGame
  <2>4. CpuInv'
    BY <1>21 DEF LoadGame
  <2> QED
    BY <2>1, <2>2, <2>3, <2>4
<1>22. CASE Connect
  BY <1>22 DEF Connect
<1>23. CASE Start
  BY <1>23 DEF Start
<1>24. CASE RenderFrame
  <2>1. TypeOK'
    BY <1>24 DEF RenderFrame
  <2>2. StateInv'
    BY <1>24 DEF RenderFrame
  <2>3. SessionInv'
    BY <1>24 DEF RenderFrame
  <2>4. CpuInv'
    BY <1>24 DEF RenderFrame
  <2> QED
    BY <2>1, <2>2, <2>3, <2>4
<1>25. CASE NoticeError
  BY <1>25 DEF NoticeError
<1>26. CASE Stop
  <2>1. TypeOK'
    BY <1>26 DEF Stop
  <2>2. StateInv'
    BY <1>26 DEF Stop
  <2>3. SessionInv'
    BY <1>26 DEF Stop
  <2>4. CpuInv'
    BY <1>26 DEF Stop
  <2> QED
    BY <2>1, <2>2, <2>3, <2>4
<1>27. CASE CloseSession
  <2>1. TypeOK'
    BY <1>27 DEF CloseSession, TermHandshake
  <2>2. StateInv'
    BY <1>27 DEF CloseSession, TermHandshake
  <2>3. SessionInv'
    BY <1>27 DEF CloseSession, TermHandshake
  <2>4. CpuInv'
    BY <1>27 DEF CloseSession, TermHandshake
  <2> QED
    BY <2>1, <2>2, <2>3, <2>4
<1>28. CASE Halt
  <2>1. TypeOK'
    BY <1>28 DEF Halt
  <2>2. StateInv'
    BY <1>28 DEF Halt
  <2>3. SessionInv'
    BY <1>28 DEF Halt
  <2>4. CpuInv'
    BY <1>28 DEF Halt
  <2> QED
    BY <2>1, <2>2, <2>3, <2>4
<1>29. CASE CancelEmuWait
  BY <1>29 DEF CancelEmuWait
<1>30. CASE Join
  BY <1>30 DEF Join
<1>31. CASE BeginUnload
  BY <1>31 DEF BeginUnload
<1>32. CASE UnloadGame
  BY <1>32 DEF UnloadGame, TermHandshake
<1>33. CASE Term
  BY <1>33 DEF Term
<1>34. CASE UNCHANGED vars
  BY <1>34 DEF vars
<1> QED
  BY <1>1, <1>2, <1>3, <1>4, <1>5, <1>6, <1>7, <1>8, <1>9, <1>10, <1>11, <1>12, <1>13,
     <1>14, <1>15, <1>16, <1>17, <1>18, <1>19, <1>20, <1>21, <1>22, <1>23, <1>24, <1>25,
     <1>26, <1>27, <1>28, <1>29, <1>30, <1>31, <1>32, <1>33, <1>34 DEF Next, EmuNext,
     UiNext

\* The inductive invariant of start(), stop(), the emulation thread and GGPO.
THEOREM LifeInvariance == Spec => []LifeInv
<1>1. Init => LifeInv
  BY InitKeeps
<1>2. LifeInv /\ [Next]_vars => LifeInv'
  BY NextKeeps
<1> QED
  BY <1>1, <1>2, PTL DEF Spec

\* The variables keep their types.
THEOREM LifeTypeCorrect == Spec => []TypeOK
<1>1. LifeInv => TypeOK
  BY DEF LifeInv
<1> QED
  BY <1>1, LifeInvariance, PTL

\* verify(state == Running) of Emulator::run() holds in every rollback frame of a session
\* that stop() closes: the session is gone before stop() changes the state.
THEOREM RunIsVerified == Spec => []RunVerified
<1>1. LifeInv => RunVerified
  BY DEF LifeInv, TypeOK, StateInv, SessionInv, RunVerified, InGGPO, Dead, Halted, UiPC
<1> QED
  BY <1>1, LifeInvariance, PTL

\* verify(!CpuRunning) of the CPU's Reset() holds for soft and hard resets.
THEOREM ResetIsVerified == Spec => []ResetVerified
<1>1. LifeInv => ResetVerified
  BY DEF LifeInv, StateInv, CpuInv, ResetVerified
<1> QED
  BY <1>1, LifeInvariance, PTL

\* One emulation thread at most: the last one has ended when start() may launch another.
THEOREM ThreadIsJoined == Spec => []ThreadJoined
<1>1. LifeInv => ThreadJoined
  BY DEF LifeInv, StateInv, ThreadJoined
<1> QED
  BY <1>1, LifeInvariance, PTL

\* nextFrame and its rollbacks work on a session that is open, under ggpoMutex.
THEOREM SessionIsOpen == Spec => []SessionOpenInFrame
<1>1. LifeInv => SessionOpenInFrame
  BY DEF LifeInv, SessionInv, SessionOpenInFrame
<1> QED
  BY <1>1, LifeInvariance, PTL

-----------------------------------------------------------------------------
(***************************************************************************)
(* What stop() waits for.                                                  *)
(***************************************************************************)
\* How many steps a thread whose CPU is stopped has left at most.
StepsLeft ==
  CASE emu = "slice"             -> 8
    [] emu = "check"             -> 7
    [] emu = "leave"             -> 6
    [] emu = "reset"             -> 5
    [] emu = "restart"           -> 4
    [] emu = "nextFrame"         -> 3
    [] emu = "lock"              -> 2
    [] emu \in {"test", "catch"} -> 1
    [] OTHER                     -> 0

\* While stop() waits with the CPU stopped, nothing starts the CPU again, neither a guest
\* reset nor the end of a GGPO frame, and each step of the emulation thread, whatever the
\* guest does in it, brings its end closer.
ThreadRunsOut ==
  [][ui = "join" /\ ui' = "join" /\ ~cpuRunning /\ emu # "start"
       => /\ ~cpuRunning' /\ emu' # "start"
          /\ StepsLeft' < StepsLeft]_vars

\* The safety part of StopEnds: from there on stop() waits for eight steps of the thread at
\* most.
THEOREM StopCountsDown == Spec => ThreadRunsOut
<1> DEFINE A == ui = "join" /\ ui' = "join" /\ ~cpuRunning /\ emu # "start"
                  => ~cpuRunning' /\ emu' # "start" /\ StepsLeft' < StepsLeft
<1>1. LifeInv /\ [Next]_vars => [A]_vars
  <2> SUFFICES ASSUME LifeInv, Next, ui = "join", ui' = "join", ~cpuRunning, emu # "start"
               PROVE  ~cpuRunning' /\ emu' # "start" /\ StepsLeft' < StepsLeft
    BY DEF A
  <2>1. /\ state = "Loaded" /\ ~session /\ ~inRollback /\ emu \notin InGGPO
        /\ emu \in EmuPC
    BY DEF LifeInv, TypeOK, StateInv, SessionInv, Halted
  <2>2. EmuNext
    BY DEF Next, UiNext, LoadGame, Connect, Start, RenderFrame, NoticeError, Stop, CloseSession,
           Halt, CancelEmuWait, Join, BeginUnload, UnloadGame, Term
  <2> USE <2>1 DEF StepsLeft, InGGPO
  <2>3. CASE TestRunning \/ StartCpu \/ Slice \/ QueueFrame \/ EndOfFrame \/ RequestReset \/ Throw
    BY <2>3 DEF TestRunning, StartCpu, Slice, QueueFrame, EndOfFrame, RequestReset, Throw
  <2>4. CASE CheckCpuRunning \/ LeaveRun \/ SoftReset \/ RestartCpu \/ Catch
    BY <2>4 DEF CheckCpuRunning, LeaveRun, SoftReset, RestartCpu, Catch
  <2>5. CASE NextFrame \/ Lock
    BY <2>5 DEF NextFrame, Lock
  <2>6. CASE \/ BeginRollback \/ LoadGameState \/ Rerun \/ AdvanceFrame \/ AddLocalInput
             \/ GgpoError
    BY <2>6 DEF BeginRollback, LoadGameState, Rerun, AdvanceFrame, AddLocalInput, GgpoError
  <2> QED
    BY <2>2, <2>3, <2>4, <2>5, <2>6 DEF EmuNext
<1> QED
  BY <1>1, LifeInvariance, PTL DEF Spec, ThreadRunsOut
===============================================================================
