------------------------ MODULE RenderHandoffProofs ------------------------
(***************************************************************************)
(* What holds of RenderHandoff for every set of contexts, every bound and  *)
(* every setting: that no frame is orphaned, that the frame being rendered *)
(* stays in its slot and that no context is lost or recycled twice; that a *)
(* rollback waits for the frame, that no wakeup is lost, and when the wait *)
(* of rend_end_render is for its own frame.                                *)
(*                                                                         *)
(* The first three are not inductive by themselves: the emulation thread   *)
(* looks at rqueue some steps before it takes the slot, and the render     *)
(* messages say nothing unless it is known who holds which context at      *)
(* which step.  HandoffInv adds just that: what each program counter       *)
(* implies.  WakeInv and EndInv are then proved relative to it.            *)
(***************************************************************************)
EXTENDS RenderHandoff, FiniteSetTheorems, TLAPS

\* The messages a handler may have left to enqueue.
Outboxes == {<< >>, <<"Render">>, <<"Render", "Present">>, <<"Present">>,
             <<"RenderFramebuffer", "Present">>}

\* Where the emulation thread is determines what it holds.
EmuHolds ==
  /\ outbox \in Outboxes
  /\ emu \in {"enqueue", "awaitRoom"} => outbox # << >>
  /\ emu \notin {"enqueue", "awaitRoom", "signal"} => outbox = << >>
  /\ emu = "signal" => ~RenderPosted
  /\ ectx # NoCtx <=> emu \in {"queueRender", "waitFinished", "admit", "claim"}
  /\ emu = "claim" => rqueue = NoCtx

\* Where the user interface thread is determines what it holds.
UiHolds == rctx # NoCtx <=> Rendering \/ ui = "recycle"

\* While the emulator is stopped, its thread is gone.
EmuGone == stopper = "none" /\ ~running => emu = "dead"

\* FrameNotOrphaned, with the queue looked at through two operators only.
Occurs(q) == \E i \in DOMAIN q : q[i] = "Render"
Once(q) == \A i, j \in DOMAIN q : q[i] = "Render" /\ q[j] = "Render" => i = j
FrameInSlot ==
  /\ rqueue # NoCtx <=> RenderPosted \/ Occurs(queue) \/ RenderTaken \/ Rendering
  /\ Once(queue)
  /\ Occurs(queue) => ~RenderPosted /\ ~RenderTaken /\ ~Rendering
  /\ RenderTaken \/ Rendering => ~RenderPosted

HandoffInv ==
  /\ TypeOK
  /\ EmuHolds /\ UiHolds /\ EmuGone
  /\ FrameInSlot /\ RenderedFrameInSlot /\ ContextConserved

\* The Boolean part of TypeOK, which needs another prover than the rest.
BooleansOK ==
  /\ enqueueEvent \in BOOLEAN /\ dequeueEvent \in BOOLEAN
  /\ renderEnd \in BOOLEAN /\ frameFinished \in BOOLEAN /\ vramRollback \in BOOLEAN
  /\ rendererEnabled \in BOOLEAN /\ pendRend \in BOOLEAN /\ doneScheduled \in BOOLEAN
  /\ presented \in BOOLEAN /\ running \in BOOLEAN /\ cpuRunning \in BOOLEAN
  /\ cancelled \in BOOLEAN

-----------------------------------------------------------------------------
(***************************************************************************)
(* The message queue                                                       *)
(***************************************************************************)
\* The messages a handler has to enqueue, one after the other.
LEMMA HeadTail ==
  /\ Head(<<"Render">>) = "Render" /\ Tail(<<"Render">>) = << >>
  /\ Head(<<"Present">>) = "Present" /\ Tail(<<"Present">>) = << >>
  /\ Head(<<"Render", "Present">>) = "Render" /\ Tail(<<"Render", "Present">>) = <<"Present">>
  /\ Head(<<"RenderFramebuffer", "Present">>) = "RenderFramebuffer"
  /\ Tail(<<"RenderFramebuffer", "Present">>) = <<"Present">>
  OBVIOUS

\* What cancelEnqueue and rend_reset leave in the queue.
LEMMA Short ==
  /\ ~Occurs(<< >>) /\ Once(<< >>) /\ << >> \in Seq(Message)
  /\ Occurs(<<"Render">>) /\ Once(<<"Render">>) /\ <<"Render">> \in Seq(Message)
  BY DEF Occurs, Once, Message

\* What a handler has left to enqueue is a sequence of messages.
LEMMA OutboxType == Outboxes \subseteq Seq(Message)
  BY DEF Outboxes, Message

\* Enqueueing a message keeps at most one Render message, if there was none.
LEMMA AppendMessage ==
  ASSUME NEW q \in Seq(Message), NEW m \in Message
  PROVE  /\ Append(q, m) \in Seq(Message)
         /\ Occurs(Append(q, m)) <=> Occurs(q) \/ m = "Render"
         /\ Once(q) /\ (m = "Render" => ~Occurs(q)) => Once(Append(q, m))
<1>1. Append(q, m) \in Seq(Message) /\ DOMAIN q = 1..Len(q) /\ Len(q) \in Nat
      /\ DOMAIN Append(q, m) = 1..(Len(q) + 1)
  OBVIOUS
<1>2. \A i \in 1..Len(q) : Append(q, m)[i] = q[i]
  OBVIOUS
<1>3. Append(q, m)[Len(q) + 1] = m
  OBVIOUS
<1>4. Occurs(Append(q, m)) <=> Occurs(q) \/ m = "Render"
  BY <1>1, <1>2, <1>3 DEF Occurs
<1>5. ASSUME Once(q), m = "Render" => ~Occurs(q)
      PROVE  Once(Append(q, m))
  BY <1>1, <1>2, <1>3, <1>5 DEF Occurs, Once
<1> QED BY <1>1, <1>4, <1>5

\* Taking the first message takes the only Render message, or leaves it.
LEMMA TailMessage ==
  ASSUME NEW q \in Seq(Message), q # << >>
  PROVE  /\ Tail(q) \in Seq(Message) /\ Head(q) \in Message
         /\ Occurs(q) <=> Head(q) = "Render" \/ Occurs(Tail(q))
         /\ Once(q) => Once(Tail(q)) /\ (Head(q) = "Render" => ~Occurs(Tail(q)))
<1>1. /\ Tail(q) \in Seq(Message) /\ DOMAIN q = 1..Len(q) /\ Len(q) \in Nat \ {0}
      /\ DOMAIN Tail(q) = 1..(Len(q) - 1)
      /\ Head(q) = q[1] /\ q[1] \in Message
  OBVIOUS
<1>2. \A i \in 1..(Len(q) - 1) : Tail(q)[i] = q[i + 1] /\ i + 1 \in DOMAIN q
  BY <1>1
<1>3. ASSUME Occurs(q) PROVE Head(q) = "Render" \/ Occurs(Tail(q))
  <2>1. PICK i \in DOMAIN q : q[i] = "Render"
    BY <1>3 DEF Occurs
  <2>2. CASE i > 1
    <3>1. i - 1 \in 1..(Len(q) - 1) /\ (i - 1) + 1 = i
      BY <1>1, <2>1, <2>2
    <3>2. Tail(q)[i - 1] = q[i]
      BY <1>2, <3>1
    <3> QED BY <1>1, <2>1, <3>1, <3>2 DEF Occurs
  <2> QED BY <1>1, <2>1, <2>2
<1>4. ASSUME Head(q) = "Render" \/ Occurs(Tail(q)) PROVE Occurs(q)
  BY <1>1, <1>2, <1>4 DEF Occurs
<1>5. ASSUME Once(q) PROVE Once(Tail(q)) /\ (Head(q) = "Render" => ~Occurs(Tail(q)))
  BY <1>1, <1>2, <1>5 DEF Occurs, Once
<1> QED BY <1>1, <1>3, <1>4, <1>5

\* cancelEnqueue() leaves the one Render message, or nothing.
LEMMA OnlyRendersIs ==
  ASSUME queue \in Seq(Message),
         Once(queue)
  PROVE  OnlyRenders = IF Occurs(queue) THEN <<"Render">> ELSE << >>
<1> DEFINE R == {j \in DOMAIN queue : queue[j] = "Render"}
<1>1. CASE Occurs(queue)
  <2>1. PICK k \in DOMAIN queue : queue[k] = "Render"
    BY <1>1 DEF Occurs
  <2>2. R = {k}
    BY <2>1 DEF Once
  <2>3. Cardinality(R) = 1
    BY <2>2, FS_Singleton
  <2>4. OnlyRenders = [i \in 1..1 |-> "Render"]
    BY <2>3 DEF OnlyRenders
  <2>5. <<"Render">> = [i \in 1..1 |-> "Render"]
    OBVIOUS
  <2> QED BY <1>1, <2>4, <2>5
<1>2. CASE ~Occurs(queue)
  <2>1. R = {}
    BY <1>2 DEF Occurs
  <2>2. Cardinality(R) = 0
    BY <2>1, FS_EmptySet
  <2>3. OnlyRenders = [i \in 1..0 |-> "Render"]
    BY <2>2 DEF OnlyRenders
  <2>4. << >> = [i \in 1..0 |-> "Render"]
    OBVIOUS
  <2> QED BY <1>2, <2>3, <2>4
<1> QED BY <1>1, <1>2

-----------------------------------------------------------------------------
(***************************************************************************)
(* The Booleans keep their type                                            *)
(***************************************************************************)
\* An event, a flag or a switch is never assigned anything but a truth value.
LEMMA BooleansKept == BooleansOK /\ [Next]_vars => BooleansOK'
<1> SUFFICES ASSUME BooleansOK, [Next]_vars PROVE BooleansOK'
  OBVIOUS
<1> USE HandoffAssumption
        DEF BooleansOK, vars, queueVars, sharedVars, emuVars, uiVars, stopVars, history
<1>1. CASE StartRender
  BY <1>1, Zenon DEF StartRender
<1>2. CASE SkipFrame
  BY <1>2, Zenon DEF SkipFrame, DropFrame
<1>3. CASE QueueRender
  BY <1>3, Zenon DEF QueueRender
<1>4. CASE WaitFrameFinished
  BY <1>4, Zenon DEF WaitFrameFinished
<1>5. CASE DropLateFrame
  BY <1>5, Zenon DEF DropLateFrame, DropFrame
<1>6. CASE DisableRollback
  BY <1>6, Zenon DEF DisableRollback
<1>7. CASE Claim
  BY <1>7, Zenon DEF Claim
<1>8. CASE Enqueue
  BY <1>8, Zenon DEF Enqueue
<1>9. CASE SignalEnqueue
  BY <1>9, Zenon DEF SignalEnqueue
<1>10. CASE AwaitRoom
  BY <1>10, Zenon DEF AwaitRoom
<1>11. CASE SwapFrame
  BY <1>11, Zenon DEF SwapFrame
<1>12. CASE NoRegisterWrite
  BY <1>12, Zenon DEF NoRegisterWrite
<1>13. CASE RenderDoneDue
  BY <1>13, Zenon DEF RenderDoneDue
<1>14. CASE RenderDoneNotDue
  BY <1>14, Zenon DEF RenderDoneNotDue
<1>15. CASE WaitRenderEnd
  BY <1>15, Zenon DEF WaitRenderEnd
<1>16. CASE VBlankFramebuffer
  BY <1>16, Zenon DEF VBlankFramebuffer
<1>17. CASE NoVBlank
  BY <1>17, Zenon DEF NoVBlank
<1>18. CASE NextSlice
  BY <1>18, Zenon DEF NextSlice
<1>19. CASE StartRollback
  BY <1>19, Zenon DEF StartRollback
<1>20. CASE WaitRollbackAllowed
  BY <1>20, Zenon DEF WaitRollbackAllowed
<1>21. CASE Restore
  BY <1>21, Zenon DEF Restore
<1>22. CASE EndRollback
  BY <1>22, Zenon DEF EndRollback
<1>23. CASE BeginFrame
  BY <1>23, Zenon DEF BeginFrame, UiUnchanged
<1>24. CASE Dequeue
  BY <1>24, Zenon DEF Dequeue, UiUnchanged
<1>25. CASE WaitEnqueue
  BY <1>25, Zenon DEF WaitEnqueue, UiUnchanged
<1>26. CASE DequeueTimeout
  BY <1>26, Zenon DEF DequeueTimeout, UiUnchanged
<1>27. CASE SignalDequeue
  BY <1>27, Zenon DEF SignalDequeue, UiUnchanged
<1>28. CASE ExecuteStop
  BY <1>28, Zenon DEF ExecuteStop, UiUnchanged
<1>29. CASE ExecuteRenderFramebuffer
  BY <1>29, Zenon DEF ExecuteRenderFramebuffer, UiUnchanged
<1>30. CASE ExecutePresent
  BY <1>30, Zenon DEF ExecutePresent, UiUnchanged
<1>31. CASE ExecuteRender
  BY <1>31, Zenon DEF ExecuteRender, UiUnchanged
<1>32. CASE Process
  BY <1>32, Zenon DEF Process, UiUnchanged
<1>33. CASE ProcessFails
  BY <1>33, Zenon DEF ProcessFails, UiUnchanged
<1>34. CASE AllowRollback
  BY <1>34, Zenon DEF AllowRollback, UiUnchanged
<1>35. CASE Render
  BY <1>35, Zenon DEF Render, UiUnchanged
<1>36. CASE Release
  BY <1>36, Zenon DEF Release, UiUnchanged
<1>37. CASE RecycleRendered
  BY <1>37, Zenon DEF RecycleRendered, UiUnchanged
<1>38. CASE FinishFrame
  BY <1>38, Zenon DEF FinishFrame, UiUnchanged
<1>39. CASE StopEmulator
  BY <1>39, Zenon DEF StopEmulator, StopUnchanged
<1>40. CASE CancelFrameWait
  BY <1>40, Zenon DEF CancelFrameWait, StopUnchanged
<1>41. CASE CancelRenderEnd
  BY <1>41, Zenon DEF CancelRenderEnd, StopUnchanged
<1>42. CASE CancelRollbackWait
  BY <1>42, Zenon DEF CancelRollbackWait, StopUnchanged
<1>43. CASE CancelEnqueue
  BY <1>43, Zenon DEF CancelEnqueue, StopUnchanged
<1>44. CASE EnqueueStop
  BY <1>44, Zenon DEF EnqueueStop, StopUnchanged
<1>45. CASE SignalStop
  BY <1>45, Zenon DEF SignalStop, StopUnchanged
<1>46. CASE Join
  BY <1>46, Zenon DEF Join, StopUnchanged
<1>47. CASE Resume
  BY <1>47, Zenon DEF Resume
<1>48. CASE LoadState
  BY <1>48, Zenon DEF LoadState
<1>49. CASE Unload
  BY <1>49, Zenon DEF Unload
<1>50. CASE UNCHANGED vars
  BY <1>50, Zenon
<1> QED
  BY <1>1, <1>2, <1>3, <1>4, <1>5, <1>6, <1>7, <1>8, <1>9, <1>10, <1>11, <1>12, <1>13,
     <1>14, <1>15, <1>16, <1>17, <1>18, <1>19, <1>20, <1>21, <1>22, <1>23, <1>24, <1>25,
     <1>26, <1>27, <1>28, <1>29, <1>30, <1>31, <1>32, <1>33, <1>34, <1>35, <1>36, <1>37,
     <1>38, <1>39, <1>40, <1>41, <1>42, <1>43, <1>44, <1>45, <1>46, <1>47, <1>48, <1>49,
     <1>50, Zenon DEF Next, EmuNext, UiNext, StopNext

-----------------------------------------------------------------------------
(***************************************************************************)
(* HandoffInv is inductive                                                 *)
(***************************************************************************)
LEMMA HandoffInit == Init => HandoffInv
<1> SUFFICES ASSUME Init PROVE HandoffInv
  OBVIOUS
<1>1. TypeOK
  BY HandoffAssumption, Short DEF Init, TypeOK, Message, EmuPC, UiPC, StopPC
<1>2. EmuHolds /\ UiHolds /\ EmuGone
  BY DEF Init, EmuHolds, Outboxes, UiHolds, EmuGone, RenderPosted, Rendering
<1>3. FrameInSlot
  BY Short DEF Init, FrameInSlot, RenderPosted, RenderTaken, Rendering
<1>4. RenderedFrameInSlot /\ ContextConserved
  BY HandoffAssumption DEF Init, RenderedFrameInSlot, Rendering, ContextConserved
<1> QED
  BY <1>1, <1>2, <1>3, <1>4 DEF HandoffInv

\* The emulation thread keeps every part of the invariant.
LEMMA EmuStep == HandoffInv /\ BooleansOK' /\ EmuNext => HandoffInv'
<1> SUFFICES ASSUME HandoffInv, BooleansOK', EmuNext PROVE HandoffInv'
  OBVIOUS
<1> USE HandoffAssumption
        DEF HandoffInv, BooleansOK, TypeOK, Message, EmuPC, UiPC, StopPC, EmuHolds, Outboxes,
            UiHolds, EmuGone, FrameInSlot, RenderPosted, RenderTaken, Rendering,
            RenderedFrameInSlot, ContextConserved,
            vars, queueVars, sharedVars, emuVars, uiVars, stopVars, history
<1>1. CASE StartRender
  BY <1>1 DEF StartRender
<1>2. CASE SkipFrame
  BY <1>2 DEF SkipFrame, DropFrame, Recycle
<1>3. CASE QueueRender
  BY <1>3 DEF QueueRender
<1>4. CASE WaitFrameFinished
  BY <1>4 DEF WaitFrameFinished
<1>5. CASE DropLateFrame
  BY <1>5 DEF DropLateFrame, DropFrame, Recycle
<1>6. CASE DisableRollback
  BY <1>6 DEF DisableRollback
<1>7. CASE Claim
  <2>1. outbox' = <<"Render">> \/ outbox' = <<"Render", "Present">>
    BY <1>7 DEF Claim, Post
  <2>2. outbox' \in Seq(Message)
    BY <2>1, OutboxType
  <2>3. emu' = "enqueue" /\ RenderPosted'
    BY <1>7, <2>1, HeadTail DEF Claim, Post
  <2>4. rqueue' # NoCtx /\ rqueue' = ectx /\ ectx' = NoCtx
    BY <1>7 DEF Claim
  <2>5. ~Occurs(queue) /\ ~RenderTaken /\ ~Rendering
    BY <1>7 DEF Claim
  <2>6. TypeOK'
    BY <1>7, <2>2, <2>3 DEF Claim, Post
  <2>7. EmuHolds' /\ FrameInSlot'
    BY <1>7, <2>1, <2>3, <2>4, <2>5 DEF Claim, Post
  <2> QED
    BY <1>7, <2>1, <2>3, <2>6, <2>7 DEF Claim, Post
<1>8. CASE Enqueue
  <2>1. CASE emu' = "awaitRoom"
     BY <1>8, <2>1 DEF Enqueue
  <2>2. CASE emu' = "signal"
    <3>1. /\ queue' = Append(queue, Head(outbox)) /\ outbox' = Tail(outbox)
          /\ ~Queued(Head(outbox)) \/ Head(outbox) = "Present"
      BY <1>8, <2>2 DEF Enqueue
    <3>2. outbox \in Outboxes /\ outbox # << >>
      BY <1>8 DEF Enqueue
    <3>3. Head(outbox) \in Message /\ outbox' \in {<< >>, <<"Present">>}
      BY <3>1, <3>2, HeadTail
    <3>4. ~RenderPosted'
      BY <3>3, HeadTail
    <3>5. Head(outbox) = "Render" => ~Occurs(queue)
      BY <3>1 DEF Queued, Occurs
    <3>6. /\ queue' \in Seq(Message)
          /\ Occurs(queue') <=> Occurs(queue) \/ Head(outbox) = "Render"
          /\ Once(queue')
      BY <3>1, <3>3, <3>5, AppendMessage
    <3>7. TypeOK' /\ EmuHolds'
      BY <1>8, <2>2, <3>3, <3>4, <3>6 DEF Enqueue
    <3>8. FrameInSlot'
      BY <1>8, <2>2, <3>2, <3>4, <3>6 DEF Enqueue
    <3> QED BY <1>8, <2>2, <3>7, <3>8 DEF Enqueue
  <2> QED BY <1>8, <2>1, <2>2 DEF Enqueue
<1>9. CASE SignalEnqueue
  BY <1>9 DEF SignalEnqueue
<1>10. CASE AwaitRoom
  BY <1>10 DEF AwaitRoom
<1>11. CASE SwapFrame
  BY <1>11 DEF SwapFrame, Post
<1>12. CASE NoRegisterWrite
  BY <1>12 DEF NoRegisterWrite
<1>13. CASE RenderDoneDue
  BY <1>13 DEF RenderDoneDue
<1>14. CASE RenderDoneNotDue
  BY <1>14 DEF RenderDoneNotDue
<1>15. CASE WaitRenderEnd
  BY <1>15 DEF WaitRenderEnd
<1>16. CASE VBlankFramebuffer
  BY <1>16 DEF VBlankFramebuffer, Post
<1>17. CASE NoVBlank
  BY <1>17 DEF NoVBlank
<1>18. CASE NextSlice
  BY <1>18 DEF NextSlice
<1>19. CASE StartRollback
  BY <1>19 DEF StartRollback
<1>20. CASE WaitRollbackAllowed
  BY <1>20 DEF WaitRollbackAllowed
<1>21. CASE Restore
  BY <1>21 DEF Restore
<1>22. CASE EndRollback
  BY <1>22 DEF EndRollback
<1> QED
  BY <1>1, <1>2, <1>3, <1>4, <1>5, <1>6, <1>7, <1>8, <1>9, <1>10, <1>11, <1>12, <1>13,
     <1>14, <1>15, <1>16, <1>17, <1>18, <1>19, <1>20, <1>21, <1>22 DEF EmuNext

\* The user interface thread keeps every part of the invariant.
LEMMA UiStep == HandoffInv /\ BooleansOK' /\ UiNext => HandoffInv'
<1> SUFFICES ASSUME HandoffInv, BooleansOK', UiNext PROVE HandoffInv'
  OBVIOUS
<1> USE HandoffAssumption
        DEF HandoffInv, BooleansOK, TypeOK, Message, EmuPC, UiPC, StopPC, EmuHolds, Outboxes,
            UiHolds, EmuGone, FrameInSlot, RenderPosted, RenderTaken, Rendering,
            RenderedFrameInSlot, ContextConserved,
            vars, queueVars, sharedVars, emuVars, uiVars, stopVars, history
<1>1. CASE BeginFrame
  BY <1>1 DEF BeginFrame, UiUnchanged
<1>2. CASE Dequeue
  <2>1. /\ queue' \in Seq(Message) /\ msg' \in Message
        /\ Occurs(queue) <=> msg' = "Render" \/ Occurs(queue')
        /\ Once(queue') /\ (msg' = "Render" => ~Occurs(queue'))
    BY <1>2, TailMessage DEF Dequeue
  <2> QED BY <1>2, <2>1 DEF Dequeue, UiUnchanged
<1>3. CASE WaitEnqueue
  BY <1>3 DEF WaitEnqueue, UiUnchanged
<1>4. CASE DequeueTimeout
  BY <1>4 DEF DequeueTimeout, UiUnchanged
<1>5. CASE SignalDequeue
  BY <1>5 DEF SignalDequeue, UiUnchanged
<1>6. CASE ExecuteStop
  BY <1>6 DEF ExecuteStop, UiUnchanged
<1>7. CASE ExecuteRenderFramebuffer
  BY <1>7 DEF ExecuteRenderFramebuffer, UiUnchanged, Loop
<1>8. CASE ExecutePresent
  BY <1>8 DEF ExecutePresent, UiUnchanged, Loop
<1>9. CASE ExecuteRender
  BY <1>9 DEF ExecuteRender, UiUnchanged, Loop
<1>10. CASE Process
  BY <1>10 DEF Process, UiUnchanged, ToScreen
<1>11. CASE ProcessFails
  BY <1>11 DEF ProcessFails, UiUnchanged
<1>12. CASE AllowRollback
  BY <1>12 DEF AllowRollback, UiUnchanged
<1>13. CASE Render
  BY <1>13 DEF Render, UiUnchanged, ToScreen
<1>14. CASE Release
  BY <1>14 DEF Release, UiUnchanged
<1>15. CASE RecycleRendered
  BY <1>15 DEF RecycleRendered, UiUnchanged, Recycle
<1>16. CASE FinishFrame
  BY <1>16 DEF FinishFrame, UiUnchanged, Loop
<1> QED
  BY <1>1, <1>2, <1>3, <1>4, <1>5, <1>6, <1>7, <1>8, <1>9, <1>10, <1>11, <1>12, <1>13,
     <1>14, <1>15, <1>16 DEF UiNext

\* Emulator::stop() and what may follow it keeps every part of the invariant.
LEMMA StopStep == HandoffInv /\ BooleansOK' /\ StopNext => HandoffInv'
<1> SUFFICES ASSUME HandoffInv, BooleansOK', StopNext PROVE HandoffInv'
  OBVIOUS
<1> USE HandoffAssumption
        DEF HandoffInv, BooleansOK, TypeOK, Message, EmuPC, UiPC, StopPC, EmuHolds, Outboxes,
            UiHolds, EmuGone, FrameInSlot, RenderPosted, RenderTaken, Rendering,
            RenderedFrameInSlot, ContextConserved,
            vars, queueVars, sharedVars, emuVars, uiVars, stopVars, history
<1>1. CASE StopEmulator
  BY <1>1 DEF StopEmulator, StopUnchanged
<1>2. CASE CancelFrameWait
  BY <1>2 DEF CancelFrameWait, StopUnchanged
<1>3. CASE CancelRenderEnd
  BY <1>3 DEF CancelRenderEnd, StopUnchanged
<1>4. CASE CancelRollbackWait
  BY <1>4 DEF CancelRollbackWait, StopUnchanged
<1>5. CASE CancelEnqueue
  <2>1. queue' = IF Occurs(queue) THEN <<"Render">> ELSE << >>
    BY <1>5, OnlyRendersIs DEF CancelEnqueue
  <2>2. queue' \in Seq(Message) /\ Once(queue') /\ (Occurs(queue') <=> Occurs(queue))
    BY <2>1, Short
  <2> QED BY <1>5, <2>2 DEF CancelEnqueue, StopUnchanged
<1>6. CASE EnqueueStop
  <2>1. CASE stopper' = "join"
    BY <1>6, <2>1 DEF EnqueueStop, StopUnchanged
  <2>2. CASE stopper' = "signalStop"
    <3>1. queue' = Append(queue, "Stop")
      BY <1>6, <2>2 DEF EnqueueStop
    <3>2. queue' \in Seq(Message) /\ Once(queue') /\ (Occurs(queue') <=> Occurs(queue))
      BY <3>1, AppendMessage
    <3> QED BY <1>6, <2>2, <3>2 DEF EnqueueStop, StopUnchanged
  <2> QED BY <1>6, <2>1, <2>2 DEF EnqueueStop
<1>7. CASE SignalStop
  BY <1>7 DEF SignalStop, StopUnchanged
<1>8. CASE Join
  BY <1>8 DEF Join, StopUnchanged
<1>9. CASE Resume
  BY <1>9 DEF Resume, Stopped
<1>10. CASE LoadState
  BY <1>10 DEF LoadState, Stopped
<1>11. CASE Unload
  BY <1>11, Short DEF Unload, Stopped, Recycle
<1> QED
  BY <1>1, <1>2, <1>3, <1>4, <1>5, <1>6, <1>7, <1>8, <1>9, <1>10, <1>11 DEF StopNext

\* The invariant holds in every reachable state.
THEOREM HandoffInvariant == Spec => []HandoffInv
<1>1. HandoffInv => BooleansOK
  BY DEF HandoffInv, TypeOK, BooleansOK
<1>2. HandoffInv /\ [Next]_vars => HandoffInv'
  <2> SUFFICES ASSUME HandoffInv, [Next]_vars PROVE HandoffInv'
    OBVIOUS
  <2>1. BooleansOK'
    BY <1>1, BooleansKept
  <2>2. CASE EmuNext
    BY <2>1, <2>2, EmuStep
  <2>3. CASE UiNext
    BY <2>1, <2>3, UiStep
  <2>4. CASE StopNext
    BY <2>1, <2>4, StopStep
  <2>5. CASE UNCHANGED vars
    BY <2>5
       DEF HandoffInv, TypeOK, EmuHolds, UiHolds, EmuGone, FrameInSlot, RenderPosted,
           RenderTaken, Rendering, RenderedFrameInSlot, ContextConserved,
           vars, queueVars, sharedVars, emuVars, uiVars, stopVars, history
  <2> QED
    BY <2>2, <2>3, <2>4, <2>5 DEF Next
<1> QED
  BY HandoffInit, <1>2, PTL DEF Spec

-----------------------------------------------------------------------------
(***************************************************************************)
(* What follows for the code                                               *)
(***************************************************************************)
\* Every variable of the two threads, of the queue and of Emulator::stop() keeps its type.
THEOREM HandoffTypeCorrect == Spec => []TypeOK
<1>1. HandoffInv => TypeOK
  BY DEF HandoffInv
<1> QED
  BY <1>1, HandoffInvariant, PTL

\* The slot rqueue is taken exactly as long as one Render message is on its way to
\* PvrMessageQueue::render, whatever is stopped, cancelled, reset or resumed meanwhile.
THEOREM NoOrphan == Spec => []FrameNotOrphaned
<1>1. HandoffInv => FrameNotOrphaned
  BY DEF HandoffInv, FrameInSlot, Occurs, Once, FrameNotOrphaned, Queued
<1> QED
  BY <1>1, HandoffInvariant, PTL

\* The assertion verify(rqueue == ctx) of FinishRender cannot fail.
THEOREM FinishRenderVerified == Spec => []RenderedFrameInSlot
<1>1. HandoffInv => RenderedFrameInSlot
  BY DEF HandoffInv
<1> QED
  BY <1>1, HandoffInvariant, PTL

\* tactx_Alloc, QueueRender and FinishRender neither leak a TA context nor give one to two
\* holders, nor recycle one that is in use or in the pool.
THEOREM ContextsConserved == Spec => []ContextConserved
<1>1. HandoffInv => ContextConserved
  BY DEF HandoffInv
<1> QED
  BY <1>1, HandoffInvariant, PTL

-----------------------------------------------------------------------------
(***************************************************************************)
(* Rollbacks and wakeups                                                   *)
(*                                                                         *)
(* That a rollback waits for the frame, and that no wakeup is lost, follow *)
(* from where the frame is (FrameStage), from who has banned rollbacks     *)
(* (BanKept), from what every event stands for (EventsKept) and, once the  *)
(* emulator is being stopped, from how far rend_cancel_emu_wait and the    *)
(* last timeslice have come (CancelKept).                                  *)
(***************************************************************************)
\* The history variable frame, the slot and the user interface thread go together.
FrameStage ==
  /\ rqueue # NoCtx /\ ui \notin {"allowRollback", "failed", "render", "release"} =>
       frame = "queued"
  /\ frame = "queued" => rqueue # NoCtx
  /\ ui = "process" => frame = "queued"
  /\ frame = "processed" <=> ui \in {"allowRollback", "render"}
  /\ ui \in {"failed", "release"} => frame = "rendered"

\* Unless it was cancelled, the ban on rollbacks stands from the moment QueueRender
\* disables them until the frame has been processed.
BanKept ==
  /\ ~cancelled /\ (frame = "queued" \/ emu = "claim") => ~vramRollback
  /\ RollbackAfterProcess

\* The frame has not come as far as the wait of rend_end_render needs.
Unready == frame = "queued" \/ (frame = "processed" /\ ~ToScreen(rqueue))

\* The emulation thread waits for the end of the frame queued last, or will.
Outstanding == pendRend /\ (doneScheduled \/ emu = "waitRenderEnd")

\* The handler that may have to wait for room in the queue.
AtFramebuffer == outbox # << >> /\ Head(outbox) = "RenderFramebuffer"
HoldsFramebuffer(q) == \E i \in DOMAIN q : q[i] = "RenderFramebuffer"

\* While an event is not set, there is a reason for which it will be.
EventsKept ==
  /\ cpuRunning = running /\ (running => stopper = "none")
  /\ emu = "waitFinished" => frameFinished \/ rqueue # NoCtx \/ ui \in {"recycle", "finish"}
  /\ emu = "waitRenderEnd" => pendRend /\ ~doneScheduled
  /\ Outstanding => renderEnd \/ Unready
  /\ emu \in {"rollback", "restore"} => Rollbacks
  /\ Rollbacks => \/ vramRollback \/ emu \in {"claim", "restore"}
                  \/ rqueue # NoCtx /\ ui \notin {"render", "release"}
  /\ emu = "awaitRoom" =>
       AtFramebuffer /\ (dequeueEvent \/ HoldsFramebuffer(queue) \/ ui = "taken")
  /\ AtFramebuffer => back = "slice"

\* The waits that the last timeslice of the emulation thread may still come to.
MayWaitFinished == emu \in {"rollback", "restore", "instr", "queueRender", "waitFinished"}
MayWaitRenderEnd ==
  \/ MayWaitFinished \/ emu \in {"admit", "claim", "renderDone", "waitRenderEnd"}
  \/ emu \in {"enqueue", "signal", "awaitRoom"} /\ back = "renderDone"
MayAwaitRoom == MayWaitRenderEnd \/ emu = "vblank" \/ AtFramebuffer

\* What rend_cancel_emu_wait has lifted stays lifted as long as it is needed.
CancelKept ==
  ~running =>
    /\ stopper # "finishFrame" /\ MayWaitFinished => frameFinished
    /\ stopper \notin {"finishFrame", "endRender"} /\ MayWaitRenderEnd => renderEnd
    /\ stopper \notin {"finishFrame", "endRender", "allowRollback"} /\ emu = "rollback" =>
         vramRollback
    /\ stopper \notin {"finishFrame", "endRender", "allowRollback", "cancelQueue"} =>
         /\ MayAwaitRoom => ~HoldsFramebuffer(queue)
         /\ emu = "awaitRoom" => dequeueEvent

WakeInv == FrameStage /\ BanKept /\ EventsKept /\ CancelKept

\* How the queue operations change whether a RenderFramebuffer message is queued.
LEMMA FramebufferQueued ==
  /\ ~HoldsFramebuffer(<< >>) /\ ~HoldsFramebuffer(<<"Render">>)
  /\ \A q \in Seq(Message), m \in Message :
       HoldsFramebuffer(Append(q, m)) <=> HoldsFramebuffer(q) \/ m = "RenderFramebuffer"
  /\ \A q \in Seq(Message) : q # << >> =>
       (HoldsFramebuffer(q) <=> Head(q) = "RenderFramebuffer" \/ HoldsFramebuffer(Tail(q)))
<1>1. ~HoldsFramebuffer(<< >>) /\ ~HoldsFramebuffer(<<"Render">>)
  BY DEF HoldsFramebuffer
<1>2. ASSUME NEW q \in Seq(Message), NEW m \in Message
      PROVE  HoldsFramebuffer(Append(q, m)) <=> HoldsFramebuffer(q) \/ m = "RenderFramebuffer"
  <2>1. /\ DOMAIN q = 1..Len(q) /\ Len(q) \in Nat /\ DOMAIN Append(q, m) = 1..(Len(q) + 1)
        /\ \A i \in 1..Len(q) : Append(q, m)[i] = q[i]
        /\ Append(q, m)[Len(q) + 1] = m
    OBVIOUS
  <2> QED BY <2>1 DEF HoldsFramebuffer
<1>3. ASSUME NEW q \in Seq(Message), q # << >>
      PROVE  HoldsFramebuffer(q) <=> Head(q) = "RenderFramebuffer" \/ HoldsFramebuffer(Tail(q))
  <2>1. /\ DOMAIN q = 1..Len(q) /\ Len(q) \in Nat \ {0}
        /\ DOMAIN Tail(q) = 1..(Len(q) - 1) /\ Head(q) = q[1]
        /\ \A i \in 1..(Len(q) - 1) : Tail(q)[i] = q[i + 1]
    BY <1>3
  <2>2. ASSUME NEW i \in DOMAIN q, i # 1
        PROVE  i - 1 \in DOMAIN Tail(q) /\ Tail(q)[i - 1] = q[i]
    BY <2>1, <2>2
  <2>3. ASSUME NEW i \in DOMAIN Tail(q)
        PROVE  i + 1 \in DOMAIN q /\ Tail(q)[i] = q[i + 1]
    BY <2>1
  <2>4. HoldsFramebuffer(q) => q[1] = "RenderFramebuffer" \/ HoldsFramebuffer(Tail(q))
    BY <2>2 DEF HoldsFramebuffer
  <2>5. q[1] = "RenderFramebuffer" => HoldsFramebuffer(q)
    BY <2>1 DEF HoldsFramebuffer
  <2>6. HoldsFramebuffer(Tail(q)) => HoldsFramebuffer(q)
    BY <2>3 DEF HoldsFramebuffer
  <2> QED BY <2>1, <2>4, <2>5, <2>6
<1> QED BY <1>1, <1>2, <1>3

\* No frame is under way and nobody waits.
LEMMA WakeInit == Init => WakeInv
<1> SUFFICES ASSUME Init PROVE WakeInv
  OBVIOUS
<1> QED
  BY FramebufferQueued, HandoffAssumption
     DEF Init, WakeInv, FrameStage, BanKept, RollbackAfterProcess, EventsKept, CancelKept,
         Outstanding, Unready, AtFramebuffer

\* The emulation thread keeps what rollbacks and wakeups rest on.
LEMMA EmuWake == HandoffInv /\ BooleansOK' /\ WakeInv /\ EmuNext => WakeInv'
<1> SUFFICES ASSUME HandoffInv, BooleansOK', WakeInv, EmuNext PROVE WakeInv'
  OBVIOUS
<1> USE HandoffAssumption
        DEF HandoffInv, BooleansOK, TypeOK, Message, EmuPC, UiPC, StopPC, EmuHolds, Outboxes,
            UiHolds, EmuGone, FrameInSlot, RenderPosted, RenderTaken, Rendering,
            RenderedFrameInSlot, ContextConserved,
            WakeInv, FrameStage, BanKept, RollbackAfterProcess, EventsKept, CancelKept,
            Outstanding, Unready, ToScreen, AtFramebuffer, MayWaitFinished,
            MayWaitRenderEnd, MayAwaitRoom,
            vars, queueVars, sharedVars, emuVars, uiVars, stopVars, history
<1>1. CASE StartRender
  BY <1>1 DEF StartRender
<1>2. CASE SkipFrame
  BY <1>2 DEF SkipFrame, DropFrame, Recycle
<1>3. CASE QueueRender
  BY <1>3 DEF QueueRender
<1>4. CASE WaitFrameFinished
  BY <1>4 DEF WaitFrameFinished
<1>5. CASE DropLateFrame
  BY <1>5 DEF DropLateFrame, DropFrame, Recycle
<1>6. CASE DisableRollback
  BY <1>6 DEF DisableRollback
<1>7. CASE Claim
  BY <1>7 DEF Claim, Post
<1>8. CASE Enqueue
  <2>1. CASE emu' = "awaitRoom"
    <3>1. Queued(Head(outbox)) /\ Head(outbox) # "Present" /\ UNCHANGED <<queue, outbox>>
      BY <1>8, <2>1 DEF Enqueue
    <3>2. outbox # << >> /\ Head(outbox) \in Message
      BY <1>8, HeadTail DEF Enqueue
    <3>3. Queued("Render") => Occurs(queue)
      BY DEF Queued, Occurs
    <3>4. Head(outbox) = "RenderFramebuffer"
      BY <1>8, <3>1, <3>2, <3>3, HeadTail
    <3>5. HoldsFramebuffer(queue)
      BY <3>1, <3>4 DEF Queued, HoldsFramebuffer
    <3> QED BY <1>8, <2>1, <3>1, <3>4, <3>5 DEF Enqueue
  <2>2. CASE emu' = "signal"
    <3>1. queue' = Append(queue, Head(outbox)) /\ outbox' = Tail(outbox)
      BY <1>8, <2>2 DEF Enqueue
    <3>2. outbox \in Outboxes /\ outbox # << >>
      BY <1>8 DEF Enqueue
    <3>3. Head(outbox) \in Message /\ outbox' \in {<< >>, <<"Present">>}
      BY <3>1, <3>2, HeadTail
    <3>4. ~AtFramebuffer'
      BY <3>3, HeadTail
    <3>5. HoldsFramebuffer(queue') <=> HoldsFramebuffer(queue) \/ Head(outbox) = "RenderFramebuffer"
      BY <3>1, <3>3, FramebufferQueued
    <3>6. AtFramebuffer <=> Head(outbox) = "RenderFramebuffer"
      BY <3>2
    <3> QED BY <1>8, <2>2, <3>4, <3>5, <3>6 DEF Enqueue
  <2> QED BY <1>8, <2>1, <2>2 DEF Enqueue
<1>9. CASE SignalEnqueue
  BY <1>9 DEF SignalEnqueue
<1>10. CASE AwaitRoom
  BY <1>10 DEF AwaitRoom
<1>11. CASE SwapFrame
  BY <1>11 DEF SwapFrame, Post
<1>12. CASE NoRegisterWrite
  BY <1>12 DEF NoRegisterWrite
<1>13. CASE RenderDoneDue
  BY <1>13 DEF RenderDoneDue
<1>14. CASE RenderDoneNotDue
  BY <1>14 DEF RenderDoneNotDue
<1>15. CASE WaitRenderEnd
  BY <1>15 DEF WaitRenderEnd
<1>16. CASE VBlankFramebuffer
  BY <1>16 DEF VBlankFramebuffer, Post
<1>17. CASE NoVBlank
  BY <1>17 DEF NoVBlank
<1>18. CASE NextSlice
  BY <1>18 DEF NextSlice
<1>19. CASE StartRollback
  BY <1>19 DEF StartRollback
<1>20. CASE WaitRollbackAllowed
  BY <1>20 DEF WaitRollbackAllowed
<1>21. CASE Restore
  BY <1>21 DEF Restore
<1>22. CASE EndRollback
  BY <1>22 DEF EndRollback
<1> QED
  BY <1>1, <1>2, <1>3, <1>4, <1>5, <1>6, <1>7, <1>8, <1>9, <1>10, <1>11, <1>12, <1>13, <1>14,
     <1>15, <1>16, <1>17, <1>18, <1>19, <1>20, <1>21, <1>22 DEF EmuNext

\* The user interface thread does.
LEMMA UiWake == HandoffInv /\ BooleansOK' /\ WakeInv /\ UiNext => WakeInv'
<1> SUFFICES ASSUME HandoffInv, BooleansOK', WakeInv, UiNext PROVE WakeInv'
  OBVIOUS
<1> USE HandoffAssumption
        DEF HandoffInv, BooleansOK, TypeOK, Message, EmuPC, UiPC, StopPC, EmuHolds, Outboxes,
            UiHolds, EmuGone, FrameInSlot, RenderPosted, RenderTaken, Rendering,
            RenderedFrameInSlot, ContextConserved,
            WakeInv, FrameStage, BanKept, RollbackAfterProcess, EventsKept, CancelKept,
            Outstanding, Unready, ToScreen, AtFramebuffer, MayWaitFinished,
            MayWaitRenderEnd, MayAwaitRoom,
            vars, queueVars, sharedVars, emuVars, uiVars, stopVars, history
<1>1. CASE BeginFrame
  BY <1>1 DEF BeginFrame, UiUnchanged
<1>2. CASE Dequeue
  <2>1. HoldsFramebuffer(queue) => ui' = "taken"
    BY <1>2 DEF Dequeue
  <2>2. HoldsFramebuffer(queue') => HoldsFramebuffer(queue)
    BY <1>2, FramebufferQueued DEF Dequeue
  <2> QED BY <1>2, <2>1, <2>2 DEF Dequeue, UiUnchanged
<1>3. CASE WaitEnqueue
  BY <1>3 DEF WaitEnqueue, UiUnchanged
<1>4. CASE DequeueTimeout
  BY <1>4 DEF DequeueTimeout, UiUnchanged
<1>5. CASE SignalDequeue
  BY <1>5 DEF SignalDequeue, UiUnchanged
<1>6. CASE ExecuteStop
  BY <1>6 DEF ExecuteStop, UiUnchanged
<1>7. CASE ExecuteRenderFramebuffer
  BY <1>7 DEF ExecuteRenderFramebuffer, UiUnchanged, Loop
<1>8. CASE ExecutePresent
  BY <1>8 DEF ExecutePresent, UiUnchanged, Loop
<1>9. CASE ExecuteRender
  BY <1>9 DEF ExecuteRender, UiUnchanged, Loop
<1>10. CASE Process
  BY <1>10 DEF Process, UiUnchanged
<1>11. CASE ProcessFails
  BY <1>11 DEF ProcessFails, UiUnchanged
<1>12. CASE AllowRollback
  BY <1>12 DEF AllowRollback, UiUnchanged
<1>13. CASE Render
  BY <1>13 DEF Render, UiUnchanged
<1>14. CASE Release
  BY <1>14 DEF Release, UiUnchanged
<1>15. CASE RecycleRendered
  BY <1>15 DEF RecycleRendered, UiUnchanged, Recycle
<1>16. CASE FinishFrame
  BY <1>16 DEF FinishFrame, UiUnchanged, Loop
<1> QED
  BY <1>1, <1>2, <1>3, <1>4, <1>5, <1>6, <1>7, <1>8, <1>9, <1>10, <1>11, <1>12, <1>13, <1>14,
     <1>15, <1>16 DEF UiNext

\* Emulator::stop() and what may follow it does.
LEMMA StopWake == HandoffInv /\ BooleansOK' /\ WakeInv /\ StopNext => WakeInv'
<1> SUFFICES ASSUME HandoffInv, BooleansOK', WakeInv, StopNext PROVE WakeInv'
  OBVIOUS
<1> USE HandoffAssumption
        DEF HandoffInv, BooleansOK, TypeOK, Message, EmuPC, UiPC, StopPC, EmuHolds, Outboxes,
            UiHolds, EmuGone, FrameInSlot, RenderPosted, RenderTaken, Rendering,
            RenderedFrameInSlot, ContextConserved,
            WakeInv, FrameStage, BanKept, RollbackAfterProcess, EventsKept, CancelKept,
            Outstanding, Unready, ToScreen, AtFramebuffer, MayWaitFinished,
            MayWaitRenderEnd, MayAwaitRoom,
            vars, queueVars, sharedVars, emuVars, uiVars, stopVars, history
<1>1. CASE StopEmulator
  BY <1>1 DEF StopEmulator, StopUnchanged
<1>2. CASE CancelFrameWait
  BY <1>2 DEF CancelFrameWait, StopUnchanged
<1>3. CASE CancelRenderEnd
  BY <1>3 DEF CancelRenderEnd, StopUnchanged
<1>4. CASE CancelRollbackWait
  BY <1>4 DEF CancelRollbackWait, StopUnchanged
<1>5. CASE CancelEnqueue
  <2>1. queue' = IF Occurs(queue) THEN <<"Render">> ELSE << >>
    BY <1>5, OnlyRendersIs DEF CancelEnqueue
  <2>2. ~HoldsFramebuffer(queue')
    BY <2>1, FramebufferQueued
  <2> QED BY <1>5, <2>2 DEF CancelEnqueue, StopUnchanged
<1>6. CASE EnqueueStop
  <2>1. queue' = queue \/ queue' = Append(queue, "Stop")
    BY <1>6 DEF EnqueueStop
  <2>2. queue \in Seq(Message) /\ "Stop" \in Message /\ "Stop" # "RenderFramebuffer"
    OBVIOUS
  <2>3. HoldsFramebuffer(Append(queue, "Stop")) <=> HoldsFramebuffer(queue)
    BY <2>2, FramebufferQueued
  <2>4. HoldsFramebuffer(queue') <=> HoldsFramebuffer(queue)
    BY <2>1, <2>3
  <2> QED BY <1>6, <2>4 DEF EnqueueStop, StopUnchanged
<1>7. CASE SignalStop
  BY <1>7 DEF SignalStop, StopUnchanged
<1>8. CASE Join
  BY <1>8 DEF Join, StopUnchanged
<1>9. CASE Resume
  BY <1>9 DEF Resume, Stopped
<1>10. CASE LoadState
  BY <1>10 DEF LoadState, Stopped
<1>11. CASE Unload
  BY <1>11 DEF Unload, Stopped, Recycle
<1> QED
  BY <1>1, <1>2, <1>3, <1>4, <1>5, <1>6, <1>7, <1>8, <1>9, <1>10, <1>11 DEF StopNext

\* Where the frame is, who has banned rollbacks, and what each event stands for.
THEOREM WakeInvariant == Spec => []WakeInv
<1>1. HandoffInv => BooleansOK
  BY DEF HandoffInv, TypeOK, BooleansOK
<1>2. HandoffInv /\ WakeInv /\ [Next]_vars => WakeInv'
  <2> SUFFICES ASSUME HandoffInv, WakeInv, [Next]_vars PROVE WakeInv'
    OBVIOUS
  <2>1. BooleansOK'
    BY <1>1, BooleansKept
  <2>2. CASE EmuNext
    BY <2>1, <2>2, EmuWake
  <2>3. CASE UiNext
    BY <2>1, <2>3, UiWake
  <2>4. CASE StopNext
    BY <2>1, <2>4, StopWake
  <2>5. CASE UNCHANGED vars
    BY <2>5
       DEF WakeInv, FrameStage, BanKept, RollbackAfterProcess, EventsKept, CancelKept,
           Outstanding, Unready, ToScreen, AtFramebuffer, MayWaitFinished, MayWaitRenderEnd,
           MayAwaitRoom, vars, queueVars, sharedVars, emuVars, uiVars, stopVars, history
  <2> QED
    BY <2>2, <2>3, <2>4, <2>5 DEF Next
<1> QED
  BY WakeInit, HandoffInvariant, <1>2, PTL DEF Spec

\* vramRollback keeps a rollback from restoring video memory before the frame queued last
\* has been processed, in every setting, unless Emulator::stop() lifts the ban meanwhile.
THEOREM RollbackAfterProcessed == Spec => []RollbackAfterProcess
<1>1. WakeInv => RollbackAfterProcess
  BY DEF WakeInv, BanKept
<1> QED
  BY <1>1, WakeInvariant, PTL

\* Whatever the emulation thread waits for, the frame, the message or the cancel that will
\* end its wait is still to come: no event is reset after the last step that sets it.
THEOREM NoWakeupLost == Spec => []NoLostWakeup
<1>1. HandoffInv /\ WakeInv => NoLostWakeup
  <2> SUFFICES ASSUME HandoffInv, WakeInv PROVE NoLostWakeup
    OBVIOUS
  <2> USE DEF HandoffInv, TypeOK, StopPC, EmuGone, WakeInv, EventsKept, CancelKept
  <2>1. ~running => stopper # "none" \/ emu = "dead"
    OBVIOUS
  <2>2. ASSUME emu = "waitFinished", ~frameFinished
        PROVE  IF running THEN rqueue # NoCtx \/ ui \in {"recycle", "finish"}
                          ELSE stopper = "finishFrame"
    BY <2>2 DEF MayWaitFinished
  <2>3. ASSUME emu = "waitRenderEnd", ~renderEnd
        PROVE  IF running THEN frame = "queued" \/ (frame = "processed" /\ ~ToScreen(rqueue))
                          ELSE stopper \in {"finishFrame", "endRender"}
    BY <2>3 DEF MayWaitRenderEnd, Outstanding, Unready
  <2>4. ASSUME emu = "rollback", ~vramRollback
        PROVE  IF running THEN rqueue # NoCtx /\ ui \notin {"render", "release"}
                          ELSE stopper \in {"finishFrame", "endRender", "allowRollback"}
    BY <2>4
  <2>5. ASSUME emu = "awaitRoom", ~dequeueEvent
        PROVE  IF running THEN Queued(Head(outbox)) \/ ui = "taken"
                 ELSE stopper \in {"finishFrame", "endRender", "allowRollback", "cancelQueue"}
    BY <2>5 DEF AtFramebuffer, HoldsFramebuffer, Queued
  <2> QED
    BY <2>2, <2>3, <2>4, <2>5 DEF NoLostWakeup
<1> QED
  BY <1>1, HandoffInvariant, WakeInvariant, PTL

-----------------------------------------------------------------------------
(***************************************************************************)
(* The wait of rend_end_render                                             *)
(*                                                                         *)
(* renderEnd is one event for all frames.  That the wait of a frame is not *)
(* ended by what an earlier frame left takes a guest that waits for the    *)
(* end of each render, and no stop, rollback or spurious wakeup: TLC has a *)
(* counterexample when any one of the four is given up.                    *)
(***************************************************************************)
Undisturbed == ~StopAllowed /\ ~Rollbacks /\ ~SpuriousWakeup /\ GuestWaitsForDone

\* renderEnd is set for the frame the emulation thread will wait for, or not at all; and a
\* frame still to be processed or rendered is one it will wait for.
EndInv ==
  /\ running /\ stopper = "none"
  /\ emu \in {"queueRender", "waitFinished", "admit", "claim"} => doneScheduled /\ ~pendRend
  /\ renderEnd => Outstanding /\ ~Unready
  /\ Outstanding => frame # "none"
  /\ Unready => Outstanding

\* No render has been started.
LEMMA EndInit == Init => EndInv
  BY DEF Init, EndInv, Outstanding, Unready

\* The emulation thread keeps the order of renders and waits.
LEMMA EmuEnd ==
  ASSUME Undisturbed, HandoffInv, BooleansOK', WakeInv, EndInv, EmuNext
  PROVE  EndInv'
<1> USE HandoffAssumption
        DEF Undisturbed, HandoffInv, BooleansOK, TypeOK, EmuPC, UiPC, StopPC, EmuHolds, UiHolds,
            Rendering, RenderedFrameInSlot, ContextConserved, WakeInv, FrameStage, EventsKept,
            EndInv, Outstanding, Unready, ToScreen,
            vars, queueVars, sharedVars, emuVars, uiVars, stopVars, history
<1>1. CASE StartRender
  BY <1>1 DEF StartRender
<1>2. CASE SkipFrame
  BY <1>2 DEF SkipFrame, DropFrame, Recycle
<1>3. CASE QueueRender
  BY <1>3 DEF QueueRender
<1>4. CASE WaitFrameFinished
  BY <1>4 DEF WaitFrameFinished
<1>5. CASE DropLateFrame
  BY <1>5 DEF DropLateFrame, DropFrame, Recycle
<1>6. CASE DisableRollback
  BY <1>6 DEF DisableRollback
<1>7. CASE Claim
  BY <1>7 DEF Claim, Post
<1>8. CASE Enqueue
  BY <1>8 DEF Enqueue
<1>9. CASE SignalEnqueue
  BY <1>9 DEF SignalEnqueue
<1>10. CASE AwaitRoom
  BY <1>10 DEF AwaitRoom
<1>11. CASE SwapFrame
  BY <1>11 DEF SwapFrame, Post
<1>12. CASE NoRegisterWrite
  BY <1>12 DEF NoRegisterWrite
<1>13. CASE RenderDoneDue
  BY <1>13 DEF RenderDoneDue
<1>14. CASE RenderDoneNotDue
  BY <1>14 DEF RenderDoneNotDue
<1>15. CASE WaitRenderEnd
  BY <1>15 DEF WaitRenderEnd
<1>16. CASE VBlankFramebuffer
  BY <1>16 DEF VBlankFramebuffer, Post
<1>17. CASE NoVBlank
  BY <1>17 DEF NoVBlank
<1>18. CASE NextSlice
  BY <1>18 DEF NextSlice
<1>19. CASE StartRollback
  BY <1>19 DEF StartRollback
<1>20. CASE WaitRollbackAllowed
  BY <1>20 DEF WaitRollbackAllowed
<1>21. CASE Restore
  BY <1>21 DEF Restore
<1>22. CASE EndRollback
  BY <1>22 DEF EndRollback
<1> QED
  BY <1>1, <1>2, <1>3, <1>4, <1>5, <1>6, <1>7, <1>8, <1>9, <1>10, <1>11, <1>12, <1>13, <1>14,
     <1>15, <1>16, <1>17, <1>18, <1>19, <1>20, <1>21, <1>22 DEF EmuNext

\* The user interface thread does.
LEMMA UiEnd ==
  ASSUME Undisturbed, HandoffInv, BooleansOK', WakeInv, EndInv, UiNext
  PROVE  EndInv'
<1> USE HandoffAssumption
        DEF Undisturbed, HandoffInv, BooleansOK, TypeOK, EmuPC, UiPC, StopPC, EmuHolds, UiHolds,
            Rendering, RenderedFrameInSlot, ContextConserved, WakeInv, FrameStage, EventsKept,
            EndInv, Outstanding, Unready, ToScreen,
            vars, queueVars, sharedVars, emuVars, uiVars, stopVars, history
<1>1. CASE BeginFrame
  BY <1>1 DEF BeginFrame, UiUnchanged
<1>2. CASE Dequeue
  BY <1>2 DEF Dequeue, UiUnchanged
<1>3. CASE WaitEnqueue
  BY <1>3 DEF WaitEnqueue, UiUnchanged
<1>4. CASE DequeueTimeout
  BY <1>4 DEF DequeueTimeout, UiUnchanged
<1>5. CASE SignalDequeue
  BY <1>5 DEF SignalDequeue, UiUnchanged
<1>6. CASE ExecuteStop
  BY <1>6 DEF ExecuteStop, UiUnchanged
<1>7. CASE ExecuteRenderFramebuffer
  BY <1>7 DEF ExecuteRenderFramebuffer, UiUnchanged, Loop
<1>8. CASE ExecutePresent
  BY <1>8 DEF ExecutePresent, UiUnchanged, Loop
<1>9. CASE ExecuteRender
  BY <1>9 DEF ExecuteRender, UiUnchanged, Loop
<1>10. CASE Process
  BY <1>10 DEF Process, UiUnchanged
<1>11. CASE ProcessFails
  BY <1>11 DEF ProcessFails, UiUnchanged
<1>12. CASE AllowRollback
  BY <1>12 DEF AllowRollback, UiUnchanged
<1>13. CASE Render
  BY <1>13 DEF Render, UiUnchanged
<1>14. CASE Release
  BY <1>14 DEF Release, UiUnchanged
<1>15. CASE RecycleRendered
  BY <1>15 DEF RecycleRendered, UiUnchanged, Recycle
<1>16. CASE FinishFrame
  BY <1>16 DEF FinishFrame, UiUnchanged, Loop
<1> QED
  BY <1>1, <1>2, <1>3, <1>4, <1>5, <1>6, <1>7, <1>8, <1>9, <1>10, <1>11, <1>12, <1>13, <1>14,
     <1>15, <1>16 DEF UiNext

\* The emulation thread passes the wait of rend_end_render only when the frame it waits for
\* has been processed, or rendered if it goes to a texture, in an undisturbed run.
THEOREM RenderEndsInOrder ==
  ASSUME ~StopAllowed, ~Rollbacks, ~SpuriousWakeup, GuestWaitsForDone
  PROVE  Spec => RenderEndInOrder
<1>1. Undisturbed
  BY DEF Undisturbed
<1>2. HandoffInv /\ WakeInv /\ EndInv /\ [Next]_vars => EndInv'
  <2> SUFFICES ASSUME HandoffInv, WakeInv, EndInv, [Next]_vars PROVE EndInv'
    OBVIOUS
  <2>1. BooleansOK'
    BY BooleansKept DEF HandoffInv, TypeOK, BooleansOK
  <2>2. CASE EmuNext
    BY <1>1, <2>1, <2>2, EmuEnd
  <2>3. CASE UiNext
    BY <1>1, <2>1, <2>3, UiEnd
  <2>4. ~StopNext
    BY <1>1
       DEF Undisturbed, EndInv, StopNext, StopEmulator, CancelFrameWait, CancelRenderEnd,
           CancelRollbackWait, CancelEnqueue, EnqueueStop, SignalStop, Join, Resume,
           LoadState, Unload, Stopped
  <2>5. CASE UNCHANGED vars
    BY <2>5
       DEF EndInv, Outstanding, Unready, ToScreen,
           vars, queueVars, sharedVars, emuVars, uiVars, stopVars, history
  <2> QED
    BY <2>2, <2>3, <2>4, <2>5 DEF Next
<1>3. HandoffInv /\ EndInv => [WaitRenderEnd /\ running => FrameReady]_vars
  <2> SUFFICES ASSUME HandoffInv, EndInv, WaitRenderEnd PROVE FrameReady
    OBVIOUS
  <2>1. renderEnd
    BY <1>1 DEF Undisturbed, WaitRenderEnd
  <2>2. ~Unready /\ frame # "none"
    BY <2>1 DEF EndInv
  <2> QED
    BY <2>2 DEF Unready, FrameReady, HandoffInv, TypeOK
<1> QED
  BY EndInit, HandoffInvariant, WakeInvariant, <1>2, <1>3, PTL DEF Spec, RenderEndInOrder
=============================================================================
