------------------------------ MODULE Rollback ------------------------------
(***************************************************************************)
(* A gdxsv battle over GGPO: how a frame is run on predicted inputs, saved, *)
(* and run again when the prediction was wrong.  Three parts interact on   *)
(* the emulation thread: the input queues and the ring of saved states of  *)
(* the GGPO library (deps/ggpo: sync.cpp, input_queue.cpp, p2p.cpp), the   *)
(* callbacks of network/ggpo.cpp, which save memory as the pages that the  *)
(* next frame overwrites, and memwatch (hw/mem/mem_watch.h), which finds   *)
(* those pages by write-protecting memory.                                 *)
(*                                                                         *)
(* The state of the console is its history cpu: for each frame the inputs  *)
(* it was run on and the frames skipped in it.  The emulation is            *)
(* deterministic: Dirty(h) are the pages that the last frame of h writes,  *)
(* and the content of a page is named by the history at its last write.    *)
(***************************************************************************)
EXTENDS Integers, Sequences, FiniteSets

CONSTANTS Players,        \* the players of the session,
          Local,          \* this one
          Inputs,         \* what can be done in a frame,
          Neutral,        \* nothing (all bits 0),
          Moves,          \* what each player can do
          Delay,          \* the frame delay of each player
          MaxPrediction,  \* MAX_PREDICTION_FRAMES, 6
          Ring,           \* states that are kept, MAX_PREDICTION_FRAMES + 2
          Pages,          \* of RAM, VRAM, sound RAM and Elan RAM
          Dirty(_),
          SkipEvery,      \* frames between two that can be skipped, 10
          MaxFrames,      \* bound: frames of the first session, the n-th has 1/n
          MaxSkips,       \* bound: time sync skips in a frame
          MaxSessions     \* bound: sessions

ASSUME RollbackAssumption ==
    /\ Local \in Players /\ Neutral \in Inputs /\ IsFiniteSet(Players)
    /\ Moves \in [Players -> SUBSET Inputs] /\ Delay \in [Players -> Nat]
    /\ MaxPrediction \in Nat \ {0, 1} /\ Ring \in Nat /\ MaxPrediction <= Ring
    /\ SkipEvery \in Nat \ {0} /\ MaxFrames \in Nat /\ MaxSkips \in Nat /\ MaxSessions \in Nat \ {0}

Null   == -1                     \* GameInput::NullFrame
Slots  == 0..(Ring - 1)          \* _savedstate.frames
Frames == 0..MaxFrames

Entry   == [in : [Players -> Inputs], skips : Nat]
History == Seq(Entry)
Opt     == Seq(History)     \* <<>>, or <<h>>: a page or state that is saved

VARIABLES
    pc,          \* where the emulation thread is: "run" (the guest runs a frame),
                 \* "advance" (ggpo_advance_frame), "events", "confirm" (DoPoll),
                 \* "replay", "resave" (AdjustSimulation), "input", "closed"
    polls,       \* calls of DoPoll before the next input
    framecount, confirmed,   \* Sync: _framecount, _last_confirmed_frame,
    goal,                    \* the frame that AdjustSimulation catches up with,
    saved, head,             \* _savedstate
    queue,       \* the InputQueue of each player
    gone,        \* players that are disconnected
    lastSaved, delta, skipped,   \* ggpo.cpp: lastSavedFrame, deltaStates, skippedFrames
    cpu, mem,    \* the console: its history, and its memory
    prot, watch, started,    \* memwatch: protected pages, Watcher::pages, started
    sessions     \* sessions so far

sync  == <<framecount, confirmed, goal, saved, head>>
ggpo  == <<lastSaved, delta, skipped>>
vm    == <<cpu, mem>>
guard == <<prot, watch, started>>
vars  == <<pc, polls, sync, queue, gone, ggpo, vm, guard, sessions>>

\* InputQueue: the inputs from frame 0 on, the first frame kept, the frame of
\* _prediction and its value, _first_incorrect_frame, _last_frame_requested.
NewQueue == [ins |-> <<>>, tail |-> 0, pred |-> Null, val |-> Neutral, bad |-> Null, req |-> Null]
NoPages  == [p \in Pages |-> <<>>]
NoStates == [s \in Slots |-> [frame |-> Null, buf |-> <<>>]]

\* The session begins while the guest stands still, and emu.start() protects all
\* the memory (memwatch::protect) before frame 0 is run.
Init == /\ pc = "run" /\ polls = 0
        /\ framecount = 0 /\ confirmed = Null /\ goal = 0
        /\ saved = NoStates /\ head = 0
        /\ queue = [p \in Players |-> NewQueue] /\ gone = {}
        /\ lastSaved = 0 /\ delta = [f \in Frames |-> NoPages] /\ skipped = [f \in Frames |-> 0]
        /\ cpu = <<>> /\ mem = [p \in Pages |-> <<>>]
        /\ prot = Pages /\ watch = NoPages /\ started = TRUE
        /\ sessions = 1

-----------------------------------------------------------------------------
(***************************************************************************)
(* InputQueue.                                                             *)
(***************************************************************************)
Latest(q) == IF q.ins = <<>> THEN Neutral ELSE q.ins[Len(q.ins)]

\* GetInput: from the queue, or the last input again.
Requested(q, f) ==
    IF q.pred = Null /\ f >= Len(q.ins)
    THEN [q EXCEPT !.req = f, !.pred = Len(q.ins), !.val = Latest(q)]
    ELSE [q EXCEPT !.req = f]

GetInput(q, f) == LET r == Requested(q, f) IN IF r.pred = Null THEN q.ins[f + 1] ELSE r.val

\* Mutant: one right input ends the prediction.
AddTrustingInput(q, x) ==
    LET n     == Len(q.ins)
        wrong == IF q.pred # Null /\ q.bad = Null /\ q.val # x THEN n ELSE q.bad
    IN [q EXCEPT !.ins = Append(@, x), !.bad = wrong,
                 !.pred = IF @ = Null \/ wrong = Null THEN Null ELSE @ + 1]

\* AddDelayedInputToQueue: compare with what was predicted; prediction ends
\* when it has been right up to the last frame that was asked for.
AddDelayedInput(q, x) ==
    LET n     == Len(q.ins)
        wrong == IF q.pred # Null /\ q.bad = Null /\ q.val # x THEN n ELSE q.bad
    IN [q EXCEPT !.ins = Append(@, x), !.bad = wrong,
                 !.pred = IF @ = Null \/ (@ = q.req /\ wrong = Null) THEN Null ELSE @ + 1]

\* AdvanceQueueHead: the first input comes for frame n, and the frames before
\* it are filled with nothing, which is also what was predicted for them.
Padded(q, n) ==
    IF q.ins # <<>> THEN q
    ELSE [q EXCEPT !.ins = [i \in 1..n |-> Neutral],
                   !.pred = IF @ = Null \/ q.req < n THEN Null ELSE n]

AddInput(p, x) == AddDelayedInput(Padded(queue[p], 1 + Delay[p]), x)

\* Mutant: the mistake is not forgotten.
ResetGuess(q) == [q EXCEPT !.pred = Null, !.req = Null]

ResetPrediction(q) == [q EXCEPT !.pred = Null, !.bad = Null, !.req = Null]

\* DiscardConfirmedFrames.  A queue that has none left (its player is gone) is
\* not asked any more.
DiscardConfirmedFrames(q, f) ==
    LET n == IF q.req # Null /\ q.req < f THEN q.req ELSE f
    IN [q EXCEPT !.tail = IF n >= Len(q.ins) - 1 THEN Len(q.ins) ELSE n + 1]

-----------------------------------------------------------------------------
(***************************************************************************)
(* The guest runs a frame, with k skips.  A write to a protected page       *)
(* faults: memwatch saves the page and unprotects it.                      *)
(***************************************************************************)
FrameInputs == [p \in Players |-> IF p \in gone THEN Neutral ELSE GetInput(queue[p], framecount)]

Execute(k) ==
    LET h == Append(cpu, [in |-> FrameInputs, skips |-> k])
    IN /\ cpu' = h
       /\ mem' = [p \in Pages |-> IF p \in Dirty(h) THEN h ELSE mem[p]]
       /\ watch' = [p \in Pages |-> IF p \in Dirty(h) \intersect prot /\ watch[p] = <<>>
                                    THEN <<mem[p]>> ELSE watch[p]]
       /\ prot' = {p \in prot : p \in Dirty(h) => watch[p] # <<>>}
       /\ queue' = [p \in Players |-> IF p \in gone THEN queue[p] ELSE Requested(queue[p], framecount)]
       /\ UNCHANGED started

RunFrame(k) ==
    /\ pc = "run" /\ framecount < MaxFrames \div sessions
    /\ k > 0 => framecount > 0 /\ framecount % SkipEvery = 0
    /\ Execute(k)
    /\ skipped' = [skipped EXCEPT ![framecount] = @ + k]
    /\ pc' = "advance"
    /\ UNCHANGED <<polls, sync, gone, lastSaved, delta, sessions>>

\* advance_frame of a rollback
ReplayFrame ==
    /\ pc = "replay"
    /\ Execute(skipped[framecount])
    /\ pc' = "resave"
    /\ UNCHANGED <<polls, sync, gone, ggpo, sessions>>

-----------------------------------------------------------------------------
(***************************************************************************)
(* Saving and loading.                                                     *)
(***************************************************************************)
\* Mutant: the ring is not one.
SlotAfter(s) == s + 1

\* Mutant: the last slot is not used.
ShortRing(s) == IF s >= Ring - 2 THEN 0 ELSE s + 1

NextSlot(s) == IF s = Ring - 1 THEN 0 ELSE s + 1

\* Mutant: the pages that were saved stay in the watcher.
SaveAndKeepPages ==
    LET f     == framecount + 1
        freed == IF saved[head].buf = <<>> THEN {} ELSE {saved[head].frame}
    IN /\ framecount' = f /\ lastSaved' = f
       /\ saved' = [saved EXCEPT ![head] = [frame |-> f, buf |-> <<cpu>>]]
       /\ head' = NextSlot(head)
       /\ delta' = [g \in Frames |-> IF g = f - 1 THEN watch
                                     ELSE IF g \in freed THEN NoPages ELSE delta[g]]
       /\ skipped' = [g \in Frames |-> IF g \in freed THEN 0 ELSE skipped[g]]
       /\ prot' = IF started THEN prot \union {p \in Pages : watch[p] # <<>>} ELSE Pages
       /\ watch' = watch /\ started' = TRUE

\* IncrementFrame: free_buffer of what the slot held, then save_game_state.
\* The pages saved since the last state belong to the state before this one.
SaveCurrentFrame ==
    LET f     == framecount + 1
        freed == IF saved[head].buf = <<>> THEN {} ELSE {saved[head].frame}
    IN /\ framecount' = f /\ lastSaved' = f
       /\ saved' = [saved EXCEPT ![head] = [frame |-> f, buf |-> <<cpu>>]]
       /\ head' = NextSlot(head)
       /\ delta' = [g \in Frames |-> IF g = f - 1 THEN watch
                                     ELSE IF g \in freed THEN NoPages ELSE delta[g]]
       /\ skipped' = [g \in Frames |-> IF g \in freed THEN 0 ELSE skipped[g]]
       /\ prot' = IF started THEN prot \union {p \in Pages : watch[p] # <<>>} ELSE Pages
       /\ watch' = NoPages /\ started' = TRUE

AdvanceFrame ==
    /\ pc = "advance"
    /\ SaveCurrentFrame
    /\ pc' = "events" /\ polls' = 2
    /\ UNCHANGED <<confirmed, goal, queue, gone, vm, sessions>>

\* In a rollback DoPoll does nothing.
ReplaySaved ==
    /\ pc = "resave"
    /\ SaveCurrentFrame
    /\ pc' = IF framecount + 1 = goal THEN "confirm" ELSE "replay"
    /\ UNCHANGED <<polls, confirmed, goal, queue, gone, vm, sessions>>

\* Mutant: the deltas are restored in the other order.
RestoredForward(f) ==
    [p \in Pages |->
        LET kept == {g \in f..(lastSaved - 1) : g \in Frames /\ delta[g][p] # <<>>}
        IN IF kept = {} THEN mem[p]
           ELSE delta[CHOOSE g \in kept : \A o \in kept : g >= o][p][1]]

\* The pages of frame f: the deltas from the last state back to f, where
\* the one that is restored last, the oldest, is the one that stays.
Restored(f) ==
    [p \in Pages |->
        LET kept == {g \in f..(lastSaved - 1) : g \in Frames /\ delta[g][p] # <<>>}
        IN IF kept = {} THEN mem[p]
           ELSE delta[CHOOSE g \in kept : \A o \in kept : g <= o][p][1]]

\* LoadFrame and load_game_state
LoadFrame(s) ==
    /\ framecount' = saved[s].frame /\ head' = NextSlot(s)
    /\ cpu' = saved[s].buf[1]
    /\ mem' = Restored(saved[s].frame)
    /\ watch' = NoPages /\ prot' = Pages /\ started' = TRUE

-----------------------------------------------------------------------------
(***************************************************************************)
(* DoPoll, called by ggpo_advance_frame, by ggpo_idle, and as long as the   *)
(* input is refused.                                                       *)
(***************************************************************************)
Remotes   == Players \ {Local}
LastFrame(p) == Len(queue[p].ins) - 1      \* _local_connect_status[p].last_frame

\* The peer runs the same code: it is not further ahead of the inputs that it has
\* from here than its own prediction barrier lets it.
PeerNotBarred(p) ==
    LET n == IF queue[p].ins = <<>> THEN 1 ELSE Len(queue[p].ins) - Delay[p]
    IN n < MaxPrediction + (IF LastFrame(Local) = Null THEN 0 ELSE LastFrame(Local))

\* An input arrives.
Receive(p, x) ==
    /\ pc = "events" /\ p \notin gone
    /\ PeerNotBarred(p)
    /\ queue' = [queue EXCEPT ![p] = AddInput(p, x)]
    /\ UNCHANGED <<pc, polls, sync, gone, ggpo, vm, guard, sessions>>

\* The peer has left or timed out, before or (PollNPlayers, which another peer
\* told) after CheckSimulation.  _disconnect_without_rollback is set: what was
\* predicted for it stays as it is.
Disconnect(p) ==
    /\ pc \in {"events", "confirm"} /\ p \notin gone
    /\ gone' = gone \union {p}
    /\ UNCHANGED <<pc, polls, sync, queue, ggpo, vm, guard, sessions>>

\* DisconnectPlayer of the local player, by the UI thread at the end of a battle
\* or by the guest in a frame, drops all the peers.  Poll2Players, which counts its
\* only peer as confirmed before it drops it, does so before the next input.
\* (Between two polls it is one Disconnect after the other.)
Leave ==
    /\ pc \in {"run", "advance", "input"} /\ gone # Remotes
    /\ gone' = Remotes
    /\ UNCHANGED <<pc, polls, sync, queue, ggpo, vm, guard, sessions>>

\* CheckSimulationConsistency
Incorrect == {queue[p].bad : p \in Players \ gone} \ {Null}
SeekTo    == CHOOSE f \in Incorrect : \A g \in Incorrect : f <= g

\* ASSERT in ResetPrediction, which looks at the players that are gone too:
\* CheckSimulationConsistency did not, and a mistake of a player that left before
\* it was corrected is still in its queue.
ResetAllowed == \A p \in Players : queue[p].bad = Null \/ SeekTo <= queue[p].bad

AdjustSimulation(s) ==
    /\ pc = "events" /\ Incorrect # {} /\ ResetAllowed
    /\ saved[s].frame = SeekTo /\ saved[s].buf # <<>>
    /\ LoadFrame(s)
    /\ queue' = [p \in Players |-> ResetPrediction(queue[p])]
    /\ goal' = framecount /\ pc' = "replay"
    /\ UNCHANGED <<polls, confirmed, saved, gone, ggpo, sessions>>

\* Mutant: the largest last frame.
IsMaxConfirmed(n) == /\ \A p \in Players \ gone : n >= LastFrame(p)
                     /\ \E p \in Players \ gone : n = LastFrame(p)

\* The smallest last frame of the players that are connected.
IsMinConfirmed(n) == /\ \A p \in Players \ gone : n <= LastFrame(p)
                     /\ \E p \in Players \ gone : n = LastFrame(p)

SetLastConfirmedFrame(n) ==
    /\ pc = "confirm" \/ (pc = "events" /\ Incorrect = {})
    /\ IsMinConfirmed(n)
    /\ confirmed' = IF n >= 0 THEN n ELSE confirmed
    /\ queue' = [p \in Players |-> IF n > 0 THEN DiscardConfirmedFrames(queue[p], n - 1) ELSE queue[p]]
    /\ polls' = polls - 1 /\ pc' = IF polls = 1 THEN "input" ELSE "events"
    /\ UNCHANGED <<framecount, goal, saved, head, gone, ggpo, vm, guard, sessions>>

-----------------------------------------------------------------------------
(***************************************************************************)
(* The local input, and the end of a session.                              *)
(***************************************************************************)
PredictionBarrier == framecount >= MaxPrediction /\ framecount - confirmed >= MaxPrediction

AddLocalInput(x) ==
    /\ pc = "input" /\ ~PredictionBarrier
    /\ queue' = [queue EXCEPT ![Local] = AddInput(Local, x)]
    /\ pc' = "run"
    /\ UNCHANGED <<polls, sync, gone, ggpo, vm, guard, sessions>>

\* Mutant: try again without polling.
RefusedNoPoll ==
    /\ pc = "input" /\ PredictionBarrier
    /\ pc' = "input" /\ polls' = 1
    /\ UNCHANGED <<sync, queue, gone, ggpo, vm, guard, sessions>>

\* The input is refused: sleep, poll and try again.
Refused ==
    /\ pc = "input" /\ PredictionBarrier
    /\ pc' = "events" /\ polls' = 1
    /\ UNCHANGED <<sync, queue, gone, ggpo, vm, guard, sessions>>

\* stopSession: the library frees its buffers, and free_buffer the deltas of
\* their frames; nothing else of its state is left.  (A history starts with a
\* session.)
StopSession ==
    LET freed == {saved[s].frame : s \in {t \in Slots : saved[t].buf # <<>>}}
    IN /\ pc' = "closed" /\ polls' = 0
       /\ framecount' = 0 /\ confirmed' = Null /\ goal' = 0
       /\ saved' = NoStates /\ head' = 0
       /\ queue' = [p \in Players |-> NewQueue] /\ gone' = {}
       /\ delta' = [g \in Frames |-> IF g \in freed THEN NoPages ELSE delta[g]]
       /\ skipped' = [g \in Frames |-> IF g \in freed THEN 0 ELSE skipped[g]]
       /\ cpu' = <<>> /\ mem' = [p \in Pages |-> <<>>]
       /\ prot' = {} /\ watch' = NoPages /\ started' = FALSE
       /\ UNCHANGED <<lastSaved, sessions>>

\* The battle is over.
Close == pc = "run" /\ StopSession

\* The assertion throws: the battle ends with a GGPO error.
AssertFails == pc = "events" /\ Incorrect # {} /\ ~ResetAllowed /\ StopSession

StartSession == /\ pc = "closed" /\ sessions < MaxSessions
                /\ pc' = "run" /\ sessions' = sessions + 1
                /\ prot' = Pages /\ started' = TRUE
                /\ UNCHANGED <<polls, sync, queue, gone, ggpo, vm, watch>>

Emulation == \/ \E k \in 0..MaxSkips : RunFrame(k)
             \/ ReplayFrame \/ AdvanceFrame \/ ReplaySaved
             \/ Refused \/ AssertFails
             \/ \E s \in Slots : AdjustSimulation(s)
             \/ \E n \in Null..LastFrame(Local) : SetLastConfirmedFrame(n)
             \/ \E x \in Moves[Local] : AddLocalInput(x)

Next == \/ Emulation \/ Close \/ StartSession \/ Leave
        \/ \E p \in Remotes : Disconnect(p) \/ \E x \in Moves[p] : Receive(p, x)

Spec == Init /\ [][Next]_vars

\* The emulation thread keeps running; a peer that is connected is heard of
\* again and again, or times out.
LiveSpec == /\ Spec /\ WF_vars(Emulation)
            /\ \A p \in Remotes : SF_vars(Disconnect(p) \/ \E x \in Moves[p] : Receive(p, x))

-----------------------------------------------------------------------------
(***************************************************************************)
(* Properties.                                                             *)
(***************************************************************************)
QueueType == [ins : Seq(Inputs), tail : Nat, pred : Int, val : Inputs, bad : Int, req : Int]

\* The variables have their types.
TypeOK ==
    /\ pc \in {"run", "advance", "events", "confirm", "replay", "resave", "input", "closed"}
    /\ polls \in 0..2 /\ framecount \in Frames /\ confirmed \in Int /\ goal \in Frames
    /\ saved \in [Slots -> [frame : Frames \union {Null}, buf : Opt]] /\ head \in Slots
    /\ queue \in [Players -> QueueType] /\ gone \subseteq Remotes
    /\ lastSaved \in Frames /\ delta \in [Frames -> [Pages -> Opt]] /\ skipped \in [Frames -> Nat]
    /\ cpu \in History /\ mem \in [Pages -> History]
    /\ prot \subseteq Pages /\ watch \in [Pages -> Opt] /\ started \in BOOLEAN
    /\ sessions \in 1..MaxSessions

\* The memory of a console with history h: each page as its last write left it.
Memory(h) ==
    [p \in Pages |->
        LET writes == {n \in 1..Len(h) : p \in Dirty(SubSeq(h, 1, n))}
        IN IF writes = {} THEN <<>>
           ELSE SubSeq(h, 1, CHOOSE n \in writes : \A o \in writes : o <= n)]

\* load_game_state puts back exactly the memory of the frame that it loads, and
\* the frames that are run again leave what running them once would have left,
\* however many rollbacks went over the pages and the deltas before.
RollbackExact == mem = Memory(cpu)

\* Watcher::hit does not unprotect a page that it has saved before: a page that
\* is protected and saved would fault for ever.
NoFaultLoop == \A p \in prot : watch[p] = <<>>

\* Whenever an input contradicts a prediction, the state of its frame is still in
\* the ring (the assertions of FindSavedFrameIndex and LoadFrame), and is the
\* state of that frame.
TargetSaved ==
    (pc = "events" /\ Incorrect # {}) =>
        /\ \E s \in Slots : saved[s].frame = SeekTo
        /\ \A s \in Slots : saved[s].frame = SeekTo =>
               saved[s].buf # <<>> /\ Len(saved[s].buf[1]) = SeekTo /\ SeekTo < framecount

\* GetInput never runs a frame on a prediction that is known to be wrong and
\* never asks for an input that was discarded (its assertions), also when a
\* rollback goes back to the first frame that is not confirmed; what
\* AddDelayedInputToQueue receives is the frame that it is predicting.
InputsKept ==
    \A p \in Players \ gone :
        /\ pc \in {"run", "replay"} => queue[p].bad = Null /\ queue[p].tail <= framecount
        /\ queue[p].pred \in {Null, Len(queue[p].ins)}

\* Up to the first mistake that is known, the frames were run on the inputs that
\* each connected player really made.
Converged ==
    \A p \in Players \ gone : \A f \in 1..Len(cpu) :
        (f <= Len(queue[p].ins) /\ (queue[p].bad = Null \/ f <= queue[p].bad))
            => cpu[f].in[p] = queue[p].ins[f]

\* The frames that have been run and are confirmed.
Confirmed == IF Len(cpu) <= confirmed THEN Len(cpu) ELSE confirmed + 1

Lock == INSTANCE LockStep WITH script <- [p \in Players |-> queue[p].ins],
                               final  <- [f \in 1..Confirmed |-> cpu[f].in],
                               left   <- gone

\* The session implements lock step: the confirmed frames are never run again,
\* and are those that the inputs of the connected players give.
ImplementsLockStep == Lock!Spec

\* At the prediction barrier nextFrame polls until the input is taken: the
\* battle goes on, or is over.
BarrierLifts == pc = "input" ~> pc \in {"run", "closed"}
=============================================================================
