------------------------------ MODULE Sh4Sched ------------------------------
(***************************************************************************)
(* The SH4 scheduler (hw/sh4/sh4_sched.cpp): the clock of the emulated    *)
(* console.  Devices register a callback in a slot of sch_list and ask    *)
(* for it to be called some cycles later; UpdateSystem_INTC advances time *)
(* by one slice and, when the earliest request has passed, walks the list *)
(* and calls what is due.                                                 *)
(*                                                                        *)
(* Times are unsigned words that wrap (% Wrap, 2^32 in the code) and the  *)
(* word of all ones means "not scheduled".  Everything runs on the CPU    *)
(* thread; a callback may make any request before it returns, so the walk *)
(* is a sequence of steps that callbacks interleave with.                 *)
(***************************************************************************)
EXTENDS Integers

CONSTANTS MaxSlots,     \* bound on the length of sch_list
          Half,         \* half the range of a time word (2^31 in the code)
          MainClock,    \* SH4_MAIN_CLOCK, the longest delay
          TimeSlice,    \* SH4_TIMESLICE
          Delays,       \* the cycle counts that devices ask for
          SaveAt        \* bound: the clock readings at which a state is saved

\* Signed comparisons of times are right because a delay and a slice
\* together are far from half the range of a word.
ASSUME SchedAssumption ==
    /\ MaxSlots \in Nat /\ Half \in Nat /\ MainClock \in Nat /\ TimeSlice \in Nat
    /\ TimeSlice > 0 /\ MainClock + TimeSlice + 2 < Half
    /\ Delays \subseteq 0..MainClock

Wrap  == 2 * Half
Slots == 1..MaxSlots
Words == 0..(Wrap - 1)
Never == Wrap - 1               \* end == -1

\* Arithmetic of u32, and the conversion of a u32 to an int.
Word(x)   == IF x < 0 THEN x + Wrap ELSE IF x >= Wrap THEN x - Wrap ELSE x
\* Mutant: the countdown is as wide as the difference it is set from.
SignedKept(w) == w
Signed(w) == IF w < Half THEN w ELSE w - Wrap

VARIABLES
    size,       \* sch_list.size()
    cb,         \* the slots whose callback is not null
    start, end, \* sched_list::start and end, of each slot
    ffb,        \* sh4_sched_ffb, its low word
    next,       \* Sh4cntx.sh4_sched_next
    nextArmed,  \* sh4_sched_next_id != -1
    phase,      \* what the CPU thread does: "run" guest code, "walk", "call"
    pos,        \* the slot the walk is at
    fztime,     \* fztime in sh4_sched_tick
    jitter,     \* the jitter passed to the callback that runs
    wasDue,     \* history: the time at which the callback that runs was due, 0
                \* when none runs
    saved,      \* the scheduler's part of the save state
    asked, left \* history: the slots whose device waits to be called, and the
                \* cycles that device has still to wait

clock   == <<ffb, next, nextArmed>>
walk    == <<phase, pos, fztime, jitter, wasDue>>
list    == <<size, cb>>
history == <<asked, left>>
vars    == <<list, start, end, clock, walk, saved, history>>

NoSlot  == [i \in Slots |-> Never]
NoWait  == [i \in Slots |-> 0]
NoState == [start |-> NoSlot, end |-> NoSlot, ffb |-> 0, next |-> 0, cb |-> {},
            asked |-> {}, left |-> NoWait]

Now == Word(ffb - next)

Init == /\ size = 0 /\ cb = {}
        /\ start = NoSlot /\ end = NoSlot
        /\ ffb = 0 /\ next = 0 /\ nextArmed = FALSE
        /\ phase = "run" /\ pos = 0 /\ fztime = 0 /\ jitter = 0 /\ wasDue = 0
        /\ saved = NoState
        /\ asked = {} /\ left = NoWait

Remaining(e, reference) == IF e = Never THEN Never ELSE Word(e - reference)

\* sh4_sched_ffts, "find first to schedule", on a list with ends e and a
\* clock that reads now.
FindFirst(e, now) ==
    \E diff \in Words :
        /\ \A i \in Slots : diff <= Remaining(e[i], now)
        /\ diff = Never \/ \E i \in Slots : diff = Remaining(e[i], now)
        /\ nextArmed' = (diff # Never)
        /\ next' = IF diff = Never THEN MainClock ELSE Signed(diff)
        /\ ffb' = Word(now + next')

\* Mutant: no end is moved off the word for "never".
EndOfAny(now, cycles) == Word(now + cycles)
\* The end of a request made now: -1 is taken, so it becomes 0.
EndOf(now, cycles) == IF Word(now + cycles) = Never THEN 0 ELSE Word(now + cycles)

\* The device of slot i expects a call in so many cycles, or none.
Expect(i, cycles) == /\ asked' = asked \union {i}
                     /\ left' = [left EXCEPT ![i] = cycles]
Forget(i)         == /\ asked' = asked \ {i}
                     /\ left' = [left EXCEPT ![i] = 0]

\* Mutant: the countdown is left for the next walk to recompute.
RequestOnly(i, cycles) ==
    /\ start' = [start EXCEPT ![i] = IF cycles = Never THEN Never ELSE Now]
    /\ end' = [end EXCEPT ![i] = IF cycles = Never THEN Never ELSE EndOf(Now, cycles)]
    /\ UNCHANGED clock
    /\ IF cycles = Never THEN Forget(i) ELSE Expect(i, cycles)
\* sh4_sched_request; cycles is Never to cancel.  The start of a slot that is
\* not scheduled is never read: the model leaves Never there.
Request(i, cycles) ==
    /\ start' = [start EXCEPT ![i] = IF cycles = Never THEN Never ELSE Now]
    /\ end' = [end EXCEPT ![i] = IF cycles = Never THEN Never ELSE EndOf(Now, cycles)]
    /\ FindFirst(end', Now)
    /\ IF cycles = Never THEN Forget(i) ELSE Expect(i, cycles)

\* A device asks for its callback, or cancels it: guest code wrote one of its
\* registers, or a callback runs.
DeviceRequest(i, cycles) ==
    /\ phase \in {"run", "call"}
    /\ i \in cb
    /\ Request(i, cycles)
    /\ UNCHANGED <<list, walk, saved>>

\* sh4_sched_register: the first free slot, else a new one.
Register ==
    /\ phase = "run"
    /\ \/ \E i \in (1..size) \ cb :
              /\ \A j \in (1..size) \ cb : i <= j
              /\ cb' = cb \union {i}
              /\ UNCHANGED size
       \/ /\ (1..size) \subseteq cb
          /\ size < MaxSlots
          /\ size' = size + 1
          /\ cb' = cb \union {size + 1}
    /\ UNCHANGED <<start, end, clock, walk, saved, history>>

\* sh4_sched_unregister: the last slot goes away, another one is only emptied.
Unregister(i) ==
    /\ phase = "run"
    /\ i \in cb
    /\ cb' = cb \ {i}
    /\ size' = IF i = size THEN size - 1 ELSE size
    /\ start' = [start EXCEPT ![i] = Never]
    /\ end' = [end EXCEPT ![i] = Never]
    /\ FindFirst(end', Now)
    /\ Forget(i)
    /\ UNCHANGED <<walk, saved>>

\* UpdateSystem_INTC and the start of sh4_sched_tick: a slice of guest code ends.
Slice ==
    /\ phase = "run"
    /\ \/ /\ next >= TimeSlice
          /\ next' = next - TimeSlice
          /\ UNCHANGED <<ffb, nextArmed, walk>>
       \/ /\ next < TimeSlice /\ nextArmed
          /\ next' = next - TimeSlice
          /\ phase' = "walk" /\ pos' = 1
          /\ fztime' = Word(Word(ffb - next') - TimeSlice)
          /\ UNCHANGED <<ffb, nextArmed, jitter, wasDue>>
       \/ /\ next < TimeSlice /\ ~nextArmed
          /\ FindFirst(end, Word(ffb - (next - TimeSlice)))
          /\ UNCHANGED walk
    /\ left' = [i \in Slots |-> IF i \in asked THEN left[i] - TimeSlice ELSE 0]
    /\ UNCHANGED <<list, start, end, saved, asked>>

\* Mutants: one bound of the window is dropped, or made strict.
IsDueOrIdle(i) == Signed(Remaining(end[i], fztime)) <= TimeSlice
IsDueLater(i)  == Signed(Remaining(end[i], fztime)) \in 1..TimeSlice
\* remaining >= 0 && remaining <= cycles
IsDue(i) == Signed(Remaining(end[i], fztime)) \in 0..TimeSlice

\* The walk passes a slot that is not due.
Pass ==
    /\ phase = "walk" /\ pos <= size
    /\ ~IsDue(pos)
    /\ pos' = pos + 1
    /\ UNCHANGED <<list, start, end, clock, phase, fztime, jitter, wasDue, saved, history>>

\* int arithmetic on two words
Minus(a, b) == Signed(Word(a - b))

\* Mutant: a callback is always told that it is on time.
NotLate(i) == 0
\* jitter in handle_cb: the cycles since the request (sh4_sched_elapsed), less
\* those that were asked for.
Lateness(i) == Minus(Now, start[i]) - Minus(end[i], start[i])

\* handle_cb, until the callback is called.
Fire ==
    /\ phase = "walk" /\ pos <= size
    /\ IsDue(pos)
    /\ jitter' = Lateness(pos) /\ wasDue' = end[pos]
    /\ start' = [start EXCEPT ![pos] = Never]
    /\ end' = [end EXCEPT ![pos] = Never]
    /\ phase' = "call"
    /\ Forget(pos)
    /\ UNCHANGED <<list, clock, pos, fztime, saved>>

\* std::max(0, re_sch - jitter)
Corrected(cycles) == IF cycles > jitter THEN cycles - jitter ELSE 0

\* The callback returns the cycles it wants to be called again after, or 0.
Return(cycles) ==
    /\ phase = "call"
    /\ \/ cycles > 0 /\ Request(pos, Corrected(cycles))
       \/ cycles = 0 /\ UNCHANGED <<start, end, clock, history>>
    /\ phase' = "walk"
    /\ pos' = pos + 1
    /\ jitter' = 0 /\ wasDue' = 0
    /\ UNCHANGED <<list, fztime, saved>>

\* The end of sh4_sched_tick.
EndWalk ==
    /\ phase = "walk" /\ pos > size
    /\ FindFirst(end, Now)
    /\ phase' = "run" /\ pos' = 0 /\ fztime' = 0
    /\ UNCHANGED <<list, start, end, jitter, wasDue, saved, history>>

\* sh4_sched_reset(true): devices request their callbacks again afterwards.
HardReset ==
    /\ phase = "run"
    /\ start' = NoSlot /\ end' = NoSlot
    /\ ffb' = 0 /\ next' = 0 /\ nextArmed' = FALSE
    /\ asked' = {} /\ left' = NoWait
    /\ UNCHANGED <<list, walk, saved>>

\* dc_serialize: the clock, the slots, and next as part of the CPU context.
SaveState ==
    /\ phase = "run" /\ Now \in SaveAt
    /\ saved' = [start |-> start, end |-> end, ffb |-> ffb, next |-> next, cb |-> cb,
                  asked |-> asked, left |-> left]
    /\ UNCHANGED <<list, start, end, clock, walk, history>>

\* dc_deserialize: it ends by finding the first slot again.
LoadState ==
    /\ phase = "run"
    /\ saved # NoState /\ cb = saved.cb
    /\ start' = saved.start /\ end' = saved.end
    /\ FindFirst(saved.end, Word(saved.ffb - saved.next))
    /\ asked' = saved.asked /\ left' = saved.left
    /\ UNCHANGED <<list, walk, saved>>

Next == \/ \E i \in Slots : \E cycles \in Delays \union {Never} : DeviceRequest(i, cycles)
        \/ \E i \in Slots : Unregister(i)
        \/ \E cycles \in Delays \union {0} : Return(cycles)
        \/ Register \/ Slice \/ Pass \/ Fire \/ EndWalk
        \/ HardReset \/ SaveState \/ LoadState

Spec == Init /\ [][Next]_vars

(***************************************************************************)
(* Properties                                                              *)
(***************************************************************************)

\* The cycles left before slot i is due, on a clock that reads now.
Due(e, now) == Minus(e, now)

\* The types of the variables; a time is a word, a countdown is an int that is
\* never below one slice.
TypeOK ==
    /\ size \in 0..MaxSlots
    /\ cb \subseteq 1..size
    /\ start \in [Slots -> Words]
    /\ end \in [Slots -> Words]
    /\ ffb \in Words
    /\ next \in (-TimeSlice)..(MainClock + 1)
    /\ nextArmed \in BOOLEAN
    /\ phase \in {"run", "walk", "call"}
    /\ pos \in 0..(MaxSlots + 1)
    /\ fztime \in Words
    /\ jitter \in Int /\ wasDue \in Words
    /\ saved \in [start : [Slots -> Words], end : [Slots -> Words],
                  ffb : Words, next : 0..(MainClock + 1), cb : SUBSET Slots,
                  asked : SUBSET Slots, left : [Slots -> Int]]
    /\ asked \subseteq Slots
    /\ left \in [Slots -> Int]

\* The scheduler and the devices agree on who is to be called and when: no
\* request is lost or kept after it was cancelled, through slots that are freed
\* and reused, requests made from callbacks, times that wrap and loaded states;
\* a call is due when its device expects it, or one cycle later.
RequestsKept ==
    /\ asked = {i \in Slots : end[i] # Never}
    /\ \A i \in asked : Due(end[i], Now) - left[i] \in {0, 1}

\* No request is slept through: while guest code runs, the countdown ends no
\* later than the first request, whatever callbacks requested, cancelled or
\* requested again for slots the walk had already passed (the early return of
\* sh4_sched_tick skips the list until the countdown ends).
NextIsSoonest ==
    phase = "run" =>
        /\ nextArmed <=> \E i \in Slots : end[i] # Never
        /\ \A i \in Slots : end[i] # Never => next <= Due(end[i], Now)

\* A callback is told how late it is called, "[0... 448]" cycles of jitter
\* (sh4_sched.h:9): the time since it was due, from none to one slice, even if the
\* word of the clock wrapped between its request and its call.
JitterInRange == phase = "call" => jitter \in 0..TimeSlice /\ jitter = Minus(Now, wasDue)

\* A periodic callback does not drift, although it is called up to a slice late:
\* when it asks for more cycles, the next call is due that many cycles after the
\* previous one was due, or at once if that time has passed.  The property is
\* about the times of two calls: how late handle_cb says the callback is (its
\* two differences of wrapped words) and what it takes off the request that
\* follows must be the same number, over requests the callback makes meanwhile.
PeriodicWithoutDrift ==
    [][\A cycles \in Delays \ {0} : Return(cycles) =>
         end'[pos] = IF cycles > Minus(Now, wasDue)
                     THEN EndOf(wasDue, cycles) ELSE EndOf(Now, 0)]_vars

\* The scheduler implements Timers: a request is served once, not before its
\* cycles have run and at most one slice after, or cancelled.
Scheduled(e)    == {i \in Slots : e[i] # Never}
Remains(e, now) == [i \in Slots |-> IF e[i] = Never THEN 0 ELSE Due(e[i], now)]

Promise == INSTANCE Timers WITH
              armed <- Scheduled(end),
              due <- Remains(end, Now),
              saved <- [armed |-> Scheduled(saved.end),
                        due |-> Remains(saved.end, Word(saved.ffb - saved.next))]

ImplementsTimers == Promise!Spec
=============================================================================
