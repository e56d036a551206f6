--------------------------- MODULE Sh4SchedProofs ---------------------------
(***************************************************************************)
(* Theorems about Sh4Sched, for every clock width, slice and list length.  *)
(* The inductive invariant, SchedInv, says of every slot that is scheduled *)
(* how far its end is from the clock: never further back than one slice,   *)
(* and only in front of the walk.                                          *)
(***************************************************************************)
EXTENDS Sh4Sched, TLAPS

\* The furthest a request can be ahead: the longest delay, moved off "never".
Furthest == MainClock + 1

\* Slot i, with start s and end e, on a clock that reads now: if it is
\* scheduled, its end is at most a slice back and its start is the request's.
SlotOK(s, e, now) ==
    e # Never => /\ Minus(e, now) \in (-TimeSlice)..Furthest
                 /\ Minus(e, s) \in 0..Furthest
                 /\ Minus(now, s) = Minus(e, s) - Minus(e, now)

\* What the clock and the list are between walks.
Settled(s, e, f, n, c) ==
    /\ n \in 0..Furthest
    /\ \A i \in Slots : /\ SlotOK(s[i], e[i], Word(f - n))
                        /\ e[i] # Never => i \in c /\ Minus(e[i], Word(f - n)) >= n

\* What devices wait for is what is scheduled.
Agreed(e, now, a, l) ==
    /\ \A i \in Slots : i \in a <=> e[i] # Never
    /\ \A i \in Slots : i \in a => Minus(e[i], now) - l[i] \in {0, 1}

WalkInv ==
    phase # "run" =>
      /\ pos \in 1..(size + 1)
      /\ fztime = Word(Now - TimeSlice)
      /\ \A i \in Slots : /\ SlotOK(start[i], end[i], Now)
                          /\ end[i] # Never => i \in cb
                          /\ end[i] # Never /\ i < pos => Minus(end[i], Now) >= 0
      /\ phase = "call" =>
           /\ pos \in 1..size /\ pos \in cb
           /\ jitter \in 0..TimeSlice /\ jitter = Minus(Now, wasDue)
           /\ end[pos] # Never => Minus(end[pos], Now) >= 0

RunInv ==
    phase = "run" =>
      /\ Settled(start, end, ffb, next, cb)
      /\ nextArmed <=> \E i \in Slots : end[i] # Never

AskInv == Agreed(end, Now, asked, left)

SavedInv ==
    /\ Settled(saved.start, saved.end, saved.ffb, saved.next, saved.cb)
    /\ Agreed(saved.end, Word(saved.ffb - saved.next), saved.asked, saved.left)

SchedInv == TypeOK /\ RunInv /\ WalkInv /\ AskInv /\ SavedInv

-----------------------------------------------------------------------------
(***************************************************************************)
(* Arithmetic of words                                                     *)
(***************************************************************************)
USE SchedAssumption DEF Wrap, Words, Never, Slots

\* Words are closed under the arithmetic of the scheduler.
LEMMA WordType ==
  ASSUME NEW x \in (-Wrap)..(2 * Wrap - 1)
  PROVE  Word(x) \in Words
BY DEF Word

\* The difference of two words is an int.
LEMMA MinusType ==
  ASSUME NEW a \in Words, NEW b \in Words
  PROVE  /\ Minus(a, b) \in (-Half)..(Half - 1)
         /\ a = b <=> Minus(a, b) = 0
BY DEF Minus, Word, Signed

\* The clock a countdown of n cycles before f reads.
LEMMA NowType ==
  ASSUME NEW f \in Words, NEW n \in (-TimeSlice)..Furthest
  PROVE  /\ Word(f - n) \in Words
         /\ Word(Word(f - n) + n) = f
BY DEF Word, Furthest

\* Where ffts puts the first request, for a given clock.
LEMMA FirstAt ==
  ASSUME NEW now \in Words, NEW n \in (-TimeSlice)..Furthest
  PROVE  /\ Word(now + n) \in Words
         /\ Word(Word(now + n) - n) = now
BY DEF Word, Furthest

\* A request made now is due when it was asked for, or one cycle later.
LEMMA EndOfIsLater ==
  ASSUME NEW now \in Words, NEW cycles \in 0..MainClock
  PROVE  /\ EndOf(now, cycles) \in Words
         /\ EndOf(now, cycles) # Never
         /\ Minus(EndOf(now, cycles), now) \in {cycles, cycles + 1}
BY DEF EndOf, Minus, Word, Signed

\* One slice later every request is one slice nearer.
LEMMA SliceIsNearer ==
  ASSUME NEW now \in Words, NEW e \in Words, NEW s \in Words,
         SlotOK(s, e, now), e # Never, Minus(e, now) >= 0
  PROVE  /\ Word(now + TimeSlice) \in Words
         /\ SlotOK(s, e, Word(now + TimeSlice))
         /\ Minus(e, Word(now + TimeSlice)) = Minus(e, now) - TimeSlice
BY DEF SlotOK, Minus, Word, Signed, Furthest

\* The clock after a slice.
LEMMA ClockAdvances ==
  ASSUME NEW f \in Words, NEW n \in 0..Furthest
  PROVE  Word(f - (n - TimeSlice)) = Word(Word(f - n) + TimeSlice)
BY DEF Word, Furthest

\* A time that is a little behind the clock is as far behind as the clock is ahead.
LEMMA Opposite ==
  ASSUME NEW e \in Words, NEW now \in Words, Minus(e, now) \in (-TimeSlice)..0
  PROVE  Minus(now, e) = -Minus(e, now)
BY DEF Minus, Signed, Word

\* The window of the walk, by how far the end is from the clock.
LEMMA DueWindow ==
  ASSUME NEW now \in Words, NEW e \in Words,
         e # Never => Minus(e, now) \in (-TimeSlice)..Furthest
  PROVE  Signed(Remaining(e, Word(now - TimeSlice))) \in 0..TimeSlice
           <=> e # Never /\ Minus(e, now) <= 0
BY DEF Remaining, Minus, Word, Signed, Furthest

-----------------------------------------------------------------------------
(***************************************************************************)
(* The operations on the list                                              *)
(***************************************************************************)
\* ffts leaves the clock alone, and if nothing is overdue it sets the countdown
\* to the first request.
LEMMA FindFirstSettles ==
  ASSUME NEW e \in [Slots -> Words], NEW now \in Words,
         \A i \in Slots : e[i] # Never => Minus(e[i], now) \in (-TimeSlice)..Furthest,
         FindFirst(e, now)
  PROVE  /\ ffb' \in Words /\ next' \in (-TimeSlice)..Furthest /\ nextArmed' \in BOOLEAN
         /\ Now' = now
         /\ (\A i \in Slots : e[i] # Never => Minus(e[i], now) >= 0) =>
              /\ next' \in 0..Furthest
              /\ nextArmed' <=> \E i \in Slots : e[i] # Never
              /\ \A i \in Slots : e[i] # Never => Minus(e[i], now) >= next'
<1>1. PICK diff \in Words :
        /\ \A i \in Slots : diff <= Remaining(e[i], now)
        /\ diff = Never \/ \E i \in Slots : diff = Remaining(e[i], now)
        /\ nextArmed' = (diff # Never)
        /\ next' = IF diff = Never THEN MainClock ELSE Signed(diff)
        /\ ffb' = Word(now + next')
  BY DEF FindFirst
<1>2. \A i \in Slots : e[i] \in Words
  OBVIOUS
<1>3. nextArmed' \in BOOLEAN
  BY <1>1
<1>4. next' \in (-TimeSlice)..Furthest
  <2>1. CASE diff = Never
    BY <1>1, <2>1 DEF Furthest
  <2>2. CASE diff # Never
    <3>1. PICK i \in Slots : diff = Remaining(e[i], now)
      BY <1>1, <2>2
    <3>2. e[i] # Never /\ Signed(diff) = Minus(e[i], now)
      BY <3>1, <2>2 DEF Remaining, Minus
    <3> QED
      BY <1>1, <2>2, <3>2
  <2> QED
    BY <2>1, <2>2
<1>5. ffb' \in Words /\ Now' = now
  BY <1>1, <1>4, FirstAt DEF Now
<1>6. ASSUME \A i \in Slots : e[i] # Never => Minus(e[i], now) >= 0
      PROVE  /\ next' \in 0..Furthest
             /\ nextArmed' <=> \E i \in Slots : e[i] # Never
             /\ \A i \in Slots : e[i] # Never => Minus(e[i], now) >= next'
  <2>1. \A i \in Slots : e[i] # Never =>
           Remaining(e[i], now) = Minus(e[i], now) /\ Minus(e[i], now) \in 0..Furthest
    BY <1>2, <1>6 DEF Remaining, Minus, Word, Signed, Furthest
  <2>2. CASE diff = Never
    <3>1. \A i \in Slots : e[i] = Never
      BY <2>1, <2>2, <1>1 DEF Furthest
    <3>2. ~nextArmed'
      BY <2>2, <1>1
    <3>3. next' = MainClock
      BY <2>2, <1>1
    <3> QED
      BY <3>1, <3>2, <3>3 DEF Furthest
  <2>3. CASE diff # Never
    <3>1. PICK i \in Slots : diff = Remaining(e[i], now)
      BY <1>1, <2>3
    <3>2. e[i] # Never /\ diff = Minus(e[i], now) /\ diff \in 0..Furthest
      BY <3>1, <2>3, <2>1 DEF Remaining
    <3>3. next' = diff
      BY <1>1, <2>3, <3>2 DEF Signed, Furthest
    <3>4. nextArmed'
      BY <1>1, <2>3
    <3> QED
      BY <1>1, <2>1, <3>2, <3>3, <3>4
  <2> QED
    BY <2>2, <2>3
<1> QED
  BY <1>3, <1>4, <1>5, <1>6

\* A request, from guest code or from a callback: it disturbs its slot only, and
\* what is scheduled there is in front of the clock.
LEMMA RequestKeeps ==
  ASSUME NEW i \in Slots, NEW cycles \in 0..MainClock \union {Never},
         start \in [Slots -> Words], end \in [Slots -> Words],
         asked \subseteq Slots, left \in [Slots -> Int], Now \in Words,
         \A j \in Slots : SlotOK(start[j], end[j], Now),
         AskInv,
         Request(i, cycles)
  PROVE  /\ start' \in [Slots -> Words] /\ end' \in [Slots -> Words]
         /\ asked' \subseteq Slots /\ left' \in [Slots -> Int]
         /\ \A j \in Slots : j # i => start'[j] = start[j] /\ end'[j] = end[j]
         /\ end'[i] # Never => cycles # Never
         /\ end'[i] # Never => Minus(end'[i], Now) >= 0
         /\ \A j \in Slots : SlotOK(start'[j], end'[j], Now)
         /\ AskInv'
         /\ FindFirst(end', Now)
         /\ Now' = Now
<1>1. cycles # Never => /\ cycles \in 0..MainClock
                        /\ EndOf(Now, cycles) \in Words
                        /\ EndOf(Now, cycles) # Never
                        /\ Minus(EndOf(Now, cycles), Now) \in {cycles, cycles + 1}
  BY EndOfIsLater
<1>2. start' \in [Slots -> Words] /\ end' \in [Slots -> Words]
  BY <1>1 DEF Request
<1>3. asked' \subseteq Slots /\ left' \in [Slots -> Int]
  <2>1. CASE cycles = Never
    <3>1. asked' = asked \ {i} /\ left' = [left EXCEPT ![i] = 0]
      BY <2>1 DEF Request, Forget
    <3> QED
      BY <3>1
  <2>2. CASE cycles # Never
    <3>1. cycles \in Int
      BY <1>1, <2>2
    <3> QED
      BY <3>1, <2>2 DEF Request, Expect
  <2> QED
    BY <2>1, <2>2
<1>4. \A j \in Slots : j # i => start'[j] = start[j] /\ end'[j] = end[j]
  BY DEF Request
<1>5. /\ start'[i] = IF cycles = Never THEN Never ELSE Now
      /\ end'[i] = IF cycles = Never THEN Never ELSE EndOf(Now, cycles)
  BY DEF Request
<1>6. \A j \in Slots : SlotOK(start'[j], end'[j], Now)
  <2>1. CASE cycles = Never
    <3>1. end'[i] = Never
      BY <1>5, <2>1
    <3> QED
      BY <1>4, <3>1 DEF SlotOK
  <2>2. CASE cycles # Never
    <3>1. Minus(Now, Now) = 0
      BY MinusType
    <3>2. Minus(EndOf(Now, cycles), Now) \in 0..Furthest
      BY <1>1, <2>2 DEF Furthest
    <3>3. start'[i] = Now /\ end'[i] = EndOf(Now, cycles)
      BY <1>5, <2>2
    <3>4. SlotOK(start'[i], end'[i], Now)
      BY <3>1, <3>2, <3>3 DEF SlotOK, Furthest
    <3> QED
      BY <1>4, <3>4
  <2> QED
    BY <2>1, <2>2
<1>7. FindFirst(end', Now)
  BY DEF Request
<1>8. Now' = Now
  BY <1>2, <1>6, <1>7, FindFirstSettles DEF SlotOK
<1>9. Agreed(end', Now, asked', left')
  <2>1. /\ i \in asked' <=> end'[i] # Never
        /\ i \in asked' => Minus(end'[i], Now) - left'[i] \in {0, 1}
    BY <1>1, <1>5 DEF Request, Expect, Forget
  <2>2. \A j \in Slots : j # i => (j \in asked' <=> j \in asked) /\ left'[j] = left[j]
    BY DEF Request, Expect, Forget
  <2> QED
    BY <1>4, <2>1, <2>2 DEF AskInv, Agreed
<1>10. AskInv'
  BY <1>8, <1>9 DEF AskInv
<1>11. end'[i] # Never => cycles # Never /\ Minus(end'[i], Now) >= 0
  BY <1>1, <1>5
<1> QED
  BY <1>2, <1>3, <1>4, <1>6, <1>7, <1>8, <1>10, <1>11

-----------------------------------------------------------------------------
(***************************************************************************)
(* Each action keeps the invariant                                         *)
(***************************************************************************)
\* What the invariant says of every slot, at any time.
LEMMA SlotFacts ==
  ASSUME SchedInv
  PROVE  /\ Now \in Words
         /\ \A i \in Slots : SlotOK(start[i], end[i], Now)
         /\ \A i \in Slots : end[i] # Never => i \in cb
         /\ \A i \in Slots : end[i] # Never => Minus(end[i], Now) \in (-TimeSlice)..Furthest
         /\ phase = "run" => /\ next \in 0..Furthest
                             /\ \A i \in Slots : end[i] # Never => Minus(end[i], Now) >= next
<1>1. Now \in Words
  BY NowType DEF SchedInv, TypeOK, Now, Furthest
<1>2. CASE phase = "run"
  BY <1>1, <1>2 DEF SchedInv, RunInv, Settled, SlotOK, Now
<1>3. CASE phase # "run"
  BY <1>1, <1>3 DEF SchedInv, WalkInv, SlotOK
<1> QED
  BY <1>2, <1>3

\* A scheduler with nothing registered satisfies the invariant.
LEMMA InitKeeps == Init => SchedInv
<1> SUFFICES ASSUME Init PROVE SchedInv
  OBVIOUS
<1>1. Word(0 - 0) = 0
  BY DEF Word
<1>2. TypeOK
  <2>1. NoSlot \in [Slots -> Words] /\ NoWait \in [Slots -> Int]
    BY DEF NoSlot, NoWait
  <2>2. saved \in [start : [Slots -> Words], end : [Slots -> Words],
                   ffb : Words, next : 0..(MainClock + 1), cb : SUBSET Slots,
                   asked : SUBSET Slots, left : [Slots -> Int]]
    BY <2>1 DEF Init, NoState
  <2>3. nextArmed \in BOOLEAN
    BY DEF Init
  <2>4. /\ size \in 0..MaxSlots /\ cb \subseteq 1..size /\ ffb \in Words
        /\ next \in (-TimeSlice)..(MainClock + 1)
        /\ phase \in {"run", "walk", "call"} /\ pos \in 0..(MaxSlots + 1)
        /\ fztime \in Words /\ jitter \in Int /\ wasDue \in Words /\ asked \subseteq Slots
    BY DEF Init
  <2>5. start \in [Slots -> Words] /\ end \in [Slots -> Words] /\ left \in [Slots -> Int]
    BY <2>1 DEF Init
  <2> QED
    BY <2>2, <2>3, <2>4, <2>5 DEF TypeOK
<1>3. RunInv
  BY <1>1 DEF Init, RunInv, Settled, SlotOK, NoSlot, Furthest
<1>4. WalkInv /\ AskInv
  BY DEF Init, WalkInv, AskInv, Agreed, NoSlot
<1>5. SavedInv
  BY DEF Init, SavedInv, Settled, SlotOK, Agreed, NoState, NoSlot, Furthest
<1> QED
  BY <1>2, <1>3, <1>4, <1>5 DEF SchedInv

\* The save state is left alone by most actions.
LEMMA SavedKept == SavedInv /\ UNCHANGED saved => SavedInv'
BY DEF SavedInv

\* sh4_sched_request from guest code, or from a callback during the walk.
LEMMA DeviceRequestKeeps ==
  ASSUME SchedInv, NEW i \in Slots, NEW cycles \in Delays \union {Never},
         DeviceRequest(i, cycles)
  PROVE  SchedInv'
<1>0. cycles \in 0..MainClock \union {Never} /\ Request(i, cycles)
  BY DEF DeviceRequest
<1>1. /\ start' \in [Slots -> Words] /\ end' \in [Slots -> Words]
      /\ asked' \subseteq Slots /\ left' \in [Slots -> Int]
      /\ \A j \in Slots : j # i => start'[j] = start[j] /\ end'[j] = end[j]
      /\ end'[i] # Never => Minus(end'[i], Now) >= 0
      /\ \A j \in Slots : SlotOK(start'[j], end'[j], Now)
      /\ AskInv'
      /\ FindFirst(end', Now)
      /\ Now' = Now
  BY <1>0, SlotFacts, RequestKeeps DEF SchedInv, TypeOK
<1>2. \A j \in Slots : end'[j] # Never => Minus(end'[j], Now) \in (-TimeSlice)..Furthest
  BY <1>1 DEF SlotOK
<1>3. /\ ffb' \in Words /\ next' \in (-TimeSlice)..Furthest /\ nextArmed' \in BOOLEAN
      /\ (\A j \in Slots : end'[j] # Never => Minus(end'[j], Now) >= 0) =>
           /\ next' \in 0..Furthest
           /\ nextArmed' <=> \E j \in Slots : end'[j] # Never
           /\ \A j \in Slots : end'[j] # Never => Minus(end'[j], Now) >= next'
  BY <1>1, <1>2, SlotFacts, FindFirstSettles
<1>4. i \in cb /\ UNCHANGED <<list, walk, saved>> /\ phase \in {"run", "call"}
  BY DEF DeviceRequest
<1>5. \A j \in Slots : end'[j] # Never => j \in cb
  BY <1>1, <1>4, SlotFacts
<1>kept. \A j \in Slots : end'[j] # Never => Minus(end'[j], Now) >= 0 \/ end'[j] = end[j]
  BY <1>1
<1>6. TypeOK'
  BY <1>1, <1>3, <1>4 DEF SchedInv, TypeOK, list, walk, Furthest
<1>7. RunInv'
  <2> SUFFICES ASSUME phase = "run" PROVE RunInv'
    BY <1>4 DEF RunInv, walk
  <2>1. \A j \in Slots : end'[j] # Never => Minus(end'[j], Now) >= 0
    <3>1. \A j \in Slots : end[j] # Never => Minus(end[j], Now) >= 0
      BY SlotFacts
    <3> QED
      BY <1>kept, <3>1
  <2> QED
    BY <1>1, <1>3, <1>4, <1>5, <2>1 DEF RunInv, Settled, Now, list
<1>8. WalkInv'
  <2>1. /\ size' = size /\ cb' = cb /\ phase' = phase
        /\ pos' = pos /\ fztime' = fztime /\ jitter' = jitter /\ wasDue' = wasDue
    BY <1>4 DEF list, walk
  <2>2. WalkInv
    BY DEF SchedInv
  <2>3. \A j \in Slots : phase # "run" /\ end'[j] # Never /\ j < pos => Minus(end'[j], Now) >= 0
    <3>1. \A j \in Slots : phase # "run" /\ end[j] # Never /\ j < pos => Minus(end[j], Now) >= 0
      BY <2>2 DEF WalkInv
    <3> QED
      BY <1>kept, <3>1
  <2>4. phase = "call" /\ end'[pos] # Never => Minus(end'[pos], Now) >= 0
    <3>1. phase = "call" => pos \in Slots /\ (end[pos] # Never => Minus(end[pos], Now) >= 0)
      BY <2>2 DEF WalkInv, SchedInv, TypeOK
    <3> QED
      BY <1>kept, <3>1
  <2> QED
    BY <1>1, <1>5, <2>1, <2>2, <2>3, <2>4 DEF WalkInv
<1>9. SavedInv'
  BY <1>4, SavedKept DEF SchedInv
<1> QED
  BY <1>1, <1>6, <1>7, <1>8, <1>9 DEF SchedInv

\* handle_cb requests what its callback returned, less the jitter.
LEMMA ReturnKeeps ==
  ASSUME SchedInv, NEW cycles \in Delays \union {0}, Return(cycles)
  PROVE  SchedInv'
<1>0. /\ phase = "call" /\ phase' = "walk" /\ pos' = pos + 1 /\ jitter' = 0 /\ wasDue' = 0
      /\ UNCHANGED <<list, fztime, saved>>
      /\ pos \in 1..size /\ size \in 0..MaxSlots /\ pos \in Slots /\ jitter \in 0..TimeSlice
      /\ fztime = Word(Now - TimeSlice)
      /\ \A j \in Slots : end[j] # Never /\ j < pos => Minus(end[j], Now) >= 0
      /\ end[pos] # Never => Minus(end[pos], Now) >= 0
  BY DEF Return, SchedInv, WalkInv, TypeOK
<1>1. SavedInv'
  BY <1>0, SavedKept DEF SchedInv
<1>2. CASE cycles = 0
  <2>1. UNCHANGED <<start, end, clock, history>>
    BY <1>2 DEF Return
  <2>2. TypeOK'
    <3>1. /\ pos' \in 0..(MaxSlots + 1) /\ jitter' \in Int /\ wasDue' \in Words
          /\ phase' \in {"run", "walk", "call"}
      BY <1>0
    <3>2. nextArmed' = nextArmed
      BY <2>1 DEF clock
    <3> QED
      BY <1>0, <2>1, <3>1, <3>2 DEF SchedInv, TypeOK, list, clock, history
  <2>3. Now' = Now
    BY <2>1 DEF Now, clock
  <2>4. AskInv'
    BY <2>1, <2>3 DEF SchedInv, AskInv, history
  <2>5. \A j \in Slots : j < pos + 1 => j < pos \/ j = pos
    BY <1>0
  <2>6. WalkInv'
    BY <1>0, <2>1, <2>3, <2>5, SlotFacts DEF WalkInv, list
  <2> QED
    BY <1>0, <1>1, <2>2, <2>4, <2>6 DEF SchedInv, RunInv
<1>3. CASE cycles > 0
  <2>0. Corrected(cycles) \in 0..MainClock \union {Never} /\ Request(pos, Corrected(cycles))
    BY <1>0, <1>3 DEF Return, Corrected
  <2>1. /\ start' \in [Slots -> Words] /\ end' \in [Slots -> Words]
        /\ asked' \subseteq Slots /\ left' \in [Slots -> Int]
        /\ \A j \in Slots : j # pos => start'[j] = start[j] /\ end'[j] = end[j]
        /\ end'[pos] # Never => Minus(end'[pos], Now) >= 0
        /\ \A j \in Slots : SlotOK(start'[j], end'[j], Now)
        /\ AskInv'
        /\ FindFirst(end', Now)
        /\ Now' = Now
    BY <1>0, <2>0, SlotFacts, RequestKeeps DEF SchedInv, TypeOK
  <2>2. \A j \in Slots : end'[j] # Never => Minus(end'[j], Now) \in (-TimeSlice)..Furthest
    BY <2>1 DEF SlotOK
  <2>3. ffb' \in Words /\ next' \in (-TimeSlice)..Furthest /\ nextArmed' \in BOOLEAN
    BY <2>1, <2>2, SlotFacts, FindFirstSettles
  <2>4. pos \in cb
    BY <1>0 DEF Return, SchedInv, WalkInv
  <2>5. TypeOK'
    <3>1. /\ pos' \in 0..(MaxSlots + 1) /\ jitter' \in Int /\ wasDue' \in Words
          /\ phase' \in {"run", "walk", "call"}
      BY <1>0
    <3>2. size' = size /\ cb' = cb /\ fztime' = fztime /\ saved' = saved
      BY <1>0 DEF list
    <3> QED
      BY <2>1, <2>3, <3>1, <3>2 DEF SchedInv, TypeOK, Furthest
  <2>6. \A j \in Slots : j < pos + 1 => j < pos \/ j = pos
    BY <1>0
  <2>7. WalkInv'
    <3>1. \A j \in Slots : end'[j] # Never => j \in cb
      BY <2>1, <2>4, SlotFacts
    <3>2. \A j \in Slots : end'[j] # Never /\ j < pos + 1 => Minus(end'[j], Now) >= 0
      BY <1>0, <2>1, <2>6
    <3>3. /\ size' = size /\ cb' = cb /\ fztime' = fztime /\ pos' = pos + 1
          /\ phase' = "walk" /\ pos + 1 \in 1..(size + 1)
      BY <1>0 DEF list
    <3> QED
      BY <1>0, <2>1, <3>1, <3>2, <3>3 DEF WalkInv
  <2> QED
    BY <1>0, <1>1, <2>1, <2>5, <2>7 DEF SchedInv, RunInv
<1> QED
  BY <1>2, <1>3, SchedAssumption

\* A slot that is registered starts idle.
LEMMA RegisterKeeps == SchedInv /\ Register => SchedInv'
<1> SUFFICES ASSUME SchedInv, Register PROVE SchedInv'
  OBVIOUS
<1>1. UNCHANGED <<start, end, clock, walk, saved, history>> /\ phase = "run"
  BY DEF Register
<1>2. /\ size' \in 0..MaxSlots /\ cb' \subseteq 1..size' /\ cb \subseteq cb'
  <2>1. size \in 0..MaxSlots /\ cb \subseteq 1..size
    BY DEF SchedInv, TypeOK
  <2>2. CASE size' = size /\ \E i \in (1..size) \ cb : cb' = cb \union {i}
    BY <2>1, <2>2
  <2>3. CASE size < MaxSlots /\ size' = size + 1 /\ cb' = cb \union {size + 1}
    BY <2>1, <2>3
  <2> QED
    BY <2>2, <2>3 DEF Register
<1>3. Now' = Now
  BY <1>1 DEF Now, clock
<1>4. TypeOK'
  <2>1. nextArmed' = nextArmed
    BY <1>1 DEF clock
  <2> QED
    BY <1>1, <1>2, <2>1 DEF SchedInv, TypeOK, clock, walk, history
<1>5. RunInv'
  <2>1. /\ start' = start /\ end' = end /\ ffb' = ffb /\ next' = next
        /\ nextArmed' = nextArmed /\ phase' = phase
    BY <1>1 DEF clock, walk
  <2> QED
    BY <1>1, <1>2, <2>1 DEF SchedInv, RunInv, Settled
<1>6. WalkInv'
  BY <1>1 DEF WalkInv, walk
<1>7. AskInv'
  BY <1>1, <1>3 DEF SchedInv, AskInv, history
<1>8. SavedInv'
  BY <1>1, SavedKept DEF SchedInv
<1> QED
  BY <1>4, <1>5, <1>6, <1>7, <1>8 DEF SchedInv

\* A slot that is unregistered is no longer scheduled, and ffts looks past it.
LEMMA UnregisterKeeps ==
  ASSUME SchedInv, NEW i \in Slots, Unregister(i)
  PROVE  SchedInv'
<1>1. /\ phase = "run" /\ i \in cb
      /\ cb' = cb \ {i} /\ size' = IF i = size THEN size - 1 ELSE size
      /\ start' = [start EXCEPT ![i] = Never] /\ end' = [end EXCEPT ![i] = Never]
      /\ FindFirst(end', Now)
      /\ asked' = asked \ {i} /\ left' = [left EXCEPT ![i] = 0]
      /\ UNCHANGED <<walk, saved>>
  BY DEF Unregister, Forget
<1>2. /\ start' \in [Slots -> Words] /\ end' \in [Slots -> Words]
      /\ asked' \subseteq Slots /\ left' \in [Slots -> Int]
  <2>1. /\ start \in [Slots -> Words] /\ end \in [Slots -> Words]
        /\ asked \subseteq Slots /\ left \in [Slots -> Int]
    BY DEF SchedInv, TypeOK
  <2>2. Never \in Words
    OBVIOUS
  <2>3. start' \in [Slots -> Words] /\ end' \in [Slots -> Words]
    BY <1>1, <2>1, <2>2
  <2>4. asked' \subseteq Slots
    BY <1>1, <2>1
  <2>5. left' \in [Slots -> Int]
    BY <1>1, <2>1
  <2> QED
    BY <2>3, <2>4, <2>5
<1>3. \A j \in Slots : IF j = i THEN end'[j] = Never /\ j \notin asked'
                       ELSE /\ start'[j] = start[j] /\ end'[j] = end[j] /\ left'[j] = left[j]
                            /\ j \in asked' <=> j \in asked
  BY <1>1 DEF SchedInv, TypeOK
<1>4. \A j \in Slots : end'[j] # Never => /\ SlotOK(start'[j], end'[j], Now)
                                          /\ Minus(end'[j], Now) \in 0..Furthest
                                          /\ j \in cb'
  <2>1. \A j \in Slots : end[j] # Never => /\ SlotOK(start[j], end[j], Now)
                                           /\ Minus(end[j], Now) \in 0..Furthest
                                           /\ j \in cb
    BY <1>1, SlotFacts DEF Furthest
  <2> QED
    BY <1>1, <1>3, <2>1
<1>5. /\ ffb' \in Words /\ next' \in 0..Furthest /\ nextArmed' \in BOOLEAN
      /\ Now' = Now
      /\ nextArmed' <=> \E j \in Slots : end'[j] # Never
      /\ \A j \in Slots : end'[j] # Never => Minus(end'[j], Now) >= next'
  <2>1. \A j \in Slots : end'[j] # Never => /\ Minus(end'[j], Now) \in (-TimeSlice)..Furthest
                                            /\ Minus(end'[j], Now) >= 0
    BY <1>4
  <2> QED
    BY <1>1, <1>2, <2>1, SlotFacts, FindFirstSettles
<1>6. TypeOK'
  <2>1. size' \in 0..MaxSlots /\ cb' \subseteq 1..size'
    <3>1. size \in 0..MaxSlots /\ cb \subseteq 1..size /\ i \in 1..size
      BY <1>1 DEF SchedInv, TypeOK
    <3> QED
      BY <1>1, <3>1
  <2>2. /\ phase' = phase /\ pos' = pos /\ fztime' = fztime /\ jitter' = jitter
        /\ wasDue' = wasDue /\ saved' = saved
    BY <1>1 DEF walk
  <2> QED
    <3>1. next' \in (-TimeSlice)..(MainClock + 1) /\ nextArmed' \in BOOLEAN /\ ffb' \in Words
      BY <1>5 DEF Furthest
    <3> QED
      BY <1>2, <2>1, <2>2, <3>1 DEF SchedInv, TypeOK
<1>7. RunInv'
  <2>1. \A j \in Slots : SlotOK(start'[j], end'[j], Now)
    BY <1>4 DEF SlotOK
  <2> QED
    BY <1>4, <1>5, <2>1 DEF RunInv, Settled, Now
<1>8. WalkInv'
  BY <1>1 DEF WalkInv, walk
<1>9. AskInv'
  <2>1. Agreed(end, Now, asked, left)
    BY DEF SchedInv, AskInv
  <2> QED
    BY <1>3, <1>5, <2>1 DEF AskInv, Agreed
<1>10. SavedInv'
  BY <1>1, SavedKept DEF SchedInv
<1> QED
  BY <1>6, <1>7, <1>8, <1>9, <1>10 DEF SchedInv

\* The walk passes a slot that is not due: it is in front of the clock.
LEMMA PassKeeps == SchedInv /\ Pass => SchedInv'
<1> SUFFICES ASSUME SchedInv, Pass PROVE SchedInv'
  OBVIOUS
<1>1. /\ phase = "walk" /\ pos \in 1..size /\ ~IsDue(pos) /\ pos' = pos + 1
      /\ UNCHANGED <<list, start, end, clock, phase, fztime, jitter, wasDue, saved, history>>
      /\ pos \in Slots /\ size \in 0..MaxSlots
  BY DEF Pass, SchedInv, WalkInv, TypeOK
<1>2. Now' = Now
  BY <1>1 DEF Now, clock
<1>3. end[pos] # Never => Minus(end[pos], Now) >= 0
  <2>1. fztime = Word(Now - TimeSlice) /\ end[pos] \in Words
    BY <1>1 DEF SchedInv, WalkInv, TypeOK
  <2>2. end[pos] # Never => Minus(end[pos], Now) \in (-TimeSlice)..Furthest
    BY <1>1, SlotFacts
  <2> QED
    BY <1>1, <2>1, <2>2, SlotFacts, DueWindow DEF IsDue
<1>4. TypeOK'
  <2>1. nextArmed' = nextArmed /\ pos' \in 0..(MaxSlots + 1)
    BY <1>1 DEF clock
  <2> QED
    BY <1>1, <2>1 DEF SchedInv, TypeOK, list, clock, history
<1>5. WalkInv'
  <2>1. \A j \in Slots : j < pos + 1 => j < pos \/ j = pos
    BY <1>1
  <2>2. WalkInv
    BY DEF SchedInv
  <2>3. \A j \in Slots : end[j] # Never /\ j < pos + 1 => Minus(end[j], Now) >= 0
    BY <1>1, <1>3, <2>1, <2>2 DEF WalkInv
  <2> QED
    BY <1>1, <1>2, <2>2, <2>3 DEF WalkInv, list
<1>6. AskInv' /\ SavedInv'
  BY <1>1, <1>2, SavedKept DEF SchedInv, AskInv, history
<1>7. RunInv'
  BY <1>1 DEF RunInv
<1> QED
  BY <1>4, <1>5, <1>6, <1>7 DEF SchedInv

\* handle_cb takes a due slot off the schedule before it calls the device.
LEMMA FireKeeps == SchedInv /\ Fire => SchedInv'
<1> SUFFICES ASSUME SchedInv, Fire PROVE SchedInv'
  OBVIOUS
<1>1. /\ phase = "walk" /\ pos \in 1..size /\ IsDue(pos)
      /\ jitter' = Minus(Now, start[pos]) - Minus(end[pos], start[pos]) /\ wasDue' = end[pos]
      /\ start' = [start EXCEPT ![pos] = Never] /\ end' = [end EXCEPT ![pos] = Never]
      /\ phase' = "call"
      /\ asked' = asked \ {pos} /\ left' = [left EXCEPT ![pos] = 0]
      /\ UNCHANGED <<list, clock, pos, fztime, saved>>
      /\ pos \in Slots /\ size \in 0..MaxSlots
  BY DEF Fire, Lateness, Forget, SchedInv, WalkInv, TypeOK
<1>2. Now' = Now
  BY <1>1 DEF Now, clock
<1>3. end[pos] # Never /\ Minus(end[pos], Now) \in (-TimeSlice)..0
  <2>1. fztime = Word(Now - TimeSlice) /\ end[pos] \in Words
    BY <1>1 DEF SchedInv, WalkInv, TypeOK
  <2>2. end[pos] # Never => Minus(end[pos], Now) \in (-TimeSlice)..Furthest
    BY <1>1, SlotFacts
  <2>3. end[pos] # Never /\ Minus(end[pos], Now) <= 0
    BY <1>1, <2>1, <2>2, SlotFacts, DueWindow DEF IsDue
  <2> QED
    BY <2>2, <2>3
<1>4. jitter' \in 0..TimeSlice /\ jitter' = Minus(Now, end[pos])
  <2>1. SlotOK(start[pos], end[pos], Now)
    BY <1>1, SlotFacts
  <2>2. jitter' = -Minus(end[pos], Now)
    BY <1>1, <1>3, <2>1, SlotFacts DEF SlotOK
  <2>3. Minus(Now, end[pos]) = -Minus(end[pos], Now)
    <3>1. end[pos] \in Words
      BY <1>1 DEF SchedInv, TypeOK
    <3> QED
      BY <1>3, <3>1, SlotFacts, Opposite
  <2> QED
    BY <1>3, <2>2, <2>3
<1>5. \A j \in Slots : IF j = pos THEN end'[j] = Never /\ j \notin asked'
                       ELSE /\ start'[j] = start[j] /\ end'[j] = end[j] /\ left'[j] = left[j]
                            /\ j \in asked' <=> j \in asked
  BY <1>1 DEF SchedInv, TypeOK
<1>6. TypeOK'
  <2>1. /\ start \in [Slots -> Words] /\ end \in [Slots -> Words]
        /\ asked \subseteq Slots /\ left \in [Slots -> Int]
    BY DEF SchedInv, TypeOK
  <2>2. start' \in [Slots -> Words] /\ end' \in [Slots -> Words]
    <3>1. Never \in Words
      OBVIOUS
    <3> QED
      BY <1>1, <2>1, <3>1
  <2>3. asked' \subseteq Slots
    BY <1>1, <2>1
  <2>4. left' \in [Slots -> Int]
    BY <1>1, <2>1
  <2>5. /\ size' = size /\ cb' = cb /\ ffb' = ffb /\ next' = next /\ nextArmed' = nextArmed
        /\ pos' = pos /\ fztime' = fztime /\ saved' = saved
    BY <1>1 DEF list, clock
  <2>6. jitter' \in Int /\ wasDue' \in Words /\ phase' \in {"run", "walk", "call"}
    BY <1>1, <1>4, <2>1
  <2> QED
    BY <2>2, <2>3, <2>4, <2>5, <2>6 DEF SchedInv, TypeOK
<1>7. WalkInv'
  <2>1. /\ size' = size /\ cb' = cb /\ pos' = pos /\ fztime' = fztime
    BY <1>1 DEF list
  <2>2. /\ fztime = Word(Now - TimeSlice)
        /\ \A j \in Slots : /\ SlotOK(start[j], end[j], Now)
                            /\ end[j] # Never => j \in cb
                            /\ end[j] # Never /\ j < pos => Minus(end[j], Now) >= 0
    BY <1>1 DEF SchedInv, WalkInv
  <2>3. \A j \in Slots : /\ SlotOK(start'[j], end'[j], Now)
                         /\ end'[j] # Never => j \in cb
                         /\ end'[j] # Never /\ j < pos => Minus(end'[j], Now) >= 0
    <3> SUFFICES ASSUME NEW j \in Slots, end'[j] # Never
                 PROVE  start'[j] = start[j] /\ end'[j] = end[j]
      BY <2>2 DEF SlotOK
    <3> QED
      BY <1>5
  <2>4. pos \in cb
    BY <1>1, <1>3, <2>2
  <2>5. end'[pos] = Never
    BY <1>1, <1>5
  <2> QED
    BY <1>1, <1>2, <1>4, <2>1, <2>2, <2>3, <2>4, <2>5 DEF WalkInv
<1>8. AskInv'
  <2>1. Agreed(end, Now, asked, left)
    BY DEF SchedInv, AskInv
  <2> QED
    BY <1>2, <1>5, <2>1 DEF AskInv, Agreed
<1>9. SavedInv' /\ RunInv'
  BY <1>1, SavedKept DEF SchedInv, RunInv
<1> QED
  BY <1>6, <1>7, <1>8, <1>9 DEF SchedInv

\* When the walk ends, nothing that is scheduled is overdue.
LEMMA EndWalkKeeps == SchedInv /\ EndWalk => SchedInv'
<1> SUFFICES ASSUME SchedInv, EndWalk PROVE SchedInv'
  OBVIOUS
<1>1. /\ phase = "walk" /\ pos > size /\ FindFirst(end, Now)
      /\ phase' = "run" /\ pos' = 0 /\ fztime' = 0
      /\ UNCHANGED <<list, start, end, jitter, wasDue, saved, history>>
  BY DEF EndWalk
<1>2. /\ end \in [Slots -> Words] /\ size \in 0..MaxSlots /\ cb \subseteq 1..size
      /\ pos \in 0..(MaxSlots + 1)
  BY DEF SchedInv, TypeOK
<1>3. \A j \in Slots : end[j] # Never => /\ j \in cb
                                         /\ Minus(end[j], Now) \in 0..Furthest
  <2>1. \A j \in Slots : end[j] # Never => /\ j \in cb
                                           /\ Minus(end[j], Now) \in (-TimeSlice)..Furthest
                                           /\ j < pos => Minus(end[j], Now) >= 0
    BY <1>1, SlotFacts DEF SchedInv, WalkInv
  <2> QED
    BY <1>1, <1>2, <2>1
<1>4. /\ ffb' \in Words /\ next' \in 0..Furthest /\ nextArmed' \in BOOLEAN
      /\ Now' = Now
      /\ nextArmed' <=> \E j \in Slots : end[j] # Never
      /\ \A j \in Slots : end[j] # Never => Minus(end[j], Now) >= next'
  <2>1. \A j \in Slots : end[j] # Never => /\ Minus(end[j], Now) \in (-TimeSlice)..Furthest
                                           /\ Minus(end[j], Now) >= 0
    BY <1>3
  <2> QED
    BY <1>1, <1>2, <2>1, SlotFacts, FindFirstSettles
<1>5. TypeOK'
  <2>1. next' \in (-TimeSlice)..(MainClock + 1) /\ nextArmed' \in BOOLEAN /\ ffb' \in Words
    BY <1>4 DEF Furthest
  <2>2. /\ size' = size /\ cb' = cb /\ start' = start /\ end' = end /\ jitter' = jitter
        /\ wasDue' = wasDue
        /\ saved' = saved /\ asked' = asked /\ left' = left
    BY <1>1 DEF list, history
  <2>3. /\ phase' \in {"run", "walk", "call"} /\ pos' \in 0..(MaxSlots + 1) /\ fztime' \in Words
    BY <1>1
  <2> QED
    BY <2>1, <2>2, <2>3 DEF SchedInv, TypeOK
<1>6. RunInv'
  BY <1>1, <1>3, <1>4, SlotFacts DEF RunInv, Settled, Now, list
<1>7. AskInv' /\ SavedInv' /\ WalkInv'
  BY <1>1, <1>4, SavedKept DEF SchedInv, AskInv, WalkInv, history
<1> QED
  BY <1>5, <1>6, <1>7 DEF SchedInv

\* A slice moves the clock; what was asked for is one slice nearer.
LEMMA SliceMoves ==
  ASSUME SchedInv, phase = "run",
         left' = [i \in Slots |-> IF i \in asked THEN left[i] - TimeSlice ELSE 0],
         UNCHANGED <<start, end, asked>>,
         Now' = Word(Now + TimeSlice)
  PROVE  /\ Now' \in Words /\ left' \in [Slots -> Int]
         /\ \A i \in Slots : end[i] # Never =>
              Minus(end[i], Now') = Minus(end[i], Now) - TimeSlice
         /\ \A i \in Slots : SlotOK(start'[i], end'[i], Now')
         /\ AskInv'
<1>1. Now' \in Words
  BY SlotFacts, WordType
<1>2. left' \in [Slots -> Int]
  BY DEF SchedInv, TypeOK
<1>3. \A i \in Slots : end[i] # Never =>
         /\ Minus(end[i], Now') = Minus(end[i], Now) - TimeSlice
         /\ SlotOK(start[i], end[i], Now')
  <2> TAKE i \in Slots
  <2> HAVE end[i] # Never
  <2>1. SlotOK(start[i], end[i], Now) /\ Minus(end[i], Now) >= 0
    <3>1. next \in 0..Furthest /\ Minus(end[i], Now) >= next /\ Minus(end[i], Now) \in Int
      BY SlotFacts
    <3> QED
      BY <3>1, SlotFacts
  <2>2. Now \in Words /\ end[i] \in Words /\ start[i] \in Words
    BY SlotFacts DEF SchedInv, TypeOK
  <2> QED
    BY <2>1, <2>2, SliceIsNearer
<1>4. \A i \in Slots : SlotOK(start'[i], end'[i], Now')
  BY <1>3 DEF SlotOK
<1>5. AskInv'
  <2>1. Agreed(end, Now, asked, left)
    BY DEF SchedInv, AskInv
  <2>2. left \in [Slots -> Int]
    BY DEF SchedInv, TypeOK
  <2>3. \A i \in Slots : i \in asked => Minus(end'[i], Now') - left'[i] \in {0, 1}
    <3> TAKE i \in Slots
    <3> HAVE i \in asked
    <3>1. end[i] # Never /\ Minus(end[i], Now) - left[i] \in {0, 1}
      BY <2>1 DEF Agreed
    <3>2. Minus(end[i], Now) \in Int /\ left[i] \in Int
      BY <2>2, <3>1, SlotFacts
    <3>3. left'[i] = left[i] - TimeSlice
      OBVIOUS
    <3>4. Minus(end[i], Now') = Minus(end[i], Now) - TimeSlice
      BY <1>3, <3>1
    <3> QED
      BY <3>1, <3>2, <3>3, <3>4
  <2> QED
    BY <2>1, <2>3 DEF AskInv, Agreed
<1> QED
  BY <1>1, <1>2, <1>3, <1>4, <1>5

\* A timeslice: either nothing is due yet, or the walk starts.
LEMMA SliceKeeps == SchedInv /\ Slice => SchedInv'
<1> SUFFICES ASSUME SchedInv, Slice PROVE SchedInv'
  OBVIOUS
<1>1. /\ phase = "run"
      /\ left' = [i \in Slots |-> IF i \in asked THEN left[i] - TimeSlice ELSE 0]
      /\ UNCHANGED <<list, start, end, saved, asked>>
      /\ size' = size /\ cb' = cb /\ wasDue' = wasDue
  BY DEF Slice, list, walk
<1>2. /\ ffb \in Words /\ next \in 0..Furthest /\ Now \in Words
  BY <1>1, SlotFacts DEF SchedInv, TypeOK
<1>3. Word(ffb - (next - TimeSlice)) = Word(Now + TimeSlice)
  BY <1>2, ClockAdvances DEF Now
<1>4. /\ \A i \in Slots : end[i] # Never => i \in cb
      /\ \A i \in Slots : end[i] # Never =>
           /\ Minus(end[i], Now) \in (-TimeSlice)..Furthest
           /\ Minus(end[i], Now) >= next
  BY <1>1, SlotFacts
<1>5. SavedInv'
  BY <1>1, SavedKept DEF SchedInv
\* What is left to show when the clock is known to have moved by a slice.
<1>6. ASSUME Now' = Word(Now + TimeSlice), ffb' \in Words, nextArmed' \in BOOLEAN,
             next' \in (-TimeSlice)..Furthest, phase' \in {"run", "walk"},
             pos' \in 0..(MaxSlots + 1), fztime' \in Words, jitter' \in Int
      PROVE  TypeOK' /\ AskInv'
  <2>1. left' \in [Slots -> Int] /\ AskInv'
    BY <1>1, <1>6, SliceMoves
  <2> QED
    BY <1>1, <1>6, <2>1 DEF SchedInv, TypeOK, Furthest
<1>7. /\ pos \in 0..(MaxSlots + 1) /\ fztime \in Words /\ jitter \in Int
      /\ size \in 0..MaxSlots
  BY DEF SchedInv, TypeOK
<1>8. nextArmed \in BOOLEAN
  BY DEF SchedInv, TypeOK
<1>9. CASE next >= TimeSlice /\ next' = next - TimeSlice /\ UNCHANGED <<ffb, nextArmed, walk>>
  <2>1. Now' = Word(Now + TimeSlice)
    BY <1>3, <1>9 DEF Now
  <2>2. /\ next' \in 0..Furthest /\ phase' = phase /\ pos' = pos /\ fztime' = fztime
        /\ jitter' = jitter /\ ffb' = ffb
    BY <1>2, <1>9 DEF walk, Furthest
  <2>3. nextArmed' = nextArmed
    BY <1>9
  <2>4. TypeOK' /\ AskInv'
    <3>1. next' \in (-TimeSlice)..Furthest /\ phase' \in {"run", "walk"}
      BY <1>1, <2>2
    <3> QED
      BY <1>2, <1>6, <1>7, <1>8, <2>1, <2>2, <2>3, <3>1
  <2>5. RunInv'
    <3>1. \A i \in Slots : /\ SlotOK(start'[i], end'[i], Now')
                           /\ end[i] # Never => Minus(end[i], Now') >= next'
      BY <1>1, <1>2, <1>4, <1>9, <2>1, SliceMoves
    <3>2. nextArmed' <=> \E i \in Slots : end[i] # Never
      BY <1>1, <2>3 DEF SchedInv, RunInv
    <3> QED
      BY <1>1, <1>4, <2>2, <3>1, <3>2 DEF RunInv, Settled, Now
  <2>6. WalkInv'
    BY <1>1, <2>2 DEF WalkInv
  <2> QED
    BY <1>5, <2>4, <2>5, <2>6 DEF SchedInv
<1>10. CASE /\ next < TimeSlice /\ nextArmed /\ next' = next - TimeSlice
            /\ phase' = "walk" /\ pos' = 1
            /\ fztime' = Word(Word(ffb - next') - TimeSlice)
            /\ UNCHANGED <<ffb, nextArmed, jitter, wasDue>>
  <2>1. Now' = Word(Now + TimeSlice)
    BY <1>3, <1>10 DEF Now
  <2>2. fztime' = Word(Now' - TimeSlice) /\ fztime' \in Words
    <3>1. fztime' = Word(Now' - TimeSlice)
      BY <1>10 DEF Now
    <3>2. Now' \in Words
      BY <1>2, <2>1, WordType
    <3> QED
      BY <3>1, <3>2, WordType
  <2>3. TypeOK' /\ AskInv'
    <3>1. /\ next' \in (-TimeSlice)..Furthest /\ phase' \in {"run", "walk"}
          /\ pos' \in 0..(MaxSlots + 1) /\ jitter' = jitter /\ ffb' = ffb
      BY <1>2, <1>10 DEF Furthest
    <3>2. nextArmed' \in BOOLEAN
      BY <1>8, <1>10
    <3> QED
      BY <1>2, <1>6, <1>7, <2>1, <2>2, <3>1, <3>2
  <2>4. WalkInv'
    <3>1. \A i \in Slots : SlotOK(start'[i], end'[i], Now')
      BY <1>1, <2>1, SliceMoves
    <3>2. \A i \in Slots : ~(i < 1)
      OBVIOUS
    <3>3. 1 \in 1..(size + 1)
      BY <1>7
    <3> QED
      BY <1>1, <1>4, <1>10, <2>2, <3>1, <3>2, <3>3 DEF WalkInv
  <2>5. RunInv'
    BY <1>10 DEF RunInv
  <2> QED
    BY <1>5, <2>3, <2>4, <2>5 DEF SchedInv
<1>11. CASE /\ next < TimeSlice /\ ~nextArmed
            /\ FindFirst(end, Word(ffb - (next - TimeSlice)))
            /\ UNCHANGED walk
  <2>1. \A i \in Slots : end[i] = Never
    BY <1>1, <1>11 DEF SchedInv, RunInv
  <2>2. Word(Now + TimeSlice) \in Words
    BY <1>2, WordType
  <2>3. /\ ffb' \in Words /\ next' \in 0..Furthest /\ nextArmed' \in BOOLEAN
        /\ Now' = Word(Now + TimeSlice)
        /\ nextArmed' <=> \E i \in Slots : end[i] # Never
    <3>1. end \in [Slots -> Words]
      BY DEF SchedInv, TypeOK
    <3>2. FindFirst(end, Word(Now + TimeSlice))
      BY <1>3, <1>11
    <3> QED
      BY <2>1, <2>2, <3>1, <3>2, FindFirstSettles
  <2>4. /\ phase' = phase /\ pos' = pos /\ fztime' = fztime /\ jitter' = jitter
    BY <1>11 DEF walk
  <2>5. TypeOK' /\ AskInv'
    <3>1. next' \in (-TimeSlice)..Furthest /\ phase' \in {"run", "walk"}
      BY <1>1, <2>3, <2>4
    <3> QED
      BY <1>6, <1>7, <2>3, <2>4, <3>1
  <2>6. RunInv'
    BY <1>1, <2>1, <2>3 DEF RunInv, Settled, SlotOK
  <2>7. WalkInv'
    BY <1>1, <2>4 DEF WalkInv
  <2> QED
    BY <1>5, <2>5, <2>6, <2>7 DEF SchedInv
<1> QED
  BY <1>9, <1>10, <1>11 DEF Slice

\* A hard reset leaves an idle scheduler.
LEMMA HardResetKeeps == SchedInv /\ HardReset => SchedInv'
<1> SUFFICES ASSUME SchedInv, HardReset PROVE SchedInv'
  OBVIOUS
<1>1. /\ phase = "run" /\ start' = NoSlot /\ end' = NoSlot
      /\ ffb' = 0 /\ next' = 0 /\ nextArmed' = FALSE
      /\ asked' = {} /\ left' = NoWait
      /\ UNCHANGED <<list, walk, saved>>
  BY DEF HardReset
<1>2. NoSlot \in [Slots -> Words] /\ NoWait \in [Slots -> Int]
  BY DEF NoSlot, NoWait
<1>3. \A i \in Slots : end'[i] = Never /\ i \notin asked'
  BY <1>1 DEF NoSlot
<1>4. TypeOK'
  <2>1. nextArmed' \in BOOLEAN
    BY <1>1
  <2>2. /\ start' \in [Slots -> Words] /\ end' \in [Slots -> Words] /\ left' \in [Slots -> Int]
        /\ ffb' \in Words /\ next' \in (-TimeSlice)..(MainClock + 1) /\ asked' \subseteq Slots
    BY <1>1, <1>2
  <2> QED
    BY <1>1, <2>1, <2>2 DEF SchedInv, TypeOK, list, walk
<1>5. RunInv'
  BY <1>1, <1>3 DEF RunInv, Settled, SlotOK, Furthest
<1>6. WalkInv' /\ AskInv'
  BY <1>1, <1>3 DEF WalkInv, walk, AskInv, Agreed
<1>7. SavedInv'
  BY <1>1, SavedKept DEF SchedInv
<1> QED
  BY <1>4, <1>5, <1>6, <1>7 DEF SchedInv

\* What is written to a save state is a schedule that can be resumed.
LEMMA SaveStateKeeps == SchedInv /\ SaveState => SchedInv'
<1> SUFFICES ASSUME SchedInv, SaveState PROVE SchedInv'
  OBVIOUS
<1>1. /\ phase = "run"
      /\ saved' = [start |-> start, end |-> end, ffb |-> ffb, next |-> next, cb |-> cb,
                   asked |-> asked, left |-> left]
      /\ UNCHANGED <<list, start, end, clock, walk, history>>
  BY DEF SaveState
<1>2. Settled(start, end, ffb, next, cb) /\ Agreed(end, Now, asked, left)
  BY <1>1 DEF SchedInv, RunInv, AskInv
<1>3. SavedInv'
  BY <1>1, <1>2 DEF SavedInv, Now
<1>4. TypeOK'
  <2>1. nextArmed' = nextArmed
    BY <1>1 DEF clock
  <2>2. saved' \in [start : [Slots -> Words], end : [Slots -> Words],
                    ffb : Words, next : 0..(MainClock + 1), cb : SUBSET Slots,
                    asked : SUBSET Slots, left : [Slots -> Int]]
    <3>1. next \in 0..(MainClock + 1)
      BY <1>1, SlotFacts DEF Furthest
    <3>2. cb \subseteq Slots
      BY DEF SchedInv, TypeOK
    <3> QED
      BY <1>1, <3>1, <3>2 DEF SchedInv, TypeOK
  <2> QED
    BY <1>1, <2>1, <2>2 DEF SchedInv, TypeOK, list, clock, walk, history
<1>5. RunInv'
  <2>1. /\ phase' = phase /\ start' = start /\ end' = end /\ ffb' = ffb /\ next' = next
        /\ nextArmed' = nextArmed /\ cb' = cb
    BY <1>1 DEF clock, list, walk
  <2> QED
    BY <2>1 DEF SchedInv, RunInv
<1>6. WalkInv'
  BY <1>1 DEF WalkInv, walk
<1>7. AskInv'
  BY <1>1 DEF SchedInv, AskInv, Now, clock, history
<1> QED
  BY <1>3, <1>4, <1>5, <1>6, <1>7 DEF SchedInv

\* A save state is resumed with its own clock and its own requests.
LEMMA LoadStateKeeps == SchedInv /\ LoadState => SchedInv'
<1> SUFFICES ASSUME SchedInv, LoadState PROVE SchedInv'
  OBVIOUS
<1> DEFINE now == Word(saved.ffb - saved.next)
<1>1. /\ phase = "run" /\ cb = saved.cb
      /\ start' = saved.start /\ end' = saved.end
      /\ FindFirst(saved.end, now)
      /\ asked' = saved.asked /\ left' = saved.left
      /\ UNCHANGED <<list, walk, saved>>
  BY DEF LoadState
<1>2. /\ saved.start \in [Slots -> Words] /\ saved.end \in [Slots -> Words]
      /\ saved.ffb \in Words /\ saved.next \in 0..Furthest
      /\ saved.asked \subseteq Slots /\ saved.left \in [Slots -> Int]
  BY DEF SchedInv, TypeOK, Furthest
<1>3. now \in Words
  <2>1. saved.next \in (-TimeSlice)..Furthest
    BY <1>2 DEF Furthest
  <2> QED
    BY <1>2, <2>1, NowType
<1>4. /\ \A i \in Slots : SlotOK(saved.start[i], saved.end[i], now)
      /\ \A i \in Slots : saved.end[i] # Never =>
            i \in cb /\ Minus(saved.end[i], now) \in (-TimeSlice)..Furthest
      /\ \A i \in Slots : saved.end[i] # Never => Minus(saved.end[i], now) >= saved.next
      /\ Agreed(saved.end, now, saved.asked, saved.left)
  BY <1>1 DEF SchedInv, SavedInv, Settled, SlotOK
<1> HIDE DEF now
<1>5. \A i \in Slots : saved.end[i] # Never => Minus(saved.end[i], now) >= 0
  <2> SUFFICES ASSUME NEW i \in Slots, saved.end[i] # Never
               PROVE  Minus(saved.end[i], now) >= 0
    OBVIOUS
  <2> DEFINE due == Minus(saved.end[i], now)
  <2>1. due \in (-TimeSlice)..Furthest /\ due >= saved.next
    BY <1>4
  <2>2. saved.next \in Int /\ saved.next >= 0
    BY <1>2 DEF Furthest
  <2> HIDE DEF due
  <2>3. due \in Int
    BY <2>1 DEF Furthest
  <2>4. due >= 0
    BY <2>1, <2>2, <2>3
  <2> QED
    BY <2>4 DEF due
<1>6. /\ ffb' \in Words /\ next' \in 0..Furthest /\ nextArmed' \in BOOLEAN
      /\ Now' = now
      /\ nextArmed' <=> \E j \in Slots : saved.end[j] # Never
      /\ \A j \in Slots : saved.end[j] # Never => Minus(saved.end[j], now) >= next'
  BY <1>1, <1>2, <1>3, <1>4, <1>5, FindFirstSettles
<1>7. TypeOK'
  <2>1. next' \in (-TimeSlice)..(MainClock + 1) /\ nextArmed' \in BOOLEAN /\ ffb' \in Words
    BY <1>6 DEF Furthest
  <2>2. /\ start' \in [Slots -> Words] /\ end' \in [Slots -> Words]
        /\ asked' \subseteq Slots /\ left' \in [Slots -> Int]
    BY <1>1, <1>2
  <2> QED
    BY <1>1, <2>1, <2>2 DEF SchedInv, TypeOK, list, walk
<1>8. RunInv'
  <2>1. cb' = cb /\ Word(ffb' - next') = now
    BY <1>1, <1>6 DEF list, Now
  <2> QED
    BY <1>1, <1>4, <1>6, <2>1 DEF RunInv, Settled
<1>9. WalkInv'
  BY <1>1 DEF WalkInv, walk
<1>10. AskInv'
  BY <1>1, <1>4, <1>6 DEF AskInv
<1>11. SavedInv'
  BY <1>1, SavedKept DEF SchedInv
<1> QED
  BY <1>7, <1>8, <1>9, <1>10, <1>11 DEF SchedInv

\* Nothing happens.
LEMMA StutterKeeps == SchedInv /\ UNCHANGED vars => SchedInv'
<1> SUFFICES ASSUME SchedInv, UNCHANGED vars PROVE SchedInv'
  OBVIOUS
<1>1. /\ size' = size /\ cb' = cb /\ start' = start /\ end' = end /\ ffb' = ffb
      /\ next' = next /\ nextArmed' = nextArmed /\ phase' = phase /\ pos' = pos
      /\ fztime' = fztime /\ jitter' = jitter /\ wasDue' = wasDue /\ saved' = saved
      /\ asked' = asked /\ left' = left
  BY DEF vars, list, clock, walk, history
<1>2. TypeOK'
  BY <1>1 DEF SchedInv, TypeOK
<1>3. RunInv' /\ WalkInv' /\ AskInv' /\ SavedInv'
  BY <1>1 DEF SchedInv, RunInv, WalkInv, AskInv, SavedInv, Now
<1> QED
  BY <1>2, <1>3 DEF SchedInv

\* Every step preserves the invariant: one case per action.
LEMMA NextKeeps == SchedInv /\ [Next]_vars => SchedInv'
<1> SUFFICES ASSUME SchedInv, [Next]_vars PROVE SchedInv'
  OBVIOUS
<1>1. CASE \E i \in Slots : \E cycles \in Delays \union {Never} : DeviceRequest(i, cycles)
  BY <1>1, DeviceRequestKeeps
<1>2. CASE \E i \in Slots : Unregister(i)
  BY <1>2, UnregisterKeeps
<1>3. CASE \E cycles \in Delays \union {0} : Return(cycles)
  BY <1>3, ReturnKeeps
<1>4. CASE Register \/ Slice \/ Pass \/ Fire \/ EndWalk
  BY <1>4, RegisterKeeps, SliceKeeps, PassKeeps, FireKeeps, EndWalkKeeps
<1>5. CASE HardReset \/ SaveState \/ LoadState
  BY <1>5, HardResetKeeps, SaveStateKeeps, LoadStateKeeps
<1>6. CASE UNCHANGED vars
  BY <1>6, StutterKeeps
<1> QED
  BY <1>1, <1>2, <1>3, <1>4, <1>5, <1>6 DEF Next

-----------------------------------------------------------------------------
(***************************************************************************)
(* What follows for every behaviour                                        *)
(***************************************************************************)
\* The inductive invariant: how far every scheduled end is from the clock, in
\* every state that UpdateSystem_INTC, the requests and the callbacks reach.
THEOREM Invariance == Spec => []SchedInv
<1>1. Init => SchedInv
  BY InitKeeps
<1>2. SchedInv /\ [Next]_vars => SchedInv'
  BY NextKeeps
<1> QED
  BY <1>1, <1>2, PTL DEF Spec

\* Times stay words and the countdown of sh4_sched_next stays an int of at
\* least minus one slice, whatever is requested when.
THEOREM TypeCorrect == Spec => []TypeOK
<1>1. SchedInv => TypeOK
  BY DEF SchedInv
<1> QED
  BY <1>1, Invariance, PTL

\* The scheduler and its devices agree on who is called when: sh4_sched_request
\* and sh4_sched_unregister lose nothing, even at the word that means "never".
THEOREM RequestsAreKept == Spec => []RequestsKept
<1>1. SchedInv => RequestsKept
  <2> SUFFICES ASSUME SchedInv PROVE RequestsKept
    OBVIOUS
  <2>1. Agreed(end, Now, asked, left) /\ asked \subseteq Slots
    BY DEF SchedInv, AskInv, TypeOK
  <2>2. asked = {i \in Slots : end[i] # Never}
    BY <2>1 DEF Agreed
  <2>3. \A i \in asked : Due(end[i], Now) - left[i] \in {0, 1}
    BY <2>1 DEF Agreed, Due
  <2> QED
    BY <2>2, <2>3 DEF RequestsKept
<1> QED
  BY <1>1, Invariance, PTL

\* No request is slept through: sh4_sched_ffts leaves the countdown at the first
\* one at the end of every walk, request, cancellation and load.
THEOREM NoRequestSleptThrough == Spec => []NextIsSoonest
<1>1. SchedInv => NextIsSoonest
  BY SlotFacts DEF SchedInv, RunInv, NextIsSoonest, Due
<1> QED
  BY <1>1, Invariance, PTL

\* sh4_sched.h's "[0... 448]": the jitter that handle_cb computes is the time since
\* the call was due, from none to one slice, for every clock width, also across a
\* wrap of the clock.
THEOREM JitterIsBounded == Spec => []JitterInRange
<1>1. SchedInv => JitterInRange
  BY DEF SchedInv, WalkInv, JitterInRange
<1> QED
  BY <1>1, Invariance, PTL

\* The correction of handle_cb, on words.
LEMMA EndOfCorrected ==
  ASSUME NEW now \in Words, NEW late \in 0..TimeSlice, NEW cycles \in 0..MainClock,
         cycles > late
  PROVE  EndOf(now, cycles - late) = EndOf(Word(now - late), cycles)
BY DEF EndOf, Word

\* The time at which a callback was due, from how late it is called.
LEMMA DueOfLate ==
  ASSUME NEW now \in Words, NEW due \in Words, NEW late \in 0..TimeSlice,
         late = Minus(now, due)
  PROVE  Word(now - late) = due
BY DEF Minus, Signed, Word

\* A periodic callback (AICA, RTC, scanlines) keeps its period however late it is
\* called: from the time one call was due to the time the next one is due are the
\* cycles it asked for.  The invariant says that the jitter which handle_cb takes
\* off, a difference of two differences of words, is the time since the call was
\* due, whatever slots the callback requested in between.
THEOREM NoDrift == Spec => PeriodicWithoutDrift
<1>1. SchedInv /\ [Next]_vars =>
        [\A cycles \in Delays \ {0} : Return(cycles) =>
           end'[pos] = IF cycles > Minus(Now, wasDue)
                       THEN EndOf(wasDue, cycles) ELSE EndOf(Now, 0)]_vars
  <2> SUFFICES ASSUME SchedInv, NEW cycles \in Delays \ {0}, Return(cycles)
               PROVE  end'[pos] = IF cycles > Minus(Now, wasDue)
                                  THEN EndOf(wasDue, cycles) ELSE EndOf(Now, 0)
    OBVIOUS
  <2>1. /\ pos \in Slots /\ jitter \in 0..TimeSlice /\ cycles \in 0..MainClock /\ cycles # 0
        /\ end \in [Slots -> Words] /\ wasDue \in Words /\ jitter = Minus(Now, wasDue)
    <3>1. phase = "call"
      BY DEF Return
    <3>2. pos \in 1..size /\ jitter \in 0..TimeSlice /\ jitter = Minus(Now, wasDue)
      BY <3>1 DEF SchedInv, WalkInv
    <3>3. size \in 0..MaxSlots /\ end \in [Slots -> Words] /\ wasDue \in Words
      BY DEF SchedInv, TypeOK
    <3> QED
      BY <3>2, <3>3
  <2>2. Request(pos, Corrected(cycles))
    BY <2>1 DEF Return
  <2>3. Corrected(cycles) \in 0..MainClock
    BY <2>1 DEF Corrected
  <2>4. end'[pos] = EndOf(Now, Corrected(cycles))
    BY <2>1, <2>2, <2>3 DEF Request
  <2>5. CASE cycles > jitter
    <3>1. EndOf(Now, cycles - jitter) = EndOf(Word(Now - jitter), cycles)
      BY <2>1, <2>5, SlotFacts, EndOfCorrected
    <3>2. Word(Now - jitter) = wasDue
      BY <2>1, SlotFacts, DueOfLate
    <3> QED
      BY <2>1, <2>4, <2>5, <3>1, <3>2 DEF Corrected
  <2>6. CASE ~(cycles > jitter)
    BY <2>1, <2>4, <2>6 DEF Corrected
  <2> QED
    BY <2>5, <2>6
<1> QED
  BY <1>1, Invariance, PTL DEF Spec, PeriodicWithoutDrift

-----------------------------------------------------------------------------
(***************************************************************************)
(* Sh4Sched implements Timers                                              *)
(***************************************************************************)
\* A request arms a timer, or cancels it.
LEMMA RequestArms ==
  ASSUME SchedInv, SchedInv', NEW i \in Slots, NEW cycles \in 0..MainClock \union {Never},
         Request(i, cycles), Now' = Now, UNCHANGED saved
  PROVE  Promise!Cancel(i) \/ \E c \in 0..MainClock : Promise!Arm(i, c)
<1>1. end \in [Slots -> Words] /\ end' \in [Slots -> Words] /\ Now \in Words
  BY SlotFacts DEF SchedInv, TypeOK
<1>2. /\ \A j \in Slots : j # i => end'[j] = end[j]
      /\ end'[i] = IF cycles = Never THEN Never ELSE EndOf(Now, cycles)
  BY <1>1 DEF Request
<1>3. CASE cycles = Never
  <2>1. end'[i] = Never
    BY <1>2, <1>3
  <2>2. /\ Scheduled(end') = Scheduled(end) \ {i}
        /\ Remains(end', Now) = [Remains(end, Now) EXCEPT ![i] = 0]
    <3>1. Scheduled(end') = Scheduled(end) \ {i}
      BY <1>1, <1>2, <2>1 DEF Scheduled
    <3>2. Remains(end', Now) = [Remains(end, Now) EXCEPT ![i] = 0]
      BY <1>1, <1>2, <2>1 DEF Remains
    <3> QED
      BY <3>1, <3>2
  <2> QED
    BY <2>2 DEF Promise!Cancel
<1>4. CASE cycles # Never
  <2>1. /\ cycles \in 0..MainClock
        /\ end'[i] # Never /\ Minus(end'[i], Now) \in {cycles, cycles + 1}
    BY <1>1, <1>2, <1>4, EndOfIsLater
  <2>2. /\ Scheduled(end') = Scheduled(end) \union {i}
        /\ Remains(end', Now) = [Remains(end, Now) EXCEPT ![i] = Minus(end'[i], Now)]
    <3>1. \A j \in Slots : j # i => end'[j] = end[j]
      BY <1>2
    <3>2. end'[i] # Never
      BY <2>1
    <3>3. Scheduled(end') = Scheduled(end) \union {i}
      BY <1>1, <3>1, <3>2 DEF Scheduled
    <3>4. Remains(end', Now) = [Remains(end, Now) EXCEPT ![i] = Minus(end'[i], Now)]
      BY <1>1, <3>1, <3>2 DEF Remains, Due
    <3> QED
      BY <3>3, <3>4
  <2>3. Promise!Arm(i, cycles)
    BY <2>1, <2>2 DEF Promise!Arm
  <2> QED
    BY <2>1, <2>3
<1> QED
  BY <1>3, <1>4

\* A slice lets time pass, and nothing is overdue when it does.
LEMMA SlicePasses == SchedInv /\ SchedInv' /\ Slice => Promise!Pass
<1> SUFFICES ASSUME SchedInv, SchedInv', Slice PROVE Promise!Pass
  OBVIOUS
<1>1. /\ phase = "run" /\ end' = end /\ saved' = saved
      /\ left' = [i \in Slots |-> IF i \in asked THEN left[i] - TimeSlice ELSE 0]
      /\ UNCHANGED <<start, end, asked>>
  BY DEF Slice
<1>2. Now' = Word(Now + TimeSlice)
  <2>1. /\ ffb \in Words /\ next \in 0..Furthest /\ Now \in Words
    BY <1>1, SlotFacts DEF SchedInv, TypeOK
  <2>2. Word(ffb - (next - TimeSlice)) = Word(Now + TimeSlice)
    BY <2>1, ClockAdvances DEF Now
  <2>3. CASE next' = next - TimeSlice /\ ffb' = ffb
    BY <2>2, <2>3 DEF Now
  <2>4. CASE ~nextArmed /\ FindFirst(end, Word(ffb - (next - TimeSlice)))
    <3>1. \A i \in Slots : end[i] = Never
      BY <1>1, <2>4 DEF SchedInv, RunInv
    <3>2. Word(Now + TimeSlice) \in Words
      BY <2>1, WordType
    <3>3. end \in [Slots -> Words]
      BY DEF SchedInv, TypeOK
    <3> QED
      BY <2>2, <2>4, <3>1, <3>2, <3>3, FindFirstSettles
  <2> QED
    BY <2>3, <2>4 DEF Slice
<1>3. \A i \in Slots : end[i] # Never => Minus(end[i], Now') = Minus(end[i], Now) - TimeSlice
  BY <1>1, <1>2, SliceMoves
<1>4. \A i \in Scheduled(end) : Remains(end, Now)[i] >= 0
  <2> SUFFICES ASSUME NEW i \in Slots, end[i] # Never PROVE Minus(end[i], Now) >= 0
    BY DEF Scheduled, Remains, Due
  <2>1. next \in 0..Furthest /\ Minus(end[i], Now) >= next /\ Minus(end[i], Now) \in Int
    BY <1>1, SlotFacts
  <2> QED
    BY <2>1 DEF Furthest
<1>5. Remains(end', Now') = [i \in Slots |-> IF i \in Scheduled(end)
                                               THEN Remains(end, Now)[i] - TimeSlice ELSE 0]
  BY <1>1, <1>3 DEF Remains, Scheduled, Due
<1> QED
  BY <1>1, <1>4, <1>5 DEF Promise!Pass

\* handle_cb calls a timer that is due, at most a slice late.
LEMMA FireFires == SchedInv /\ SchedInv' /\ Fire => \E i \in Slots : Promise!Fire(i)
<1> SUFFICES ASSUME SchedInv, SchedInv', Fire PROVE \E i \in Slots : Promise!Fire(i)
  OBVIOUS
<1>1. /\ phase = "walk" /\ pos \in Slots /\ IsDue(pos)
      /\ end' = [end EXCEPT ![pos] = Never] /\ saved' = saved /\ UNCHANGED clock
      /\ end \in [Slots -> Words] /\ end' \in [Slots -> Words]
      /\ fztime = Word(Now - TimeSlice)
  <2>1. /\ phase = "walk" /\ IsDue(pos) /\ pos <= size
        /\ end' = [end EXCEPT ![pos] = Never] /\ saved' = saved /\ UNCHANGED clock
    BY DEF Fire
  <2>2. end \in [Slots -> Words] /\ end' \in [Slots -> Words] /\ size \in 0..MaxSlots
    BY DEF SchedInv, TypeOK
  <2>3. pos \in 1..(size + 1) /\ fztime = Word(Now - TimeSlice)
    BY <2>1 DEF SchedInv, WalkInv
  <2> QED
    BY <2>1, <2>2, <2>3
<1>2. Now' = Now
  BY <1>1 DEF Now, clock
<1>3. end[pos] # Never /\ Minus(end[pos], Now) \in (-TimeSlice)..0
  <2>1. end[pos] # Never => Minus(end[pos], Now) \in (-TimeSlice)..Furthest
    BY <1>1, SlotFacts
  <2>2. end[pos] # Never /\ Minus(end[pos], Now) <= 0
    BY <1>1, <2>1, SlotFacts, DueWindow DEF IsDue
  <2> QED
    BY <2>1, <2>2
<1>4. /\ Scheduled(end') = Scheduled(end) \ {pos}
      /\ Remains(end', Now) = [Remains(end, Now) EXCEPT ![pos] = 0]
  <2>1. \A j \in Slots : j # pos => end'[j] = end[j]
    BY <1>1
  <2>2. end'[pos] = Never
    BY <1>1
  <2> QED
    <3>1. Scheduled(end') = Scheduled(end) \ {pos}
      BY <1>1, <2>1, <2>2 DEF Scheduled
    <3>2. Remains(end', Now) = [Remains(end, Now) EXCEPT ![pos] = 0]
      BY <1>1, <2>1, <2>2 DEF Remains
    <3> QED
      BY <3>1, <3>2
<1>5. pos \in Scheduled(end) /\ Remains(end, Now)[pos] = Minus(end[pos], Now)
  BY <1>1, <1>3 DEF Scheduled, Remains, Due
<1> QED
  BY <1>1, <1>2, <1>3, <1>4, <1>5 DEF Promise!Fire, Promise!Cancel

\* The save state is the same for Timers if it is for Sh4Sched.
LEMMA OtherStepsMap ==
  ASSUME SchedInv, SchedInv', Now' = Now, UNCHANGED <<end, saved>>
  PROVE  UNCHANGED Promise!vars
BY DEF Promise!vars

\* Every step is a step of Timers or leaves its variables alone.
LEMMA NextMaps == SchedInv /\ SchedInv' /\ Next => [Promise!Next]_(Promise!vars)
<1> SUFFICES ASSUME SchedInv, SchedInv', Next PROVE Promise!Next \/ UNCHANGED Promise!vars
  OBVIOUS
<1>0. start \in [Slots -> Words] /\ end \in [Slots -> Words] /\ Now \in Words
  BY SlotFacts DEF SchedInv, TypeOK
<1>1. ASSUME NEW i \in Slots, NEW cycles \in Delays \union {Never}, DeviceRequest(i, cycles)
      PROVE  Promise!Next
  <2>1. cycles \in 0..MainClock \union {Never} /\ Request(i, cycles) /\ UNCHANGED saved
    BY <1>1 DEF DeviceRequest
  <2>2. Now' = Now
    BY <2>1, SlotFacts, RequestKeeps DEF SchedInv, TypeOK
  <2>3. Promise!Cancel(i) \/ \E c \in 0..MainClock : Promise!Arm(i, c)
    BY <2>1, <2>2, RequestArms
  <2> QED
    BY <2>3 DEF Promise!Next
<1>2. ASSUME NEW i \in Slots, Unregister(i)
      PROVE  Promise!Next
  <2>1. end' = [end EXCEPT ![i] = Never] /\ FindFirst(end', Now) /\ UNCHANGED saved
    BY <1>2 DEF Unregister
  <2>2. \A j \in Slots : j # i => end'[j] = end[j]
    BY <1>0, <2>1
  <2>3. end' \in [Slots -> Words] /\ end'[i] = Never
    BY <1>0, <2>1
  <2>4. Now' = Now
    <3>1. \A j \in Slots : end'[j] # Never => Minus(end'[j], Now) \in (-TimeSlice)..Furthest
      BY <2>2, <2>3, SlotFacts
    <3> QED
      BY <1>0, <2>1, <2>3, <3>1, FindFirstSettles
  <2>5. Scheduled(end') = Scheduled(end) \ {i}
    BY <1>0, <2>2, <2>3 DEF Scheduled
  <2>6. Remains(end', Now) = [Remains(end, Now) EXCEPT ![i] = 0]
    BY <1>0, <2>2, <2>3 DEF Remains
  <2>7. Promise!Cancel(i)
    BY <2>1, <2>4, <2>5, <2>6 DEF Promise!Cancel
  <2> QED
    BY <2>7 DEF Promise!Next
<1>3. ASSUME NEW cycles \in Delays \union {0}, Return(cycles)
      PROVE  Promise!Next \/ UNCHANGED Promise!vars
  <2>1. /\ pos \in Slots /\ jitter \in 0..TimeSlice /\ UNCHANGED saved
        /\ cycles \in 0..MainClock
    <3>1. phase = "call" /\ UNCHANGED saved
      BY <1>3 DEF Return
    <3>2. pos \in 1..size /\ jitter \in 0..TimeSlice /\ size \in 0..MaxSlots
      BY <3>1 DEF SchedInv, WalkInv, TypeOK
    <3>3. cycles \in 0..MainClock
      BY <1>3
    <3> QED
      BY <3>1, <3>2, <3>3
  <2>2. CASE cycles > 0 /\ Request(pos, Corrected(cycles))
    <3>1. Corrected(cycles) \in 0..MainClock \union {Never}
      BY <2>1 DEF Corrected
    <3>2. Now' = Now
      BY <2>1, <2>2, <3>1, SlotFacts, RequestKeeps DEF SchedInv, TypeOK
    <3>3. Promise!Cancel(pos) \/ \E c \in 0..MainClock : Promise!Arm(pos, c)
      BY <2>1, <2>2, <3>1, <3>2, RequestArms
    <3> QED
      BY <2>1, <3>3 DEF Promise!Next
  <2>3. CASE UNCHANGED <<start, end, clock, history>>
    <3>1. Now' = Now /\ UNCHANGED <<end, saved>>
      BY <2>1, <2>3 DEF Now, clock
    <3> QED
      BY <3>1, OtherStepsMap
  <2> QED
    BY <1>3, <2>2, <2>3 DEF Return
<1>4. CASE Register \/ Pass
  <2>1. Now' = Now /\ UNCHANGED <<end, saved>>
    BY <1>4 DEF Register, Pass, Now, clock
  <2> QED
    BY <2>1, OtherStepsMap
<1>5. CASE EndWalk
  <2>1. FindFirst(end, Now) /\ UNCHANGED <<end, saved>>
    BY <1>5 DEF EndWalk
  <2>2. Now' = Now
    BY <1>0, <2>1, SlotFacts, FindFirstSettles
  <2> QED
    BY <2>1, <2>2, OtherStepsMap
<1>6. CASE Slice
  BY <1>6, SlicePasses DEF Promise!Next
<1>7. CASE Fire
  BY <1>7, FireFires DEF Promise!Next
<1>8. CASE HardReset
  <2>1. end' = NoSlot /\ UNCHANGED saved
    BY <1>8 DEF HardReset
  <2>2. Scheduled(end') = {}
    BY <2>1 DEF Scheduled, NoSlot
  <2>3. Remains(end', Now') = [i \in Slots |-> 0]
    BY <2>1 DEF Remains, NoSlot
  <2>4. Promise!Reset
    BY <2>1, <2>2, <2>3 DEF Promise!Reset, Promise!Nothing
  <2> QED
    BY <2>4 DEF Promise!Next
<1>9. CASE SaveState
  <2>1. /\ saved'.end = end /\ saved'.ffb = ffb /\ saved'.next = next
        /\ UNCHANGED <<end, clock>>
    BY <1>9 DEF SaveState
  <2>2. Now' = Now /\ Word(saved'.ffb - saved'.next) = Now
    BY <2>1 DEF Now, clock
  <2>3. Promise!Save
    BY <2>1, <2>2 DEF Promise!Save
  <2> QED
    BY <2>3 DEF Promise!Next
<1>10. CASE LoadState
  <2> DEFINE now == Word(saved.ffb - saved.next)
  <2>1. end' = saved.end /\ FindFirst(saved.end, now) /\ UNCHANGED saved
    BY <1>10 DEF LoadState
  <2>2. saved.end \in [Slots -> Words] /\ now \in Words
    <3>1. /\ saved.end \in [Slots -> Words] /\ saved.ffb \in Words
          /\ saved.next \in 0..(MainClock + 1)
      BY DEF SchedInv, TypeOK
    <3>2. saved.next \in (-TimeSlice)..Furthest
      BY <3>1 DEF Furthest
    <3> QED
      BY <3>1, <3>2, NowType
  <2>3. \A i \in Slots : saved.end[i] # Never =>
           Minus(saved.end[i], now) \in (-TimeSlice)..Furthest
    BY DEF SchedInv, SavedInv, Settled, SlotOK
  <2> HIDE DEF now
  <2>4. Now' = now
    BY <2>1, <2>2, <2>3, FindFirstSettles
  <2>5. Promise!Load
    BY <2>1, <2>4 DEF Promise!Load, now
  <2> QED
    BY <2>5 DEF Promise!Next
<1> QED
  BY <1>1, <1>2, <1>3, <1>4, <1>5, <1>6, <1>7, <1>8, <1>9, <1>10 DEF Next

\* The scheduler keeps its promise for every width of the clock: sh4_sched.cpp
\* implements Timers, so a request is served exactly once, never early, and at
\* most one slice late.
THEOREM Implementation == Spec => ImplementsTimers
<1>1. Init => Promise!Init
  <2> SUFFICES ASSUME Init PROVE Promise!Init
    OBVIOUS
  <2>1. end = NoSlot /\ saved.end = NoSlot
    BY DEF Init, NoState
  <2>2. \A now : /\ Scheduled(NoSlot) = {}
                 /\ Remains(NoSlot, now) = [i \in Slots |-> 0]
    BY DEF Scheduled, Remains, NoSlot
  <2> QED
    BY <2>1, <2>2 DEF Promise!Init, Promise!Nothing
<1>2. SchedInv /\ SchedInv' /\ [Next]_vars => [Promise!Next]_(Promise!vars)
  <2>1. SchedInv /\ SchedInv' /\ UNCHANGED vars => UNCHANGED Promise!vars
    <3> SUFFICES ASSUME SchedInv, SchedInv', UNCHANGED vars PROVE UNCHANGED Promise!vars
      OBVIOUS
    <3>1. Now' = Now /\ UNCHANGED <<end, saved>>
      BY DEF vars, clock, Now
    <3> QED
      BY <3>1, OtherStepsMap
  <2> QED
    BY <2>1, NextMaps
<1> QED
  BY <1>1, <1>2, Invariance, PTL DEF Spec, ImplementsTimers, Promise!Spec
=============================================================================
