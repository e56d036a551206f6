--------------------------- MODULE RollbackProofs ---------------------------
(***************************************************************************)
(* Proofs about the rollbacks of a battle, for every number of players,     *)
(* frame delay, size of the ring and emulation.                            *)
(***************************************************************************)
EXTENDS Rollback, SequenceTheorems, WellFoundedInduction, TLAPS

-----------------------------------------------------------------------------
(***************************************************************************)
(* The inductive invariant.                                                *)
(***************************************************************************)
Replaying == pc \in {"replay", "resave"}
Ran       == pc \in {"advance", "resave"}       \* a frame has been run and not saved
Target    == IF Replaying THEN goal ELSE framecount

Control ==
    /\ Len(cpu) = IF Ran THEN framecount + 1 ELSE framecount
    /\ Replaying => 1 <= framecount /\ framecount < goal /\ goal < framecount + Ring
    /\ Replaying \/ pc \in {"events", "confirm"} => polls >= 1
    /\ pc \in {"events", "confirm", "input"} => lastSaved = framecount /\ framecount >= 1
    /\ started <=> pc # "closed"
    /\ pc = "advance" => framecount < MaxFrames
    /\ pc = "closed" => framecount = 0

\* How many saves ago slot s was written, and the frame that it holds: one of the
\* last Ring frames, or in a rollback one that is to be run again.
Back(s) == IF s < head THEN head - s ELSE head - s + Ring
Held(s) == LET f == framecount + 1 - Back(s)
           IN IF f + Ring <= Target THEN f + Ring ELSE f

RingHolds(s) ==
    IF Held(s) >= 1 THEN saved[s].frame = Held(s) /\ Len(saved[s].buf) = 1
                    ELSE saved[s].frame = Null /\ saved[s].buf = <<>>
StateOf(s) == (1 <= saved[s].frame /\ saved[s].frame <= framecount)
                  => saved[s].buf[1] = SubSeq(cpu, 1, saved[s].frame)
RingInv == \A s \in Slots : RingHolds(s) /\ StateOf(s)

\* What memwatch finds while the n-th frame of h is run.
Written(h, n) ==
    [p \in Pages |-> IF p \in Dirty(SubSeq(h, 1, n))
                     THEN <<Memory(SubSeq(h, 1, n - 1))[p]>> ELSE <<>>]

DeltaInv == \A g \in Frames :
                (1 <= g /\ Target - Ring < g /\ g < framecount) => delta[g] = Written(cpu, g + 1)

WatchInv ==
    IF ~started THEN prot = {} /\ watch = NoPages
    ELSE IF Ran THEN prot = {p \in Pages : p \notin Dirty(cpu)} /\ watch = Written(cpu, Len(cpu))
    ELSE prot = Pages /\ watch = NoPages

\* A queue when n frames have been run: what is asked for, guessed and known to
\* be wrong, also for a player that left.
QueueOK(q, n) ==
    /\ Null <= q.req /\ q.req < n
    /\ q.bad = Null \/ (1 <= q.bad /\ q.bad < Len(q.ins) /\ q.bad < n)
    /\ q.pred = Null \/ q.pred = Len(q.ins)
    /\ q.pred # Null /\ q.bad = Null => q.pred <= q.req

\* The queue of a connected player when the last frame has been asked for.
AskedOK(q, n) ==
    /\ q.req = n - 1
    /\ q.bad = Null /\ Len(q.ins) < n => q.pred # Null

\* The frames of a history after the known inputs are guesses, all the same; those
\* before are right up to the first mistake.
Guessed(q, h, p) ==
    q.bad = Null => /\ q.pred # Null => q.val = Latest(q)
                    /\ \A f \in (Len(q.ins) + 1)..Len(h) : h[f].in[p] = Latest(q)
Right(q, h, p) ==
    \A f \in 1..Len(h) :
        (f <= Len(q.ins) /\ (q.bad = Null \/ f <= q.bad)) => h[f].in[p] = q.ins[f]

GuessInv(p) == /\ pc # "replay" => AskedOK(queue[p], Len(cpu))
               /\ pc # "events" => queue[p].bad = Null
               /\ Guessed(queue[p], cpu, p) /\ Right(queue[p], cpu, p)

ConfirmInv(p) ==
    LET q == queue[p]
    IN /\ confirmed < Len(q.ins)
       /\ q.bad # Null => confirmed < q.bad
       /\ q.tail = 0 \/ q.tail <= confirmed
       /\ q.tail <= framecount

\* The frames that are run before the next input is asked for.
Due == IF pc \in {"run", "advance"} THEN framecount + 1 ELSE Target

LocalInv ==
    /\ Len(queue[Local].ins) >= Due \/ (queue[Local].ins = <<>> /\ Due <= 1)
    /\ Due <= MaxPrediction \/ Due - confirmed <= MaxPrediction
    /\ Null <= confirmed

BattleInv == /\ TypeOK /\ Control /\ RingInv /\ DeltaInv /\ WatchInv /\ LocalInv
             /\ RollbackExact
             /\ \A p \in Players : QueueOK(queue[p], Len(cpu))
             /\ \A p \in Players \ gone : GuessInv(p) /\ ConfirmInv(p)

-----------------------------------------------------------------------------
(***************************************************************************)
(* Histories.                                                              *)
(***************************************************************************)
\* A frame more: the prefixes stay what they were.
LEMMA HistoryAppend ==
    ASSUME NEW h \in History, NEW e \in Entry
    PROVE  /\ Append(h, e) \in History /\ Len(h) \in Nat
           /\ Len(Append(h, e)) = Len(h) + 1
           /\ \A i \in 1..Len(h) : Append(h, e)[i] = h[i]
           /\ Append(h, e)[Len(h) + 1] = e
           /\ \A n \in 0..Len(h) : SubSeq(Append(h, e), 1, n) = SubSeq(h, 1, n)
           /\ SubSeq(Append(h, e), 1, Len(h) + 1) = Append(h, e)
  <1> DEFINE k == Append(h, e)
  <1>0. Len(h) \in Nat
    BY LenProperties DEF History
  <1>1. /\ k \in History /\ Len(k) = Len(h) + 1
        /\ \A i \in 1..Len(h) : k[i] = h[i]
        /\ k[Len(h) + 1] = e
    BY AppendProperties DEF History
  <1>2. SubSeq(k, 1, Len(h) + 1) = k
    BY <1>1, SubSeqFull DEF History
  <1>3. ASSUME NEW n \in 0..Len(h) PROVE SubSeq(k, 1, n) = SubSeq(h, 1, n)
    <2> HIDE DEF k
    <2>0. n \in Int /\ 1 \in Int
      BY <1>0
    <2>1. /\ \A i \in 1..n : h[i] \in Entry
          /\ \A i \in 1..n : k[i] \in Entry
      BY <1>0, <1>1, ElementOfSeq DEF History
    <2>2. /\ SubSeq(h, 1, n) \in Seq(Entry) /\ Len(SubSeq(h, 1, n)) = n
          /\ \A i \in 1..n : SubSeq(h, 1, n)[i] = h[i]
      <3>1. /\ SubSeq(h, 1, n) \in Seq(Entry)
            /\ Len(SubSeq(h, 1, n)) = IF 1 <= n THEN n - 1 + 1 ELSE 0
            /\ \A i \in 1..(n - 1 + 1) : SubSeq(h, 1, n)[i] = h[1 + i - 1]
        BY <2>0, <2>1, SubSeqProperties
      <3> QED BY <3>1, <1>0
    <2>3. /\ SubSeq(k, 1, n) \in Seq(Entry) /\ Len(SubSeq(k, 1, n)) = n
          /\ \A i \in 1..n : SubSeq(k, 1, n)[i] = k[i]
      <3>1. /\ SubSeq(k, 1, n) \in Seq(Entry)
            /\ Len(SubSeq(k, 1, n)) = IF 1 <= n THEN n - 1 + 1 ELSE 0
            /\ \A i \in 1..(n - 1 + 1) : SubSeq(k, 1, n)[i] = k[1 + i - 1]
        BY <2>0, <2>1, SubSeqProperties
      <3> QED BY <3>1, <1>0
    <2>4. \A i \in 1..n : SubSeq(k, 1, n)[i] = SubSeq(h, 1, n)[i]
      BY <1>0, <1>1, <2>2, <2>3
    <2> QED BY <2>2, <2>3, <2>4, SeqEqual
  <1> QED BY <1>0, <1>1, <1>2, <1>3

\* The first frames.
LEMMA HistoryPrefix ==
    ASSUME NEW h \in History, NEW n \in 0..Len(h)
    PROVE  /\ SubSeq(h, 1, n) \in History /\ Len(h) \in Nat
           /\ Len(SubSeq(h, 1, n)) = n
           /\ \A i \in 1..n : SubSeq(h, 1, n)[i] = h[i]
           /\ \A m \in 0..n : SubSeq(SubSeq(h, 1, n), 1, m) = SubSeq(h, 1, m)
           /\ SubSeq(h, 1, Len(h)) = h
  <1> DEFINE k == SubSeq(h, 1, n)
  <1>0. Len(h) \in Nat /\ n \in Int /\ 1 \in Int
    BY LenProperties DEF History
  <1>1. SubSeq(h, 1, Len(h)) = h
    BY SubSeqFull DEF History
  <1>2. \A m \in 0..Len(h) : /\ SubSeq(h, 1, m) \in Seq(Entry) /\ Len(SubSeq(h, 1, m)) = m
                             /\ \A i \in 1..m : SubSeq(h, 1, m)[i] = h[i]
    <2> TAKE m \in 0..Len(h)
    <2>1. m \in Int /\ \A i \in 1..m : h[i] \in Entry
      BY <1>0, ElementOfSeq DEF History
    <2>2. /\ SubSeq(h, 1, m) \in Seq(Entry)
          /\ Len(SubSeq(h, 1, m)) = IF 1 <= m THEN m - 1 + 1 ELSE 0
          /\ \A i \in 1..(m - 1 + 1) : SubSeq(h, 1, m)[i] = h[1 + i - 1]
      BY <1>0, <2>1, SubSeqProperties
    <2> QED BY <2>2, <2>1, <1>0
  <1>3. k \in Seq(Entry) /\ Len(k) = n /\ \A i \in 1..n : k[i] = h[i]
    BY <1>2
  <1>4. ASSUME NEW m \in 0..n PROVE SubSeq(k, 1, m) = SubSeq(h, 1, m)
    <2>0. m \in Int /\ m \in 0..Len(h)
      BY <1>0
    <2>1. /\ SubSeq(h, 1, m) \in Seq(Entry) /\ Len(SubSeq(h, 1, m)) = m
          /\ \A i \in 1..m : SubSeq(h, 1, m)[i] = h[i]
      BY <1>2, <2>0
    <2>2. /\ SubSeq(k, 1, m) \in Seq(Entry) /\ Len(SubSeq(k, 1, m)) = m
          /\ \A i \in 1..m : SubSeq(k, 1, m)[i] = k[i]
      <3> HIDE DEF k
      <3>1. \A i \in 1..m : k[i] \in Entry
        BY <1>0, <1>3, ElementOfSeq
      <3>2. /\ SubSeq(k, 1, m) \in Seq(Entry)
            /\ Len(SubSeq(k, 1, m)) = IF 1 <= m THEN m - 1 + 1 ELSE 0
            /\ \A i \in 1..(m - 1 + 1) : SubSeq(k, 1, m)[i] = k[1 + i - 1]
        BY <1>0, <2>0, <3>1, SubSeqProperties
      <3> QED BY <3>2, <2>0
    <2>3. \A i \in 1..m : SubSeq(k, 1, m)[i] = SubSeq(h, 1, m)[i]
      <3> HIDE DEF k
      <3> QED BY <1>0, <1>3, <2>1, <2>2
    <2> QED BY <2>1, <2>2, <2>3, SeqEqual
  <1> QED BY <1>0, <1>1, <1>3, <1>4 DEF History

\* A set of naturals has a smallest element.
LEMMA Least ==
    ASSUME NEW T, T \subseteq Nat, T # {}
    PROVE  \E x \in T : \A y \in T : x <= y
  <1>1. PICK x \in T : \A y \in T : ~(<<y, x>> \in OpToRel(<, Nat))
    BY NatLessThanWellFounded, WFMin
  <1>2. \A y \in T : ~(y < x)
    BY <1>1 DEF OpToRel
  <1> QED BY <1>2

\* One that is bounded has a largest.
LEMMA Greatest ==
    ASSUME NEW n \in Nat, NEW T, T \subseteq 0..n, T # {}
    PROVE  \E x \in T : \A y \in T : y <= x
  <1> DEFINE R == {m \in Nat : n - m \in T}
  <1>1. R # {}
    <2>1. PICK x \in T : TRUE
      OBVIOUS
    <2>2. n - x \in Nat /\ n - (n - x) = x
      OBVIOUS
    <2>3. n - x \in R
      BY <2>1, <2>2
    <2> QED BY <2>3
  <1>2. PICK m \in R : \A o \in R : m <= o
    BY <1>1, Least
  <1>3. \A y \in T : y <= n - m
    <2> TAKE y \in T
    <2>1. n - y \in Nat /\ n - (n - y) = y
      OBVIOUS
    <2>2. n - y \in R
      BY <2>1
    <2>3. m <= n - y
      BY <1>2, <2>2
    <2> QED BY <2>3, <1>2
  <1>4. n - m \in T
    BY <1>2
  <1> QED BY <1>3, <1>4

\* The frames that write a page.
Writes(h, p) == {n \in 1..Len(h) : p \in Dirty(SubSeq(h, 1, n))}

\* The content of a page: nothing, or that of its last write.
LEMMA MemoryOf ==
    ASSUME NEW h \in History, NEW p \in Pages
    PROVE  /\ Writes(h, p) = {} => Memory(h)[p] = <<>>
           /\ \A n \in Writes(h, p) :
                 (\A o \in Writes(h, p) : o <= n) => Memory(h)[p] = SubSeq(h, 1, n)
           /\ Writes(h, p) # {} =>
                 \E n \in Writes(h, p) : \A o \in Writes(h, p) : o <= n
           /\ Memory(h)[p] \in History
  <1>0. Len(h) \in Nat
    BY LenProperties DEF History
  <1>1. Memory(h)[p] = IF Writes(h, p) = {} THEN <<>>
                       ELSE SubSeq(h, 1, CHOOSE n \in Writes(h, p) : \A o \in Writes(h, p) : o <= n)
    BY DEF Memory, Writes
  <1>2. ASSUME Writes(h, p) # {}
        PROVE  \E n \in Writes(h, p) : \A o \in Writes(h, p) : o <= n
    <2>1. Writes(h, p) \subseteq 0..Len(h)
      BY <1>0 DEF Writes
    <2> QED BY <1>0, <1>2, <2>1, Greatest
  <1>3. ASSUME NEW n \in Writes(h, p), \A o \in Writes(h, p) : o <= n
        PROVE  Memory(h)[p] = SubSeq(h, 1, n)
    <2> DEFINE c == CHOOSE m \in Writes(h, p) : \A o \in Writes(h, p) : o <= m
    <2>1. c \in Writes(h, p) /\ \A o \in Writes(h, p) : o <= c
      BY <1>3
    <2>2. c = n
      <3>1. c <= n /\ n <= c
        BY <2>1, <1>3
      <3>2. c \in Nat /\ n \in Nat
        BY <2>1, <1>3, <1>0 DEF Writes
      <3> QED BY <3>1, <3>2
    <2> QED BY <1>1, <2>2, <1>3
  <1>4. Memory(h)[p] \in History
    <2>1. CASE Writes(h, p) = {}
      BY <2>1, <1>1, EmptySeq DEF History
    <2>2. CASE Writes(h, p) # {}
      <3>1. PICK n \in Writes(h, p) : \A o \in Writes(h, p) : o <= n
        BY <2>2, <1>2
      <3>2. n \in 0..Len(h)
        BY <1>0 DEF Writes
      <3> QED BY <3>1, <3>2, <1>3, HistoryPrefix
    <2> QED BY <2>1, <2>2
  <1> QED BY <1>1, <1>2, <1>3, <1>4

\* A page that no frame after the f-th writes is as it was then.
LEMMA MemoryKept ==
    ASSUME NEW h \in History, NEW p \in Pages, NEW f \in 0..Len(h), NEW g \in f..Len(h),
           \A n \in (f + 1)..g : p \notin Dirty(SubSeq(h, 1, n))
    PROVE  Memory(SubSeq(h, 1, g))[p] = Memory(SubSeq(h, 1, f))[p]
  <1> DEFINE a == SubSeq(h, 1, f)
             b == SubSeq(h, 1, g)
  <1>0. Len(h) \in Nat /\ g \in 0..Len(h)
    BY LenProperties DEF History
  <1>1. /\ a \in History /\ Len(a) = f /\ \A m \in 0..f : SubSeq(a, 1, m) = SubSeq(h, 1, m)
        /\ b \in History /\ Len(b) = g /\ \A m \in 0..g : SubSeq(b, 1, m) = SubSeq(h, 1, m)
    BY <1>0, HistoryPrefix
  <1> HIDE DEF a, b
  <1>2. Writes(b, p) = Writes(a, p)
    <2>1. Writes(a, p) = {n \in 1..f : p \in Dirty(SubSeq(h, 1, n))}
      <3>1. \A n \in 1..f : n \in 0..f
        BY <1>0
      <3> QED BY <1>1, <3>1 DEF Writes
    <2>2. Writes(b, p) = {n \in 1..g : p \in Dirty(SubSeq(h, 1, n))}
      <3>1. \A n \in 1..g : n \in 0..g
        BY <1>0
      <3> QED BY <1>1, <3>1 DEF Writes
    <2>3. \A n \in 1..g : n \in 1..f \/ n \in (f + 1)..g
      BY <1>0
    <2>4. \A n \in 1..f : n \in 1..g
      BY <1>0
    <2> QED BY <2>1, <2>2, <2>3, <2>4
  <1>3. CASE Writes(a, p) = {}
    BY <1>1, <1>2, <1>3, MemoryOf DEF a, b
  <1>4. CASE Writes(a, p) # {}
    <2>1. PICK n \in Writes(a, p) : \A o \in Writes(a, p) : o <= n
      BY <1>1, <1>4, MemoryOf
    <2>2. Memory(a)[p] = SubSeq(a, 1, n) /\ Memory(b)[p] = SubSeq(b, 1, n)
      BY <1>1, <1>2, <2>1, MemoryOf
    <2>3. n \in 0..f /\ n \in 0..g
      BY <1>0, <1>1 DEF Writes
    <2> QED BY <1>1, <2>2, <2>3 DEF a, b
  <1> QED BY <1>3, <1>4

\* The memory after one frame more.
LEMMA MemoryAppend ==
    ASSUME NEW h \in History, NEW e \in Entry
    PROVE  Memory(Append(h, e)) =
               [p \in Pages |-> IF p \in Dirty(Append(h, e)) THEN Append(h, e) ELSE Memory(h)[p]]
  <1> DEFINE k == Append(h, e)
  <1>1. /\ k \in History /\ Len(h) \in Nat /\ Len(k) = Len(h) + 1
        /\ SubSeq(k, 1, Len(h) + 1) = k
        /\ \A n \in 0..Len(h) : SubSeq(k, 1, n) = SubSeq(h, 1, n)
    BY HistoryAppend
  <1> HIDE DEF k
  <1>2. SubSeq(h, 1, Len(h)) = h
    BY HistoryPrefix, <1>1
  <1>3. ASSUME NEW p \in Pages
        PROVE  Memory(k)[p] = IF p \in Dirty(k) THEN k ELSE Memory(h)[p]
    <2>1. CASE p \in Dirty(k)
      <3>1. Len(h) + 1 \in Writes(k, p)
        <4>1. Len(h) + 1 \in 1..Len(k)
          BY <1>1
        <4>2. p \in Dirty(SubSeq(k, 1, Len(h) + 1))
          BY <1>1, <2>1, Zenon
        <4> QED BY <4>1, <4>2 DEF Writes
      <3>2. \A o \in Writes(k, p) : o <= Len(h) + 1
        BY <1>1 DEF Writes
      <3>3. Memory(k)[p] = SubSeq(k, 1, Len(h) + 1)
        BY <1>1, <3>1, <3>2, MemoryOf
      <3> QED BY <1>1, <2>1, <3>3
    <2>2. CASE p \notin Dirty(k)
      <3>1. /\ Len(h) \in 0..Len(k) /\ Len(k) \in Len(h)..Len(k)
            /\ \A n \in (Len(h) + 1)..Len(k) : p \notin Dirty(SubSeq(k, 1, n))
        <4>1. Len(h) \in 0..Len(k) /\ Len(k) \in Len(h)..Len(k)
          BY <1>1
        <4>2. ASSUME NEW n \in (Len(h) + 1)..Len(k) PROVE p \notin Dirty(SubSeq(k, 1, n))
          <5>1. n = Len(h) + 1
            BY <1>1
          <5>2. SubSeq(k, 1, n) = k
            BY <1>1, <5>1, Zenon
          <5> QED BY <2>2, <5>2, Zenon
        <4> QED BY <4>1, <4>2
      <3>2. Memory(SubSeq(k, 1, Len(k)))[p] = Memory(SubSeq(k, 1, Len(h)))[p]
        BY <1>1, <3>1, MemoryKept
      <3>3. SubSeq(k, 1, Len(k)) = k /\ SubSeq(k, 1, Len(h)) = h
        BY <1>1, <1>2
      <3> QED BY <2>2, <3>2, <3>3
    <2> QED BY <2>1, <2>2
  <1>4. /\ Memory(k) = [p \in Pages |-> Memory(k)[p]]
    BY DEF Memory
  <1> QED BY <1>3, <1>4 DEF k

\* What memwatch finds of one page.
LEMMA WrittenAt ==
    ASSUME NEW h, NEW n, NEW m, NEW p \in Pages, m = n - 1
    PROVE  Written(h, n)[p] = IF p \in Dirty(SubSeq(h, 1, n))
                              THEN <<Memory(SubSeq(h, 1, m))[p]>> ELSE <<>>
  BY DEF Written

\* What memwatch finds does not depend on later frames.
LEMMA WrittenPrefix ==
    ASSUME NEW h \in History, NEW k \in History, NEW n \in Nat \ {0}, n <= Len(h), n <= Len(k),
           \A m \in 0..n : SubSeq(k, 1, m) = SubSeq(h, 1, m)
    PROVE  Written(k, n) = Written(h, n)
  <1>1. n \in 0..n /\ n - 1 \in 0..n
    OBVIOUS
  <1> QED BY <1>1 DEF Written

\* load_game_state: with the pages that each frame from f on wrote, going back
\* from the last state gives the memory of frame f.
LEMMA RestoredExact ==
    ASSUME NEW h \in History, NEW f \in 0..Len(h), mem = Memory(h), lastSaved = Len(h),
           \A g \in f..(Len(h) - 1) : g \in Frames /\ delta[g] = Written(h, g + 1)
    PROVE  Restored(f) = Memory(SubSeq(h, 1, f))
  <1>0. Len(h) \in Nat
    BY LenProperties DEF History
  <1>1. ASSUME NEW p \in Pages
        PROVE  Restored(f)[p] = Memory(SubSeq(h, 1, f))[p]
    <2> DEFINE kept == {g \in f..(Len(h) - 1) : g \in Frames /\ delta[g][p] # <<>>}
    <2>1. Restored(f)[p] = IF kept = {} THEN mem[p]
                           ELSE delta[CHOOSE g \in kept : \A o \in kept : g <= o][p][1]
      BY DEF Restored
    <2>2. ASSUME NEW g \in f..(Len(h) - 1)
          PROVE  /\ delta[g][p] = IF p \in Dirty(SubSeq(h, 1, g + 1))
                                  THEN <<Memory(SubSeq(h, 1, g))[p]>> ELSE <<>>
                 /\ g \in kept <=> p \in Dirty(SubSeq(h, 1, g + 1))
      <3>1. delta[g][p] = IF p \in Dirty(SubSeq(h, 1, g + 1))
                          THEN <<Memory(SubSeq(h, 1, g))[p]>> ELSE <<>>
        <4>1. g = g + 1 - 1
          BY <1>0
        <4>2. Written(h, g + 1)[p] = IF p \in Dirty(SubSeq(h, 1, g + 1))
                                     THEN <<Memory(SubSeq(h, 1, g))[p]>> ELSE <<>>
          <5> DEFINE n == g + 1
          <5>1. g = n - 1
            BY <4>1
          <5> HIDE DEF n
          <5>2. Written(h, n)[p] = IF p \in Dirty(SubSeq(h, 1, n))
                                     THEN <<Memory(SubSeq(h, 1, g))[p]>> ELSE <<>>
            BY <5>1, WrittenAt
          <5> QED BY <5>2 DEF n
        <4>3. delta[g] = Written(h, g + 1)
          OBVIOUS
        <4> QED BY <4>2, <4>3
      <3>2. g \in Frames
        OBVIOUS
      <3>3. <<Memory(SubSeq(h, 1, g))[p]>> # <<>>
        OBVIOUS
      <3> QED BY <3>1, <3>2, <3>3
    <2> HIDE DEF kept
    <2>3. CASE kept = {}
      <3>1. \A n \in (f + 1)..Len(h) : p \notin Dirty(SubSeq(h, 1, n))
        <4> TAKE n \in (f + 1)..Len(h)
        <4>1. n - 1 \in f..(Len(h) - 1) /\ n - 1 + 1 = n
          BY <1>0
        <4> QED BY <4>1, <2>2, <2>3
      <3>2. Memory(SubSeq(h, 1, Len(h)))[p] = Memory(SubSeq(h, 1, f))[p]
        <4>1. Len(h) \in f..Len(h)
          BY <1>0
        <4> QED BY <4>1, <3>1, MemoryKept
      <3>3. SubSeq(h, 1, Len(h)) = h
        BY HistoryPrefix
      <3> QED BY <2>1, <2>3, <3>2, <3>3
    <2>4. CASE kept # {}
      <3>1. kept \subseteq f..(Len(h) - 1) /\ kept \subseteq Nat
        BY <1>0 DEF kept
      <3> DEFINE c == CHOOSE g \in kept : \A o \in kept : g <= o
      <3>2. c \in kept /\ \A o \in kept : c <= o
        BY <2>4, <3>1, Least
      <3> HIDE DEF c
      <3>3. c \in f..(Len(h) - 1) /\ c \in Nat
        BY <3>1, <3>2
      <3>4. delta[c][p] = <<Memory(SubSeq(h, 1, c))[p]>>
        BY <3>3, <3>2, <2>2
      <3>5. \A n \in (f + 1)..c : p \notin Dirty(SubSeq(h, 1, n))
        <4> TAKE n \in (f + 1)..c
        <4>1. n - 1 \in f..(Len(h) - 1) /\ n - 1 + 1 = n /\ ~(c <= n - 1)
          BY <1>0, <3>3
        <4>2. n - 1 \notin kept
          BY <4>1, <3>2
        <4> QED BY <4>1, <4>2, <2>2
      <3>6. Memory(SubSeq(h, 1, c))[p] = Memory(SubSeq(h, 1, f))[p]
        <4>1. c \in f..Len(h)
          BY <1>0, <3>3
        <4> QED BY <4>1, <3>5, MemoryKept
      <3>7. Restored(f)[p] = delta[c][p][1]
        BY <2>1, <2>4 DEF c
      <3> QED BY <3>4, <3>6, <3>7
    <2> QED BY <2>3, <2>4
  <1>2. Restored(f) = [p \in Pages |-> Restored(f)[p]]
    BY DEF Restored
  <1>3. Memory(SubSeq(h, 1, f)) = [p \in Pages |-> Memory(SubSeq(h, 1, f))[p]]
    BY DEF Memory
  <1> QED BY <1>1, <1>2, <1>3

-----------------------------------------------------------------------------
(***************************************************************************)
(* The input queues.                                                       *)
(***************************************************************************)
LEMMA QueueTypes ==
    ASSUME NEW q \in QueueType
    PROVE  /\ q.ins \in Seq(Inputs) /\ Len(q.ins) \in Nat /\ q.tail \in Nat
           /\ q.pred \in Int /\ q.val \in Inputs /\ q.bad \in Int /\ q.req \in Int
           /\ Latest(q) \in Inputs
  <1>1. /\ q.ins \in Seq(Inputs) /\ q.tail \in Nat
        /\ q.pred \in Int /\ q.val \in Inputs /\ q.bad \in Int /\ q.req \in Int
    BY DEF QueueType
  <1>2. Len(q.ins) \in Nat
    BY <1>1, LenProperties
  <1>3. CASE q.ins = <<>>
    BY <1>1, <1>2, <1>3, RollbackAssumption DEF Latest
  <1>4. CASE q.ins # <<>>
    <2>1. Len(q.ins) \in 1..Len(q.ins)
      BY <1>1, <1>2, <1>4, EmptySeq
    <2>2. q.ins[Len(q.ins)] \in Inputs
      BY <1>1, <2>1, ElementOfSeq
    <2> QED BY <1>1, <1>2, <1>4, <2>2 DEF Latest
  <1> QED BY <1>3, <1>4

\* A queue that nothing was added to and nothing was asked of.
LEMMA NewQueueFacts == /\ NewQueue \in QueueType /\ QueueOK(NewQueue, 0)
                       /\ NewQueue.ins = <<>> /\ Len(NewQueue.ins) = 0
                       /\ NewQueue.bad = Null /\ NewQueue.tail = 0 /\ AskedOK(NewQueue, 0)
                       /\ \A p : Guessed(NewQueue, <<>>, p) /\ Right(NewQueue, <<>>, p)
  <1>1. Neutral \in Inputs /\ <<>> \in Seq(Inputs) /\ Len(<<>>) = 0
    BY RollbackAssumption, EmptySeq
  <1>2. NewQueue \in QueueType
    BY <1>1 DEF NewQueue, QueueType, Null
  <1>3. /\ NewQueue.ins = <<>> /\ NewQueue.bad = Null /\ NewQueue.tail = 0
        /\ NewQueue.pred = Null /\ NewQueue.req = Null /\ NewQueue.val = Neutral
    BY DEF NewQueue
  <1>4. QueueOK(NewQueue, 0) /\ AskedOK(NewQueue, 0)
    BY <1>1, <1>3 DEF QueueOK, AskedOK, Null
  <1>5. \A p : Guessed(NewQueue, <<>>, p) /\ Right(NewQueue, <<>>, p)
    BY <1>1, <1>3 DEF Guessed, Right, Null
  <1> QED BY <1>1, <1>2, <1>3, <1>4, <1>5

\* GetInput asks for the next frame, and the frame is run on what it answers.
LEMMA RequestKeeps ==
    ASSUME NEW q \in QueueType, NEW h \in History, NEW e \in Entry, NEW p \in Players,
           QueueOK(q, Len(h)), Guessed(q, h, p), Right(q, h, p), q.bad = Null,
           e.in[p] = GetInput(q, Len(h))
    PROVE  LET r == Requested(q, Len(h))
           IN /\ r \in QueueType /\ r.ins = q.ins /\ r.tail = q.tail /\ r.bad = q.bad
              /\ QueueOK(r, Len(h) + 1) /\ AskedOK(r, Len(h) + 1)
              /\ Guessed(r, Append(h, e), p) /\ Right(r, Append(h, e), p)
  <1> DEFINE n == Len(h)
             r == Requested(q, n)
             k == Append(h, e)
  <1>1. /\ n \in Nat /\ Len(k) = n + 1 /\ \A i \in 1..n : k[i] = h[i]
        /\ k[n + 1] = e
    BY HistoryAppend
  <1>2. /\ q.ins \in Seq(Inputs) /\ Len(q.ins) \in Nat /\ q.tail \in Nat
        /\ q.pred \in Int /\ q.val \in Inputs /\ q.bad \in Int /\ q.req \in Int
        /\ Latest(q) \in Inputs
    BY QueueTypes
  <1>3. /\ Null <= q.req /\ q.req < n
        /\ q.pred = Null \/ q.pred = Len(q.ins)
        /\ q.pred # Null => q.pred <= q.req
        /\ q.pred # Null => q.val = Latest(q)
        /\ \A f \in (Len(q.ins) + 1)..n : h[f].in[p] = Latest(q)
        /\ \A f \in 1..n : f <= Len(q.ins) => h[f].in[p] = q.ins[f]
    BY DEF QueueOK, Guessed, Right
  <1>4. e.in[p] = IF r.pred = Null THEN q.ins[n + 1] ELSE r.val
    BY DEF GetInput
  <1> HIDE DEF n, k
  <1>5. CASE q.pred = Null /\ n >= Len(q.ins)
    <2>1. r = [q EXCEPT !.req = n, !.pred = Len(q.ins), !.val = Latest(q)]
      BY <1>5 DEF Requested
    <2>2. /\ r \in QueueType /\ r.ins = q.ins /\ r.tail = q.tail /\ r.bad = q.bad
          /\ r.req = n /\ r.pred = Len(q.ins) /\ r.val = Latest(q)
      <3>1. n \in Int /\ Len(q.ins) \in Int
        BY <1>1, <1>2
      <3>2. r = [ins |-> q.ins, tail |-> q.tail, pred |-> Len(q.ins), val |-> Latest(q),
                 bad |-> q.bad, req |-> n]
        BY <2>1 DEF QueueType
      <3> HIDE DEF r
      <3>3. r \in QueueType
        BY <3>1, <3>2, <1>2 DEF QueueType
      <3> QED BY <3>2, <3>3
    <2>3. Latest(r) = Latest(q) /\ r.pred # Null
      BY <2>2, <1>2 DEF Latest, Null
    <2> HIDE DEF r
    <2>4. QueueOK(r, n + 1) /\ AskedOK(r, n + 1)
      BY <1>1, <1>2, <1>5, <2>2 DEF QueueOK, AskedOK, Null
    <2>5. e.in[p] = Latest(q)
      BY <1>4, <2>2, <2>3
    <2>6. Guessed(r, k, p)
      <3>1. \A f \in (Len(q.ins) + 1)..(n + 1) : k[f].in[p] = Latest(q)
        <4> TAKE f \in (Len(q.ins) + 1)..(n + 1)
        <4>1. CASE f = n + 1
          BY <4>1, <1>1, <2>5
        <4>2. CASE f # n + 1
          <5>1. f \in (Len(q.ins) + 1)..n /\ f \in 1..n
            BY <4>2, <1>1, <1>2
          <5> QED BY <5>1, <1>1, <1>3
        <4> QED BY <4>1, <4>2
      <3> QED BY <3>1, <1>1, <2>2, <2>3 DEF Guessed
    <2>7. Right(r, k, p)
      <3>1. \A f \in 1..(n + 1) : f <= Len(q.ins) => k[f].in[p] = q.ins[f]
        <4> SUFFICES ASSUME NEW f \in 1..(n + 1), f <= Len(q.ins) PROVE k[f].in[p] = q.ins[f]
          OBVIOUS
        <4>1. f \in 1..n
          BY <1>1, <1>2, <1>5
        <4> QED BY <4>1, <1>1, <1>3
      <3> QED BY <3>1, <1>1, <2>2 DEF Right
    <2> QED BY <2>2, <2>4, <2>6, <2>7 DEF r, n, k
  <1>6. CASE ~(q.pred = Null /\ n >= Len(q.ins))
    <2>1. r = [q EXCEPT !.req = n]
      BY <1>6 DEF Requested
    <2>2. /\ r \in QueueType /\ r.ins = q.ins /\ r.tail = q.tail /\ r.bad = q.bad
          /\ r.req = n /\ r.pred = q.pred /\ r.val = q.val
      BY <2>1, <1>1, <1>2 DEF QueueType
    <2>3. Latest(r) = Latest(q)
      BY <2>2 DEF Latest
    <2> HIDE DEF r
    <2>4. QueueOK(r, n + 1) /\ AskedOK(r, n + 1)
      BY <1>1, <1>2, <1>3, <1>6, <2>2 DEF QueueOK, AskedOK, Null
    <2>5. CASE q.pred = Null
      <3>1. e.in[p] = q.ins[n + 1] /\ n + 1 <= Len(q.ins)
        BY <1>1, <1>2, <1>4, <1>6, <2>2, <2>5
      <3>2. Guessed(r, k, p)
        BY <1>1, <1>2, <2>2, <2>3, <2>5, <3>1 DEF Guessed
      <3>3. \A f \in 1..(n + 1) : k[f].in[p] = q.ins[f]
        <4> TAKE f \in 1..(n + 1)
        <4>1. CASE f = n + 1
          BY <4>1, <1>1, <3>1
        <4>2. CASE f # n + 1
          <5>1. f \in 1..n /\ f <= Len(q.ins)
            BY <4>2, <1>1, <1>2, <3>1
          <5> QED BY <5>1, <1>1, <1>3
        <4> QED BY <4>1, <4>2
      <3>4. Right(r, k, p)
        BY <3>3, <1>1, <2>2 DEF Right
      <3> QED BY <2>2, <2>4, <3>2, <3>4 DEF r, n, k
    <2>6. CASE q.pred # Null
      <3>1. e.in[p] = Latest(q) /\ Len(q.ins) < n
        BY <1>1, <1>2, <1>3, <1>4, <2>2, <2>6
      <3>2. Guessed(r, k, p)
        <4>1. \A f \in (Len(q.ins) + 1)..(n + 1) : k[f].in[p] = Latest(q)
          <5> TAKE f \in (Len(q.ins) + 1)..(n + 1)
          <5>1. CASE f = n + 1
            BY <5>1, <1>1, <3>1
          <5>2. CASE f # n + 1
            <6>1. f \in (Len(q.ins) + 1)..n /\ f \in 1..n
              BY <5>2, <1>1, <1>2
            <6> QED BY <6>1, <1>1, <1>3
          <5> QED BY <5>1, <5>2
        <4> QED BY <4>1, <1>1, <1>3, <2>2, <2>3 DEF Guessed
      <3>3. \A f \in 1..(n + 1) : f <= Len(q.ins) => k[f].in[p] = q.ins[f]
        <4> SUFFICES ASSUME NEW f \in 1..(n + 1), f <= Len(q.ins) PROVE k[f].in[p] = q.ins[f]
          OBVIOUS
        <4>1. f \in 1..n
          BY <1>1, <1>2, <3>1
        <4> QED BY <4>1, <1>1, <1>3
      <3>4. Right(r, k, p)
        BY <3>3, <1>1, <2>2 DEF Right
      <3> QED BY <2>2, <2>4, <3>2, <3>4 DEF r, n, k
    <2> QED BY <2>5, <2>6
  <1> QED BY <1>5, <1>6

\* The filling of the first frames changes nothing that a player sees.
LEMMA PaddedKeeps ==
    ASSUME NEW q \in QueueType, NEW h \in History, NEW p \in Players, NEW m \in Nat \ {0},
           QueueOK(q, Len(h)), AskedOK(q, Len(h)), Guessed(q, h, p), Right(q, h, p)
    PROVE  LET r == Padded(q, m)
           IN /\ r \in QueueType /\ r.tail = q.tail /\ r.req = q.req /\ r.bad = q.bad /\ r.val = q.val
              /\ Len(r.ins) >= 1 /\ Len(r.ins) >= Len(q.ins)
              /\ \A i \in 1..Len(q.ins) : r.ins[i] = q.ins[i]
              /\ QueueOK(r, Len(h)) /\ AskedOK(r, Len(h)) /\ Guessed(r, h, p) /\ Right(r, h, p)
  <1> DEFINE n == Len(h)
             r == Padded(q, m)
  <1>1. n \in Nat
    BY LenProperties DEF History
  <1>2. /\ q.ins \in Seq(Inputs) /\ Len(q.ins) \in Nat /\ q.tail \in Nat
        /\ q.pred \in Int /\ q.val \in Inputs /\ q.bad \in Int /\ q.req \in Int
    BY QueueTypes
  <1>3. CASE q.ins # <<>>
    <2>1. r = q
      BY <1>3 DEF Padded
    <2>2. Len(q.ins) >= 1
      BY <1>2, <1>3, EmptySeq
    <2> QED BY <2>1, <2>2, <1>2
  <1>4. CASE q.ins = <<>>
    <2> DEFINE fill == [i \in 1..m |-> Neutral]
               pred == IF q.pred = Null \/ q.req < m THEN Null ELSE m
    <2>1. fill \in Seq(Inputs) /\ Len(fill) = m /\ \A i \in 1..m : fill[i] = Neutral
      BY RollbackAssumption
    <2>2. pred \in Int
      BY DEF Null
    <2>3. Len(q.ins) = 0
      BY <1>4, EmptySeq
    <2>4. r = [ins |-> fill, tail |-> q.tail, pred |-> pred, val |-> q.val, bad |-> q.bad, req |-> q.req]
      BY <1>4 DEF Padded, QueueType
    <2> HIDE DEF r, fill, n
    <2>5. /\ r \in QueueType /\ r.ins = fill /\ r.tail = q.tail /\ r.req = q.req
          /\ r.bad = q.bad /\ r.val = q.val /\ r.pred = pred
      <3> HIDE DEF pred
      <3>1. r \in QueueType
        BY <2>1, <2>2, <2>4, <1>2 DEF QueueType
      <3> QED BY <3>1, <2>4
    <2>6. /\ Null <= q.req /\ q.req < n /\ q.req = n - 1 /\ q.bad = Null
          /\ q.pred # Null => q.val = Neutral
          /\ (0 < n) => q.pred # Null
          /\ \A f \in 1..n : h[f].in[p] = Neutral
      <3>1. /\ Null <= q.req /\ q.req < n /\ q.req = n - 1
            /\ q.bad = Null \/ (1 <= q.bad /\ q.bad < 0)
            /\ q.bad = Null /\ 0 < n => q.pred # Null
        BY <2>3 DEF QueueOK, AskedOK, n
      <3>2. q.bad = Null
        BY <3>1, <1>2
      <3>3. /\ q.pred # Null => q.val = Latest(q)
            /\ \A f \in (0 + 1)..n : h[f].in[p] = Latest(q)
        BY <2>3, <3>2 DEF Guessed, n
      <3>4. Latest(q) = Neutral
        BY <1>4 DEF Latest
      <3> QED BY <3>1, <3>2, <3>3, <3>4
    <2>7. QueueOK(r, n)
      BY <2>1, <2>5, <2>6, <1>1, <1>2 DEF QueueOK, Null
    <2>8. AskedOK(r, n)
      BY <2>1, <2>5, <2>6, <1>1, <1>2 DEF AskedOK, Null
    <2>9. Latest(r) = Neutral
      <3>1. fill # <<>> /\ m \in 1..m
        BY <2>1
      <3> QED BY <3>1, <2>1, <2>5 DEF Latest
    <2>10. Guessed(r, h, p)
      <3>1. \A f \in (m + 1)..n : f \in 1..n
        BY <1>1
      <3>2. r.pred # Null => r.val = Neutral
        BY <2>5, <2>6
      <3> QED BY <3>1, <3>2, <2>1, <2>5, <2>6, <2>9 DEF Guessed, n
    <2>11. Right(r, h, p)
      <3>1. \A f \in 1..n : f <= m => f \in 1..m
        BY <1>1
      <3> QED BY <3>1, <2>1, <2>5, <2>6 DEF Right, n
    <2>12. Len(r.ins) >= 1 /\ Len(r.ins) >= Len(q.ins)
      BY <2>1, <2>3, <2>5
    <2>13. \A i \in 1..Len(q.ins) : r.ins[i] = q.ins[i]
      BY <2>3
    <2> QED BY <2>5, <2>7, <2>8, <2>10, <2>11, <2>12, <2>13 DEF r, n
  <1> QED BY <1>3, <1>4

\* An input is compared with the guess.
LEMMA DelayedKeeps ==
    ASSUME NEW q \in QueueType, NEW h \in History, NEW p \in Players, NEW x \in Inputs,
           QueueOK(q, Len(h)), AskedOK(q, Len(h)), Guessed(q, h, p), Right(q, h, p),
           Len(q.ins) >= 1
    PROVE  LET r == AddDelayedInput(q, x)
           IN /\ r \in QueueType /\ r.tail = q.tail /\ r.req = q.req
              /\ Len(r.ins) = Len(q.ins) + 1
              /\ \A i \in 1..Len(q.ins) : r.ins[i] = q.ins[i]
              /\ r.bad = q.bad \/ (q.bad = Null /\ q.pred # Null /\ r.bad = Len(q.ins))
              /\ QueueOK(r, Len(h)) /\ AskedOK(r, Len(h)) /\ Guessed(r, h, p) /\ Right(r, h, p)
  <1> DEFINE n    == Len(h)
             r    == AddDelayedInput(q, x)
             l    == Len(q.ins)
             ins  == Append(q.ins, x)
             bad  == IF q.pred # Null /\ q.bad = Null /\ q.val # x THEN l ELSE q.bad
             pred == IF q.pred = Null \/ (q.pred = q.req /\ bad = Null) THEN Null ELSE q.pred + 1
  <1>1. n \in Nat
    BY LenProperties DEF History
  <1>2. /\ q.ins \in Seq(Inputs) /\ l \in Nat /\ q.tail \in Nat
        /\ q.pred \in Int /\ q.val \in Inputs /\ q.bad \in Int /\ q.req \in Int
    BY QueueTypes
  <1>3. /\ ins \in Seq(Inputs) /\ Len(ins) = l + 1 /\ ins[l + 1] = x
        /\ \A i \in 1..l : ins[i] = q.ins[i]
    BY <1>2, AppendProperties
  <1>4. bad \in Int /\ pred \in Int
    BY <1>2 DEF Null
  <1>5. r = [ins |-> ins, tail |-> q.tail, pred |-> pred, val |-> q.val, bad |-> bad, req |-> q.req]
    <2>1. r = [q EXCEPT !.ins = ins, !.bad = bad, !.pred = pred]
      BY DEF AddDelayedInput
    <2> HIDE DEF r, ins, bad, pred
    <2> QED BY <2>1 DEF QueueType
  <1> HIDE DEF r, ins
  <1>6. /\ r \in QueueType /\ r.ins = ins /\ r.tail = q.tail /\ r.req = q.req
        /\ r.bad = bad /\ r.val = q.val /\ r.pred = pred
    <2> HIDE DEF pred, bad
    <2>1. r \in QueueType
      BY <1>2, <1>3, <1>4, <1>5 DEF QueueType
    <2> QED BY <2>1, <1>5
  <1>7. /\ q.req = n - 1 /\ 1 <= l
        /\ q.bad = Null \/ (1 <= q.bad /\ q.bad < l /\ q.bad < n)
        /\ q.pred = Null \/ q.pred = l
        /\ q.pred # Null /\ q.bad = Null => q.pred <= q.req
        /\ q.bad = Null /\ l < n => q.pred # Null
    BY DEF QueueOK, AskedOK
  <1>8. Latest(r) = x
    <2>1. ins # <<>> /\ Len(ins) = l + 1
      BY <1>3, <1>2
    <2> QED BY <2>1, <1>3, <1>6 DEF Latest
  <1>9. /\ q.bad = Null => /\ q.pred # Null => q.val = Latest(q)
                           /\ \A f \in (l + 1)..n : h[f].in[p] = Latest(q)
        /\ \A f \in 1..n : (f <= l /\ (q.bad = Null \/ f <= q.bad)) => h[f].in[p] = q.ins[f]
    BY DEF Guessed, Right
  <1> HIDE DEF n, l
  <1>10. QueueOK(r, n)
    BY <1>1, <1>2, <1>3, <1>6, <1>7 DEF QueueOK, Null
  <1>11. AskedOK(r, n)
    BY <1>1, <1>2, <1>3, <1>6, <1>7 DEF AskedOK, Null
  <1>12. bad = Null => q.bad = Null /\ (q.pred # Null => q.val = x)
    BY <1>2, <1>7 DEF Null
  <1>13. Guessed(r, h, p)
    <2> SUFFICES ASSUME bad = Null
                 PROVE  /\ pred # Null => q.val = x
                        /\ \A f \in (l + 2)..n : h[f].in[p] = x
      <3>1. Len(r.ins) + 1 = l + 2
        BY <1>2, <1>3, <1>6
      <3> QED BY <3>1, <1>6, <1>8 DEF Guessed, n
    <2>1. pred # Null => q.pred # Null
      OBVIOUS
    <2>2. \A f \in (l + 2)..n : h[f].in[p] = x
      <3> TAKE f \in (l + 2)..n
      <3>1. f \in (l + 1)..n /\ l < n
        BY <1>1, <1>2
      <3>2. q.pred # Null
        BY <3>1, <1>7, <1>12
      <3>3. h[f].in[p] = Latest(q)
        BY <3>1, <1>9, <1>12
      <3> QED BY <3>2, <3>3, <1>9, <1>12
    <2> QED BY <2>1, <2>2, <1>12
  <1>14. Right(r, h, p)
    <2> SUFFICES ASSUME NEW f \in 1..n, f <= l + 1, bad = Null \/ f <= bad
                 PROVE  h[f].in[p] = ins[f]
      BY <1>3, <1>6 DEF Right, n
    <2>1. CASE f <= l
      <3>1. q.bad = Null \/ f <= q.bad
        OBVIOUS
      <3>2. f \in 1..l
        BY <2>1, <1>1, <1>2
      <3> QED BY <3>1, <3>2, <2>1, <1>3, <1>9
    <2>2. CASE ~(f <= l)
      <3>1. f = l + 1 /\ l < n
        BY <2>2, <1>1, <1>2
      <3>2. bad = Null
        BY <3>1, <1>2, <1>7
      <3>3. q.pred # Null
        BY <3>1, <3>2, <1>7, <1>12
      <3>4. f \in (l + 1)..n
        BY <3>1, <1>1, <1>2
      <3> QED BY <3>1, <3>2, <3>3, <3>4, <1>3, <1>9, <1>12
    <2> QED BY <2>1, <2>2
  <1> QED BY <1>3, <1>6, <1>10, <1>11, <1>13, <1>14 DEF r, n, l

\* An input of a connected player: its queue keeps its part of the invariant, and a
\* mistake that is found is in a frame that was not known.
LEMMA AddInputKeeps ==
    ASSUME TypeOK, NEW p \in Players \ gone, NEW x \in Inputs, pc # "replay",
           QueueOK(queue[p], Len(cpu)), GuessInv(p)
    PROVE  LET q == queue[p]
               r == AddInput(p, x)
           IN /\ r \in QueueType /\ r.tail = q.tail /\ r.req = q.req
              /\ Len(q.ins) < Len(r.ins) /\ 2 <= Len(r.ins)
              /\ \A i \in 1..Len(q.ins) : r.ins[i] = q.ins[i]
              /\ r.bad = q.bad \/ (q.bad = Null /\ Len(q.ins) <= r.bad)
              /\ QueueOK(r, Len(cpu)) /\ AskedOK(r, Len(cpu))
              /\ Guessed(r, cpu, p) /\ Right(r, cpu, p)
  <1> DEFINE q == queue[p]
             m == 1 + Delay[p]
             t == Padded(q, m)
             r == AddDelayedInput(t, x)
  <1>1. /\ q \in QueueType /\ cpu \in History /\ p \in Players /\ m \in Nat \ {0}
    BY RollbackAssumption DEF TypeOK
  <1>2. AskedOK(q, Len(cpu)) /\ Guessed(q, cpu, p) /\ Right(q, cpu, p) /\ QueueOK(q, Len(cpu))
    BY DEF GuessInv
  <1>3. r = AddInput(p, x)
    BY DEF AddInput
  <1> HIDE DEF q, m, r, t
  <1>4. /\ t \in QueueType /\ t.tail = q.tail /\ t.req = q.req /\ t.bad = q.bad
        /\ Len(t.ins) >= 1 /\ Len(t.ins) >= Len(q.ins)
        /\ \A i \in 1..Len(q.ins) : t.ins[i] = q.ins[i]
        /\ QueueOK(t, Len(cpu)) /\ AskedOK(t, Len(cpu)) /\ Guessed(t, cpu, p) /\ Right(t, cpu, p)
    BY <1>1, <1>2, PaddedKeeps DEF t
  <1>5. /\ r \in QueueType /\ r.tail = t.tail /\ r.req = t.req
        /\ Len(r.ins) = Len(t.ins) + 1
        /\ \A i \in 1..Len(t.ins) : r.ins[i] = t.ins[i]
        /\ r.bad = t.bad \/ (t.bad = Null /\ t.pred # Null /\ r.bad = Len(t.ins))
        /\ QueueOK(r, Len(cpu)) /\ AskedOK(r, Len(cpu)) /\ Guessed(r, cpu, p) /\ Right(r, cpu, p)
    BY <1>1, <1>4, DelayedKeeps DEF r
  <1>6. Len(q.ins) \in Nat /\ Len(t.ins) \in Nat
    BY <1>1, <1>4, QueueTypes
  <1>7. /\ Len(q.ins) < Len(r.ins) /\ 2 <= Len(r.ins)
        /\ \A i \in 1..Len(q.ins) : r.ins[i] = q.ins[i]
    <2>1. \A i \in 1..Len(q.ins) : i \in 1..Len(t.ins)
      BY <1>4, <1>6
    <2> QED BY <1>4, <1>5, <1>6, <2>1
  <1>8. r.bad = q.bad \/ (q.bad = Null /\ Len(q.ins) <= r.bad)
    BY <1>4, <1>5, <1>6
  <1> QED BY <1>3, <1>4, <1>5, <1>7, <1>8 DEF q

\* The first mistake that is known is one of them.
LEMMA SeekToIsFirst ==
    ASSUME TypeOK, \A p \in Players : QueueOK(queue[p], Len(cpu)), Incorrect # {}
    PROVE  /\ \E p \in Players \ gone : SeekTo = queue[p].bad /\ SeekTo # Null
           /\ \A p \in Players \ gone : queue[p].bad = Null \/ SeekTo <= queue[p].bad
           /\ SeekTo \in Nat /\ 1 <= SeekTo /\ SeekTo < Len(cpu)
  <1>1. \A p \in Players : /\ queue[p].bad \in Int /\ queue[p] \in QueueType
                           /\ queue[p].bad = Null \/ (1 <= queue[p].bad /\ queue[p].bad < Len(cpu))
    <2> TAKE p \in Players
    <2>1. queue[p] \in QueueType
      BY DEF TypeOK
    <2> QED BY <2>1, QueueTypes DEF QueueOK
  <1>2. Incorrect \subseteq Nat
    BY <1>1 DEF Incorrect, Null
  <1>3. SeekTo \in Incorrect /\ \A g \in Incorrect : SeekTo <= g
    BY <1>2, Least DEF SeekTo
  <1>4. PICK p \in Players \ gone : SeekTo = queue[p].bad /\ SeekTo # Null
    BY <1>3 DEF Incorrect
  <1>5. \A o \in Players \ gone : queue[o].bad = Null \/ SeekTo <= queue[o].bad
    BY <1>3 DEF Incorrect
  <1> QED BY <1>1, <1>2, <1>3, <1>4, <1>5

-----------------------------------------------------------------------------
(***************************************************************************)
(* The invariant holds at first, and at the beginning of every session.    *)
(***************************************************************************)
Fresh ==
    /\ pc \in {"run", "closed"} /\ polls = 0 /\ framecount = 0 /\ confirmed = Null /\ goal = 0
    /\ saved = NoStates /\ head = 0 /\ queue = [p \in Players |-> NewQueue] /\ gone = {}
    /\ cpu = <<>> /\ mem = [p \in Pages |-> <<>>]
    /\ watch = NoPages
    /\ IF pc = "run" THEN prot = Pages /\ started = TRUE ELSE prot = {} /\ started = FALSE
    /\ lastSaved \in Frames /\ delta \in [Frames -> [Pages -> Opt]] /\ skipped \in [Frames -> Nat]
    /\ sessions \in 1..MaxSessions

\* The constants, and the values that the buffers start with.
LEMMA SmallFacts ==
    /\ Ring \in Nat /\ Ring >= 2 /\ MaxPrediction \in Nat /\ MaxPrediction >= 2 /\ MaxPrediction <= Ring
    /\ 0 \in Slots /\ 0 \in Frames /\ Local \in Players /\ MaxFrames \in Nat
    /\ <<>> \in History /\ <<>> \in Opt /\ Len(<<>>) = 0 /\ NoPages \in [Pages -> Opt]
    /\ \A h \in History : <<h>> \in Opt /\ Len(<<h>>) = 1
  <1>1. /\ Ring \in Nat /\ Ring >= 2 /\ MaxPrediction \in Nat /\ MaxPrediction >= 2 /\ MaxPrediction <= Ring
        /\ Local \in Players /\ MaxFrames \in Nat
    BY RollbackAssumption
  <1>2. /\ <<>> \in History /\ <<>> \in Opt /\ Len(<<>>) = 0
    BY EmptySeq DEF History, Opt
  <1>3. \A h \in History : <<h>> \in Opt /\ Len(<<h>>) = 1
    BY DEF Opt
  <1> QED BY <1>1, <1>2, <1>3 DEF Slots, Frames, NoPages

\* The session before its first frame.
LEMMA FreshInv == Fresh => BattleInv
  <1> SUFFICES ASSUME Fresh PROVE BattleInv
    OBVIOUS
  <1> USE DEF Fresh
  <1>1. \A p \in Players : queue[p] = NewQueue
    OBVIOUS
  <1>2. TypeOK
    <2>1. queue \in [Players -> QueueType]
      BY NewQueueFacts
    <2>2. saved \in [Slots -> [frame : Frames \union {Null}, buf : Opt]]
      BY SmallFacts DEF NoStates
    <2>3. mem \in [Pages -> History] /\ cpu \in History /\ watch \in [Pages -> Opt]
      BY SmallFacts
    <2>4. /\ pc \in {"run", "advance", "events", "confirm", "replay", "resave", "input", "closed"}
          /\ polls \in 0..2 /\ framecount \in Frames /\ confirmed \in Int /\ goal \in Frames
          /\ head \in Slots /\ gone \subseteq Remotes
      BY SmallFacts DEF Null
    <2>5. prot \subseteq Pages /\ started \in BOOLEAN
      OBVIOUS
    <2> QED BY <2>1, <2>2, <2>3, <2>4, <2>5 DEF TypeOK
  <1>3. Control /\ Target = 0
    BY SmallFacts DEF Control, Ran, Replaying, Target
  <1>4. RingInv
    <2> SUFFICES ASSUME NEW s \in Slots PROVE RingHolds(s) /\ StateOf(s)
      BY DEF RingInv
    <2>1. saved[s].frame = Null /\ saved[s].buf = <<>>
      BY DEF NoStates
    <2>2. Held(s) < 1
      BY <1>3, SmallFacts DEF Held, Back, Slots
    <2>3. ~(Held(s) >= 1) /\ ~(1 <= saved[s].frame)
      <3>1. Held(s) \in Int
        BY <1>3, SmallFacts DEF Held, Back, Slots
      <3> QED BY <2>1, <2>2, <3>1 DEF Null
    <2> QED BY <2>1, <2>3 DEF RingHolds, StateOf
  <1>5. DeltaInv
    BY SmallFacts DEF DeltaInv, Frames
  <1>6. WatchInv
    BY DEF WatchInv, Ran
  <1>7. LocalInv
    BY <1>1, <1>3, SmallFacts, NewQueueFacts DEF LocalInv, Due, Null
  <1>8. RollbackExact
    <2>1. Memory(<<>>) = [p \in Pages |-> Memory(<<>>)[p]]
      BY DEF Memory
    <2>2. ASSUME NEW p \in Pages PROVE Memory(<<>>)[p] = <<>>
      <3>1. Writes(<<>>, p) = {}
        BY SmallFacts DEF Writes
      <3> QED BY <3>1, SmallFacts, MemoryOf
    <2> QED BY <2>1, <2>2 DEF RollbackExact
  <1>9. \A p \in Players : QueueOK(queue[p], Len(cpu))
    BY <1>1, NewQueueFacts, SmallFacts
  <1>10. \A p \in Players \ gone : GuessInv(p)
    BY <1>1, NewQueueFacts, SmallFacts DEF GuessInv
  <1>11. \A p \in Players \ gone : ConfirmInv(p)
    BY <1>1, NewQueueFacts DEF ConfirmInv, Null
  <1> QED BY <1>2, <1>3, <1>4, <1>5, <1>6, <1>7, <1>8, <1>9, <1>10, <1>11 DEF BattleInv

\* The first session starts like that.
LEMMA InvInit == Init => BattleInv
  <1> SUFFICES ASSUME Init PROVE Fresh
    BY FreshInv
  <1>1. delta \in [Frames -> [Pages -> Opt]] /\ skipped \in [Frames -> Nat] /\ lastSaved \in Frames
    BY SmallFacts DEF Init
  <1>2. sessions \in 1..MaxSessions
    BY RollbackAssumption DEF Init
  <1> QED BY <1>1, <1>2 DEF Init, Fresh

\* stopSession() leaves the next one to start like that.
LEMMA StopInv == BattleInv /\ StopSession => BattleInv'
  <1> SUFFICES ASSUME BattleInv, StopSession PROVE Fresh'
    BY FreshInv, PTL
  <1>1. delta' \in [Frames -> [Pages -> Opt]] /\ skipped' \in [Frames -> Nat]
    BY SmallFacts DEF BattleInv, TypeOK, StopSession
  <1>2. lastSaved' \in Frames /\ sessions' \in 1..MaxSessions
    BY DEF BattleInv, TypeOK, StopSession
  <1> QED BY <1>1, <1>2 DEF StopSession, Fresh, sync, vm, guard

-----------------------------------------------------------------------------
(***************************************************************************)
(* The actions between two frames, which leave the console and the saved   *)
(* states alone.                                                           *)
(***************************************************************************)
LEMMA BattleFacts ==
    ASSUME BattleInv
    PROVE  /\ TypeOK /\ Control /\ RingInv /\ DeltaInv /\ WatchInv /\ LocalInv /\ RollbackExact
           /\ \A p \in Players : QueueOK(queue[p], Len(cpu)) /\ queue[p] \in QueueType
                                 /\ Len(queue[p].ins) \in Nat /\ queue[p].tail \in Nat
           /\ \A p \in Players \ gone : GuessInv(p) /\ ConfirmInv(p)
           /\ framecount \in Nat /\ framecount <= MaxFrames /\ goal \in Nat /\ goal <= MaxFrames
           /\ confirmed \in Int /\ polls \in 0..2 /\ head \in Slots /\ cpu \in History
           /\ Len(cpu) \in Nat /\ lastSaved \in Nat /\ mem \in [Pages -> History]
           /\ Local \in Players \ gone /\ gone \subseteq Players
  <1>1. BattleInv
    OBVIOUS
  <1>2. Len(cpu) \in Nat
    BY <1>1, LenProperties DEF BattleInv, TypeOK, History
  <1>3. \A p \in Players : queue[p] \in QueueType
    BY <1>1 DEF BattleInv, TypeOK
  <1>4. Local \in Players \ gone /\ gone \subseteq Players
    BY <1>1, SmallFacts DEF BattleInv, TypeOK, Remotes
  <1>5. /\ framecount \in Nat /\ framecount <= MaxFrames /\ goal \in Nat /\ goal <= MaxFrames
        /\ lastSaved \in Nat
    BY <1>1, SmallFacts DEF BattleInv, TypeOK, Frames
  <1> QED BY <1>1, <1>2, <1>3, <1>4, <1>5, QueueTypes DEF BattleInv, TypeOK

Steady == UNCHANGED <<saved, head, framecount, cpu, mem, delta>> /\ Target' = Target
Quiet  == Steady /\ UNCHANGED <<prot, watch, started>> /\ (Ran' <=> Ran)

\* A step that leaves the console and the states alone keeps what is said of them.
LEMMA SteadyKeeps ==
    ASSUME BattleInv, Steady
    PROVE  RingInv' /\ DeltaInv' /\ RollbackExact'
  <1>1. RingInv'
    <2>1. \A s \in Slots : RingHolds(s)' /\ StateOf(s)'
      <3> TAKE s \in Slots
      <3>1. RingHolds(s) /\ StateOf(s)
        BY BattleFacts DEF RingInv
      <3>2. Held(s)' = Held(s)
        BY DEF Held, Back, Steady
      <3> QED BY <3>1, <3>2 DEF RingHolds, StateOf, Steady
    <2> QED BY <2>1 DEF RingInv
  <1>2. DeltaInv'
    <2> SUFFICES ASSUME NEW g \in Frames, 1 <= g, Target - Ring < g, g < framecount
                 PROVE  delta[g] = Written(cpu, g + 1)
      BY DEF DeltaInv, Steady
    <2> QED BY BattleFacts DEF DeltaInv
  <1>3. RollbackExact'
    <2>1. mem' = mem /\ cpu' = cpu
      BY DEF Steady
    <2>2. mem = Memory(cpu)
      BY BattleFacts DEF RollbackExact
    <2>3. mem' = Memory(cpu')
      BY <2>1, <2>2
    <2> QED BY <2>3 DEF RollbackExact
  <1> QED BY <1>1, <1>2, <1>3

\* Nor does it disturb the watcher, if it leaves that alone.
LEMMA QuietKeeps ==
    ASSUME BattleInv, Quiet
    PROVE  RingInv' /\ DeltaInv' /\ WatchInv' /\ RollbackExact'
  <1>1. WatchInv'
    BY BattleFacts DEF WatchInv, Quiet, Steady, Written, Memory
  <1> QED BY <1>1, SteadyKeeps DEF Quiet

\* What is left to show for an action that leaves the console alone.
LEMMA QuietInv ==
    ASSUME BattleInv, Quiet, TypeOK', Control', LocalInv',
           \A p \in Players : QueueOK(queue[p], Len(cpu))',
           \A p \in (Players \ gone)' : GuessInv(p)' /\ ConfirmInv(p)'
    PROVE  BattleInv'
  BY QuietKeeps DEF BattleInv

\* nextFrame() is refused at the prediction barrier.
LEMMA RefusedInv == BattleInv /\ Refused => BattleInv'
  <1> SUFFICES ASSUME BattleInv, Refused PROVE BattleInv'
    OBVIOUS
  <1>1. /\ pc = "input" /\ pc' = "events" /\ polls' = 1
        /\ UNCHANGED <<framecount, confirmed, goal, saved, head, queue, gone, lastSaved, delta, skipped,
                       cpu, mem, prot, watch, started, sessions>>
    BY DEF Refused, sync, ggpo, vm, guard
  <1>2. Quiet
    BY <1>1 DEF Quiet, Steady, Target, Ran, Replaying
  <1>3. TypeOK'
    BY <1>1, BattleFacts DEF TypeOK
  <1>4. Control'
    BY <1>1, BattleFacts DEF Control, Ran, Replaying
  <1>5. LocalInv'
    BY <1>1, BattleFacts DEF LocalInv, Due, Target, Replaying
  <1>6. \A p \in Players : QueueOK(queue[p], Len(cpu))'
    BY <1>1, BattleFacts
  <1>7. \A p \in (Players \ gone)' : GuessInv(p)' /\ ConfirmInv(p)'
    BY <1>1, BattleFacts DEF GuessInv, ConfirmInv
  <1> QED BY <1>2, <1>3, <1>4, <1>5, <1>6, <1>7, QuietInv

\* gdxsvStartSession() and emu.start(): the session that was closed is fresh again.
LEMMA StartSessionInv == BattleInv /\ StartSession => BattleInv'
  <1> SUFFICES ASSUME BattleInv, StartSession PROVE BattleInv'
    OBVIOUS
  <1>1. /\ pc = "closed" /\ pc' = "run" /\ sessions' = sessions + 1 /\ sessions < MaxSessions
        /\ prot' = Pages /\ started' = TRUE
        /\ UNCHANGED <<polls, framecount, confirmed, goal, saved, head, queue, gone, lastSaved, delta,
                       skipped, cpu, mem, watch>>
    BY DEF StartSession, sync, ggpo, vm
  <1>2. /\ Target' = Target /\ framecount = 0 /\ watch = NoPages /\ ~Ran /\ ~Ran'
    <2>1. WatchInv /\ Control
      BY BattleFacts
    <2> QED BY <1>1, <2>1 DEF WatchInv, Control, Target, Ran, Replaying
  <1>3. TypeOK'
    <2>1. sessions' \in 1..MaxSessions
      BY <1>1, BattleFacts, RollbackAssumption DEF TypeOK
    <2> QED BY <1>1, <2>1, BattleFacts DEF TypeOK
  <1>4. Control'
    BY <1>1, BattleFacts DEF Control, Ran, Replaying
  <1>5. LocalInv'
    BY <1>1, <1>2, BattleFacts, SmallFacts DEF LocalInv, Due, Target, Replaying
  <1>6. \A p \in Players : QueueOK(queue[p], Len(cpu))'
    BY <1>1, BattleFacts
  <1>7. \A p \in (Players \ gone)' : GuessInv(p)' /\ ConfirmInv(p)'
    BY <1>1, BattleFacts DEF GuessInv, ConfirmInv
  <1>8. RingInv' /\ DeltaInv' /\ RollbackExact'
    BY <1>1, <1>2, SteadyKeeps DEF Steady
  <1>9. WatchInv'
    BY <1>1, <1>2 DEF WatchInv
  <1> QED BY <1>3, <1>4, <1>5, <1>6, <1>7, <1>8, <1>9 DEF BattleInv

\* Players leave, wherever the emulation is: what was guessed for them stays.
LEMMA GoneInv ==
    ASSUME BattleInv, gone \subseteq gone', gone' \subseteq Remotes,
           UNCHANGED <<pc, polls, sync, queue, ggpo, vm, guard, sessions>>
    PROVE  BattleInv'
  <1>1. UNCHANGED <<pc, polls, framecount, confirmed, goal, saved, head, queue, lastSaved, delta, skipped,
                    cpu, mem, prot, watch, started, sessions>>
    BY DEF sync, ggpo, vm, guard
  <1>2. Quiet
    BY <1>1 DEF Quiet, Steady, Target, Ran, Replaying
  <1>3. TypeOK'
    BY <1>1, BattleFacts DEF TypeOK
  <1>4. Control'
    BY <1>1, BattleFacts DEF Control, Ran, Replaying
  <1>5. LocalInv'
    BY <1>1, BattleFacts DEF LocalInv, Due, Target, Replaying
  <1>6. \A p \in Players : QueueOK(queue[p], Len(cpu))'
    BY <1>1, BattleFacts
  <1>7. \A p \in (Players \ gone)' : GuessInv(p)' /\ ConfirmInv(p)'
    BY <1>1, BattleFacts DEF GuessInv, ConfirmInv
  <1> QED BY <1>2, <1>3, <1>4, <1>5, <1>6, <1>7, QuietInv

\* A peer that left or timed out is dropped.
LEMMA DisconnectInv == ASSUME BattleInv, NEW o \in Remotes, Disconnect(o) PROVE BattleInv'
  <1>1. gone \subseteq gone' /\ gone' \subseteq Remotes
    BY BattleFacts DEF Disconnect, TypeOK
  <1> QED BY <1>1, GoneInv DEF Disconnect

\* All peers are dropped.
LEMMA LeaveInv == BattleInv /\ Leave => BattleInv'
  <1> SUFFICES ASSUME BattleInv, Leave PROVE BattleInv'
    OBVIOUS
  <1>1. gone \subseteq gone' /\ gone' \subseteq Remotes
    BY BattleFacts DEF Leave, TypeOK
  <1> QED BY <1>1, GoneInv DEF Leave

\* Of the player whose input is added, and of the others.
LEMMA InputKeeps ==
    ASSUME BattleInv, NEW o \in Players \ gone, NEW x \in Inputs, pc # "replay",
           queue' = [queue EXCEPT ![o] = AddInput(o, x)],
           UNCHANGED <<framecount, confirmed, cpu, gone>>, pc' # "replay",
           pc' # "events" => queue'[o].bad = Null /\ \A p \in Players \ gone : queue[p].bad = Null
    PROVE  /\ queue' \in [Players -> QueueType]
           /\ \A p \in Players : QueueOK(queue[p], Len(cpu))'
           /\ \A p \in (Players \ gone)' : GuessInv(p)' /\ ConfirmInv(p)'
           /\ Len(queue[o].ins) < Len(queue'[o].ins) /\ 2 <= Len(queue'[o].ins)
  <1> DEFINE r == AddInput(o, x)
             q == queue[o]
  <1>1. TypeOK /\ QueueOK(q, Len(cpu)) /\ GuessInv(o) /\ ConfirmInv(o)
    BY BattleFacts
  <1>2. /\ r \in QueueType /\ r.tail = q.tail /\ r.req = q.req
        /\ Len(q.ins) < Len(r.ins) /\ 2 <= Len(r.ins)
        /\ r.bad = q.bad \/ (q.bad = Null /\ Len(q.ins) <= r.bad)
        /\ QueueOK(r, Len(cpu)) /\ AskedOK(r, Len(cpu))
        /\ Guessed(r, cpu, o) /\ Right(r, cpu, o)
    BY <1>1, AddInputKeeps
  <1>3. queue'[o] = r /\ \A p \in Players : p # o => queue'[p] = queue[p]
    BY BattleFacts DEF TypeOK
  <1> HIDE DEF r, q
  <1>4. /\ Len(q.ins) \in Nat /\ Len(r.ins) \in Nat /\ r.bad \in Int
        /\ confirmed \in Int
    BY <1>2, BattleFacts, QueueTypes DEF q
  <1>5. queue' \in [Players -> QueueType]
    BY <1>2, BattleFacts DEF TypeOK, r
  <1>6. \A p \in Players : QueueOK(queue[p], Len(cpu))'
    <2> TAKE p \in Players
    <2>1. CASE p = o
      BY <2>1, <1>2, <1>3
    <2>2. CASE p # o
      BY <2>2, <1>3, BattleFacts
    <2> QED BY <2>1, <2>2
  <1>7. GuessInv(o)'
    BY <1>2, <1>3 DEF GuessInv
  <1>8. ConfirmInv(o)'
    <2>1. /\ confirmed < Len(q.ins) /\ (q.bad # Null => confirmed < q.bad)
          /\ q.tail = 0 \/ q.tail <= confirmed
          /\ q.tail <= framecount
      BY <1>1 DEF ConfirmInv, q
    <2>2. confirmed < Len(r.ins) /\ (r.bad # Null => confirmed < r.bad)
      BY <1>2, <1>4, <2>1
    <2> QED BY <1>2, <1>3, <2>1, <2>2 DEF ConfirmInv
  <1>9. \A p \in Players \ gone : p # o => GuessInv(p)' /\ ConfirmInv(p)'
    <2> SUFFICES ASSUME NEW p \in Players \ gone, p # o PROVE GuessInv(p)' /\ ConfirmInv(p)'
      OBVIOUS
    <2>1. GuessInv(p) /\ ConfirmInv(p) /\ queue'[p] = queue[p]
      BY <1>3, BattleFacts
    <2>2. GuessInv(p)'
      BY <2>1 DEF GuessInv
    <2>3. ConfirmInv(p)'
      BY <2>1 DEF ConfirmInv
    <2> QED BY <2>2, <2>3
  <1> QED BY <1>2, <1>3, <1>5, <1>6, <1>7, <1>8, <1>9 DEF q

\* An input arrives and is compared with what was predicted.
LEMMA ReceiveInv ==
    ASSUME BattleInv, NEW o \in Remotes, NEW x \in Moves[o], Receive(o, x) PROVE BattleInv'
  <1>1. /\ pc = "events" /\ o \in Players \ gone /\ o # Local /\ x \in Inputs
        /\ queue' = [queue EXCEPT ![o] = AddInput(o, x)]
        /\ UNCHANGED <<pc, polls, framecount, confirmed, goal, saved, head, gone, lastSaved, delta, skipped,
                       cpu, mem, prot, watch, started, sessions>>
    BY RollbackAssumption DEF Receive, sync, ggpo, vm, guard, Remotes
  <1>2. /\ queue' \in [Players -> QueueType]
        /\ \A p \in Players : QueueOK(queue[p], Len(cpu))'
        /\ \A p \in (Players \ gone)' : GuessInv(p)' /\ ConfirmInv(p)'
    BY <1>1, InputKeeps
  <1>3. Quiet
    BY <1>1 DEF Quiet, Steady, Target, Ran, Replaying
  <1>4. TypeOK'
    BY <1>1, <1>2, BattleFacts DEF TypeOK
  <1>5. Control'
    BY <1>1, BattleFacts DEF Control, Ran, Replaying
  <1>6. LocalInv'
    <2>1. queue'[Local] = queue[Local]
      BY <1>1, BattleFacts DEF TypeOK
    <2> QED BY <1>1, <2>1, BattleFacts DEF LocalInv, Due, Target, Replaying
  <1> QED BY <1>2, <1>3, <1>4, <1>5, <1>6, QuietInv

\* The local input is accepted: the next frame is within the prediction.
LEMMA AddLocalInputInv ==
    ASSUME BattleInv, NEW x \in Moves[Local], AddLocalInput(x) PROVE BattleInv'
  <1>1. /\ pc = "input" /\ pc' = "run" /\ x \in Inputs /\ ~PredictionBarrier
        /\ queue' = [queue EXCEPT ![Local] = AddInput(Local, x)]
        /\ UNCHANGED <<polls, framecount, confirmed, goal, saved, head, gone, lastSaved, delta, skipped,
                       cpu, mem, prot, watch, started, sessions>>
    BY RollbackAssumption DEF AddLocalInput, sync, ggpo, vm, guard
  <1> DEFINE q == queue[Local]
             r == AddInput(Local, x)
  <1>2. \A p \in Players \ gone : queue[p].bad = Null
    BY <1>1, BattleFacts DEF GuessInv
  <1>3. Local \in Players \ gone /\ queue'[Local] = r
    BY <1>1, BattleFacts DEF TypeOK
  <1>4. Len(cpu) = framecount /\ framecount >= 1 /\ started
    BY <1>1, BattleFacts DEF Control, Ran
  <1>5. Len(q.ins) >= framecount \/ (q.ins = <<>> /\ framecount <= 1)
    BY <1>1, BattleFacts DEF LocalInv, Due, Target, Replaying
  <1>6. r.bad = Null
    <2>1. /\ r.bad = q.bad \/ (q.bad = Null /\ Len(q.ins) <= r.bad)
          /\ QueueOK(r, Len(cpu)) /\ r \in QueueType
      BY <1>1, <1>3, BattleFacts, AddInputKeeps
    <2> HIDE DEF r
    <2>2. r.bad \in Int /\ Len(q.ins) \in Nat
      BY <2>1, <1>3, BattleFacts, QueueTypes
    <2>3. r.bad = Null \/ (1 <= r.bad /\ r.bad < framecount)
      BY <2>1, <1>4 DEF QueueOK
    <2>4. framecount \in Nat
      BY BattleFacts
    <2> QED BY <1>2, <1>3, <1>5, <2>1, <2>2, <2>3, <2>4
  <1>7. /\ queue' \in [Players -> QueueType]
        /\ \A p \in Players : QueueOK(queue[p], Len(cpu))'
        /\ \A p \in (Players \ gone)' : GuessInv(p)' /\ ConfirmInv(p)'
        /\ Len(q.ins) < Len(queue'[Local].ins) /\ 2 <= Len(queue'[Local].ins)
    BY <1>1, <1>2, <1>3, <1>6, InputKeeps
  <1> HIDE DEF r
  <1>8. Quiet
    BY <1>1 DEF Quiet, Steady, Target, Ran, Replaying
  <1>9. TypeOK'
    BY <1>1, <1>7, BattleFacts DEF TypeOK
  <1>10. Control'
    BY <1>1, BattleFacts DEF Control, Ran, Replaying
  <1>11. LocalInv'
    <2>1. Len(queue'[Local].ins) >= framecount + 1
      <3>1. queue'[Local] \in QueueType /\ Len(queue'[Local].ins) \in Nat /\ Len(q.ins) \in Nat
        BY <1>7, <1>3, BattleFacts, QueueTypes
      <3>2. framecount \in Nat
        BY BattleFacts
      <3>3. q.ins = <<>> => Len(q.ins) = 0
        BY SmallFacts
      <3> QED BY <3>1, <3>2, <3>3, <1>5, <1>7
    <2>2. framecount + 1 <= MaxPrediction \/ framecount + 1 - confirmed <= MaxPrediction
      BY <1>1, BattleFacts, SmallFacts DEF PredictionBarrier
    <2>3. Null <= confirmed
      BY BattleFacts DEF LocalInv
    <2>4. Due' = framecount + 1
      BY <1>1 DEF Due
    <2>5. (Len(queue[Local].ins) >= Due)'
      BY <2>1, <2>4
    <2>6. (Due <= MaxPrediction \/ Due - confirmed <= MaxPrediction)'
      <3>1. confirmed' = confirmed /\ framecount \in Int /\ confirmed \in Int /\ MaxPrediction \in Int
        BY <1>1, BattleFacts, SmallFacts
      <3> QED BY <2>2, <2>4, <3>1
    <2>7. (Null <= confirmed)'
      BY <1>1, <2>3
    <2> QED BY <2>5, <2>6, <2>7 DEF LocalInv
  <1> QED BY <1>7, <1>8, <1>9, <1>10, <1>11, QuietInv

\* Confirming more frames brings the limit of the prediction no nearer.
LEMMA Nearer ==
    ASSUME NEW a \in Int, NEW b \in Int, NEW c \in Int, NEW m \in Int,
           b <= c, a <= m \/ a - b <= m
    PROVE  a <= m \/ a - c <= m
  OBVIOUS

\* SetLastConfirmedFrame: what it discards is asked for no more.
LEMMA SetLastConfirmedInv ==
    ASSUME BattleInv, NEW n \in Null..LastFrame(Local), SetLastConfirmedFrame(n) PROVE BattleInv'
  <1>1. /\ pc = "confirm" \/ (pc = "events" /\ Incorrect = {})
        /\ IsMinConfirmed(n)
        /\ confirmed' = IF n >= 0 THEN n ELSE confirmed
        /\ queue' = [p \in Players |-> IF n > 0 THEN DiscardConfirmedFrames(queue[p], n - 1) ELSE queue[p]]
        /\ polls' = polls - 1 /\ pc' = IF polls = 1 THEN "input" ELSE "events"
        /\ UNCHANGED <<framecount, goal, saved, head, gone, lastSaved, delta, skipped,
                       cpu, mem, prot, watch, started, sessions>>
    BY DEF SetLastConfirmedFrame, ggpo, vm, guard
  <1>2. n \in Int /\ Null <= n
    BY BattleFacts DEF LastFrame, Null
  <1>3. \A p \in Players \ gone : queue[p].bad = Null
    BY <1>1, BattleFacts DEF Incorrect, GuessInv
  <1>4. ASSUME NEW p \in Players
        PROVE  /\ queue'[p] \in QueueType
               /\ queue'[p].ins = queue[p].ins /\ queue'[p].bad = queue[p].bad
               /\ queue'[p].req = queue[p].req /\ queue'[p].pred = queue[p].pred
               /\ queue'[p].val = queue[p].val
               /\ \/ queue'[p].tail = queue[p].tail /\ n <= 0
                  \/ /\ queue'[p].tail <= n
                     /\ queue[p].req # Null => queue'[p].tail <= queue[p].req + 1
    <2>1. CASE n > 0
      <3> DEFINE q == queue[p]
                 f == n - 1
                 m == IF q.req # Null /\ q.req < f THEN q.req ELSE f
                 t == IF m >= Len(q.ins) - 1 THEN Len(q.ins) ELSE m + 1
      <3>1. queue'[p] = [q EXCEPT !.tail = t]
        BY <1>1, <2>1 DEF DiscardConfirmedFrames
      <3>2. /\ q \in QueueType /\ Len(q.ins) \in Nat /\ q.req \in Int /\ Null <= q.req
        BY BattleFacts, QueueTypes DEF QueueOK
      <3> HIDE DEF q
      <3>3. m \in Nat /\ m <= f /\ (q.req # Null => m <= q.req)
        BY <3>2, <1>2, <2>1 DEF Null
      <3> HIDE DEF m
      <3>4. t \in Nat /\ t <= m + 1
        BY <3>2, <3>3
      <3>5. t <= n /\ (q.req # Null => t <= q.req + 1)
        BY <3>2, <3>3, <3>4, <1>2
      <3> HIDE DEF t
      <3> QED BY <3>1, <3>2, <3>4, <3>5 DEF QueueType, q
    <2>2. CASE ~(n > 0)
      <3>1. queue'[p] = queue[p]
        BY <1>1, <2>2
      <3> QED BY <3>1, <2>2, <1>2, BattleFacts
    <2> QED BY <2>1, <2>2
  <1>5. /\ confirmed' \in Int /\ Null <= confirmed' /\ confirmed <= confirmed'
        /\ n > 0 => confirmed' = n
        /\ \A p \in Players \ gone : confirmed' < Len(queue[p].ins)
    <2>1. PICK o \in Players \ gone : n = LastFrame(o)
      BY <1>1 DEF IsMinConfirmed
    <2>2. /\ confirmed < Len(queue[o].ins) /\ Len(queue[o].ins) \in Nat /\ confirmed \in Int
          /\ Null <= confirmed
      BY <2>1, BattleFacts DEF ConfirmInv, LocalInv
    <2>3. confirmed <= n
      BY <2>1, <2>2 DEF LastFrame
    <2>4. \A p \in Players \ gone : n < Len(queue[p].ins)
      <3> TAKE p \in Players \ gone
      <3>1. n <= Len(queue[p].ins) - 1 /\ Len(queue[p].ins) \in Nat
        BY <1>1, BattleFacts DEF IsMinConfirmed, LastFrame
      <3> QED BY <3>1, <1>2
    <2>5. \A p \in Players \ gone : confirmed < Len(queue[p].ins)
      BY BattleFacts DEF ConfirmInv
    <2> QED BY <1>1, <1>2, <2>2, <2>3, <2>4, <2>5 DEF Null
  <1>6. polls >= 1 /\ polls \in 0..2 /\ lastSaved = framecount /\ framecount >= 1
        /\ Len(cpu) = framecount /\ framecount \in Nat
    BY <1>1, BattleFacts DEF Control, Ran
  <1>7. pc' \in {"input", "events"} /\ (pc' = "events" => polls' >= 1) /\ polls' \in 0..2
    BY <1>1, <1>6
  <1>8. Quiet
    BY <1>1, <1>7 DEF Quiet, Steady, Target, Ran, Replaying
  <1>9. TypeOK'
    <2>1. queue' \in [Players -> QueueType]
      BY <1>1, <1>4
    <2> QED BY <1>1, <1>5, <1>7, <2>1, BattleFacts DEF TypeOK
  <1>10. Control'
    <2>1. Control
      BY BattleFacts
    <2>2. /\ ~Ran /\ ~(Ran') /\ ~(Replaying') /\ pc' # "advance" /\ pc' # "closed"
      BY <1>1, <1>7 DEF Ran, Replaying
    <2> QED BY <1>1, <1>6, <1>7, <2>1, <2>2 DEF Control
  <1>11. LocalInv'
    <2>1. LocalInv /\ Local \in Players
      BY BattleFacts
    <2>2. Due = framecount /\ Due' = framecount
      BY <1>1, <1>7 DEF Due, Target, Replaying
    <2>3. queue'[Local].ins = queue[Local].ins
      BY <1>4, <2>1
    <2>4. confirmed \in Int /\ MaxPrediction \in Nat
      BY BattleFacts, SmallFacts
    <2>5. (Len(queue[Local].ins) >= Due \/ (queue[Local].ins = <<>> /\ Due <= 1))'
      BY <2>1, <2>2, <2>3 DEF LocalInv
    <2>6. (Due <= MaxPrediction \/ Due - confirmed <= MaxPrediction)'
      <3>1. framecount <= MaxPrediction \/ framecount - confirmed <= MaxPrediction
        BY <2>1, <2>2 DEF LocalInv
      <3>2. /\ framecount \in Int /\ confirmed \in Int /\ MaxPrediction \in Int /\ confirmed' \in Int
            /\ confirmed <= confirmed'
        BY <1>5, <1>6, <2>4
      <3>3. framecount <= MaxPrediction \/ framecount - confirmed' <= MaxPrediction
        BY <3>1, <3>2, Nearer
      <3>4. Due' = framecount
        BY <2>2
      <3> QED BY <3>2, <3>3, <3>4
    <2> QED BY <1>5, <2>5, <2>6 DEF LocalInv
  <1>12. \A p \in Players : QueueOK(queue[p], Len(cpu))'
    BY <1>1, <1>4, BattleFacts DEF QueueOK
  <1>13. ASSUME NEW p \in Players \ gone PROVE GuessInv(p)' /\ ConfirmInv(p)'
    <2>1. GuessInv(p) /\ ConfirmInv(p) /\ queue[p].tail \in Nat
      BY BattleFacts
    <2>2. pc # "replay" /\ pc' # "replay"
      BY <1>1, <1>7
    <2>3. AskedOK(queue[p], Len(cpu)) /\ Guessed(queue[p], cpu, p) /\ Right(queue[p], cpu, p)
      BY <2>1, <2>2 DEF GuessInv
    <2>4. GuessInv(p)'
      <3>1. AskedOK(queue'[p], Len(cpu))
        BY <1>4, <2>3 DEF AskedOK
      <3>2. Guessed(queue'[p], cpu, p)
        BY <1>4, <2>3 DEF Guessed, Latest
      <3>3. Right(queue'[p], cpu, p)
        BY <1>4, <2>3 DEF Right
      <3> QED BY <1>1, <1>3, <1>4, <3>1, <3>2, <3>3 DEF GuessInv
    <2>5. ConfirmInv(p)'
      <3>1. queue[p].req = framecount - 1 /\ queue[p].req # Null
        BY <2>3, <1>6 DEF AskedOK, Null
      <3>2. /\ queue'[p].tail = 0 \/ queue'[p].tail <= confirmed'
            /\ queue'[p].tail <= framecount
        <4>1. queue'[p].tail \in Nat
          BY <1>4, QueueTypes
        <4>2. CASE queue'[p].tail = queue[p].tail /\ n <= 0
          <5>1. /\ queue[p].tail = 0 \/ queue[p].tail <= confirmed
                /\ queue[p].tail <= framecount /\ confirmed \in Int
            BY <2>1, BattleFacts DEF ConfirmInv
          <5> QED BY <4>1, <4>2, <5>1, <1>5
        <4>3. CASE ~(queue'[p].tail = queue[p].tail /\ n <= 0)
          <5>1. queue'[p].tail <= n /\ queue'[p].tail <= queue[p].req + 1
            BY <4>3, <1>4, <3>1
          <5> QED BY <4>1, <5>1, <3>1, <1>2, <1>5, <1>6
        <4> QED BY <4>2, <4>3
      <3> QED BY <1>1, <1>3, <1>4, <1>5, <3>2 DEF ConfirmInv
    <2> QED BY <2>4, <2>5
  <1>14. \A p \in (Players \ gone)' : GuessInv(p)' /\ ConfirmInv(p)'
    BY <1>1, <1>13
  <1> QED BY <1>8, <1>9, <1>10, <1>11, <1>12, <1>14, QuietInv

\* The n-th session has no more frames than the first.
LEMMA QuotientIsSmaller ==
    ASSUME NEW n \in Nat, NEW d \in Nat \ {0}
    PROVE  n \div d <= n
  <1> DEFINE q == n \div d
  <1>1. q \in Nat
    OBVIOUS
  <1>2. n = d * q + (n % d) /\ n % d \in Nat
    OBVIOUS
  <1> HIDE DEF q
  <1>3. q <= d * q
    BY <1>1
  <1>4. d * q \in Nat
    BY <1>1
  <1> QED BY <1>1, <1>2, <1>3, <1>4 DEF q

-----------------------------------------------------------------------------
(***************************************************************************)
(* A frame is run, for the first time or again.                            *)
(***************************************************************************)
LEMMA GetInputType ==
    ASSUME NEW q \in QueueType, NEW n \in Nat PROVE GetInput(q, n) \in Inputs
  <1> DEFINE r == Requested(q, n)
  <1>1. /\ q.ins \in Seq(Inputs) /\ Len(q.ins) \in Nat /\ q.val \in Inputs /\ q.pred \in Int
        /\ Latest(q) \in Inputs
    BY QueueTypes
  <1>2. CASE q.pred = Null /\ n >= Len(q.ins)
    <2>1. r = [q EXCEPT !.req = n, !.pred = Len(q.ins), !.val = Latest(q)]
      BY <1>2 DEF Requested
    <2>2. r.pred # Null /\ r.val = Latest(q)
      BY <2>1, <1>1 DEF QueueType, Null
    <2> QED BY <1>1, <2>2 DEF GetInput
  <1>3. CASE ~(q.pred = Null /\ n >= Len(q.ins))
    <2>1. r = [q EXCEPT !.req = n]
      BY <1>3 DEF Requested
    <2>2. r.pred = q.pred /\ r.val = q.val
      BY <2>1 DEF QueueType
    <2>3. CASE q.pred = Null
      <3>1. n + 1 \in 1..Len(q.ins)
        BY <1>1, <1>3, <2>3
      <3>2. q.ins[n + 1] \in Inputs
        BY <1>1, <3>1, ElementOfSeq
      <3> QED BY <2>2, <2>3, <3>2 DEF GetInput
    <2>4. CASE q.pred # Null
      BY <1>1, <2>2, <2>4 DEF GetInput
    <2> QED BY <2>3, <2>4
  <1> QED BY <1>2, <1>3

\* The frame that is run.
Run(k) == [in |-> FrameInputs, skips |-> k]

\* A frame is run, for the first time or again.
LEMMA ExecuteKeeps ==
    ASSUME BattleInv, NEW k \in Nat, Execute(k),
           pc = "run" \/ pc = "replay",
           pc = "run" => pc' = "advance" /\ framecount < MaxFrames,
           pc = "replay" => pc' = "resave",
           skipped' \in [Frames -> Nat],
           UNCHANGED <<polls, framecount, confirmed, goal, saved, head, gone, lastSaved, delta, sessions>>
    PROVE  BattleInv'
  <1> DEFINE h == cpu
             e == Run(k)
             c == Append(h, e)
  <1>1. BattleInv /\ ~Ran /\ Ran' /\ (Replaying' <=> Replaying) /\ Target' = Target /\ Due' = Due
    BY DEF Ran, Replaying, Target, Due
  <1>2. /\ cpu' = c
        /\ mem' = [p \in Pages |-> IF p \in Dirty(c) THEN c ELSE mem[p]]
        /\ watch' = [p \in Pages |-> IF p \in Dirty(c) \intersect prot /\ watch[p] = <<>>
                                     THEN <<mem[p]>> ELSE watch[p]]
        /\ prot' = {p \in prot : p \in Dirty(c) => watch[p] # <<>>}
        /\ queue' = [p \in Players |-> IF p \in gone THEN queue[p] ELSE Requested(queue[p], framecount)]
        /\ started' = started
    BY DEF Execute, Run
  <1>3. Len(h) = framecount /\ h \in History /\ framecount \in Nat
    BY <1>1, BattleFacts DEF Control
  <1>4. e \in Entry
    <2>1. \A p \in Players : p \notin gone => GetInput(queue[p], framecount) \in Inputs
      BY <1>3, BattleFacts, GetInputType
    <2>2. Neutral \in Inputs
      BY RollbackAssumption
    <2>3. FrameInputs \in [Players -> Inputs]
      BY <2>1, <2>2 DEF FrameInputs
    <2> QED BY <2>3 DEF Entry, Run
  <1>5. /\ c \in History /\ Len(c) = framecount + 1
        /\ \A n \in 0..framecount : SubSeq(c, 1, n) = SubSeq(h, 1, n)
        /\ SubSeq(c, 1, framecount + 1) = c /\ SubSeq(h, 1, framecount) = h
        /\ Memory(c) = [p \in Pages |-> IF p \in Dirty(c) THEN c ELSE Memory(h)[p]]
    <2>1. SubSeq(h, 1, framecount) = h
      BY <1>3, SubSeqFull DEF History
    <2> QED BY <1>3, <1>4, <2>1, HistoryAppend, MemoryAppend
  <1>6. ASSUME NEW p \in Players \ gone
        PROVE  /\ queue'[p] \in QueueType /\ queue'[p].ins = queue[p].ins
               /\ queue'[p].tail = queue[p].tail /\ queue'[p].bad = Null /\ queue[p].bad = Null
               /\ QueueOK(queue'[p], Len(c)) /\ AskedOK(queue'[p], Len(c))
               /\ Guessed(queue'[p], c, p) /\ Right(queue'[p], c, p)
    <2>1. /\ queue[p] \in QueueType /\ QueueOK(queue[p], Len(h)) /\ GuessInv(p) /\ p \in Players
      BY BattleFacts
    <2>2. /\ Guessed(queue[p], h, p) /\ Right(queue[p], h, p) /\ queue[p].bad = Null
      BY <2>1 DEF GuessInv
    <2>3. e.in[p] = GetInput(queue[p], Len(h))
      BY <1>3 DEF Run, FrameInputs
    <2>4. queue'[p] = Requested(queue[p], Len(h))
      BY <1>2, <1>3
    <2> HIDE DEF e
    <2> QED BY <1>3, <1>4, <1>5, <2>1, <2>2, <2>3, <2>4, RequestKeeps
  <1> HIDE DEF e
  <1>7. \A p \in Players : p \in gone => queue'[p] = queue[p]
    BY <1>2
  <1>8. TypeOK'
    <2>1. queue' \in [Players -> QueueType]
      <3>1. \A p \in Players : queue'[p] \in QueueType
        BY <1>6, <1>7, BattleFacts
      <3> QED BY <1>2, <3>1
    <2> HIDE DEF c
    <2>2. mem' \in [Pages -> History]
      BY <1>2, <1>5, BattleFacts
    <2>3. watch' \in [Pages -> Opt]
      <3>1. watch \in [Pages -> Opt]
        BY BattleFacts DEF TypeOK
      <3>2. \A p \in Pages : <<mem[p]>> \in Opt
        BY BattleFacts, SmallFacts
      <3> QED BY <1>2, <3>1, <3>2
    <2>4. prot' \subseteq Pages
      BY <1>2, BattleFacts DEF TypeOK
    <2>5. cpu' \in History
      BY <1>2, <1>5
    <2> QED BY <2>1, <2>2, <2>3, <2>4, <2>5, <1>2, BattleFacts DEF TypeOK
  <1>9. Control'
    <2>1. Len(cpu') = framecount + 1
      BY <1>2, <1>5
    <2>2. Control
      BY BattleFacts
    <2> QED BY <1>1, <1>2, <2>1, <2>2 DEF Control, Replaying
  <1>10. LocalInv'
    <2>1. queue'[Local].ins = queue[Local].ins
      BY <1>6, BattleFacts
    <2>2. LocalInv
      BY BattleFacts
    <2> QED BY <1>1, <2>1, <2>2 DEF LocalInv
  <1>11. \A p \in Players : QueueOK(queue[p], Len(cpu))'
    <2> TAKE p \in Players
    <2>1. CASE p \in gone
      <3>1. QueueOK(queue[p], framecount)
        BY <1>3, BattleFacts
      <3>2. /\ queue[p].req \in Int /\ queue[p].bad \in Int
        BY BattleFacts, QueueTypes
      <3>3. QueueOK(queue[p], framecount + 1)
        BY <1>3, <3>1, <3>2 DEF QueueOK
      <3> QED BY <2>1, <1>2, <1>5, <1>7, <3>3
    <2>2. CASE p \notin gone
      BY <2>2, <1>2, <1>6
    <2> QED BY <2>1, <2>2
  <1>12. \A p \in (Players \ gone)' : GuessInv(p)' /\ ConfirmInv(p)'
    <2> SUFFICES ASSUME NEW p \in Players \ gone PROVE GuessInv(p)' /\ ConfirmInv(p)'
      OBVIOUS
    <2>1. GuessInv(p)'
      BY <1>2, <1>6 DEF GuessInv
    <2>2. ConfirmInv(p)'
      <3>1. ConfirmInv(p)
        BY BattleFacts
      <3> QED BY <1>6, <3>1 DEF ConfirmInv
    <2> QED BY <2>1, <2>2
  <1> HIDE DEF c
  <1>13. RingInv'
    <2> SUFFICES ASSUME NEW s \in Slots PROVE RingHolds(s)' /\ StateOf(s)'
      BY DEF RingInv
    <2>1. RingHolds(s) /\ StateOf(s)
      BY BattleFacts DEF RingInv
    <2>2. Held(s)' = Held(s)
      BY <1>1 DEF Held, Back
    <2>3. RingHolds(s)'
      BY <2>1, <2>2 DEF RingHolds
    <2>4. StateOf(s)'
      <3> SUFFICES ASSUME 1 <= saved[s].frame, saved[s].frame <= framecount
                   PROVE  saved[s].buf[1] = SubSeq(c, 1, saved[s].frame)
        BY <1>2 DEF StateOf
      <3>1. saved[s].frame \in 0..framecount
        BY <1>3, BattleFacts DEF TypeOK, Frames, Null
      <3> QED BY <2>1, <3>1, <1>5 DEF StateOf
    <2> QED BY <2>3, <2>4
  <1>14. DeltaInv'
    <2> SUFFICES ASSUME NEW g \in Frames, 1 <= g, Target - Ring < g, g < framecount
                 PROVE  delta[g] = Written(c, g + 1)
      BY <1>1, <1>2 DEF DeltaInv
    <2>1. delta[g] = Written(h, g + 1)
      BY BattleFacts DEF DeltaInv
    <2>2. /\ g + 1 \in Nat \ {0} /\ g + 1 <= Len(h) /\ g + 1 <= Len(c)
          /\ \A m \in 0..(g + 1) : m \in 0..framecount
      BY <1>3, <1>5 DEF Frames
    <2>3. Written(c, g + 1) = Written(h, g + 1)
      BY <1>3, <1>5, <2>2, WrittenPrefix
    <2> QED BY <2>1, <2>3
  <1>15. RollbackExact'
    <2>1. mem = Memory(h)
      BY BattleFacts DEF RollbackExact
    <2> QED BY <1>2, <1>5, <2>1 DEF RollbackExact
  <1>16. WatchInv'
    <2>1. WatchInv /\ mem = Memory(h) /\ started
      BY BattleFacts DEF RollbackExact, Control
    <2>2. prot = Pages /\ watch = NoPages
      BY <1>1, <2>1 DEF WatchInv
    <2>3. prot' = {p \in Pages : p \notin Dirty(c)}
      BY <1>2, <2>2 DEF NoPages
    <2>4. watch' = [p \in Pages |-> IF p \in Dirty(c) THEN <<mem[p]>> ELSE <<>>]
      BY <1>2, <2>2 DEF NoPages
    <2>5. ASSUME NEW p \in Pages PROVE Written(c, framecount + 1)[p] = watch'[p]
      <3>1. framecount = framecount + 1 - 1 /\ framecount \in 0..framecount
        BY <1>3
      <3>2. SubSeq(c, 1, framecount) = h
        BY <1>5, <3>1
      <3> DEFINE n == framecount + 1
      <3>3. framecount = n - 1 /\ SubSeq(c, 1, n) = c
        BY <3>1, <1>5
      <3> HIDE DEF n
      <3>4. Written(c, n)[p] = IF p \in Dirty(SubSeq(c, 1, n))
                               THEN <<Memory(SubSeq(c, 1, framecount))[p]>> ELSE <<>>
        BY <3>3, WrittenAt
      <3>5. Written(c, n)[p] = IF p \in Dirty(c) THEN <<mem[p]>> ELSE <<>>
        BY <3>2, <3>3, <3>4, <2>1
      <3> QED BY <3>5, <2>4 DEF n
    <2>6. Written(c, framecount + 1) = watch'
      <3>1. Written(c, framecount + 1) = [p \in Pages |-> Written(c, framecount + 1)[p]]
        BY DEF Written
      <3>2. watch' = [p \in Pages |-> watch'[p]]
        BY <2>4
      <3> QED BY <2>5, <3>1, <3>2
    <2> QED BY <1>1, <1>2, <1>5, <2>1, <2>3, <2>6 DEF WatchInv
  <1> QED BY <1>8, <1>9, <1>10, <1>11, <1>12, <1>13, <1>14, <1>15, <1>16 DEF BattleInv

\* nextFrame() runs a frame.
LEMMA RunFrameInv == ASSUME BattleInv, NEW k \in 0..MaxSkips, RunFrame(k) PROVE BattleInv'
  <1>1. /\ pc = "run" /\ pc' = "advance" /\ Execute(k) /\ k \in Nat
        /\ skipped' = [skipped EXCEPT ![framecount] = @ + k]
        /\ UNCHANGED <<polls, framecount, confirmed, goal, saved, head, gone, lastSaved, delta, sessions>>
    BY RollbackAssumption DEF RunFrame, sync
  <1>2. framecount < MaxFrames
    <2>1. sessions \in Nat \ {0} /\ MaxFrames \in Nat /\ framecount \in Nat
      BY BattleFacts, RollbackAssumption DEF TypeOK
    <2>2. MaxFrames \div sessions <= MaxFrames
      BY <2>1, QuotientIsSmaller
    <2>3. framecount < MaxFrames \div sessions
      BY DEF RunFrame
    <2> QED BY <2>1, <2>2, <2>3
  <1>3. skipped' \in [Frames -> Nat]
    <2>1. skipped \in [Frames -> Nat]
      BY BattleFacts DEF TypeOK
    <2>2. framecount \in Frames => skipped[framecount] + k \in Nat
      BY <1>1, <2>1
    <2> QED BY <1>1, <2>1, <2>2
  <1> QED BY <1>1, <1>2, <1>3, ExecuteKeeps

\* advance_frame() runs a frame again, with the skips of the first time.
LEMMA ReplayFrameInv == BattleInv /\ ReplayFrame => BattleInv'
  <1> SUFFICES ASSUME BattleInv, ReplayFrame PROVE BattleInv'
    OBVIOUS
  <1>1. /\ pc = "replay" /\ pc' = "resave" /\ Execute(skipped[framecount])
        /\ UNCHANGED <<polls, framecount, confirmed, goal, saved, head, gone, lastSaved, delta, skipped,
                       sessions>>
    BY DEF ReplayFrame, sync, ggpo
  <1>2. skipped \in [Frames -> Nat] /\ skipped[framecount] \in Nat
    BY BattleFacts DEF TypeOK
  <1> QED BY <1>1, <1>2, ExecuteKeeps

-----------------------------------------------------------------------------
(***************************************************************************)
(* A frame is saved, in the next slot of the ring.                         *)
(***************************************************************************)
LEMMA NextSlotBack ==
    ASSUME NEW a \in Slots, NEW s \in Slots
    PROVE  /\ NextSlot(a) \in Slots
           /\ LET back(b) == IF s < b THEN b - s ELSE b - s + Ring
              IN back(NextSlot(a)) = IF s = a THEN 1 ELSE back(a) + 1
  BY SmallFacts DEF NextSlot, Slots

\* save_game_state() after a frame, in a rollback or not.
LEMMA SaveKeeps ==
    ASSUME BattleInv, SaveCurrentFrame, Ran,
           pc = "advance" => pc' = "events" /\ polls' = 2,
           pc = "resave" => /\ polls' = polls
                            /\ pc' = IF framecount + 1 = goal THEN "confirm" ELSE "replay",
           UNCHANGED <<confirmed, goal, queue, gone, cpu, mem, sessions>>
    PROVE  BattleInv'
  <1> DEFINE f     == framecount + 1
             freed == IF saved[head].buf = <<>> THEN {} ELSE {saved[head].frame}
  <1>1. /\ framecount' = f /\ lastSaved' = f
        /\ saved' = [saved EXCEPT ![head] = [frame |-> f, buf |-> <<cpu>>]]
        /\ head' = NextSlot(head)
        /\ delta' = [g \in Frames |-> IF g = f - 1 THEN watch
                                      ELSE IF g \in freed THEN NoPages ELSE delta[g]]
        /\ skipped' = [g \in Frames |-> IF g \in freed THEN 0 ELSE skipped[g]]
        /\ prot' = IF started THEN prot \union {p \in Pages : watch[p] # <<>>} ELSE Pages
        /\ watch' = NoPages /\ started' = TRUE
    BY DEF SaveCurrentFrame
  <1>2. /\ framecount \in Nat /\ Len(cpu) = f /\ cpu \in History /\ pc \in {"advance", "resave"}
        /\ goal \in Nat /\ head \in Slots /\ f <= MaxFrames /\ (Replaying => f <= goal)
        /\ started
    <2>1. Control /\ framecount \in Nat /\ goal \in Nat /\ goal <= MaxFrames /\ cpu \in History
          /\ head \in Slots /\ MaxFrames \in Nat
      BY BattleFacts, SmallFacts
    <2>2. CASE pc = "advance"
      BY <2>1, <2>2 DEF Control, Ran, Replaying
    <2>3. CASE pc = "resave"
      BY <2>1, <2>3 DEF Control, Ran, Replaying
    <2> QED BY <2>2, <2>3 DEF Ran
  <1>3. /\ Target' = IF Replaying THEN Target ELSE f
        /\ Target = IF Replaying THEN goal ELSE framecount
        /\ Target' \in Nat /\ f <= Target'
    BY <1>1, <1>2 DEF Target, Replaying
  <1>4. Due' = Due
    BY <1>1, <1>2, <1>3 DEF Due, Target, Replaying
  <1> HIDE DEF f
  <1>5. TypeOK'
    <2>1. f \in Frames
      BY <1>2, SmallFacts DEF Frames, f
    <2>2. [frame |-> f, buf |-> <<cpu>>] \in [frame : Frames \union {Null}, buf : Opt]
      BY <2>1, <1>2, SmallFacts
    <2>3. saved' \in [Slots -> [frame : Frames \union {Null}, buf : Opt]]
      BY <1>1, <2>2, BattleFacts DEF TypeOK
    <2>4. delta' \in [Frames -> [Pages -> Opt]]
      BY <1>1, BattleFacts, SmallFacts DEF TypeOK
    <2>5. skipped' \in [Frames -> Nat]
      BY <1>1, BattleFacts DEF TypeOK
    <2>6. prot' \subseteq Pages /\ watch' \in [Pages -> Opt] /\ started' \in BOOLEAN
      BY <1>1, BattleFacts, SmallFacts DEF TypeOK
    <2>7. head' \in Slots
      BY <1>1, <1>2, NextSlotBack
    <2>8. pc' \in {"events", "confirm", "replay"} /\ polls' \in 0..2
      BY <1>2, BattleFacts
    <2> QED BY <1>1, <2>1, <2>3, <2>4, <2>5, <2>6, <2>7, <2>8, BattleFacts DEF TypeOK
  <1>6. Control'
    <2>1. Control
      BY BattleFacts
    <2>2. CASE pc = "advance"
      BY <1>1, <1>2, <2>1, <2>2 DEF Control, Ran, Replaying, f
    <2>3. CASE pc = "resave"
      <3>1. /\ framecount >= 1 /\ f < goal + 1 /\ goal < framecount + Ring /\ polls >= 1
            /\ Ring \in Nat
        BY <1>2, <2>1, <2>3, SmallFacts DEF Control, Replaying, f
      <3>2. CASE f = goal
        BY <1>1, <1>2, <2>3, <3>1, <3>2 DEF Control, Ran, Replaying, f
      <3>3. CASE f # goal
        <4>1. f < goal /\ goal < f + Ring /\ 1 <= f
          BY <1>2, <3>1, <3>3 DEF f
        <4> QED BY <1>1, <1>2, <2>3, <3>1, <3>3, <4>1 DEF Control, Ran, Replaying, f
      <3> QED BY <3>2, <3>3
    <2> QED BY <1>2, <2>2, <2>3
  <1>7. LocalInv'
    BY <1>4, BattleFacts DEF LocalInv
  <1>8. \A p \in Players : QueueOK(queue[p], Len(cpu))'
    BY BattleFacts
  <1>9. \A p \in (Players \ gone)' : GuessInv(p)' /\ ConfirmInv(p)'
    <2> SUFFICES ASSUME NEW p \in Players \ gone PROVE GuessInv(p)' /\ ConfirmInv(p)'
      OBVIOUS
    <2>1. GuessInv(p) /\ ConfirmInv(p) /\ queue[p].tail \in Nat
      BY BattleFacts
    <2>2. pc # "replay" /\ pc # "events" /\ pc' \in {"events", "confirm", "replay"}
      BY <1>2
    <2>3. GuessInv(p)'
      BY <2>1, <2>2 DEF GuessInv
    <2>4. ConfirmInv(p)'
      BY <1>1, <1>2, <2>1 DEF ConfirmInv, f
    <2> QED BY <2>3, <2>4
  <1>10. RollbackExact'
    BY BattleFacts DEF RollbackExact
  <1>11. WatchInv'
    <2>1. ~Ran' /\ started'
      BY <1>1, <1>2 DEF Ran
    <2>2. prot' = Pages
      <3>1. prot = {p \in Pages : p \notin Dirty(cpu)} /\ watch = Written(cpu, f)
        BY <1>2, BattleFacts DEF WatchInv
      <3>2. SubSeq(cpu, 1, f) = cpu
        BY <1>2, SubSeqFull DEF History
      <3>3. ASSUME NEW p \in Pages, p \in Dirty(cpu) PROVE watch[p] # <<>>
        <4>1. watch[p] = IF p \in Dirty(SubSeq(cpu, 1, f))
                         THEN <<Memory(SubSeq(cpu, 1, f - 1))[p]>> ELSE <<>>
          BY <3>1, WrittenAt
        <4>2. watch[p] = <<Memory(SubSeq(cpu, 1, f - 1))[p]>>
          BY <3>2, <3>3, <4>1
        <4> QED BY <4>2
      <3> QED BY <1>1, <1>2, <3>1, <3>3
    <2> QED BY <1>1, <2>1, <2>2 DEF WatchInv
  <1>12. RingHolds(head) /\ Held(head) = (IF f <= Target THEN f ELSE f - Ring)
    <2>1. RingHolds(head)
      BY <1>2, BattleFacts DEF RingInv
    <2>2. Back(head) = Ring
      BY <1>2, SmallFacts DEF Back, Slots
    <2>3. Held(head) = IF f - Ring + Ring <= Target THEN f - Ring + Ring ELSE f - Ring
      BY <1>2, <2>2, SmallFacts DEF Held, f
    <2>4. f - Ring + Ring = f
      BY <1>2, SmallFacts DEF f
    <2> QED BY <2>1, <2>3, <2>4
  <1>13. RingInv'
    <2> SUFFICES ASSUME NEW s \in Slots PROVE RingHolds(s)' /\ StateOf(s)'
      BY DEF RingInv
    <2>1. RingHolds(s) /\ StateOf(s) /\ s \in Nat /\ head \in Nat
      BY <1>2, BattleFacts DEF RingInv, Slots
    <2>2. Back(s)' = IF s = head THEN 1 ELSE Back(s) + 1
      BY <1>1, <1>2, NextSlotBack DEF Back
    <2>3. Back(s) \in 1..Ring
      BY <1>2, SmallFacts DEF Back, Slots
    <2>4. CASE s = head
      <3>1. saved'[s] = [frame |-> f, buf |-> <<cpu>>]
        BY <1>1, <2>4, BattleFacts DEF TypeOK
      <3>2. Held(s)' = f
        <4>1. Held(s)' = IF f + Ring <= Target' THEN f + Ring ELSE f
          BY <1>1, <1>2, <2>2, <2>4, SmallFacts DEF Held, f
        <4>2. ~(f + Ring <= Target')
          <5>1. Target' <= framecount + Ring
            <6>1. CASE ~Replaying
              BY <6>1, <1>2, <1>3, SmallFacts DEF f
            <6>2. CASE Replaying
              BY <6>2, <1>2, <1>3, SmallFacts, BattleFacts DEF Control
            <6> QED BY <6>1, <6>2
          <5> QED BY <5>1, <1>2, <1>3, SmallFacts DEF f
        <4> QED BY <4>1, <4>2
      <3>3. f >= 1 /\ f \in Nat
        BY <1>2 DEF f
      <3>4. RingHolds(s)'
        BY <3>1, <3>2, <3>3, SmallFacts, <1>2 DEF RingHolds
      <3>5. StateOf(s)'
        <4>1. SubSeq(cpu, 1, f) = cpu
          BY <1>2, SubSeqFull DEF History
        <4> QED BY <3>1, <4>1 DEF StateOf
      <3> QED BY <3>4, <3>5
    <2>5. CASE s # head
      <3>1. saved'[s] = saved[s]
        BY <1>1, <2>5, BattleFacts DEF TypeOK
      <3>2. Held(s)' = Held(s)
        <4> DEFINE x == framecount + 1 - Back(s)
        <4>1. x \in Int /\ framecount' + 1 - Back(s)' = x /\ x + Ring <= framecount + Ring
          <5>1. framecount' = framecount + 1 /\ framecount \in Nat
            BY <1>1, <1>2 DEF f
          <5>2. Back(s)' = Back(s) + 1 /\ Back(s) \in Int /\ Back(s) >= 1 /\ Ring \in Int
            BY <2>2, <2>3, <2>5, SmallFacts
          <5> QED BY <5>1, <5>2
        <4>2. Held(s) = IF x + Ring <= Target THEN x + Ring ELSE x
          BY DEF Held
        <4>3. Held(s)' = IF x + Ring <= Target' THEN x + Ring ELSE x
          BY <4>1 DEF Held
        <4>4. (x + Ring <= Target') <=> (x + Ring <= Target)
          <5>1. CASE Replaying
            BY <5>1, <1>3
          <5>2. CASE ~Replaying
            <6>1. Back(s) < Ring
              BY <2>1, <2>5, <1>2, SmallFacts DEF Back, Slots
            <6>2. Target' = f /\ Target = framecount
              BY <5>2, <1>3
            <6>3. ~(x + Ring <= f)
              BY <6>1, <2>3, <1>2, SmallFacts DEF f
            <6>4. ~(x + Ring <= framecount)
              BY <6>1, <2>3, <1>2, SmallFacts
            <6> QED BY <6>2, <6>3, <6>4
          <5> QED BY <5>1, <5>2
        <4> QED BY <4>2, <4>3, <4>4
      <3>3. RingHolds(s)'
        BY <2>1, <3>1, <3>2 DEF RingHolds
      <3>4. StateOf(s)'
        <4>1. saved[s].frame # f
          \* the only other slot that could hold the frame is head
          <5>1. CASE Held(s) >= 1
            <6>1. saved[s].frame = Held(s)
              BY <2>1, <5>1 DEF RingHolds
            <6>2. Back(s) < Ring
              BY <2>1, <2>5, <1>2, SmallFacts DEF Back, Slots
            <6>3. Held(s) # f
              BY <6>2, <2>3, <1>2, SmallFacts DEF Held, f
            <6> QED BY <6>1, <6>3
          <5>2. CASE ~(Held(s) >= 1)
            BY <2>1, <5>2, <1>2 DEF RingHolds, Null, f
          <5> QED BY <5>1, <5>2
        <4>2. saved[s].frame \in Int
          BY BattleFacts, SmallFacts DEF TypeOK, Frames, Null
        <4> QED BY <1>1, <1>2, <2>1, <3>1, <4>1, <4>2 DEF StateOf, f
      <3> QED BY <3>3, <3>4
    <2> QED BY <2>4, <2>5
  <1>14. DeltaInv'
    <2> SUFFICES ASSUME NEW g \in Frames, 1 <= g, Target' - Ring < g, g < f
                 PROVE  delta'[g] = Written(cpu, g + 1)
      BY <1>1 DEF DeltaInv
    <2>1. g \in Nat /\ Ring \in Nat /\ framecount \in Nat /\ f = framecount + 1
      BY <1>2, SmallFacts DEF Frames, f
    <2>2. CASE g = framecount
      <3>1. delta'[g] = watch
        BY <1>1, <2>1, <2>2
      <3>2. started /\ Ran
        BY <1>2, <2>2
      <3>3. watch = Written(cpu, f)
        BY <3>2, <1>2, BattleFacts DEF WatchInv
      <3> QED BY <2>1, <2>2, <3>1, <3>3
    <2>3. CASE g # framecount
      <3>1. g < framecount /\ Target - Ring < g
        BY <2>1, <2>3, <1>2, <1>3
      <3>2. delta[g] = Written(cpu, g + 1)
        BY <3>1, BattleFacts DEF DeltaInv
      <3>3. g \notin freed
        <4> SUFFICES ASSUME g \in freed PROVE FALSE
          OBVIOUS
        <4>1. saved[head].buf # <<>> /\ g = saved[head].frame
          OBVIOUS
        <4>2. g = Held(head)
          BY <4>1, <1>12, SmallFacts DEF RingHolds
        <4> QED BY <4>2, <1>2, <1>3, <1>12, <2>1, <3>1
      <3> QED BY <1>1, <2>1, <2>3, <3>2, <3>3
    <2> QED BY <2>2, <2>3
  <1> QED BY <1>5, <1>6, <1>7, <1>8, <1>9, <1>10, <1>11, <1>13, <1>14 DEF BattleInv

\* IncrementFrame()
LEMMA AdvanceFrameInv == BattleInv /\ AdvanceFrame => BattleInv'
  <1> SUFFICES ASSUME BattleInv, AdvanceFrame PROVE BattleInv'
    OBVIOUS
  <1>1. /\ pc = "advance" /\ SaveCurrentFrame /\ pc' = "events" /\ polls' = 2
        /\ UNCHANGED <<confirmed, goal, queue, gone, cpu, mem, sessions>>
    BY DEF AdvanceFrame, vm
  <1>2. Ran
    BY <1>1 DEF Ran
  <1> QED BY <1>1, <1>2, SaveKeeps

\* ggpo_advance_frame() in a rollback.
LEMMA ReplaySavedInv == BattleInv /\ ReplaySaved => BattleInv'
  <1> SUFFICES ASSUME BattleInv, ReplaySaved PROVE BattleInv'
    OBVIOUS
  <1>1. /\ pc = "resave" /\ SaveCurrentFrame
        /\ pc' = IF framecount + 1 = goal THEN "confirm" ELSE "replay"
        /\ UNCHANGED <<polls, confirmed, goal, queue, gone, cpu, mem, sessions>>
    BY DEF ReplaySaved, vm
  <1>2. Ran
    BY <1>1 DEF Ran
  <1> QED BY <1>1, <1>2, SaveKeeps

-----------------------------------------------------------------------------
(***************************************************************************)
(* A rollback begins.                                                      *)
(***************************************************************************)
\* Distances in the ring from two heads.
LEMMA BackFrom ==
    ASSUME NEW a \in Slots, NEW s \in Slots, NEW t \in Slots
    PROVE  LET back(x, y) == IF y < x THEN x - y ELSE x - y + Ring
               d == IF t = s THEN 1 ELSE back(s, t) + 1
           IN /\ back(a, t) = back(a, s) + d - 1 \/ back(a, t) = back(a, s) + d - 1 - Ring
              /\ d \in 1..Ring /\ back(a, s) \in 1..Ring /\ back(a, t) \in 1..Ring
  BY SmallFacts DEF Slots

\* The load that a rollback begins with.
LEMMA AdjustSimulationInv ==
    ASSUME BattleInv, NEW s \in Slots, AdjustSimulation(s) PROVE BattleInv'
  <1> DEFINE F == SeekTo
             c == SubSeq(cpu, 1, F)
  <1>1. /\ pc = "events" /\ Incorrect # {}
        /\ saved[s].frame = F /\ saved[s].buf # <<>>
        /\ framecount' = F /\ head' = NextSlot(s)
        /\ cpu' = saved[s].buf[1] /\ mem' = Restored(F)
        /\ watch' = NoPages /\ prot' = Pages /\ started' = TRUE
        /\ queue' = [p \in Players |-> ResetPrediction(queue[p])]
        /\ goal' = framecount /\ pc' = "replay"
        /\ UNCHANGED <<polls, confirmed, saved, gone, lastSaved, delta, skipped, sessions>>
    BY DEF AdjustSimulation, LoadFrame, ggpo
  <1>2. /\ TypeOK /\ Control /\ cpu \in History /\ framecount \in Nat /\ framecount <= MaxFrames
        /\ framecount \in Frames /\ head \in Slots /\ confirmed \in Int
        /\ Ring \in Nat /\ MaxFrames \in Nat
    BY BattleFacts, SmallFacts DEF TypeOK
  <1>3. /\ Len(cpu) = framecount /\ lastSaved = framecount /\ framecount >= 1 /\ polls >= 1
        /\ Target = framecount /\ Target' = framecount /\ Due = framecount /\ Due' = framecount
    BY <1>1, <1>2 DEF Control, Target, Replaying, Ran, Due
  <1>4. /\ F \in Nat /\ 1 <= F /\ F < framecount
        /\ \E p \in Players \ gone : F = queue[p].bad /\ F # Null
        /\ \A p \in Players \ gone : queue[p].bad = Null \/ F <= queue[p].bad
    BY <1>1, <1>3, BattleFacts, SeekToIsFirst
  <1>5. confirmed < F
    BY <1>4, BattleFacts DEF ConfirmInv
  <1> HIDE DEF F
  <1>6. ASSUME NEW t \in Slots
        PROVE  Back(t) \in 1..Ring /\ Held(t) = framecount + 1 - Back(t)
    <2>1. Back(t) \in 1..Ring
      BY <1>2 DEF Back, Slots
    <2> QED BY <2>1, <1>2, <1>3 DEF Held
  <1>7. F = framecount + 1 - Back(s) /\ saved[s].buf[1] = c /\ framecount < F + Ring
    <2>1. RingHolds(s) /\ StateOf(s)
      BY BattleFacts DEF RingInv
    <2>2. F = Held(s)
      BY <1>1, <2>1 DEF RingHolds
    <2>3. saved[s].buf[1] = c
      BY <1>1, <1>4, <1>2, <2>1 DEF StateOf
    <2> QED BY <1>2, <1>6, <2>2, <2>3
  <1>8. /\ c \in History /\ Len(c) = F /\ \A i \in 1..F : c[i] = cpu[i]
        /\ \A m \in 0..F : SubSeq(c, 1, m) = SubSeq(cpu, 1, m)
        /\ cpu' = c
    <2>1. F \in 0..Len(cpu)
      BY <1>2, <1>3, <1>4
    <2> QED BY <1>1, <1>2, <1>7, <2>1, HistoryPrefix
  <1>9. mem' = Memory(c)
    <2>1. F \in 0..Len(cpu) /\ lastSaved = Len(cpu) /\ mem = Memory(cpu)
      BY <1>2, <1>3, <1>4, BattleFacts DEF RollbackExact
    <2>2. ASSUME NEW g \in F..(Len(cpu) - 1)
          PROVE  g \in Frames /\ delta[g] = Written(cpu, g + 1)
      <3>1. /\ g \in Frames /\ 1 <= g /\ g < framecount /\ Target - Ring < g
        BY <1>2, <1>3, <1>4, <1>7 DEF Frames
      <3> QED BY <3>1, BattleFacts DEF DeltaInv
    <2> QED BY <1>1, <1>2, <2>1, <2>2, RestoredExact
  <1>10. ASSUME NEW p \in Players
         PROVE  /\ queue'[p] \in QueueType /\ queue'[p].ins = queue[p].ins
                /\ queue'[p].tail = queue[p].tail /\ queue'[p].bad = Null
                /\ queue'[p].pred = Null /\ queue'[p].req = Null
                /\ Latest(queue'[p]) = Latest(queue[p])
    <2>1. queue'[p] = [queue[p] EXCEPT !.pred = Null, !.bad = Null, !.req = Null]
      BY <1>1 DEF ResetPrediction
    <2>2. queue[p] \in QueueType /\ Null \in Int
      BY BattleFacts DEF Null
    <2>3. /\ queue'[p] \in QueueType /\ queue'[p].ins = queue[p].ins
          /\ queue'[p].tail = queue[p].tail /\ queue'[p].bad = Null
          /\ queue'[p].pred = Null /\ queue'[p].req = Null
      BY <2>1, <2>2 DEF QueueType
    <2> QED BY <2>3 DEF Latest
  <1> HIDE DEF c
  <1>11. TypeOK'
    <2>1. queue' \in [Players -> QueueType]
      BY <1>1, <1>10
    <2>2. F \in Frames
      BY <1>2, <1>4 DEF Frames
    <2>3. mem' \in [Pages -> History]
      <3>1. Memory(c) = [p \in Pages |-> Memory(c)[p]]
        BY DEF Memory
      <3> QED BY <1>8, <1>9, <3>1, MemoryOf
    <2>4. head' \in Slots
      BY <1>1, NextSlotBack
    <2> QED BY <1>1, <1>2, <1>8, <2>1, <2>2, <2>3, <2>4, SmallFacts DEF TypeOK
  <1>12. Control'
    <2>1. ~Ran' /\ Replaying' /\ pc' = "replay"
      BY <1>1 DEF Ran, Replaying
    <2>2. /\ Len(cpu') = F /\ framecount' = F /\ goal' = framecount /\ started' /\ polls' = polls
      BY <1>1, <1>8
    <2> QED BY <1>3, <1>4, <1>7, <2>1, <2>2 DEF Control
  <1>13. RingInv'
    <2> SUFFICES ASSUME NEW t \in Slots PROVE RingHolds(t)' /\ StateOf(t)'
      BY DEF RingInv
    <2>1. RingHolds(t) /\ StateOf(t)
      BY BattleFacts DEF RingInv
    <2>2. /\ Back(t) = Back(s) + Back(t)' - 1 \/ Back(t) = Back(s) + Back(t)' - 1 - Ring
          /\ Back(t)' \in 1..Ring
      <3> DEFINE d == IF t = s THEN 1 ELSE (IF t < s THEN s - t ELSE s - t + Ring) + 1
      <3>1. Back(t)' = d
        BY <1>1, NextSlotBack DEF Back
      <3>2. /\ Back(t) = Back(s) + d - 1 \/ Back(t) = Back(s) + d - 1 - Ring
            /\ d \in 1..Ring
        BY <1>2, BackFrom DEF Back
      <3> HIDE DEF d
      <3> QED BY <3>1, <3>2
    <2>3. Held(t)' = Held(t)
      <3> DEFINE d == Back(t)'
                 x == F + 1 - d
      <3>1. Held(t)' = IF x + Ring <= framecount THEN x + Ring ELSE x
        BY <1>1, <1>3 DEF Held
      <3>2. /\ Back(t) \in 1..Ring /\ Back(s) \in 1..Ring /\ Held(t) = framecount + 1 - Back(t)
            /\ F = framecount + 1 - Back(s)
        BY <1>6, <1>7
      <3> HIDE DEF d
      <3> QED BY <1>2, <2>2, <3>1, <3>2 DEF d
    <2>4. RingHolds(t)'
      BY <1>1, <2>1, <2>3 DEF RingHolds
    <2>5. StateOf(t)'
      <3> SUFFICES ASSUME 1 <= saved[t].frame, saved[t].frame <= F
                   PROVE  saved[t].buf[1] = SubSeq(c, 1, saved[t].frame)
        BY <1>1, <1>8 DEF StateOf
      <3>1. saved[t].frame \in 0..F /\ saved[t].frame <= framecount
        BY <1>2, <1>4 DEF TypeOK, Frames, Null
      <3> QED BY <2>1, <3>1, <1>8 DEF StateOf
    <2> QED BY <2>4, <2>5
  <1>14. DeltaInv'
    <2> SUFFICES ASSUME NEW g \in Frames, 1 <= g, framecount - Ring < g, g < F
                 PROVE  delta[g] = Written(c, g + 1)
      BY <1>1, <1>3, <1>8 DEF DeltaInv
    <2>1. g < framecount /\ Target - Ring < g
      BY <1>2, <1>3, <1>4 DEF Frames
    <2>2. delta[g] = Written(cpu, g + 1)
      BY <2>1, BattleFacts DEF DeltaInv
    <2>3. /\ g + 1 \in Nat \ {0} /\ g + 1 <= Len(cpu) /\ g + 1 <= Len(c)
          /\ \A m \in 0..(g + 1) : m \in 0..F
      BY <1>2, <1>3, <1>4, <1>8 DEF Frames
    <2>4. Written(c, g + 1) = Written(cpu, g + 1)
      BY <1>2, <1>8, <2>3, WrittenPrefix
    <2> QED BY <2>2, <2>4
  <1>15. WatchInv'
    BY <1>1 DEF WatchInv, Ran
  <1>16. RollbackExact'
    BY <1>8, <1>9 DEF RollbackExact
  <1>17. LocalInv'
    <2>1. queue'[Local].ins = queue[Local].ins /\ LocalInv
      BY <1>10, BattleFacts
    <2> QED BY <1>1, <1>3, <2>1 DEF LocalInv
  <1>18. \A p \in Players : QueueOK(queue[p], Len(cpu))'
    BY <1>4, <1>8, <1>10 DEF QueueOK, Null
  <1>19. \A p \in (Players \ gone)' : GuessInv(p)' /\ ConfirmInv(p)'
    <2> SUFFICES ASSUME NEW p \in Players \ gone PROVE GuessInv(p)' /\ ConfirmInv(p)'
      BY <1>1
    <2> DEFINE q == queue[p]
               r == queue'[p]
    <2>1. /\ q.bad = Null \/ (F <= q.bad /\ q.bad < Len(q.ins))
          /\ Guessed(q, cpu, p) /\ Right(q, cpu, p) /\ ConfirmInv(p)
          /\ q.bad \in Int /\ Len(q.ins) \in Nat /\ q.tail \in Nat
      BY <1>4, BattleFacts, QueueTypes DEF GuessInv, QueueOK
    <2>2. /\ r.ins = q.ins /\ r.tail = q.tail /\ r.bad = Null /\ r.pred = Null
          /\ Latest(r) = Latest(q)
      BY <1>10
    <2> HIDE DEF q, r
    <2>3. Guessed(r, c, p)
      <3>1. ASSUME NEW f \in (Len(q.ins) + 1)..F PROVE c[f].in[p] = Latest(q)
        <4>1. q.bad = Null /\ f \in 1..F /\ f \in (Len(q.ins) + 1)..Len(cpu)
          BY <1>2, <1>3, <1>4, <2>1
        <4> QED BY <4>1, <1>8, <2>1 DEF Guessed
      <3> QED BY <1>8, <2>2, <3>1 DEF Guessed
    <2>4. Right(r, c, p)
      <3>1. ASSUME NEW f \in 1..F, f <= Len(q.ins) PROVE c[f].in[p] = q.ins[f]
        <4>1. f \in 1..Len(cpu) /\ (q.bad = Null \/ f <= q.bad)
          BY <1>2, <1>3, <1>4, <2>1
        <4> QED BY <4>1, <3>1, <1>8, <2>1 DEF Right
      <3> QED BY <1>8, <2>2, <3>1 DEF Right
    <2>5. GuessInv(p)'
      BY <1>1, <1>8, <2>2, <2>3, <2>4 DEF GuessInv, r
    <2>6. ConfirmInv(p)'
      <3>1. /\ confirmed < Len(q.ins) /\ (q.tail = 0 \/ q.tail <= confirmed)
        BY <2>1 DEF ConfirmInv, q
      <3>2. q.tail <= F
        BY <1>2, <1>4, <1>5, <2>1, <3>1
      <3> QED BY <1>1, <2>2, <3>1, <3>2 DEF ConfirmInv, r
    <2> QED BY <2>5, <2>6
  <1> QED BY <1>11, <1>12, <1>13, <1>14, <1>15, <1>16, <1>17, <1>18, <1>19 DEF BattleInv

-----------------------------------------------------------------------------
(***************************************************************************)
(* The theorems.                                                           *)
(***************************************************************************)
LEMMA StutterInv == BattleInv /\ UNCHANGED vars => BattleInv'
  <1> SUFFICES ASSUME BattleInv, UNCHANGED vars PROVE BattleInv'
    OBVIOUS
  <1>1. UNCHANGED <<pc, polls, framecount, confirmed, goal, saved, head, queue, gone, lastSaved, delta,
                    skipped, cpu, mem, prot, watch, started, sessions>>
    BY DEF vars, sync, ggpo, vm, guard
  <1>2. Quiet
    BY <1>1 DEF Quiet, Steady, Target, Ran, Replaying
  <1>3. TypeOK'
    BY <1>1, BattleFacts DEF TypeOK
  <1>4. Control'
    BY <1>1, BattleFacts DEF Control, Ran, Replaying
  <1>5. LocalInv'
    BY <1>1, BattleFacts DEF LocalInv, Due, Target, Replaying
  <1>6. \A p \in Players : QueueOK(queue[p], Len(cpu))'
    BY <1>1, BattleFacts
  <1>7. \A p \in (Players \ gone)' : GuessInv(p)' /\ ConfirmInv(p)'
    BY <1>1, BattleFacts DEF GuessInv, ConfirmInv
  <1> QED BY <1>2, <1>3, <1>4, <1>5, <1>6, <1>7, QuietInv

\* Every action keeps the invariant.
LEMMA InvNext == BattleInv /\ [Next]_vars => BattleInv'
  <1> SUFFICES ASSUME BattleInv, [Next]_vars PROVE BattleInv'
    OBVIOUS
  <1>1. CASE \E k \in 0..MaxSkips : RunFrame(k)
    BY <1>1, RunFrameInv
  <1>2. CASE ReplayFrame
    BY <1>2, ReplayFrameInv
  <1>3. CASE AdvanceFrame
    BY <1>3, AdvanceFrameInv
  <1>4. CASE ReplaySaved
    BY <1>4, ReplaySavedInv
  <1>5. CASE Refused
    BY <1>5, RefusedInv
  <1>6. CASE AssertFails \/ Close
    BY <1>6, StopInv DEF AssertFails, Close
  <1>7. CASE \E s \in Slots : AdjustSimulation(s)
    BY <1>7, AdjustSimulationInv
  <1>8. CASE \E n \in Null..LastFrame(Local) : SetLastConfirmedFrame(n)
    BY <1>8, SetLastConfirmedInv
  <1>9. CASE \E x \in Moves[Local] : AddLocalInput(x)
    BY <1>9, AddLocalInputInv
  <1>10. CASE StartSession
    BY <1>10, StartSessionInv
  <1>11. ASSUME NEW p \in Remotes, Disconnect(p) PROVE BattleInv'
    BY <1>11, DisconnectInv
  <1>12. ASSUME NEW p \in Remotes, NEW x \in Moves[p], Receive(p, x) PROVE BattleInv'
    BY <1>12, ReceiveInv
  <1>13. CASE Leave
    BY <1>13, LeaveInv
  <1>14. CASE UNCHANGED vars
    BY <1>14, StutterInv
  <1> QED BY <1>1, <1>2, <1>3, <1>4, <1>5, <1>6, <1>7, <1>8, <1>9, <1>10, <1>11, <1>12, <1>13, <1>14
          DEF Next, Emulation

\* The inductive invariant of a battle.
LEMMA BattleInvariance == Spec => []BattleInv
  <1> QED BY InvInit, InvNext, PTL DEF Spec

\* Every variable of the session keeps its type; in particular a battle never runs
\* a frame that was not asked for (the frame counters stay in their range).
THEOREM RollbackTypeCorrect == Spec => []TypeOK
  <1>1. BattleInv => TypeOK
    BY DEF BattleInv
  <1> QED BY <1>1, BattleInvariance, PTL

\* load_game_state restores exactly the memory of the frame, and running frames
\* again gives what running them once gives: for any emulation, any number of
\* players and delays, and any ring that holds the prediction frames.
THEOREM RollbackIsExact == Spec => []RollbackExact
  <1>1. BattleInv => RollbackExact
    BY DEF BattleInv
  <1> QED BY <1>1, BattleInvariance, PTL

\* memwatch never leaves a page protected that it has already saved, which its
\* fault handler could not unprotect.
THEOREM NoPageFaultsForEver == Spec => []NoFaultLoop
  <1>1. BattleInv => NoFaultLoop
    <2> SUFFICES ASSUME BattleInv, NEW p \in prot PROVE watch[p] = <<>>
      BY DEF NoFaultLoop
    <2>1. WatchInv /\ p \in Pages /\ cpu \in History
      BY BattleFacts DEF TypeOK
    <2>2. CASE started /\ Ran
      <3>1. p \notin Dirty(cpu) /\ watch = Written(cpu, Len(cpu))
        BY <2>1, <2>2 DEF WatchInv
      <3>2. SubSeq(cpu, 1, Len(cpu)) = cpu
        BY <2>1, SubSeqFull DEF History
      <3> DEFINE n == Len(cpu)
      <3>3. Written(cpu, n)[p] = IF p \in Dirty(SubSeq(cpu, 1, n))
                                 THEN <<Memory(SubSeq(cpu, 1, n - 1))[p]>> ELSE <<>>
        BY <2>1, WrittenAt
      <3> QED BY <3>1, <3>2, <3>3
    <2>3. CASE ~(started /\ Ran)
      BY <2>1, <2>3 DEF WatchInv, NoPages
    <2> QED BY <2>2, <2>3
  <1> QED BY <1>1, BattleInvariance, PTL

\* The state of the frame to go back to is always in the ring: the frame after the
\* last one that is confirmed is at most MAX_PREDICTION_FRAMES back.
THEOREM TargetIsSaved == Spec => []TargetSaved
  <1>1. BattleInv => TargetSaved
    <2> SUFFICES ASSUME BattleInv, pc = "events", Incorrect # {}
                 PROVE  /\ \E s \in Slots : saved[s].frame = SeekTo
                        /\ \A s \in Slots : saved[s].frame = SeekTo =>
                              saved[s].buf # <<>> /\ Len(saved[s].buf[1]) = SeekTo /\ SeekTo < framecount
      BY DEF TargetSaved
    <2> DEFINE F == SeekTo
    <2>1. /\ framecount \in Nat /\ head \in Slots /\ head \in Nat /\ head < Ring /\ confirmed \in Int
          /\ Ring \in Nat /\ MaxPrediction \in Nat /\ MaxPrediction <= Ring /\ cpu \in History
      BY BattleFacts, SmallFacts DEF Slots
    <2>2. Len(cpu) = framecount /\ Target = framecount /\ Due = framecount
      BY BattleFacts DEF Control, Ran, Target, Due, Replaying
    <2>3. F \in Nat /\ 1 <= F /\ F < framecount /\ \E p \in Players \ gone : F = queue[p].bad /\ F # Null
      BY <2>2, BattleFacts, SeekToIsFirst
    <2>4. confirmed < F
      BY <2>3, BattleFacts DEF ConfirmInv
    <2> HIDE DEF F
    <2>5. framecount < F + Ring
      <3>1. framecount <= MaxPrediction \/ framecount - confirmed <= MaxPrediction
        BY <2>2, BattleFacts DEF LocalInv
      <3>2. CASE framecount <= MaxPrediction
        BY <3>2, <2>1, <2>3
      <3>3. CASE framecount - confirmed <= MaxPrediction
        BY <3>3, <2>1, <2>3, <2>4
      <3> QED BY <3>1, <3>2, <3>3
    <2> DEFINE d == framecount + 1 - F
               s0 == IF d <= head THEN head - d ELSE head - d + Ring
    <2>6. d \in 1..Ring /\ s0 \in Slots
      BY <2>1, <2>3, <2>5 DEF Slots
    <2>7. Back(s0) = d
      BY <2>1, <2>6 DEF Back, Slots
    <2>8. Held(s0) = F
      <3>1. framecount + 1 - d = F /\ ~(F + Ring <= framecount)
        BY <2>1, <2>3, <2>5
      <3> HIDE DEF d, s0
      <3> QED BY <2>2, <2>7, <3>1 DEF Held
    <2> HIDE DEF d, s0
    <2>9. saved[s0].frame = F
      BY <2>3, <2>6, <2>8, BattleFacts DEF RingInv, RingHolds
    <2>10. ASSUME NEW s \in Slots, saved[s].frame = F
           PROVE  saved[s].buf # <<>> /\ Len(saved[s].buf[1]) = F
      <3>1. RingHolds(s) /\ StateOf(s)
        BY BattleFacts DEF RingInv
      <3>2. Held(s) >= 1
        BY <2>3, <2>10, <3>1 DEF RingHolds, Null
      <3>3. Len(saved[s].buf) = 1
        BY <3>1, <3>2 DEF RingHolds
      <3>4. saved[s].buf[1] = SubSeq(cpu, 1, F)
        BY <2>1, <2>3, <2>10, <3>1 DEF StateOf
      <3>5. Len(SubSeq(cpu, 1, F)) = F
        <4>1. F \in 0..Len(cpu)
          BY <2>1, <2>2, <2>3
        <4> QED BY <2>1, <4>1, HistoryPrefix
      <3>6. saved[s].buf # <<>>
        <4> SUFFICES ASSUME saved[s].buf = <<>> PROVE FALSE
          OBVIOUS
        <4>1. Len(saved[s].buf) = 0
          BY SmallFacts
        <4> QED BY <3>3, <4>1
      <3> QED BY <3>4, <3>5, <3>6
    <2> QED BY <2>3, <2>6, <2>9, <2>10 DEF F
  <1> QED BY <1>1, BattleInvariance, PTL

\* The assertions of the input queues: no frame is run on a prediction that is
\* known to be wrong, nor on an input that was discarded.
THEOREM InputsAreKept == Spec => []InputsKept
  <1>1. BattleInv => InputsKept
    <2> SUFFICES ASSUME BattleInv, NEW p \in Players \ gone
                 PROVE  /\ pc \in {"run", "replay"} => queue[p].bad = Null /\ queue[p].tail <= framecount
                        /\ queue[p].pred \in {Null, Len(queue[p].ins)}
      BY DEF InputsKept
    <2>1. GuessInv(p) /\ ConfirmInv(p) /\ QueueOK(queue[p], Len(cpu))
      BY BattleFacts
    <2> QED BY <2>1 DEF GuessInv, ConfirmInv, QueueOK
  <1> QED BY <1>1, BattleInvariance, PTL

\* Up to the first known mistake the frames are those of the real inputs.
THEOREM FramesConverge == Spec => []Converged
  <1>1. BattleInv => Converged
    <2> SUFFICES ASSUME BattleInv, NEW p \in Players \ gone, NEW f \in 1..Len(cpu),
                        f <= Len(queue[p].ins), queue[p].bad = Null \/ f <= queue[p].bad
                 PROVE  cpu[f].in[p] = queue[p].ins[f]
      BY DEF Converged
    <2>1. Right(queue[p], cpu, p)
      BY BattleFacts DEF GuessInv
    <2> QED BY <2>1 DEF Right
  <1> QED BY <1>1, BattleInvariance, PTL

-----------------------------------------------------------------------------
(***************************************************************************)
(* The prediction barrier.                                                 *)
(***************************************************************************)
\* When the next input is asked for, what is confirmed is what the slowest of the
\* connected players has sent, unless all the peers are gone.
MinInv == pc = "input" /\ gone # Remotes => IsMinConfirmed(confirmed)

\* SetLastConfirmedFrame is the only step that leads to the input.
LEMMA MinNext == BattleInv /\ MinInv /\ [Next]_vars => MinInv'
  <1> SUFFICES ASSUME BattleInv, MinInv, [Next]_vars, pc' = "input", gone' # Remotes
               PROVE  IsMinConfirmed(confirmed)'
    BY DEF MinInv
  <1>1. CASE UNCHANGED vars
    BY <1>1 DEF MinInv, IsMinConfirmed, LastFrame, vars, sync
  <1>2. ASSUME NEW n \in Null..LastFrame(Local), SetLastConfirmedFrame(n)
        PROVE  IsMinConfirmed(confirmed)'
    <2>1. /\ IsMinConfirmed(n) /\ gone' = gone
          /\ confirmed' = IF n >= 0 THEN n ELSE confirmed
      BY <1>2 DEF SetLastConfirmedFrame
    <2>2. ASSUME NEW p \in Players PROVE queue'[p].ins = queue[p].ins
      <3>1. queue'[p] = IF n > 0 THEN DiscardConfirmedFrames(queue[p], n - 1) ELSE queue[p]
        BY <1>2 DEF SetLastConfirmedFrame
      <3>2. queue[p] \in QueueType
        BY BattleFacts, QueueTypes
      <3> QED BY <3>1, <3>2 DEF DiscardConfirmedFrames, QueueType
    <2>3. n \in Int /\ Null <= n /\ confirmed \in Int /\ Null <= confirmed
      BY BattleFacts DEF LastFrame, Null, LocalInv, TypeOK
    <2>4. confirmed' = n
      <3>1. PICK o \in Players \ gone : n = LastFrame(o)
        BY <2>1 DEF IsMinConfirmed
      <3>2. confirmed < Len(queue[o].ins) /\ Len(queue[o].ins) \in Nat
        BY <3>1, BattleFacts DEF ConfirmInv
      <3> QED BY <2>1, <2>3, <3>1, <3>2 DEF LastFrame, Null
    <2> QED BY <2>1, <2>2, <2>4 DEF IsMinConfirmed, LastFrame
  <1>3. CASE \/ \E k \in 0..MaxSkips : RunFrame(k)
             \/ ReplayFrame \/ AdvanceFrame \/ ReplaySaved \/ Refused \/ AssertFails
             \/ \E s \in Slots : AdjustSimulation(s)
             \/ \E x \in Moves[Local] : AddLocalInput(x)
             \/ Close \/ StartSession \/ Leave
             \/ \E p \in Remotes : Disconnect(p) \/ \E x \in Moves[p] : Receive(p, x)
    BY <1>3 DEF RunFrame, ReplayFrame, AdvanceFrame, ReplaySaved, Refused, AssertFails,
                AdjustSimulation, AddLocalInput, Close, StopSession, StartSession, Leave,
                Disconnect, Receive
  <1> QED BY <1>1, <1>2, <1>3 DEF Next, Emulation

\* While there are peers, nextFrame() is refused at the barrier only because one of them
\* is behind, which is not held by its own barrier in turn: two peers never wait for
\* each other, and a peer that was dropped by the last poll is not waited for.
BarrierWaitsForPeer ==
    pc = "input" /\ PredictionBarrier /\ gone # Remotes =>
        \E p \in Remotes \ gone : LastFrame(p) = confirmed /\ PeerNotBarred(p)

\* The safety part of BarrierLifts: what the local player has sent is never what its own
\* barrier waits for.
THEOREM BarrierIsThePeers == Spec => []BarrierWaitsForPeer
  <1>1. Init => MinInv
    BY DEF Init, MinInv
  <1>2. BattleInv /\ MinInv => BarrierWaitsForPeer
    <2> SUFFICES ASSUME BattleInv, MinInv, pc = "input", PredictionBarrier, gone # Remotes
                 PROVE  \E p \in Remotes \ gone : LastFrame(p) = confirmed /\ PeerNotBarred(p)
      BY DEF BarrierWaitsForPeer
    <2>1. PICK p \in Players \ gone : LastFrame(p) = confirmed
      BY DEF MinInv, IsMinConfirmed
    <2>2. /\ framecount \in Nat /\ confirmed \in Int /\ MaxPrediction \in Nat /\ MaxPrediction >= 2
          /\ Delay[p] \in Nat /\ Null <= confirmed
      BY BattleFacts, RollbackAssumption DEF TypeOK, LocalInv, Frames
    <2>3. framecount >= MaxPrediction /\ framecount - confirmed >= MaxPrediction
      BY DEF PredictionBarrier
    <2>4. Due = framecount
      BY DEF Due, Target, Replaying
    <2>5. /\ Len(queue[Local].ins) \in Nat /\ Len(queue[p].ins) \in Nat
          /\ queue[p].ins = <<>> <=> Len(queue[p].ins) = 0
      <3>1. queue[Local] \in QueueType /\ queue[p] \in QueueType
        BY BattleFacts, QueueTypes, RollbackAssumption
      <3>2. queue[Local].ins \in Seq(Inputs) /\ queue[p].ins \in Seq(Inputs)
        BY <3>1 DEF QueueType
      <3> QED BY <3>2, LenProperties
    <2>6. Len(queue[Local].ins) >= framecount
      BY <2>2, <2>3, <2>4, BattleFacts DEF LocalInv
    <2>7. LastFrame(Local) >= confirmed + MaxPrediction - 1 /\ LastFrame(Local) \in Nat
      BY <2>2, <2>3, <2>5, <2>6 DEF LastFrame
    <2>8. p # Local
      BY <2>1, <2>2, <2>7
    <2>9. PeerNotBarred(p)
      <3> DEFINE n == IF queue[p].ins = <<>> THEN 1 ELSE Len(queue[p].ins) - Delay[p]
                 m == LastFrame(Local)
      <3>1. n \in Int /\ n <= confirmed + 2 /\ Null <= confirmed
        BY <2>1, <2>2, <2>5 DEF LastFrame, Null
      <3>2. m \in Nat /\ m >= confirmed + MaxPrediction - 1
        BY <2>7
      <3> HIDE DEF n, m
      <3>3. n < MaxPrediction + (IF m = Null THEN 0 ELSE m)
        BY <2>2, <3>1, <3>2 DEF Null
      <3> QED BY <3>3 DEF PeerNotBarred, n, m
    <2> QED BY <2>1, <2>8, <2>9 DEF Remotes
  <1> QED BY <1>1, <1>2, BattleInvariance, MinNext, PTL DEF Spec

-----------------------------------------------------------------------------
(***************************************************************************)
(* The session implements lock step.                                       *)
(***************************************************************************)
Scripts == [p \in Players |-> queue[p].ins]
Final   == [f \in 1..Confirmed |-> cpu[f].in]

\* The length of a sequence that is given as a function.
LEMMA LengthOf ==
    ASSUME NEW n \in Nat, NEW F, DOMAIN F = 1..n, F = [i \in 1..n |-> F[i]]
    PROVE  Len(F) = n
  <1>1. F \in [1..n -> {F[i] : i \in 1..n}]
    OBVIOUS
  <1>2. F \in Seq({F[i] : i \in 1..n})
    BY <1>1, SeqDef
  <1>3. Len(F) \in Nat /\ DOMAIN F = 1..Len(F)
    BY <1>2, LenProperties
  <1> QED BY <1>3

ConfirmedOK == /\ Confirmed \in Nat /\ Confirmed <= Len(cpu) /\ Confirmed <= confirmed + 1
               /\ Len(Final) = Confirmed /\ \A f \in 1..Confirmed : Final[f] = cpu[f].in

\* The confirmed frames have been run, and their inputs are known.
LEMMA ConfirmedFacts == BattleInv => ConfirmedOK
  <1> SUFFICES ASSUME BattleInv PROVE ConfirmedOK
    OBVIOUS
  <1>1. Confirmed \in Nat /\ Confirmed <= Len(cpu) /\ Confirmed <= confirmed + 1
    <2>1. Null <= confirmed /\ confirmed \in Int /\ Len(cpu) \in Nat
      BY BattleFacts DEF LocalInv
    <2> QED BY <2>1 DEF Confirmed, Null
  <1>2. DOMAIN Final = 1..Confirmed /\ \A f \in 1..Confirmed : Final[f] = cpu[f].in
    BY DEF Final
  <1>3. Len(Final) = Confirmed
    BY <1>1, <1>2, LengthOf DEF Final
  <1> QED BY <1>1, <1>2, <1>3 DEF ConfirmedOK

\* A frame that is confirmed is known and lies before the first mistake.
LEMMA InReach ==
    ASSUME NEW f \in Nat, NEW n \in Nat, NEW c \in Int, NEW l \in Nat, NEW b \in Int,
           f <= n, n <= c + 1, c < l, b # Null => c < b
    PROVE  f <= l /\ (b = Null \/ f <= b)
  OBVIOUS

\* The confirmed frames stay, and those that join them are the right ones: both
\* are in the invariant of the next state.
LEMMA CommitStep ==
    ASSUME BattleInv, BattleInv', gone' = gone,
           \A p \in Players : queue'[p].ins = queue[p].ins,
           Confirmed <= Confirmed', \A f \in 1..Confirmed : cpu'[f] = cpu[f]
    PROVE  Lock!Commit
  <1>1. /\ Confirmed \in Nat /\ Len(Final) = Confirmed
        /\ \A f \in 1..Confirmed : Final[f] = cpu[f].in
    BY ConfirmedFacts DEF ConfirmedOK
  <1>2. /\ Confirmed' \in Nat /\ Len(Final') = Confirmed' /\ (Confirmed <= Len(cpu))'
        /\ (Confirmed <= confirmed + 1)'
        /\ \A f \in 1..Confirmed' : Final'[f] = cpu'[f].in
    <2>1. ConfirmedOK'
      BY ConfirmedFacts, PTL
    <2> QED BY <2>1 DEF ConfirmedOK
  <1>3. Lock!Extends(Final', Final)
    BY <1>1, <1>2 DEF Lock!Extends
  <1>4. ASSUME NEW f \in (Confirmed + 1)..Confirmed', NEW p \in Players \ gone
        PROVE  f <= Len(Scripts[p]) /\ Final'[f][p] = Scripts[p][f]
    <2>1. /\ Right(queue[p], cpu, p)' /\ ConfirmInv(p)'
          /\ Len(queue'[p].ins) \in Nat /\ confirmed' \in Int /\ queue'[p] \in QueueType
      <3>1. GuessInv(p)' /\ ConfirmInv(p)' /\ confirmed' \in Int /\ queue'[p] \in QueueType
        BY DEF BattleInv, TypeOK
      <3> QED BY <3>1, QueueTypes DEF GuessInv
    <2>2. queue'[p].bad \in Int
      BY <2>1, QueueTypes
    <2>3. confirmed' < Len(queue'[p].ins) /\ (queue'[p].bad # Null => confirmed' < queue'[p].bad)
      BY <2>1 DEF ConfirmInv
    <2>4. f \in 1..Len(cpu') /\ f <= Len(queue'[p].ins) /\ (queue'[p].bad = Null \/ f <= queue'[p].bad)
      <3>1. Len(cpu') \in Nat
        BY LenProperties DEF BattleInv, TypeOK, History
      <3>2. f \in Nat \ {0} /\ f <= Confirmed' /\ Confirmed' <= confirmed' + 1
        BY <1>1, <1>2
      <3>3. f <= Len(queue'[p].ins) /\ (queue'[p].bad = Null \/ f <= queue'[p].bad)
        BY <1>2, <2>1, <2>2, <2>3, <3>2, InReach
      <3> QED BY <1>1, <1>2, <3>1, <3>2, <3>3
    <2>5. cpu'[f].in[p] = queue'[p].ins[f]
      BY <2>1, <2>4 DEF Right
    <2> QED BY <1>1, <1>2, <2>4, <2>5 DEF Scripts
  <1>5. \A f \in (Len(Final) + 1)..Len(Final') : \A p \in Players \ gone :
            f <= Len(Scripts[p]) /\ Final'[f][p] = Scripts[p][f]
    BY <1>1, <1>2, <1>4
  <1>6. Scripts' = Scripts
    BY DEF Scripts
  <1> QED BY <1>3, <1>5, <1>6 DEF Lock!Commit, Scripts, Final

\* A frame that is run leaves the others.
LEMMA ExecuteCommits ==
    ASSUME BattleInv, BattleInv', NEW k \in Nat, Execute(k), pc \in {"run", "replay"},
           UNCHANGED <<confirmed, gone>>
    PROVE  Lock!Commit
  <1> DEFINE e == Run(k)
  <1>1. cpu' = Append(cpu, e) /\ cpu \in History /\ Len(cpu) \in Nat
    BY BattleFacts DEF Execute, Run
  <1>2. e \in Entry
    <2>1. Len(cpu) = framecount
      BY BattleFacts DEF Control, Ran
    <2>2. ASSUME NEW p \in Players \ gone PROVE GetInput(queue[p], framecount) \in Inputs
      <3>1. /\ queue[p] \in QueueType /\ QueueOK(queue[p], Len(cpu)) /\ GuessInv(p) /\ p \in Players
        BY BattleFacts
      <3> QED BY <2>1, <3>1, BattleFacts, GetInputType
    <2>3. FrameInputs \in [Players -> Inputs]
      BY <2>2, RollbackAssumption DEF FrameInputs
    <2> QED BY <2>3 DEF Entry, Run
  <1>3. Len(cpu') = Len(cpu) + 1 /\ \A i \in 1..Len(cpu) : cpu'[i] = cpu[i]
    BY <1>1, <1>2, HistoryAppend
  <1>4. \A p \in Players : queue'[p].ins = queue[p].ins
    <2> TAKE p \in Players
    <2>1. queue[p] \in QueueType /\ queue'[p] = IF p \in gone THEN queue[p] ELSE Requested(queue[p], framecount)
      BY BattleFacts DEF Execute
    <2> QED BY <2>1 DEF Requested, QueueType
  <1>5. confirmed' = confirmed /\ confirmed \in Int
    BY BattleFacts
  <1>6. Confirmed <= Confirmed'
    BY <1>1, <1>3, <1>5 DEF Confirmed
  <1>7. \A f \in 1..Confirmed : cpu'[f] = cpu[f]
    BY <1>1, <1>3, ConfirmedFacts DEF ConfirmedOK
  <1> QED BY <1>4, <1>6, <1>7, CommitStep

\* A rollback goes back to a frame after the confirmed ones.
LEMMA AdjustCommits ==
    ASSUME BattleInv, BattleInv', NEW s \in Slots, AdjustSimulation(s) PROVE Lock!Commit
  <1> DEFINE F == SeekTo
  <1>1. /\ pc = "events" /\ Incorrect # {} /\ saved[s].frame = F
        /\ cpu' = saved[s].buf[1] /\ confirmed' = confirmed /\ gone' = gone
        /\ queue' = [p \in Players |-> ResetPrediction(queue[p])]
    BY DEF AdjustSimulation, LoadFrame
  <1>2. Len(cpu) = framecount /\ framecount \in Nat /\ cpu \in History /\ confirmed \in Int
    BY <1>1, BattleFacts DEF Control, Ran
  <1>3. /\ F \in Nat /\ 1 <= F /\ F < framecount
        /\ \E p \in Players \ gone : F = queue[p].bad /\ F # Null
    BY <1>1, <1>2, BattleFacts, SeekToIsFirst
  <1>4. confirmed < F
    BY <1>3, BattleFacts DEF ConfirmInv
  <1> HIDE DEF F
  <1>5. cpu' = SubSeq(cpu, 1, F)
    BY <1>1, <1>2, <1>3, BattleFacts DEF RingInv, StateOf
  <1>6. Len(cpu') = F /\ \A i \in 1..F : cpu'[i] = cpu[i]
    BY <1>2, <1>3, <1>5, HistoryPrefix
  <1>7. Confirmed' = confirmed + 1 /\ Confirmed = confirmed + 1
    BY <1>1, <1>2, <1>3, <1>4, <1>6 DEF Confirmed
  <1>8. \A p \in Players : queue'[p].ins = queue[p].ins
    <2> TAKE p \in Players
    <2>1. queue[p] \in QueueType /\ queue'[p] = ResetPrediction(queue[p])
      BY <1>1, BattleFacts
    <2> QED BY <2>1 DEF ResetPrediction, QueueType
  <1>9. \A f \in 1..Confirmed : cpu'[f] = cpu[f]
    BY <1>2, <1>3, <1>4, <1>6, <1>7
  <1> QED BY <1>1, <1>2, <1>7, <1>8, <1>9, CommitStep

\* The last confirmed frame only grows.
LEMMA ConfirmCommits ==
    ASSUME BattleInv, BattleInv', NEW n \in Null..LastFrame(Local), SetLastConfirmedFrame(n)
    PROVE  Lock!Commit
  <1>1. /\ IsMinConfirmed(n) /\ confirmed' = (IF n >= 0 THEN n ELSE confirmed)
        /\ queue' = [p \in Players |-> IF n > 0 THEN DiscardConfirmedFrames(queue[p], n - 1)
                                                ELSE queue[p]]
        /\ UNCHANGED <<cpu, gone>>
    BY DEF SetLastConfirmedFrame, vm
  <1>2. confirmed \in Int /\ Len(cpu) \in Nat /\ Null <= confirmed
    BY BattleFacts DEF LocalInv
  <1>3. PICK p \in Players \ gone : n = LastFrame(p)
    BY <1>1 DEF IsMinConfirmed
  <1>4. n \in Int /\ confirmed <= n
    <2>1. confirmed < Len(queue[p].ins) /\ Len(queue[p].ins) \in Nat
      BY <1>3, BattleFacts DEF ConfirmInv
    <2> QED BY <2>1, <1>2, <1>3 DEF LastFrame
  <1>5. confirmed' \in Int /\ confirmed <= confirmed'
    BY <1>1, <1>2, <1>4
  <1>6. Confirmed <= Confirmed'
    BY <1>1, <1>2, <1>5 DEF Confirmed
  <1>7. \A o \in Players : queue'[o].ins = queue[o].ins
    <2> TAKE o \in Players
    <2>1. queue[o] \in QueueType
          /\ queue'[o] = (IF n > 0 THEN DiscardConfirmedFrames(queue[o], n - 1) ELSE queue[o])
      BY <1>1, BattleFacts
    <2> QED BY <2>1 DEF DiscardConfirmedFrames, QueueType
  <1> QED BY <1>1, <1>6, <1>7, CommitStep

\* The other steps between two inputs.
LEMMA SameCommits ==
    ASSUME BattleInv, BattleInv', UNCHANGED <<cpu, confirmed, queue, gone>> PROVE Lock!Commit
  <1>1. Confirmed' = Confirmed /\ Confirmed \in Nat
    BY ConfirmedFacts DEF Confirmed, ConfirmedOK
  <1> QED BY <1>1, CommitStep

\* An input is added to what the player did.
LEMMA InputActs ==
    ASSUME BattleInv, NEW o \in Players \ gone, NEW x \in Inputs, pc # "replay",
           queue' = [queue EXCEPT ![o] = AddInput(o, x)], UNCHANGED <<cpu, confirmed, gone>>
    PROVE  Lock!Act(o)
  <1> DEFINE r == AddInput(o, x)
  <1>1. /\ TypeOK /\ QueueOK(queue[o], Len(cpu)) /\ GuessInv(o) /\ Len(queue[o].ins) \in Nat
    BY BattleFacts
  <1>2. /\ r \in QueueType /\ Len(queue[o].ins) < Len(r.ins)
        /\ \A i \in 1..Len(queue[o].ins) : r.ins[i] = queue[o].ins[i]
    BY <1>1, AddInputKeeps
  <1>3. queue'[o] = r /\ \A p \in Players \ {o} : queue'[p] = queue[p]
    BY <1>1 DEF TypeOK
  <1> HIDE DEF r
  <1>4. Lock!Extends(Scripts'[o], Scripts[o])
    <2>1. Len(r.ins) \in Nat
      BY <1>2, QueueTypes
    <2>2. Scripts'[o] = r.ins /\ Scripts[o] = queue[o].ins
      BY <1>3 DEF Scripts
    <2> QED BY <1>1, <1>2, <2>1, <2>2 DEF Lock!Extends
  <1>5. \A p \in Players \ {o} : Scripts'[p] = Scripts[p]
    BY <1>3 DEF Scripts
  <1>6. Final' = Final
    BY DEF Final, Confirmed
  <1> QED BY <1>4, <1>5, <1>6 DEF Lock!Act, Scripts, Final

NothingRan == Len(cpu) = 0 /\ confirmed = Null
NoFinal    == Final = <<>>

\* Before the first frame nothing is final.
LEMMA NothingFinal == NothingRan => NoFinal
  <1> SUFFICES ASSUME Len(cpu) = 0, confirmed = Null PROVE Final = <<>>
    BY DEF NothingRan, NoFinal
  <1>1. Confirmed = 0
    BY DEF Confirmed, Null
  <1> QED BY <1>1 DEF Final

\* The end of a session is a restart of lock step.
LEMMA StopRestarts == BattleInv /\ StopSession => Lock!Restart
  <1> SUFFICES ASSUME BattleInv, StopSession PROVE Lock!Restart
    OBVIOUS
  <1>1. cpu' = <<>> /\ confirmed' = Null /\ gone' = {} /\ queue' = [p \in Players |-> NewQueue]
    BY DEF StopSession
  <1>2. Final' = <<>>
    <2>1. NothingRan'
      BY <1>1, SmallFacts DEF NothingRan
    <2>2. NoFinal'
      BY <2>1, NothingFinal, PTL
    <2> QED BY <2>2 DEF NoFinal
  <1>3. Scripts' = [p \in Players |-> <<>>]
    BY <1>1 DEF Scripts, NewQueue
  <1> QED BY <1>1, <1>2, <1>3 DEF Lock!Restart, Final, Scripts

\* A session starts as lock step does.
LEMMA LockInit == Init => Lock!Init
  <1> SUFFICES ASSUME Init PROVE Lock!Init
    OBVIOUS
  <1>1. cpu = <<>> /\ confirmed = Null /\ gone = {} /\ queue = [p \in Players |-> NewQueue]
    BY DEF Init
  <1>2. Final = <<>>
    BY <1>1, SmallFacts, NothingFinal DEF NothingRan, NoFinal
  <1>3. Scripts = [p \in Players |-> <<>>]
    BY <1>1 DEF Scripts, NewQueue
  <1> QED BY <1>1, <1>2, <1>3 DEF Lock!Init, Final, Scripts

\* Every step is a step of lock step or a stutter.
LEMMA StepImplements == BattleInv /\ BattleInv' /\ [Next]_vars => [Lock!Next]_(Lock!vars)
  <1> SUFFICES ASSUME BattleInv, BattleInv', [Next]_vars PROVE [Lock!Next]_(Lock!vars)
    OBVIOUS
  <1>1. ASSUME NEW k \in 0..MaxSkips, RunFrame(k) PROVE Lock!Commit
    <2>1. k \in Nat /\ pc = "run" /\ Execute(k) /\ UNCHANGED <<confirmed, gone>>
      BY <1>1, RollbackAssumption DEF RunFrame, sync
    <2> QED BY <2>1, ExecuteCommits
  <1>2. CASE ReplayFrame
    <2>1. pc = "replay" /\ Execute(skipped[framecount]) /\ UNCHANGED <<confirmed, gone>>
      BY <1>2 DEF ReplayFrame, sync
    <2>2. skipped[framecount] \in Nat
      BY BattleFacts DEF TypeOK
    <2>3. Lock!Commit
      BY <2>1, <2>2, ExecuteCommits
    <2> QED BY <2>3 DEF Lock!Next
  <1>3. CASE AdvanceFrame \/ ReplaySaved \/ Refused \/ StartSession \/ UNCHANGED vars
    <2>1. UNCHANGED <<cpu, confirmed, queue, gone>>
      BY <1>3 DEF AdvanceFrame, ReplaySaved, Refused, StartSession, vars, sync, vm
    <2>2. Lock!Commit
      BY <2>1, SameCommits
    <2> QED BY <2>2 DEF Lock!Next
  <1>4. CASE AssertFails \/ Close
    <2>1. Lock!Restart
      BY <1>4, StopRestarts DEF AssertFails, Close
    <2> QED BY <2>1 DEF Lock!Next
  <1>5. CASE \E s \in Slots : AdjustSimulation(s)
    <2>1. Lock!Commit
      BY <1>5, AdjustCommits
    <2> QED BY <2>1 DEF Lock!Next
  <1>6. CASE \E n \in Null..LastFrame(Local) : SetLastConfirmedFrame(n)
    <2>1. Lock!Commit
      BY <1>6, ConfirmCommits
    <2> QED BY <2>1 DEF Lock!Next
  <1>7. CASE \E x \in Moves[Local] : AddLocalInput(x)
    <2>1. PICK x \in Moves[Local] : AddLocalInput(x)
      BY <1>7
    <2>2. /\ pc # "replay" /\ Local \in Players \ gone /\ x \in Inputs
          /\ queue' = [queue EXCEPT ![Local] = AddInput(Local, x)]
          /\ UNCHANGED <<cpu, confirmed, gone>>
      BY <2>1, BattleFacts, RollbackAssumption DEF AddLocalInput, sync, vm
    <2>3. Lock!Act(Local)
      BY <2>2, InputActs
    <2> QED BY <2>2, <2>3 DEF Lock!Next
  <1>8. ASSUME NEW o \in Remotes, NEW x \in Moves[o], Receive(o, x) PROVE Lock!Next
    <2>1. /\ pc # "replay" /\ o \in Players \ gone /\ x \in Inputs
          /\ queue' = [queue EXCEPT ![o] = AddInput(o, x)]
          /\ UNCHANGED <<cpu, confirmed, gone>>
      BY <1>8, RollbackAssumption DEF Receive, Remotes, sync, vm
    <2>2. Lock!Act(o)
      BY <2>1, InputActs
    <2> QED BY <2>1, <2>2 DEF Lock!Next
  <1>9. ASSUME NEW o \in Remotes, Disconnect(o) PROVE Lock!Next
    <2>1. {o} \in SUBSET Players /\ gone' = gone \union {o} /\ UNCHANGED <<cpu, confirmed, queue>>
      BY <1>9 DEF Disconnect, Remotes, sync, vm
    <2>2. Lock!Leave({o})
      BY <2>1 DEF Lock!Leave, Confirmed
    <2> QED BY <2>1, <2>2 DEF Lock!Next
  <1>10. CASE Leave
    <2>1. Remotes \in SUBSET Players /\ gone' = gone \union Remotes /\ UNCHANGED <<cpu, confirmed, queue>>
      BY <1>10, BattleFacts DEF Leave, TypeOK, Remotes, sync, vm
    <2>2. Lock!Leave(Remotes)
      BY <2>1 DEF Lock!Leave, Confirmed
    <2> QED BY <2>1, <2>2 DEF Lock!Next
  <1>11. CASE \E k \in 0..MaxSkips : RunFrame(k)
    BY <1>1, <1>11 DEF Lock!Next
  <1> QED BY <1>2, <1>3, <1>4, <1>5, <1>6, <1>7, <1>8, <1>9, <1>10, <1>11 DEF Next, Emulation

\* Rollback and prediction cannot be told from lock step by who looks only at the
\* confirmed frames: they are never run again, and each is run on what the
\* connected players did.
THEOREM BattleIsLockStep == Spec => ImplementsLockStep
  <1>1. Init => Lock!Init
    BY LockInit
  <1>2. BattleInv /\ BattleInv' /\ [Next]_vars => [Lock!Next]_(Lock!vars)
    BY StepImplements
  <1> QED BY <1>1, <1>2, BattleInvariance, PTL DEF Spec, ImplementsLockStep, Lock!Spec
=============================================================================
