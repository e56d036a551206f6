------------------------ MODULE GdxsvUdpStreamProofs ------------------------
(***************************************************************************)
(* Proofs about the bytes of the game in the UDP backend: what the buffers *)
(* and the window hold belongs to the battle it is sent in, and nothing of *)
(* it is torn or forgotten.  GdxsvUdpProofs shows that the messages arrive *)
(* in order; here it is shown what is in them.                             *)
(***************************************************************************)
EXTENDS GdxsvUdpProofs, NaturalsInduction, WellFoundedInduction

-----------------------------------------------------------------------------
(***************************************************************************)
(* What the game reads.                                                    *)
(***************************************************************************)
\* The buffer is empty while no loop is there to fill it, so that a battle never finds in
\* it what an earlier one left.
OwnInv ==
    /\ loop.pc \in {"none", "gone"} => recv_buf = <<>>
    /\ loop.rx # <<>> => loop.pc = "recv"
    /\ ReadsOwnBattle

\* No buffer holds anything before the first Connect().
LEMMA OwnInit == Init => OwnInv
  BY DEF Init, NewLoop, OwnInv, ReadsOwnBattle

\* A step of the game or of the server, and one of the loop that leaves recv_buf alone.
OwnQuiet ==
    /\ recv_buf' = recv_buf /\ conn' = conn
    /\ loop'.rx = loop.rx
    /\ \/ loop'.pc = loop.pc
       \/ loop.rx = <<>> /\ loop.pc # "none" /\ loop'.pc \notin {"none", "gone"}

\* Such a step keeps the invariant.
LEMMA OwnQuietKeeps == OwnInv /\ OwnQuiet => OwnInv'
  BY DEF OwnInv, OwnQuiet, ReadsOwnBattle

\* Every action of the backend, the network and the server keeps it.
LEMMA OwnNext == TypeOK /\ OwnInv /\ [Next]_vars => OwnInv'
<1> SUFFICES ASSUME TypeOK, OwnInv, [Next]_vars PROVE OwnInv'
  OBVIOUS
<1>0. loop \in LoopType /\ recv_buf \in Received
  BY DEF TypeOK
<1> USE DEF game, bufs, net, history, At, Running, OwnQuiet
<1>1. CASE UNCHANGED vars
  BY <1>1, OwnQuietKeeps DEF vars
<1>2. CASE SockWrite \/ SockClose \/ Reset \/ ConnectClose \/ ConnectFail
  BY <1>2, OwnQuietKeeps DEF SockWrite, SockClose, Reset, ConnectClose, ConnectFail
<1>3. CASE SockRead
  BY <1>3 DEF SockRead, OwnInv, ReadsOwnBattle
<1>4. CASE ConnectStart
  <2>1. recv_buf' = <<>> /\ loop'.rx = <<>>
    BY <1>4 DEF ConnectStart, OwnInv, NewLoop
  <2> QED
    BY <2>1 DEF OwnInv, ReadsOwnBattle
<1>5. CASE Enter \/ Exit
  <2>1. recv_buf' = <<>> /\ loop'.rx = <<>>
    BY <1>0, <1>5 DEF Enter, Exit, ClearBuffers, LoopType
  <2> QED
    BY <2>1 DEF OwnInv, ReadsOwnBattle
<1>6. CASE RunStart
  <2>1. recv_buf' = <<Hello>> /\ loop'.rx = <<>> /\ loop'.pc = "run"
    BY <1>0, <1>6 DEF RunStart, Cleared, LoopType
  <2> QED
    BY <2>1 DEF OwnInv, ReadsOwnBattle
<1>7. CASE \/ Top \/ TakeSession \/ SayHello \/ BeginPing \/ SendPing \/ QueryFails
           \/ BeginBattle \/ Wait
  BY <1>0, <1>7, OwnQuietKeeps
     DEF Top, TakeSession, SayHello, BeginPing, SendPing, QueryFails, BeginBattle, Wait, Query,
         LoopType
<1>8. ASSUME NEW n \in 0..Len(send_buf), Send(n)
      PROVE  OwnInv'
  BY <1>0, <1>8, OwnQuietKeeps DEF Send, PushBattleMessage, LoopType
<1>9. CASE ReadMessage
  <2>1. loop.pc = "recv" /\ loop'.pc = "recv" /\ conn' = conn
    BY <1>0, <1>9 DEF ReadMessage, OwnInv, LoopType
  <2>2. CASE recv_buf' = recv_buf
    BY <2>1, <2>2 DEF OwnInv, ReadsOwnBattle
  <2>3. CASE recv_buf' = Append(recv_buf, <<conn, Head(loop.rx)>>)
    <3> DEFINE S == {Hello} \union (Nat \X Relayed)
               e == <<conn, Head(loop.rx)>>
    <3>1. loop.rx \in Seq(Relayed) /\ loop.rx # <<>> /\ conn \in Nat
      BY <1>0, <1>9 DEF ReadMessage, LoopType, TypeOK
    <3>2. e \in S /\ e[1] = conn
      BY <3>1
    <3>3. recv_buf \in Seq(S)
      BY <1>0 DEF Received
    <3> HIDE DEF S, e
    <3>4. /\ Len(recv_buf) \in Nat /\ Len(Append(recv_buf, e)) = Len(recv_buf) + 1
          /\ \A k \in 1..Len(recv_buf) : Append(recv_buf, e)[k] = recv_buf[k]
          /\ Append(recv_buf, e)[Len(recv_buf) + 1] = e
      BY <3>2, <3>3, AppendProperties, LenProperties
    <3>5. ReadsOwnBattle'
      BY <2>1, <2>3, <3>2, <3>4 DEF OwnInv, ReadsOwnBattle, e
    <3> QED
      BY <2>1, <3>5 DEF OwnInv
  <2> QED
    BY <1>9, <2>2, <2>3 DEF ReadMessage
<1>10. CASE Server
  BY <1>10, OwnQuietKeeps DEF Server, ServerRead, ServerSend, ServerEnd, ServerRelay
<1>11. ASSUME NEW p \in down, Recv(p)
       PROVE  OwnInv'
  <2>1. CASE RecvBattle(p)
    <3>1. recv_buf' = recv_buf /\ conn' = conn /\ loop'.pc = "recv"
      BY <1>0, <2>1 DEF RecvBattle, ApplySeqAck, LoopType
    <3> QED
      BY <3>1 DEF OwnInv, ReadsOwnBattle
  <2>2. CASE RecvDrop(p) \/ RecvHello(p) \/ RecvPong(p) \/ RecvFin(p)
    BY <1>0, <2>2, OwnQuietKeeps DEF RecvDrop, RecvHello, RecvPong, RecvFin, LoopType
  <2> QED
    BY <1>11, <2>1, <2>2 DEF Recv
<1>12. ASSUME NEW p \in up, ServerRecv(p)
       PROVE  OwnInv'
  BY <1>12, OwnQuietKeeps DEF ServerRecv, ServerHello, ServerPing, ServerBattle, ServerFin
<1> QED
  BY <1>1, <1>2, <1>3, <1>4, <1>5, <1>6, <1>7, <1>8, <1>9, <1>10, <1>11, <1>12
     DEF Next, Game, Step

\* What OnSockRead gives the game belongs to the battle it is connected to, however many
\* battles there were before and whenever they ended: ClearBuffers runs at both ends of a loop.
THEOREM OnlyOwnBattleRead == Spec => []ReadsOwnBattle
<1>1. TypeOK /\ OwnInv /\ [Next]_vars => OwnInv'
  BY OwnNext
<1>2. OwnInv => ReadsOwnBattle
  BY DEF OwnInv
<1> QED
  BY OwnInit, UdpTypeCorrect, <1>1, <1>2, PTL DEF Spec

-----------------------------------------------------------------------------
(***************************************************************************)
(* What the server reads: streams.                                         *)
(***************************************************************************)
\* The bodies hold consecutive items of battle c, from the second item or a later one on:
\* the first holds the session id.
IsStream(bodies, c) ==
    /\ \A k \in 1..Len(bodies) :
         /\ bodies[k] # <<>>
         /\ \A i \in 1..Len(bodies[k]) : bodies[k][i] = <<c, bodies[k][1][2] + i - 1>>
    /\ \A k \in 2..Len(bodies) : bodies[k][1][2] = bodies[k - 1][1][2] + Len(bodies[k - 1])
    /\ bodies # <<>> => bodies[1][1][2] > 1

\* The items in the first k bodies of a stream.
UpTo(bodies, k) == bodies[k][1][2] + Len(bodies[k]) - bodies[1][1][2]

\* Induction over 1..n, as a fact about a set.
LEMMA ReachesAll ==
    ASSUME NEW n \in Nat, NEW S, n >= 1 => 1 \in S, \A i \in 2..n : i - 1 \in S => i \in S
    PROVE  1..n \subseteq S
<1> DEFINE T == (1..n) \ S
<1>1. SUFFICES ASSUME T # {} PROVE FALSE
  OBVIOUS
<1>2. T \subseteq Nat
  OBVIOUS
<1> HIDE DEF T
<1>3. PICK x \in T : \A y \in T : ~(<<y, x>> \in OpToRel(<, Nat))
  BY <1>1, <1>2, NatLessThanWellFounded, WFMin
<1>4. \A y \in T : ~(y < x)
  BY <1>2, <1>3 DEF OpToRel
<1>5. x \in 2..n /\ x - 1 \in 1..n /\ x - 1 < x
  BY DEF T
<1>6. x - 1 \in S
  BY <1>4, <1>5 DEF T
<1> QED
  BY <1>5, <1>6 DEF T

\* The types of what a stream is made of.
LEMMA StreamFacts ==
    ASSUME NEW c \in Nat, NEW s \in Seq(Bodies), IsStream(s, c)
    PROVE  /\ Len(s) \in Nat
           /\ \A k \in 1..Len(s) : /\ s[k] \in Seq(Nat \X Nat) /\ Len(s[k]) \in Nat \ {0}
                                   /\ s[k][1][2] \in Nat
<1>1. Len(s) \in Nat
  OBVIOUS
<1>2. ASSUME NEW k \in 1..Len(s)
      PROVE  /\ s[k] \in Seq(Nat \X Nat) /\ Len(s[k]) \in Nat \ {0}
             /\ s[k][1][2] \in Nat
  <2>1. s[k] \in Seq(Nat \X Nat) /\ s[k] # <<>>
    BY <1>2 DEF IsStream, Bodies
  <2>2. Len(s[k]) \in Nat \ {0} /\ s[k][1] \in Nat \X Nat
    BY <2>1
  <2> QED
    BY <2>1, <2>2
<1> QED
  BY <1>1, <1>2

\* What a stream is made of, laid end to end, is a run of consecutive items.
LEMMA FlattenStream ==
    ASSUME NEW c \in Nat, NEW s \in Seq(Bodies), IsStream(s, c)
    PROVE  \A k \in 1..Len(FlattenSeq(s)) :
             s # <<>> /\ FlattenSeq(s)[k] = <<c, s[1][1][2] + k - 1>>
<1>1. CASE s = <<>>
  <2>1. Len(FlattenSeq(s)) = 0
    BY <1>1 DEF FlattenSeq
  <2> QED BY <2>1
<1>2. CASE s # <<>>
  <2> DEFINE n == Len(s)
             first == s[1][1][2]
             Closed(k) == [j \in 1..UpTo(s, k) |-> <<c, first + j - 1>>]
             Flat(f) == f = [i \in 1..n |-> IF i = 1 THEN s[i] ELSE f[i - 1] \o s[i]]
  <2>1. n \in Nat \ {0} /\ first \in Nat
    BY <1>2, StreamFacts
  <2>2. UpTo(s, 1) = Len(s[1]) /\ \A k \in 2..n : UpTo(s, k) = UpTo(s, k - 1) + Len(s[k])
    <3>1. UpTo(s, 1) = Len(s[1])
      BY <2>1, StreamFacts DEF UpTo
    <3>2. ASSUME NEW k \in 2..n
          PROVE  UpTo(s, k) = UpTo(s, k - 1) + Len(s[k])
      <4>1. k \in 1..n /\ k - 1 \in 1..n
        BY <2>1
      <4>2. s[k][1][2] = s[k - 1][1][2] + Len(s[k - 1])
        BY DEF IsStream
      <4>3. /\ s[k][1][2] \in Nat /\ Len(s[k]) \in Nat
            /\ s[k - 1][1][2] \in Nat /\ Len(s[k - 1]) \in Nat
        BY <4>1, StreamFacts
      <4> DEFINE at == s[k][1][2]
                 l == Len(s[k])
                 before == s[k - 1][1][2]
                 m == Len(s[k - 1])
      <4>4. UpTo(s, k) = at + (l - first) /\ UpTo(s, k - 1) = before + (m - first)
        BY DEF UpTo
      <4>5. at = before + m /\ at \in Nat /\ l \in Nat /\ before \in Nat /\ m \in Nat
        BY <4>2, <4>3
      <4> HIDE DEF first, at, l, before, m
      <4>6. UpTo(s, k) = UpTo(s, k - 1) + l
        BY <2>1, <4>4, <4>5
      <4> QED BY <4>6 DEF l
    <3> QED BY <3>1, <3>2
  <2>3. \A k \in 1..n : UpTo(s, k) \in Nat
    <3> DEFINE S == {k \in 1..n : UpTo(s, k) \in Nat}
    <3>1. 1 \in S
      BY <2>1, <2>2, StreamFacts
    <3>2. ASSUME NEW k \in 2..n, k - 1 \in S PROVE k \in S
      <4>1. k \in 1..n /\ Len(s[k]) \in Nat
        BY <2>1, StreamFacts
      <4> QED BY <2>2, <3>2, <4>1
    <3> HIDE DEF S
    <3>3. 1..n \subseteq S
      BY <2>1, <3>1, <3>2, ReachesAll
    <3> QED BY <3>3 DEF S
  <2>4. s[1] = Closed(1)
    <3>1. s[1] \in Seq(Nat \X Nat) /\ Len(s[1]) = UpTo(s, 1) /\ UpTo(s, 1) \in Nat
      BY <2>1, <2>2, <2>3, StreamFacts
    <3>2. \A j \in 1..Len(s[1]) : s[1][j] = <<c, first + j - 1>>
      BY <2>1 DEF IsStream
    <3>3. s[1] = [j \in 1..Len(s[1]) |-> s[1][j]]
      BY <3>1
    <3> QED BY <3>1, <3>2, <3>3
  <2>5. ASSUME NEW k \in 2..n
        PROVE  Closed(k - 1) \o s[k] = Closed(k)
    <3>1. k \in 1..n /\ k - 1 \in 1..n
      BY <2>1
    <3>2. /\ UpTo(s, k - 1) \in Nat /\ UpTo(s, k) = UpTo(s, k - 1) + Len(s[k])
          /\ s[k] \in Seq(Nat \X Nat) /\ Len(s[k]) \in Nat
      BY <2>2, <2>3, <3>1, StreamFacts
    <3>3. s[k][1][2] = first + UpTo(s, k - 1)
      <4>1. s[k][1][2] = s[k - 1][1][2] + Len(s[k - 1])
        BY DEF IsStream
      <4>2. s[k - 1][1][2] \in Nat /\ Len(s[k - 1]) \in Nat
        BY <3>1, StreamFacts
      <4>3. UpTo(s, k - 1) = s[k - 1][1][2] + Len(s[k - 1]) - first
        BY DEF UpTo
      <4> HIDE DEF first, n
      <4> QED BY <2>1, <4>1, <4>2, <4>3
    <3>4. \A i \in 1..Len(s[k]) : s[k][i] = <<c, first + UpTo(s, k - 1) + i - 1>>
      BY <3>1, <3>3 DEF IsStream
    <3>5. Closed(k - 1) \in Seq(Nat \X Nat) /\ Len(Closed(k - 1)) = UpTo(s, k - 1)
      <4>1. \A j \in 1..UpTo(s, k - 1) : <<c, first + j - 1>> \in Nat \X Nat
        BY <2>1, <3>2
      <4> QED BY <3>2, <4>1
    <3> DEFINE u == Closed(k - 1)
               v == s[k]
               t == u \o v
               m == UpTo(s, k - 1)
    <3>6. \A j \in 1..m : u[j] = <<c, first + j - 1>>
      OBVIOUS
    <3> HIDE DEF u, v, m
    <3>7. /\ u \in Seq(Nat \X Nat) /\ v \in Seq(Nat \X Nat) /\ Len(u) = m /\ m \in Nat
          /\ Len(v) \in Nat /\ UpTo(s, k) = m + Len(v)
      BY <3>2, <3>5 DEF u, v, m
    <3>8. /\ t = [j \in 1..UpTo(s, k) |-> t[j]]
          /\ \A j \in 1..m : t[j] = u[j]
          /\ \A j \in (m + 1)..(m + Len(v)) : t[j] = v[j - m]
      <4>1. /\ t \in Seq(Nat \X Nat) /\ Len(t) = m + Len(v)
            /\ \A j \in 1..(m + Len(v)) : t[j] = IF j <= m THEN u[j] ELSE v[j - m]
        BY <3>7, ConcatProperties
      <4>2. t = [j \in 1..Len(t) |-> t[j]]
        <5> HIDE DEF t
        <5> QED BY <4>1
      <4> HIDE DEF t
      <4>3. \A j \in 1..m : j \in 1..(m + Len(v)) /\ j <= m
        BY <3>7
      <4>4. \A j \in (m + 1)..(m + Len(v)) : j \in 1..(m + Len(v)) /\ ~(j <= m)
        BY <3>7
      <4>5. Len(t) = UpTo(s, k)
        BY <3>7, <4>1
      <4>6. \A j \in 1..m : t[j] = u[j]
        BY <4>1, <4>3
      <4>7. \A j \in (m + 1)..(m + Len(v)) : t[j] = v[j - m]
        BY <4>1, <4>4
      <4> QED BY <4>2, <4>5, <4>6, <4>7
    <3> HIDE DEF t
    <3>9. ASSUME NEW j \in 1..UpTo(s, k)
          PROVE  t[j] = <<c, first + j - 1>>
      <4>1. CASE j \in 1..m
        BY <3>6, <3>8, <4>1
      <4>2. CASE j \in (m + 1)..(m + Len(v))
        <5>1. j - m \in 1..Len(v)
          BY <3>7, <4>2
        <5>2. v[j - m] = <<c, first + m + (j - m) - 1>>
          BY <3>4, <5>1 DEF v, m
        <5>3. \A a, b, d \in Int : a + b + (d - b) - 1 = a + d - 1
          OBVIOUS
        <5>4. first + m + (j - m) - 1 = first + j - 1
          <6>1. first \in Int /\ m \in Int /\ j \in Int
            BY <2>1, <3>7, <4>2
          <6> HIDE DEF first
          <6> QED BY <5>3, <6>1
        <5> QED BY <3>8, <4>2, <5>2, <5>4
      <4>3. j \in 1..m \/ j \in (m + 1)..(m + Len(v))
        BY <3>7
      <4> QED BY <4>1, <4>2, <4>3
    <3>10. t = [j \in 1..UpTo(s, k) |-> <<c, first + j - 1>>]
      BY <3>8, <3>9
    <3> QED BY <3>10 DEF t, u, v
  <2> HIDE DEF Closed
  <2>6. \E f : Flat(f)
    <3> DEFINE g == [i \in 1..n |-> Closed(i)]
    <3>1. ASSUME NEW i \in 1..n
          PROVE  g[i] = IF i = 1 THEN s[i] ELSE g[i - 1] \o s[i]
      <4>1. CASE i = 1
        BY <2>4, <4>1
      <4>2. CASE i # 1
        <5>1. i \in 2..n /\ i - 1 \in 1..n
          BY <2>1, <4>2
        <5> QED BY <2>5, <4>2, <5>1
      <4> QED BY <4>1, <4>2
    <3>2. g = [i \in 1..n |-> IF i = 1 THEN s[i] ELSE g[i - 1] \o s[i]]
      BY <3>1
    <3> QED BY <3>2
  <2> DEFINE flatten == CHOOSE f : Flat(f)
  <2>7. Flat(flatten)
    <3> HIDE DEF Flat
    <3> QED BY <2>6
  <2>8. FlattenSeq(s) = flatten[n]
    <3>1. Len(s) # 0
      BY <2>1
    <3> QED BY <3>1 DEF FlattenSeq
  <2> HIDE DEF flatten
  <2>9. \A k \in 1..n : flatten[k] = Closed(k)
    <3> DEFINE S == {k \in 1..n : flatten[k] = Closed(k)}
    <3>1. \A i \in 1..n : flatten[i] = IF i = 1 THEN s[i] ELSE flatten[i - 1] \o s[i]
      BY <2>7
    <3>2. 1 \in S
      BY <2>1, <2>4, <3>1
    <3>3. ASSUME NEW k \in 2..n, k - 1 \in S PROVE k \in S
      <4>1. k \in 1..n /\ k # 1
        BY <2>1
      <4> QED BY <2>5, <3>1, <3>3, <4>1
    <3> HIDE DEF S
    <3>4. 1..n \subseteq S
      BY <2>1, <3>2, <3>3, ReachesAll
    <3> QED BY <3>4 DEF S
  <2>10. FlattenSeq(s) = [j \in 1..UpTo(s, n) |-> <<c, first + j - 1>>] /\ UpTo(s, n) \in Nat
    BY <2>1, <2>3, <2>8, <2>9 DEF Closed
  <2>11. Len(FlattenSeq(s)) = UpTo(s, n)
    BY <2>10
  <2> QED
    BY <1>2, <2>10, <2>11
<1> QED BY <1>1, <1>2

\* The number of the item that would go on with a stream.
NextItem(bodies) == bodies[Len(bodies)][1][2] + Len(bodies[Len(bodies)])

\* A front of a stream is a stream.
LEMMA StreamPrefix ==
    ASSUME NEW c \in Nat, NEW s \in Seq(Bodies), NEW t \in Seq(Bodies), IsStream(s, c),
           Len(t) <= Len(s), \A k \in 1..Len(t) : t[k] = s[k]
    PROVE  IsStream(t, c)
<1>1. Len(s) \in Nat /\ Len(t) \in Nat
  OBVIOUS
<1>2. ASSUME NEW k \in 1..Len(t)
      PROVE  t[k] # <<>> /\ \A i \in 1..Len(t[k]) : t[k][i] = <<c, t[k][1][2] + i - 1>>
  <2>1. k \in 1..Len(s) /\ t[k] = s[k]
    BY <1>1
  <2> QED BY <2>1 DEF IsStream
<1>3. ASSUME NEW k \in 2..Len(t)
      PROVE  t[k][1][2] = t[k - 1][1][2] + Len(t[k - 1])
  <2>1. k \in 2..Len(s) /\ k \in 1..Len(t) /\ k - 1 \in 1..Len(t)
    BY <1>1
  <2>2. t[k] = s[k] /\ t[k - 1] = s[k - 1]
    BY <2>1
  <2> QED BY <2>1, <2>2 DEF IsStream
<1>4. t # <<>> => t[1][1][2] > 1
  <2>1. t # <<>> => s # <<>> /\ 1 \in 1..Len(t)
    BY <1>1
  <2> QED BY <2>1 DEF IsStream
<1> QED
  BY <1>2, <1>3, <1>4 DEF IsStream

\* A stream goes on with the items that the game wrote since.
LEMMA StreamGrow ==
    ASSUME NEW c \in Nat, NEW w \in Nat, NEW s \in Seq(Bodies), NEW b \in Bodies,
           IsStream(s, c), b # <<>>, Len(b) < w,
           \A i \in 1..Len(b) : b[i] = <<c, w - Len(b) + i>>,
           s # <<>> => NextItem(s) = w - Len(b) + 1
    PROVE  /\ IsStream(Append(s, b), c)
           /\ Append(s, b) # <<>> /\ NextItem(Append(s, b)) = w + 1
<1> DEFINE t == Append(s, b)
           n == Len(s)
           m == Len(b)
<1>1. n \in Nat /\ m \in Nat \ {0}
  BY DEF Bodies
<1>2. t \in Seq(Bodies) /\ Len(t) = n + 1 /\ t[n + 1] = b /\ \A k \in 1..n : t[k] = s[k]
  BY AppendProperties
<1>3. b[1] = <<c, w - m + 1>> /\ b[1][2] = w - m + 1
  BY <1>1
<1>4. ASSUME NEW i \in 1..m
      PROVE  b[i] = <<c, b[1][2] + i - 1>>
  <2>1. w - m + i = (w - m + 1) + i - 1
    BY <1>1
  <2> QED BY <1>3, <2>1
<1> HIDE DEF t
<1>5. ASSUME NEW k \in 1..Len(t)
      PROVE  t[k] # <<>> /\ \A i \in 1..Len(t[k]) : t[k][i] = <<c, t[k][1][2] + i - 1>>
  <2>1. CASE k \in 1..n
    BY <1>2, <2>1 DEF IsStream
  <2>2. CASE k = n + 1
    BY <1>2, <1>4, <2>2
  <2> QED BY <1>1, <1>2, <2>1, <2>2
<1>6. ASSUME NEW k \in 2..Len(t)
      PROVE  t[k][1][2] = t[k - 1][1][2] + Len(t[k - 1])
  <2>1. CASE k \in 2..n
    <3>1. k \in 1..n /\ k - 1 \in 1..n
      BY <1>1, <2>1
    <3> QED BY <1>2, <2>1, <3>1 DEF IsStream
  <2>2. CASE k = n + 1
    <3>1. n \in 1..n /\ k - 1 = n /\ s # <<>>
      BY <1>1, <1>2, <2>2
    <3> QED BY <1>2, <1>3, <2>2, <3>1 DEF NextItem
  <2> QED BY <1>1, <1>2, <2>1, <2>2
<1>7. t # <<>> /\ t[1][1][2] > 1
  <2>1. CASE n = 0
    <3>1. t[1] = b
      BY <1>2, <2>1
    <3> QED BY <1>1, <1>2, <1>3, <3>1
  <2>2. CASE n > 0
    <3>1. 1 \in 1..n /\ s # <<>>
      BY <1>1, <2>2
    <3> QED BY <1>1, <1>2, <3>1 DEF IsStream
  <2> QED BY <1>1, <2>1, <2>2
<1>8. NextItem(t) = w + 1
  BY <1>1, <1>2, <1>3 DEF NextItem
<1> QED
  BY <1>5, <1>6, <1>7, <1>8 DEF IsStream, t

-----------------------------------------------------------------------------
(***************************************************************************)
(* The stream of the battle.                                               *)
(***************************************************************************)
\* The loop has passed the ClearBuffers at its start.
InLoop == loop.pc \in {"top", "run", "recv", "exit"}

\* send_buf goes on where the last message ended, and what was written before the session
\* is known is cleared with it.
StreamInv ==
    /\ loop.pc = "entry" => loop.state = "Start"
    /\ loop.state = "Start" => ~loop.session
    /\ loop.state \in {"Start", "McsSessionExchange", "McsPingTest"} => pushed = <<>>
    /\ loop.state \in {"McsPingTest", "McsInBattle"} => loop.session
    /\ IsStream(pushed, conn)
    /\ InLoop =>
         /\ Len(send_buf) <= wrote
         /\ \A i \in 1..Len(send_buf) : send_buf[i] = <<conn, wrote - Len(send_buf) + i>>
         /\ loop.session => Len(send_buf) < wrote
         /\ pushed # <<>> => NextItem(pushed) = wrote - Len(send_buf) + 1

\* A step that neither writes, clears nor pushes, and leaves the state of the loop as it is
\* or ends it.
StreamQuiet ==
    /\ pushed' = pushed /\ conn' = conn /\ wrote' = wrote /\ send_buf' = send_buf
    /\ loop'.session = loop.session
    /\ loop'.state = loop.state \/ (loop'.state = "End" /\ InLoop)
    /\ loop'.pc = loop.pc \/ (InLoop /\ loop'.pc # "entry")

\* Nothing relayed yet is a stream of any battle.
LEMMA EmptyStream == \A c : IsStream(<<>>, c)
  BY DEF IsStream

\* Before the first Connect() nothing was pushed.
LEMMA StreamInit == Init => StreamInv
  BY EmptyStream DEF Init, NewLoop, StreamInv, InLoop

\* Such a step keeps the invariant.
LEMMA StreamQuietKeeps == StreamInv /\ StreamQuiet => StreamInv'
  BY DEF StreamInv, StreamQuiet, InLoop

\* OnSockWrite: the next item goes to the end of send_buf.
LEMMA StreamSockWrite == ASSUME TypeOK, StreamInv, SockWrite PROVE StreamInv'
<1>1. /\ wrote' = wrote + 1 /\ wrote \in Nat /\ conn \in Nat
      /\ pushed' = pushed /\ conn' = conn /\ loop' = loop
  BY DEF SockWrite, TypeOK, game
<1> DEFINE e == <<conn, wrote + 1>>
<1>2. send_buf' = Append(send_buf, e) /\ send_buf \in Seq(Nat \X Nat) /\ e \in Nat \X Nat
  BY <1>1 DEF SockWrite, TypeOK, Bodies
<1> HIDE DEF e
<1>3. /\ Len(send_buf) \in Nat /\ Len(send_buf') = Len(send_buf) + 1
      /\ \A k \in 1..Len(send_buf) : send_buf'[k] = send_buf[k]
      /\ send_buf'[Len(send_buf) + 1] = e
  BY <1>2, AppendProperties, LenProperties
<1>4. wrote' - Len(send_buf') = wrote - Len(send_buf)
  BY <1>1, <1>3
<1>5. ASSUME InLoop, NEW i \in 1..Len(send_buf')
      PROVE  send_buf'[i] = <<conn, wrote - Len(send_buf) + i>>
  <2>1. CASE i \in 1..Len(send_buf)
    BY <1>3, <1>5, <2>1 DEF StreamInv
  <2>2. CASE i = Len(send_buf) + 1
    <3>1. wrote - Len(send_buf) + i = wrote + 1
      BY <1>1, <1>3, <2>2
    <3> QED BY <1>3, <2>2, <3>1 DEF e
  <2> QED BY <1>3, <2>1, <2>2
<1>6. InLoop => /\ Len(send_buf') <= wrote'
                /\ loop.session => Len(send_buf') < wrote'
  BY <1>1, <1>3 DEF StreamInv
<1> QED
  BY <1>1, <1>4, <1>5, <1>6 DEF StreamInv, InLoop

\* NetThreadLoop pushes the front of send_buf as one message, or leaves it.
LEMMA StreamSend ==
    ASSUME TypeOK, StreamInv, NEW n \in 0..Len(send_buf), Send(n)
    PROVE  StreamInv'
<1> DEFINE body == SubSeq(send_buf, 1, n)
           rest == SubSeq(send_buf, n + 1, Len(send_buf))
           from == wrote - Len(send_buf)
<1>0. /\ loop \in LoopType /\ wrote \in Nat /\ conn \in Nat /\ pushed \in Seq(Bodies)
      /\ send_buf \in Seq(Nat \X Nat) /\ Len(send_buf) \in Nat
  BY DEF TypeOK, Bodies
<1>1. /\ InLoop /\ loop.state = "McsInBattle" /\ loop.session
      /\ conn' = conn /\ wrote' = wrote
  BY DEF Send, Running, At, InLoop, StreamInv, game
<1>2. loop'.state = loop.state /\ loop'.session = loop.session /\ loop'.pc = "recv"
  BY <1>0 DEF Send, PushBattleMessage, LoopType
<1>3. /\ body \in Bodies /\ Len(body) = n /\ \A i \in 1..n : body[i] = send_buf[i]
      /\ Len(rest) = Len(send_buf) - n
      /\ \A i \in 1..(Len(send_buf) - n) : rest[i] = send_buf[n + i]
  BY BodyType
<1>4. pushed' = (IF n > 0 THEN Append(pushed, body) ELSE pushed) /\ send_buf' = rest
  BY DEF Send
<1> HIDE DEF body, rest
<1>5. /\ Len(send_buf) < wrote
      /\ \A i \in 1..Len(send_buf) : send_buf[i] = <<conn, from + i>>
      /\ pushed # <<>> => NextItem(pushed) = from + 1
      /\ IsStream(pushed, conn)
  BY <1>1 DEF StreamInv
<1>6. /\ from \in Nat \ {0} /\ n \in Nat /\ wrote - Len(rest) = from + n
      /\ Len(rest) < wrote
  BY <1>0, <1>3, <1>5
<1>7. ASSUME NEW i \in 1..Len(rest) PROVE rest[i] = <<conn, (from + n) + i>>
  <2>1. n + i \in 1..Len(send_buf) /\ i \in 1..(Len(send_buf) - n)
    BY <1>0, <1>3, <1>6
  <2>2. from + (n + i) = (from + n) + i
    BY <1>6
  <2> QED BY <1>3, <1>5, <2>1, <2>2
<1>kept. /\ Len(send_buf') <= wrote' /\ Len(send_buf') < wrote'
         /\ \A i \in 1..Len(send_buf') : send_buf'[i] = <<conn', wrote' - Len(send_buf') + i>>
         /\ wrote' - Len(send_buf') = from + n
  <2>1. Len(rest) \in Int /\ Len(rest) <= wrote
    BY <1>0, <1>3, <1>6
  <2>2. \A i \in 1..Len(rest) : rest[i] = <<conn, wrote - Len(rest) + i>>
    BY <1>6, <1>7
  <2> HIDE DEF from
  <2> QED BY <1>1, <1>4, <1>6, <2>1, <2>2
<1> HIDE DEF from
<1>8. CASE n = 0
  <2>1. pushed' = pushed /\ from + n = from
    BY <1>4, <1>6, <1>8
  <2> QED
    BY <1>1, <1>2, <1>5, <1>kept, <2>1 DEF StreamInv, InLoop
<1>9. CASE n > 0
  <2> DEFINE last == from + n
  <2>1. /\ last \in Nat /\ Len(body) < last /\ last - Len(body) = from /\ body # <<>>
    BY <1>3, <1>6, <1>9
  <2>2. \A i \in 1..Len(body) : body[i] = <<conn, last - Len(body) + i>>
    <3> SUFFICES ASSUME NEW i \in 1..Len(body) PROVE body[i] = <<conn, last - Len(body) + i>>
      OBVIOUS
    <3>1. i \in 1..n /\ i \in 1..Len(send_buf)
      BY <1>0, <1>3
    <3> QED BY <1>3, <1>5, <2>1, <3>1
  <2>3. pushed # <<>> => NextItem(pushed) = last - Len(body) + 1
    BY <1>5, <2>1
  <2> HIDE DEF last
  <2>4. /\ IsStream(Append(pushed, body), conn)
        /\ Append(pushed, body) # <<>> /\ NextItem(Append(pushed, body)) = last + 1
    BY <1>0, <1>3, <1>5, <2>1, <2>2, <2>3, StreamGrow
  <2>5. pushed' = Append(pushed, body)
    BY <1>4, <1>9
  <2> QED
    BY <1>1, <1>2, <1>kept, <2>4, <2>5 DEF StreamInv, InLoop, last
<1> QED
  BY <1>6, <1>8, <1>9

\* Every action keeps the invariant.
LEMMA StreamNext == TypeOK /\ StreamInv /\ [Next]_vars => StreamInv'
<1> SUFFICES ASSUME TypeOK, StreamInv, [Next]_vars PROVE StreamInv'
  OBVIOUS
<1>0. loop \in LoopType /\ wrote \in Nat /\ Len(<<>>) = 0
  BY DEF TypeOK
<1> USE DEF game, bufs, net, history, At, Running, StreamQuiet, InLoop
<1>1. CASE UNCHANGED vars
  BY <1>1, StreamQuietKeeps DEF vars
<1>2. CASE SockRead \/ SockClose \/ Reset \/ ConnectClose \/ ConnectFail
  BY <1>2, StreamQuietKeeps DEF SockRead, SockClose, Reset, ConnectClose, ConnectFail
<1>3. CASE SockWrite
  BY <1>3, StreamSockWrite
<1>4. CASE ConnectStart
  <2>1. pushed' = <<>> /\ loop'.pc = "entry" /\ loop'.state = "Start" /\ ~loop'.session
    BY <1>4 DEF ConnectStart, NewLoop
  <2> QED
    BY <2>1, EmptyStream DEF StreamInv
<1>5. CASE Enter
  <2>1. /\ pushed' = pushed /\ send_buf' = <<>> /\ wrote' = wrote /\ conn' = conn
        /\ loop.pc = "entry" /\ loop'.pc = "top" /\ loop'.state = "Start"
        /\ loop'.session = loop.session
    BY <1>0, <1>5 DEF Enter, ClearBuffers, LoopType, StreamInv
  <2> QED
    BY <1>0, <2>1 DEF StreamInv
<1>6. CASE Exit
  BY <1>0, <1>6 DEF Exit, LoopType, StreamInv
<1>7. CASE RunStart
  <2>1. /\ pushed' = pushed /\ send_buf' = <<>> /\ wrote' = wrote /\ conn' = conn
        /\ loop'.pc = "run" /\ loop'.state = "McsSessionExchange" /\ loop.state = "Start"
        /\ loop'.session = loop.session /\ loop.pc = "run"
    BY <1>0, <1>7 DEF RunStart, Cleared, LoopType
  <2> QED
    BY <1>0, <2>1 DEF StreamInv
<1>8. CASE TakeSession
  <2>1. /\ pushed' = pushed /\ send_buf' = <<>> /\ wrote' = wrote /\ conn' = conn
        /\ loop'.pc = "recv" /\ loop'.state = "McsSessionExchange"
        /\ loop.state = "McsSessionExchange" /\ loop'.session = (send_buf # <<>>)
        /\ loop.pc = "run"
    BY <1>0, <1>8 DEF TakeSession, LoopType
  <2>2. loop'.session => 0 < wrote
    <3>1. send_buf \in Seq(Nat \X Nat) /\ Len(send_buf) <= wrote
      BY <2>1 DEF TypeOK, Bodies, StreamInv
    <3>2. send_buf # <<>> => 0 < wrote
      BY <1>0, <3>1
    <3> QED BY <2>1, <3>2
  <2>3. pushed' = <<>> /\ Len(send_buf') = 0
    BY <1>0, <2>1 DEF StreamInv
  <2>4. IsStream(pushed', conn')
    BY <2>3, EmptyStream
  <2> QED
    BY <1>0, <2>1, <2>2, <2>3, <2>4 DEF StreamInv
<1>9. CASE Top \/ SayHello \/ SendPing \/ QueryFails \/ Wait
  BY <1>0, <1>9, StreamQuietKeeps DEF Top, SayHello, SendPing, QueryFails, Wait, Query, LoopType
<1>10. CASE BeginPing \/ BeginBattle
  BY <1>0, <1>10 DEF BeginPing, BeginBattle, LoopType, StreamInv
<1>11. ASSUME NEW n \in 0..Len(send_buf), Send(n)
       PROVE  StreamInv'
  BY <1>11, StreamSend
<1>12. CASE ReadMessage
  BY <1>0, <1>12, StreamQuietKeeps DEF ReadMessage, LoopType
<1>13. CASE Server
  BY <1>13, StreamQuietKeeps DEF Server, ServerRead, ServerSend, ServerEnd, ServerRelay
<1>14. ASSUME NEW p \in down, Recv(p)
       PROVE  StreamInv'
  BY <1>0, <1>14, StreamQuietKeeps
     DEF Recv, RecvDrop, RecvHello, RecvPong, RecvBattle, ApplySeqAck, RecvFin, LoopType
<1>15. ASSUME NEW p \in up, ServerRecv(p)
       PROVE  StreamInv'
  BY <1>15, StreamQuietKeeps DEF ServerRecv, ServerHello, ServerPing, ServerBattle, ServerFin
<1> QED
  BY <1>1, <1>2, <1>3, <1>4, <1>5, <1>6, <1>7, <1>8, <1>9, <1>10, <1>11, <1>12, <1>13, <1>14,
     <1>15
     DEF Next, Game, Step

\* What the server has relayed of a battle is a run of consecutive items that the game
\* wrote in it, after the session message, however the window, the network and the order
\* of the two threads cut it into messages.
THEOREM StreamIsIntact == Spec => []StreamIntact
<1>1. TypeOK /\ StreamInv /\ [Next]_vars => StreamInv'
  BY StreamNext
<1>2. UdpInv /\ StreamInv => StreamIntact
  <2> SUFFICES ASSUME UdpInv, StreamInv, NEW k \in 1..Len(FlattenSeq(got))
               PROVE  /\ FlattenSeq(got)[k] = <<conn, FlattenSeq(got)[1][2] + k - 1>>
                      /\ FlattenSeq(got)[1][2] > 1
    BY DEF StreamIntact
  <2>1. conn \in Nat /\ got \in Seq(Bodies) /\ pushed \in Seq(Bodies)
    BY DEF UdpInv, TypeOK
  <2>2. IsStream(got, conn)
    BY <2>1, StreamPrefix DEF StreamInv, UdpInv, UpInv, ServerTook
  <2>3. \A i \in 1..Len(FlattenSeq(got)) :
          got # <<>> /\ FlattenSeq(got)[i] = <<conn, got[1][1][2] + i - 1>>
    BY <2>1, <2>2, FlattenStream
  <2>4. 1 \in 1..Len(FlattenSeq(got)) /\ got # <<>>
    BY <2>3
  <2>5. got[1][1][2] \in Nat /\ got[1][1][2] > 1
    <3>1. 1 \in 1..Len(got)
      BY <2>1, <2>4
    <3> QED BY <2>1, <2>2, <2>4, <3>1, StreamFacts DEF IsStream
  <2>6. FlattenSeq(got)[1] = <<conn, got[1][1][2] + 1 - 1>>
    BY <2>3, <2>4
  <2>7. FlattenSeq(got)[1][2] = got[1][1][2]
    BY <2>5, <2>6
  <2> QED
    BY <2>3, <2>5, <2>7
<1> QED
  BY StreamInit, UdpTypeCorrect, UdpInvariance, <1>1, <1>2, PTL DEF Spec

-----------------------------------------------------------------------------
(***************************************************************************)
(* The window.                                                            *)
(***************************************************************************)
\* What an acknowledgment may never do away with: a message that the server has not
\* taken is still in the window, and every retransmission carries it, or the server is
\* reading it.
NothingForgotten ==
    \A k \in 1..Len(pushed) :
        \/ k <= Len(got)
        \/ \E i \in 1..Len(loop.data) : loop.data[i].seq = k /\ loop.data[i].body = pushed[k]
        \/ \E i \in 1..Len(srv.rx) : srv.rx[i].seq = k /\ srv.rx[i].body = pushed[k]

\* The numbers and lengths that the arguments about the window count with.
LEMMA UdpLengths == UdpInv => /\ loop.snd_seq \in Nat /\ srv.ack \in Nat
                              /\ Len(loop.data) \in Nat /\ Len(srv.rx) \in Nat
                              /\ Len(pushed) \in Nat /\ Len(got) \in Nat
<1> SUFFICES ASSUME UdpInv
             PROVE  /\ loop.snd_seq \in Nat /\ srv.ack \in Nat
                    /\ Len(loop.data) \in Nat /\ Len(srv.rx) \in Nat
                    /\ Len(pushed) \in Nat /\ Len(got) \in Nat
  OBVIOUS
<1>1. /\ loop.snd_seq \in Nat /\ srv.ack \in Nat
      /\ loop.data \in Seq(Messages) /\ srv.rx \in Seq(Messages)
      /\ pushed \in Seq(Bodies) /\ got \in Seq(Bodies)
  BY DEF UdpInv, TypeOK, LoopType, ServerType, Numbers
<1> HIDE DEF Messages, Bodies
<1> QED
  BY <1>1, LenProperties

\* MessageBuffer::ApplySeqAck never drops a message that the server may still miss.  It is
\* the safety part of WindowDrains: whatever is lost, there is something to send again.
THEOREM NothingIsForgotten == Spec => []NothingForgotten
<1>1. UdpInv => NothingForgotten
  <2> SUFFICES ASSUME UdpInv, NEW k \in 1..Len(pushed), ~(k <= Len(got))
               PROVE  \/ \E i \in 1..Len(loop.data) :
                            loop.data[i].seq = k /\ loop.data[i].body = pushed[k]
                      \/ \E i \in 1..Len(srv.rx) :
                            srv.rx[i].seq = k /\ srv.rx[i].body = pushed[k]
    BY DEF NothingForgotten
  <2>1. /\ loop.snd_seq \in Nat /\ srv.ack \in Nat
        /\ Len(loop.data) \in Nat /\ Len(srv.rx) \in Nat
        /\ Len(pushed) \in Nat /\ Len(got) \in Nat
    BY UdpLengths DEF UdpInv
  <2>2. CASE k >= loop.snd_seq
    <3> DEFINE n == loop.snd_seq - 1
               l == Len(loop.data)
               i == k - n
    <3>1. /\ n + l = Len(pushed)
          /\ \A j \in 1..l : loop.data[j].seq = n + j /\ loop.data[j].body = pushed[n + j]
      BY DEF UdpInv, UpInv, ClientWindow, Window
    <3>2. n \in Int /\ l \in Nat /\ k \in Nat /\ n < k /\ k <= Len(pushed)
      BY <2>1, <2>2
    <3> HIDE DEF n, l
    <3>3. i \in 1..l /\ n + i = k
      BY <2>1, <3>1, <3>2
    <3> HIDE DEF i
    <3>4. loop.data[i].seq = k /\ loop.data[i].body = pushed[k]
      BY <3>1, <3>3
    <3> QED BY <3>3, <3>4 DEF l
  <2>3. CASE k < loop.snd_seq
    <3>1. PICK n \in Nat : /\ n <= Len(got) /\ Window(srv.rx, n, pushed)
                           /\ srv.ack <= Len(got) \/ srv.ack <= n + Len(srv.rx)
      BY DEF UdpInv, UpInv, ServerReading
    <3> DEFINE i == k - n
    <3>2. k <= srv.ack
      BY <2>1, <2>3 DEF UdpInv, UpInv, ClientWindow
    <3>3. i \in 1..Len(srv.rx) /\ n + i = k
      BY <2>1, <3>1, <3>2
    <3> HIDE DEF i
    <3>4. srv.rx[i].seq = k /\ srv.rx[i].body = pushed[k]
      BY <3>1, <3>3 DEF Window
    <3> QED BY <3>3, <3>4
  <2> QED BY <2>1, <2>2, <2>3
<1> QED
  BY UdpInvariance, <1>1, PTL
=============================================================================
