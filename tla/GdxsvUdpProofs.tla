--------------------------- MODULE GdxsvUdpProofs ---------------------------
(***************************************************************************)
(* Proofs about the UDP backend: both directions of a battle are FIFO     *)
(* channels, for every size of the window and whatever the network does.  *)
(***************************************************************************)
EXTENDS GdxsvUdp, SequenceTheorems, TLAPS

-----------------------------------------------------------------------------
(***************************************************************************)
(* The inductive invariant.                                               *)
(***************************************************************************)
\* Messages that follow number n are the bodies that were pushed as n + 1, ...
Window(msgs, n, bodies) ==
    /\ n \in Nat /\ n + Len(msgs) <= Len(bodies)
    /\ \A i \in 1..Len(msgs) : msgs[i].seq = n + i /\ msgs[i].body = bodies[n + i]

\* Nothing is pushed or acknowledged before the loop starts its exchange.
StartClean == loop.state = "Start" => /\ loop.msg_seq = 1 /\ loop.snd_seq = 1
                                      /\ loop.ack = 0 /\ loop.data = <<>>

\* The window of the client ends with the last message pushed and starts no
\* later than the first one the server has not acknowledged.
ClientWindow == /\ loop.msg_seq = Len(pushed) + 1
                /\ loop.snd_seq >= 1 /\ loop.snd_seq - 1 <= srv.ack
                /\ loop.snd_seq - 1 + Len(loop.data) = Len(pushed)
                /\ Window(loop.data, loop.snd_seq - 1, pushed)

\* So does every packet in flight.
PacketsUp == \A p \in up : p.type = "Battle" =>
                /\ p.seq - Len(p.data) <= srv.ack
                /\ p.seq <= Len(pushed) /\ Window(p.data, p.seq - Len(p.data), pushed)

\* The server has acknowledged only what it has taken or is reading.
AcksDown == /\ srv.ack <= Len(pushed)
            /\ \A p \in down : p.type = "Battle" => p.ack <= srv.ack

ServerReading == \E n \in Nat : /\ n <= Len(got) /\ Window(srv.rx, n, pushed)
                                /\ srv.ack <= Len(got) \/ srv.ack <= n + Len(srv.rx)

ServerTook == /\ srv.last = Len(got) /\ Len(got) <= Len(pushed)
              /\ \A i \in 1..Len(got) : got[i] = pushed[i]

UpInv == StartClean /\ ClientWindow /\ PacketsUp /\ AcksDown /\ ServerReading /\ ServerTook

\* The same for what the server relays: messages that follow place n of the feed.
Fed(msgs, n, feed) == /\ n \in Nat /\ n + Len(msgs) <= Len(feed)
                      /\ \A i \in 1..Len(msgs) : msgs[i] = feed[n + i]

PacketsDown == \A p \in down : p.type = "Battle" =>
                /\ p.seq - Len(p.data) <= loop.ack
                /\ p.seq <= Len(srv.feed) /\ Fed(p.data, p.seq - Len(p.data), srv.feed)

AcksUp == /\ loop.ack <= Len(srv.feed) /\ srv.acked <= loop.ack
          /\ \A p \in up : p.type = "Battle" => p.ack <= loop.ack

ClientReading == \E n \in Nat : /\ n <= Len(heard) /\ Fed(loop.rx, n, srv.feed)
                                /\ loop.ack <= Len(heard) \/ loop.ack <= n + Len(loop.rx)

ClientHeard == /\ Len(heard) <= Len(srv.feed)
               /\ \A i \in 1..Len(heard) : heard[i] = srv.feed[i]

\* The numbers of a sender grow by one in the feed.
FeedNumbers == \A k \in 1..Len(srv.feed) :
    /\ srv.feed[k].seq >= 1
    /\ \A j \in 1..(k - 1) : srv.feed[j].user = srv.feed[k].user => srv.feed[j].seq < srv.feed[k].seq
    /\ \/ srv.feed[k].seq = 1
       \/ \E j \in 1..(k - 1) : /\ srv.feed[j].user = srv.feed[k].user
                                /\ srv.feed[j].seq = srv.feed[k].seq - 1

\* The filter holds the last number heard of each sender.
Filter == \A u \in Users :
    /\ \A i \in 1..Len(heard) : heard[i].user = u => heard[i].seq <= loop.recv_seq[u]
    /\ loop.recv_seq[u] # 0 =>
          \E i \in 1..Len(heard) : heard[i].user = u /\ heard[i].seq = loop.recv_seq[u]

DownInv == PacketsDown /\ AcksUp /\ ClientReading /\ ClientHeard /\ FeedNumbers /\ Filter

-----------------------------------------------------------------------------
(***************************************************************************)
(* Types.                                                                 *)
(***************************************************************************)
\* The values that the buffers and the numbers start with.
LEMMA EmptyTypes == /\ <<>> \in Seq(Messages) /\ <<>> \in Seq(Relayed) /\ <<>> \in Seq(Bodies)
                    /\ <<>> \in Bodies /\ <<>> \in Received /\ 1 \in Numbers
  BY EmptySeq DEF Bodies, Received, Numbers

\* The loop that Connect() starts, and the session of the server.
LEMMA NewTypes == /\ NewLoop \in LoopType /\ [NewLoop EXCEPT !.pc = "entry"] \in LoopType
                  /\ NewServer \in ServerType
<1>1. [u \in Users |-> 0] \in [Users -> Nat]
  OBVIOUS
<1>3. NewLoop \in LoopType
  BY <1>1, EmptyTypes DEF NewLoop, LoopType
<1>4. NewServer \in ServerType
  BY EmptyTypes DEF NewServer, ServerType
<1>5. [NewLoop EXCEPT !.pc = "entry"] \in LoopType
  BY <1>3 DEF LoopType
<1> QED
  BY <1>3, <1>4, <1>5

\* The countdown that the test of the loop leaves behind.
LEMMA CountdownType == ASSUME TypeOK
                       PROVE  Retransmit \in Int /\ Counted \in Int
<1>1. loop.countdown \in Int
  BY DEF TypeOK, LoopType
<1> QED
  BY <1>1, UdpAssumption DEF Counted

\* What a message takes of send_buf, and what it leaves.
LEMMA BodyType == ASSUME TypeOK, NEW n \in 0..Len(send_buf)
                  PROVE  /\ SubSeq(send_buf, 1, n) \in Bodies /\ Len(SubSeq(send_buf, 1, n)) = n
                         /\ \A i \in 1..n : SubSeq(send_buf, 1, n)[i] = send_buf[i]
                         /\ SubSeq(send_buf, n + 1, Len(send_buf)) \in Bodies
                         /\ Len(SubSeq(send_buf, n + 1, Len(send_buf))) = Len(send_buf) - n
                         /\ \A i \in 1..(Len(send_buf) - n) :
                               SubSeq(send_buf, n + 1, Len(send_buf))[i] = send_buf[n + i]
<1> DEFINE S == Nat \X Nat
           m == Len(send_buf)
<1>1. send_buf \in Seq(S) /\ m \in Nat /\ n \in Nat /\ n <= m
  BY LenProperties DEF TypeOK, Bodies
<1>2. \A i \in 1..m : send_buf[i] \in S
  BY <1>1, ElementOfSeq
<1> HIDE DEF S, m
<1>3. (\A i \in 1..n : send_buf[i] \in S) /\ (\A i \in (n + 1)..m : send_buf[i] \in S)
  BY <1>1, <1>2
<1> DEFINE b == SubSeq(send_buf, 1, n)
           r == SubSeq(send_buf, n + 1, m)
<1>4. /\ b \in Seq(S) /\ Len(b) = IF 1 <= n THEN n - 1 + 1 ELSE 0
      /\ \A i \in 1..(n - 1 + 1) : b[i] = send_buf[1 + i - 1]
  BY <1>1, <1>3, SubSeqProperties
<1>5. /\ r \in Seq(S) /\ Len(r) = IF n + 1 <= m THEN m - (n + 1) + 1 ELSE 0
      /\ \A i \in 1..(m - (n + 1) + 1) : r[i] = send_buf[n + 1 + i - 1]
  BY <1>1, <1>3, SubSeqProperties
<1> HIDE DEF b, r
<1>6. Len(b) = n /\ \A i \in 1..n : b[i] = send_buf[i]
  BY <1>1, <1>4
<1>7. Len(r) = m - n /\ \A i \in 1..(m - n) : r[i] = send_buf[n + i]
  BY <1>1, <1>5
<1> QED
  BY <1>4, <1>5, <1>6, <1>7 DEF S, m, b, r, Bodies

\* PushBattleMessage and ApplySeqAck keep the type of the loop.
LEMMA PushType == ASSUME NEW l \in LoopType, NEW body \in Bodies
                  PROVE  PushBattleMessage(l, body) \in LoopType
<1>1. [seq |-> l.msg_seq, body |-> body] \in Messages
  BY DEF LoopType, Messages, Numbers
<1>2. Append(l.data, [seq |-> l.msg_seq, body |-> body]) \in Seq(Messages)
  BY <1>1, AppendProperties DEF LoopType
<1>3. l.msg_seq + 1 \in Numbers
  BY DEF LoopType, Numbers
<1> QED
  BY <1>2, <1>3 DEF PushBattleMessage, LoopType

\* An acknowledgement shortens the window and leaves a loop.
LEMMA ApplyType == ASSUME NEW l \in LoopType, NEW seq \in Nat, NEW ack \in Nat
                   PROVE  ApplySeqAck(l, seq, ack) \in LoopType
<1>1. l.data \in Seq(Messages) /\ l.snd_seq \in Nat /\ l.snd_seq \in Numbers /\ l.ack \in Nat
  BY DEF LoopType, Numbers
<1>2. Len(l.data) \in Nat
  BY <1>1, LenProperties
<1>3. l.snd_seq <= ack => SubSeq(l.data, ack - l.snd_seq + 2, Len(l.data)) \in Seq(Messages)
  <2>1. SUFFICES ASSUME l.snd_seq <= ack
                 PROVE  SubSeq(l.data, ack - l.snd_seq + 2, Len(l.data)) \in Seq(Messages)
    OBVIOUS
  <2>2. \A i \in (ack - l.snd_seq + 2)..Len(l.data) : l.data[i] \in Messages
    BY <1>1, <1>2, <2>1, ElementOfSeq
  <2>3. ack - l.snd_seq + 2 \in Int /\ Len(l.data) \in Int
    BY <1>1, <1>2
  <2> HIDE DEF Messages
  <2> QED
    BY <2>2, <2>3, SubSeqProperties
<1>4. ack + 1 \in Numbers
  BY DEF Numbers
<1> DEFINE d == IF l.snd_seq <= ack THEN SubSeq(l.data, ack - l.snd_seq + 2, Len(l.data)) ELSE l.data
           n == IF l.snd_seq <= ack THEN ack + 1 ELSE l.snd_seq
           a == IF l.ack < seq THEN seq ELSE l.ack
<1>5. d \in Seq(Messages) /\ n \in Numbers /\ a \in Nat
  BY <1>1, <1>3, <1>4
<1>6. ApplySeqAck(l, seq, ack) = [l EXCEPT !.data = d, !.snd_seq = n, !.ack = a]
  BY DEF ApplySeqAck
<1> HIDE DEF d, n, a
<1> QED
  BY <1>5, <1>6 DEF LoopType

\* What is sent has a type.
LEMMA QueryTypes == ASSUME NEW sid \in Nat
                    PROVE  /\ [type |-> "Fin", sid |-> sid] \in UpType
                           /\ [type |-> "Hello", sid |-> sid] \in UpType
                           /\ [type |-> "Ping", sid |-> sid] \in UpType
  BY DEF UpType, Queries

\* The datagrams without messages.
LEMMA AnswerTypes == /\ [type |-> "Fin"] \in DownType /\ [type |-> "Hello"] \in DownType
                     /\ [type |-> "Pong"] \in DownType
  BY DEF DownType, Answers

\* A datagram with messages, by its type.
LEMMA BattleTypes == /\ \A p \in UpType : p.type = "Battle" => p \in BattleUp
                     /\ \A p \in DownType : p.type = "Battle" => p \in BattleDown
  BY DEF UpType, DownType, Queries, Answers, BattleUp, BattleDown

\* What SendUp, SendDown, TakeUp and TakeDown leave in the network.
LEMMA NetworkType ==
    ASSUME TypeOK
    PROVE  /\ \A p \in UpType : SendUp(p) => up' \subseteq UpType /\ faults' \in Nat
           /\ \A p \in DownType : SendDown(p) => down' \subseteq DownType /\ faults' \in Nat
           /\ \A p : TakeUp(p) => up' \subseteq UpType /\ faults' \in Nat
           /\ \A p : TakeDown(p) => down' \subseteq DownType /\ faults' \in Nat
  BY DEF TypeOK, SendUp, SendDown, TakeUp, TakeDown

\* The types of each group of variables are kept by the steps of each thread.
LEMMA GameType ==
    ASSUME TypeOK, Game
    PROVE  TypeOK'
<1> USE DEF game, bufs, net, history
<1>1. CASE SockWrite
  <2>1. wrote' \in Nat /\ <<conn, wrote + 1>> \in Nat \X Nat
    BY <1>1 DEF SockWrite, TypeOK
  <2>2. send_buf' \in Bodies
    BY <1>1, <2>1, AppendProperties DEF SockWrite, TypeOK, Bodies
  <2> QED
    BY <1>1, <2>1, <2>2 DEF SockWrite, TypeOK
<1>2. CASE SockRead
  BY <1>2, EmptyTypes DEF SockRead, TypeOK
<1>3. ASSUME CloseMcsRemote
      PROVE  /\ up' \subseteq UpType /\ down' \subseteq DownType /\ faults' \in Nat
             /\ net_terminate' \in BOOLEAN /\ remote' \in BOOLEAN
  <2>1. session_id \in Nat
    BY DEF TypeOK
  <2> QED
    BY <1>3, <2>1, QueryTypes, NetworkType DEF CloseMcsRemote, TypeOK
<1>4. CASE SockClose
  BY <1>3, <1>4 DEF SockClose, TypeOK
<1>5. CASE Reset
  BY <1>3, <1>5 DEF Reset, TypeOK
<1>6. CASE ConnectClose
  BY <1>3, <1>6 DEF ConnectClose, TypeOK
<1>7. CASE ConnectFail
  BY <1>7 DEF ConnectFail, TypeOK
<1>8. CASE ConnectStart
  <2>1. /\ mode' \in {"Offline", "Opening", "McsUdp"} /\ conn' \in Nat /\ session_id' \in Nat
        /\ send_buf' \in Bodies /\ recv_buf' \in Received /\ faults' \in Nat /\ wrote' \in Nat
    BY <1>8 DEF ConnectStart, TypeOK
  <2>2. net_terminate' \in BOOLEAN /\ remote' \in BOOLEAN
    BY <1>8 DEF ConnectStart
  <2>3. loop' \in LoopType /\ srv' \in ServerType
    BY <1>8, NewTypes DEF ConnectStart
  <2>4. up' \subseteq UpType /\ down' \subseteq DownType
    BY <1>8 DEF ConnectStart
  <2>5. pushed' \in Seq(Bodies) /\ got' \in Seq(Bodies) /\ heard' \in Seq(Relayed)
    BY <1>8, EmptyTypes DEF ConnectStart
  <2> QED
    BY <2>1, <2>2, <2>3, <2>4, <2>5 DEF TypeOK
<1> QED
  BY <1>1, <1>2, <1>4, <1>5, <1>6, <1>7, <1>8 DEF Game

\* The steps of NetThreadLoop keep the types.
LEMMA StepType ==
    ASSUME TypeOK, Step
    PROVE  TypeOK'
<1> USE DEF game, bufs, net, history
<1>0. loop \in LoopType
  BY DEF TypeOK
<1>1. CASE Enter
  <2>1. loop' \in LoopType
    BY <1>0, <1>1 DEF Enter, LoopType
  <2> QED
    BY <1>1, <2>1, EmptyTypes DEF Enter, ClearBuffers, TypeOK
<1>2. CASE Top
  <2>1. loop' \in LoopType
    BY <1>0, <1>2 DEF Top, LoopType
  <2> QED
    BY <1>2, <2>1 DEF Top, TypeOK
<1>3. CASE Exit
  <2>1. loop' \in LoopType
    BY <1>0, <1>3 DEF Exit, LoopType
  <2> QED
    BY <1>3, <2>1, EmptyTypes DEF Exit, ClearBuffers, TypeOK
<1>4. CASE RunStart
  <2>1. loop' \in LoopType
    BY <1>0, <1>4, EmptyTypes DEF RunStart, Cleared, LoopType
  <2>2. <<Hello>> \in Received
    BY DEF Received
  <2> QED
    BY <1>4, <2>1, <2>2, EmptyTypes DEF RunStart, TypeOK
<1>5. CASE TakeSession
  <2>1. loop' \in LoopType
    BY <1>0, <1>5 DEF TakeSession, LoopType
  <2>2. session_id' \in Nat
    BY <1>5 DEF TakeSession, TypeOK
  <2> QED
    BY <1>5, <2>1, <2>2, EmptyTypes DEF TakeSession, TypeOK
<1>6. ASSUME NEW type \in {"Hello", "Ping"}, NEW sid \in Nat, Query(type, sid)
      PROVE  TypeOK'
  <2>1. loop' \in LoopType
    BY <1>0, <1>6 DEF Query, LoopType
  <2>2. [type |-> type, sid |-> sid] \in UpType
    BY QueryTypes
  <2>3. up' \subseteq UpType /\ faults' \in Nat
    BY <1>6, <2>2, NetworkType DEF Query, TypeOK
  <2> QED
    BY <1>6, <2>1, <2>3 DEF Query, TypeOK
<1>7. CASE SayHello
  BY <1>6, <1>7 DEF SayHello, TypeOK
<1>8. CASE BeginPing
  <2>1. loop' \in LoopType
    BY <1>0, <1>8 DEF BeginPing, LoopType
  <2> QED
    BY <1>8, <2>1 DEF BeginPing, TypeOK
<1>9. CASE SendPing
  BY <1>6, <1>9 DEF SendPing, TypeOK
<1>10. CASE BeginBattle
  <2>1. loop' \in LoopType
    BY <1>0, <1>10 DEF BeginBattle, LoopType
  <2> QED
    BY <1>10, <2>1 DEF BeginBattle, TypeOK
<1>11. CASE Wait
  <2>1. loop' \in LoopType
    BY <1>0, <1>11, CountdownType DEF Wait, LoopType
  <2> QED
    BY <1>11, <2>1 DEF Wait, TypeOK
<1>12. ASSUME NEW n \in 0..Len(send_buf), Send(n)
       PROVE  TypeOK'
  <2> DEFINE body == SubSeq(send_buf, 1, n)
             l    == IF n > 0 THEN PushBattleMessage(loop, body) ELSE loop
             p    == [type |-> "Battle", sid |-> conn, seq |-> PacketSeq(l), ack |-> l.ack,
                      data |-> l.data]
  <2>1. l \in LoopType
    BY <1>0, BodyType, PushType
  <2>2. pushed' \in Seq(Bodies) /\ send_buf' \in Bodies
    BY <1>12, BodyType, AppendProperties DEF Send, TypeOK
  <2>3. Counted \in Int /\ Retransmit \in Int
    BY CountdownType
  <2>4. p \in UpType
    <3>1. l.msg_seq \in Numbers /\ l.ack \in Nat /\ l.data \in Seq(Messages)
      BY <2>1 DEF LoopType
    <3>2. PacketSeq(l) \in Nat
      BY <3>1 DEF PacketSeq, Numbers
    <3>3. conn \in Nat
      BY DEF TypeOK
    <3> HIDE DEF l
    <3> QED
      BY <3>1, <3>2, <3>3 DEF UpType, BattleUp
  <2>5. loop' = [l EXCEPT !.pc = "recv", !.countdown = Retransmit] \/
        loop' = [l EXCEPT !.pc = "recv", !.countdown = Counted]
    BY <1>12 DEF Send
  <2>6. loop' \in LoopType
    <3> HIDE DEF l
    <3> QED
      BY <2>1, <2>3, <2>5 DEF LoopType
  <2>7. SendUp(p) \/ (up' = up /\ faults' \in Nat)
    BY <1>12 DEF Send, TypeOK
  <2>8. up' \subseteq UpType /\ faults' \in Nat
    <3> HIDE DEF p
    <3> QED
      BY <2>4, <2>7, NetworkType DEF TypeOK
  <2> QED
    BY <1>12, <2>2, <2>6, <2>8 DEF Send, TypeOK
<1>13. CASE QueryFails
  <2>1. loop' \in LoopType
    BY <1>0, <1>13 DEF QueryFails, LoopType
  <2>2. session_id \in Nat
    BY DEF TypeOK
  <2>3. /\ up' \subseteq UpType /\ down' \subseteq DownType /\ faults' \in Nat
        /\ net_terminate' \in BOOLEAN /\ remote' \in BOOLEAN
    BY <1>13, <2>2, QueryTypes, NetworkType DEF QueryFails, CloseMcsRemote, TypeOK
  <2> QED
    BY <1>13, <2>1, <2>3 DEF QueryFails, TypeOK
<1>14. CASE ReadMessage
  <2> DEFINE m    == Head(loop.rx)
             next == IsNextMessage(loop.recv_seq[m.user], m.seq)
  <2>1. m \in Relayed /\ Tail(loop.rx) \in Seq(Relayed)
    BY <1>0, <1>14, HeadTailProperties DEF ReadMessage, LoopType
  <2>2. m.user \in Users /\ m.seq \in Nat
    BY <2>1 DEF Relayed
  <2>3. loop' \in LoopType
    BY <1>0, <1>14, <2>1, <2>2 DEF ReadMessage, LoopType
  <2>4. heard' \in Seq(Relayed)
    BY <1>14, <2>1, AppendProperties DEF ReadMessage, TypeOK
  <2>5. <<conn, m>> \in {Hello} \union (Nat \X Relayed)
    BY <2>1 DEF TypeOK
  <2>6. recv_buf' \in Received
    BY <1>14, <2>5, AppendProperties DEF ReadMessage, TypeOK, Received
  <2> QED
    BY <1>14, <2>3, <2>4, <2>6 DEF ReadMessage, TypeOK
<1> QED
  BY <1>1, <1>2, <1>3, <1>4, <1>5, <1>7, <1>8, <1>9, <1>10, <1>11, <1>12, <1>13, <1>14 DEF Step

\* So do those of the server that are not about a datagram,
LEMMA ServerStepType ==
    ASSUME TypeOK, Server
    PROVE  TypeOK'
<1> USE DEF game, bufs, net, history
<1>0. srv \in ServerType
  BY DEF TypeOK
<1>1. CASE ServerRead
  <2>1. Head(srv.rx) \in Messages /\ Tail(srv.rx) \in Seq(Messages)
    BY <1>0, <1>1, HeadTailProperties DEF ServerRead, ServerType
  <2>2. Head(srv.rx).seq \in Nat /\ Head(srv.rx).body \in Bodies
    BY <2>1 DEF Messages
  <2>3. srv' \in ServerType
    BY <1>0, <1>1, <2>1, <2>2 DEF ServerRead, ServerType
  <2>4. got' \in Seq(Bodies)
    BY <1>1, <2>2, AppendProperties DEF ServerRead, TypeOK
  <2> QED
    BY <1>1, <2>3, <2>4 DEF ServerRead, TypeOK
<1>2. CASE ServerSend
  <2> DEFINE d == SubSeq(srv.feed, srv.acked + 1, Len(srv.feed))
             p == [type |-> "Battle", seq |-> Len(srv.feed), ack |-> srv.ack, data |-> d]
  <2>1. /\ srv.feed \in Seq(Relayed) /\ Len(srv.feed) \in Nat /\ srv.acked \in Nat
        /\ srv.ack \in Nat
    BY <1>0, LenProperties DEF ServerType
  <2>2. \A i \in (srv.acked + 1)..Len(srv.feed) : srv.feed[i] \in Relayed
    BY <2>1, ElementOfSeq
  <2>3. d \in Seq(Relayed)
    BY <2>1, <2>2, SubSeqProperties
  <2> HIDE DEF d
  <2>4. p \in DownType
    BY <2>1, <2>3 DEF DownType, BattleDown
  <2>5. SendDown(p)
    BY <1>2 DEF ServerSend, d
  <2>6. down' \subseteq DownType /\ faults' \in Nat
    BY <2>4, <2>5, NetworkType
  <2> QED
    BY <1>2, <2>6 DEF ServerSend, TypeOK
<1>3. CASE ServerEnd
  <2>1. srv' \in ServerType
    BY <1>0, <1>3 DEF ServerEnd, ServerType
  <2>2. down' \subseteq DownType /\ faults' \in Nat
    BY <1>3, AnswerTypes, NetworkType DEF ServerEnd
  <2> QED
    BY <1>3, <2>1, <2>2 DEF ServerEnd, TypeOK
<1>4. ASSUME NEW u \in Users, NEW n \in 1..MaxTraffic, ServerRelay(u, n)
      PROVE  TypeOK'
  <2>1. [user |-> u, seq |-> n] \in Relayed
    BY UdpAssumption DEF Relayed
  <2>2. Append(srv.feed, [user |-> u, seq |-> n]) \in Seq(Relayed)
    BY <1>0, <2>1, AppendProperties DEF ServerType
  <2>3. srv' \in ServerType
    BY <1>0, <1>4, <2>2 DEF ServerRelay, ServerType
  <2> QED
    BY <1>4, <2>3 DEF ServerRelay, TypeOK
<1> QED
  BY <1>1, <1>2, <1>3, <1>4 DEF Server

\* what the loop does with a datagram,
LEMMA RecvType ==
    ASSUME TypeOK, NEW p \in down, Recv(p)
    PROVE  TypeOK'
<1> USE DEF game, bufs, net, history
<1>0. loop \in LoopType /\ p \in DownType
  BY DEF TypeOK
<1>1. TakeDown(p) => down' \subseteq DownType /\ faults' \in Nat
  BY NetworkType
<1>2. CASE RecvDrop(p)
  BY <1>1, <1>2 DEF RecvDrop, TypeOK
<1>3. CASE RecvHello(p)
  <2>1. loop' \in LoopType
    BY <1>0, <1>3 DEF RecvHello, LoopType
  <2> QED
    BY <1>1, <1>3, <2>1 DEF RecvHello, TypeOK
<1>4. CASE RecvPong(p)
  <2>1. loop' \in LoopType
    <3>1. loop.pings + 1 \in Nat
      BY <1>0 DEF LoopType
    <3>2. loop' = [loop EXCEPT !.pings = loop.pings + 1]
      BY <1>4 DEF RecvPong
    <3> QED
      BY <1>0, <3>1, <3>2 DEF LoopType
  <2> QED
    BY <1>1, <1>4, <2>1 DEF RecvPong, TypeOK
<1>5. CASE RecvBattle(p)
  <2>1. p.seq \in Nat /\ p.ack \in Nat /\ p.data \in Seq(Relayed)
    BY <1>0, <1>5, BattleTypes DEF RecvBattle, BattleDown
  <2>2. ApplySeqAck(loop, p.seq, p.ack) \in LoopType
    BY <1>0, <2>1, ApplyType
  <2>3. loop' = [ApplySeqAck(loop, p.seq, p.ack) EXCEPT !.rx = p.data]
    BY <1>5 DEF RecvBattle
  <2>4. loop' \in LoopType
    BY <2>1, <2>2, <2>3 DEF LoopType
  <2> QED
    BY <1>1, <1>5, <2>4 DEF RecvBattle, TypeOK
<1>6. CASE RecvFin(p)
  <2>1. loop' \in LoopType
    BY <1>0, <1>6 DEF RecvFin, LoopType
  <2>2. session_id \in Nat
    BY DEF TypeOK
  <2>3. /\ up' \subseteq UpType /\ down' \subseteq DownType /\ faults' \in Nat
        /\ net_terminate' \in BOOLEAN /\ remote' \in BOOLEAN
    BY <1>6, <2>2, QueryTypes, NetworkType DEF RecvFin, CloseMcsRemote, TypeOK
  <2> QED
    BY <1>6, <2>1, <2>3 DEF RecvFin, TypeOK
<1> QED
  BY <1>2, <1>3, <1>4, <1>5, <1>6 DEF Recv

\* and what the server does with one.
LEMMA ServerRecvType ==
    ASSUME TypeOK, NEW p \in up, ServerRecv(p)
    PROVE  TypeOK'
<1> USE DEF game, bufs, net, history
<1>0. srv \in ServerType /\ p \in UpType
  BY DEF TypeOK
<1>1. TakeUp(p) => up' \subseteq UpType /\ faults' \in Nat
  BY NetworkType
<1>2. CASE ServerHello(p)
  <2>1. srv' \in ServerType
    BY <1>0, <1>2 DEF ServerHello, ServerType
  <2> QED
    BY <1>1, <1>2, <2>1, AnswerTypes DEF ServerHello, ServerReads, TypeOK
<1>3. CASE ServerPing(p)
  BY <1>1, <1>3, AnswerTypes DEF ServerPing, ServerReads, TypeOK
<1>4. CASE ServerBattle(p)
  <2>1. p.seq \in Nat /\ p.ack \in Nat /\ p.data \in Seq(Messages)
    BY <1>0, <1>4, BattleTypes DEF ServerBattle, ServerReads, BattleUp
  <2>2. srv' \in ServerType
    BY <1>0, <1>4, <2>1 DEF ServerBattle, ServerType
  <2> QED
    BY <1>1, <1>4, <2>2 DEF ServerBattle, ServerReads, TypeOK
<1>5. CASE ServerFin(p)
  <2>1. srv' \in ServerType
    BY <1>0, <1>5 DEF ServerFin, ServerType
  <2> QED
    BY <1>1, <1>5, <2>1 DEF ServerFin, ServerReads, TypeOK
<1> QED
  BY <1>2, <1>3, <1>4, <1>5 DEF ServerRecv

\* Before the first Connect().
LEMMA TypeInit == Init => TypeOK
<1> SUFFICES ASSUME Init PROVE TypeOK
  OBVIOUS
<1>1. net_terminate \in BOOLEAN /\ remote \in BOOLEAN
  BY DEF Init
<1> QED
  BY <1>1, NewTypes, EmptyTypes DEF Init, TypeOK

\* Every action keeps the types.
LEMMA TypeNext == TypeOK /\ [Next]_vars => TypeOK'
<1> SUFFICES ASSUME TypeOK, [Next]_vars PROVE TypeOK'
  OBVIOUS
<1>1. CASE UNCHANGED vars
  BY <1>1 DEF vars, game, bufs, net, history, TypeOK
<1> QED
  BY <1>1, GameType, StepType, ServerStepType, RecvType, ServerRecvType DEF Next

\* The variables of the backend keep their types, for every bound: messages
\* are numbered from 1, so that 0 can stand for none in a packet and in a filter.
THEOREM UdpTypeCorrect == Spec => []TypeOK
  BY TypeInit, TypeNext, PTL DEF Spec

-----------------------------------------------------------------------------
(***************************************************************************)
(* Most steps leave both directions alone.                                *)
(***************************************************************************)
UpQuiet == /\ pushed' = pushed /\ got' = got
           /\ srv'.last = srv.last /\ srv'.ack = srv.ack /\ srv'.rx = srv.rx
           /\ loop'.msg_seq = loop.msg_seq /\ loop'.snd_seq = loop.snd_seq
           /\ loop'.ack = loop.ack /\ loop'.data = loop.data
           /\ loop'.state = "Start" => loop.state = "Start"
           /\ \A p \in up' : p.type = "Battle" => p \in up
           /\ \A p \in down' : p.type = "Battle" => p \in down

DownQuiet == /\ heard' = heard /\ srv'.feed = srv.feed /\ srv'.acked = srv.acked
             /\ loop'.ack = loop.ack /\ loop'.recv_seq = loop.recv_seq /\ loop'.rx = loop.rx
             /\ \A p \in up' : p.type = "Battle" => p \in up
             /\ \A p \in down' : p.type = "Battle" => p \in down

\* Steps that are quiet in a direction keep its invariant.
LEMMA UpQuietKeeps == UpInv /\ UpQuiet => UpInv'
<1> SUFFICES ASSUME UpInv, UpQuiet PROVE UpInv'
  OBVIOUS
<1>1. StartClean'
  BY DEF UpInv, UpQuiet, StartClean
<1>2. ClientWindow'
  BY DEF UpInv, UpQuiet, ClientWindow
<1>3. PacketsUp'
  BY DEF UpInv, UpQuiet, PacketsUp
<1>4. AcksDown'
  BY DEF UpInv, UpQuiet, AcksDown
<1>5. ServerReading'
  BY DEF UpInv, UpQuiet, ServerReading
<1>6. ServerTook'
  BY DEF UpInv, UpQuiet, ServerTook
<1> QED
  BY <1>1, <1>2, <1>3, <1>4, <1>5, <1>6 DEF UpInv

\* The same the other way.
LEMMA DownQuietKeeps == DownInv /\ DownQuiet => DownInv'
<1> SUFFICES ASSUME DownInv, DownQuiet PROVE DownInv'
  OBVIOUS
<1>1. PacketsDown'
  BY DEF DownInv, DownQuiet, PacketsDown
<1>2. AcksUp'
  BY DEF DownInv, DownQuiet, AcksUp
<1>3. ClientReading'
  BY DEF DownInv, DownQuiet, ClientReading
<1>4. ClientHeard'
  BY DEF DownInv, DownQuiet, ClientHeard
<1>5. FeedNumbers'
  BY DEF DownInv, DownQuiet, FeedNumbers
<1>6. Filter'
  BY DEF DownInv, DownQuiet, Filter
<1> QED
  BY <1>1, <1>2, <1>3, <1>4, <1>5, <1>6 DEF DownInv

\* What a query, an answer or a reception leaves of the battle packets.
LEMMA NetworkQuiet ==
    /\ \A p : p.type # "Battle" /\ SendUp(p) => \A q \in up' : q.type = "Battle" => q \in up
    /\ \A p : p.type # "Battle" /\ SendDown(p) => \A q \in down' : q.type = "Battle" => q \in down
    /\ \A p : TakeUp(p) => up' \subseteq up
    /\ \A p : TakeDown(p) => down' \subseteq down
    /\ CloseMcsRemote => /\ \A q \in up' : q.type = "Battle" => q \in up
                         /\ down' \subseteq down
<1>1. \A p : p.type # "Battle" /\ SendUp(p) => \A q \in up' : q.type = "Battle" => q \in up
  BY DEF SendUp
<1>2. [type |-> "Fin", sid |-> session_id].type # "Battle"
  OBVIOUS
<1>3. CloseMcsRemote => \A q \in up' : q.type = "Battle" => q \in up
  BY <1>1, <1>2 DEF CloseMcsRemote
<1>4. CloseMcsRemote => down' \subseteq down
  BY DEF CloseMcsRemote
<1> QED
  BY <1>1, <1>3, <1>4 DEF SendDown, TakeUp, TakeDown

\* The RPCs of the game touch no message under way,
LEMMA GameQuiet ==
    ASSUME TypeOK, StartClean, SockWrite \/ SockRead \/ SockClose \/ Reset \/ ConnectClose \/ ConnectFail
    PROVE  UpQuiet /\ DownQuiet
<1> USE DEF UpQuiet, DownQuiet, game, bufs, net, history
<1>0. loop \in LoopType /\ srv \in ServerType
  BY DEF TypeOK
<1>1. CASE SockWrite
  BY <1>0, <1>1, NetworkQuiet DEF SockWrite, LoopType, ServerType
<1>2. CASE SockRead
  BY <1>0, <1>2, NetworkQuiet DEF SockRead, LoopType, ServerType
<1>3. CASE SockClose
  BY <1>0, <1>3, NetworkQuiet DEF SockClose, LoopType, ServerType
<1>4. CASE Reset
  BY <1>0, <1>4, NetworkQuiet DEF Reset, LoopType, ServerType
<1>5. CASE ConnectClose
  BY <1>0, <1>5, NetworkQuiet DEF ConnectClose, LoopType, ServerType
<1>6. CASE ConnectFail
  BY <1>0, <1>6, NetworkQuiet DEF ConnectFail, LoopType, ServerType
<1> QED
  BY <1>1, <1>2, <1>3, <1>4, <1>5, <1>6

\* nor do the steps of the loop other than Send and ReadMessage,
LEMMA StepQuiet ==
    ASSUME TypeOK, StartClean,
           \/ Enter \/ Top \/ Exit \/ RunStart \/ TakeSession \/ SayHello \/ BeginPing
           \/ SendPing \/ QueryFails \/ BeginBattle \/ Wait
    PROVE  UpQuiet /\ DownQuiet
<1> USE DEF UpQuiet, DownQuiet, game, bufs, net, history
<1>0. loop \in LoopType /\ srv \in ServerType
  BY DEF TypeOK
<1>1. CASE Enter
  BY <1>0, <1>1, NetworkQuiet DEF Enter, LoopType, ServerType
<1>2. CASE Top
  BY <1>0, <1>2, NetworkQuiet DEF Top, LoopType, ServerType
<1>3. CASE Exit
  BY <1>0, <1>3, NetworkQuiet DEF Exit, LoopType, ServerType
<1>4. CASE RunStart
  BY <1>0, <1>4, NetworkQuiet DEF RunStart, Cleared, LoopType, ServerType, Running, StartClean
<1>5. CASE TakeSession
  BY <1>0, <1>5, NetworkQuiet DEF TakeSession, LoopType, ServerType
<1>6. CASE SayHello
  BY <1>0, <1>6, NetworkQuiet DEF SayHello, LoopType, ServerType, Query
<1>7. CASE BeginPing
  BY <1>0, <1>7, NetworkQuiet DEF BeginPing, LoopType, ServerType
<1>8. CASE SendPing
  BY <1>0, <1>8, NetworkQuiet DEF SendPing, LoopType, ServerType, Query
<1>9. CASE BeginBattle
  BY <1>0, <1>9, NetworkQuiet DEF BeginBattle, LoopType, ServerType
<1>10. CASE Wait
  BY <1>0, <1>10, NetworkQuiet DEF Wait, LoopType, ServerType
<1>11. CASE QueryFails
  BY <1>0, <1>11, NetworkQuiet DEF QueryFails, LoopType, ServerType
<1> QED
  BY <1>1, <1>2, <1>3, <1>4, <1>5, <1>6, <1>7, <1>8, <1>9, <1>10, <1>11

\* the datagrams without messages,
LEMMA RecvQuiet ==
    ASSUME TypeOK, StartClean, NEW p, RecvDrop(p) \/ RecvHello(p) \/ RecvPong(p) \/ RecvFin(p)
    PROVE  UpQuiet /\ DownQuiet
<1> USE DEF UpQuiet, DownQuiet, game, bufs, net, history
<1>0. loop \in LoopType /\ srv \in ServerType
  BY DEF TypeOK
<1>1. CASE RecvDrop(p)
  BY <1>0, <1>1, NetworkQuiet DEF RecvDrop, LoopType, ServerType
<1>2. CASE RecvHello(p)
  BY <1>0, <1>2, NetworkQuiet DEF RecvHello, LoopType, ServerType
<1>3. CASE RecvPong(p)
  BY <1>0, <1>3, NetworkQuiet DEF RecvPong, LoopType, ServerType
<1>4. CASE RecvFin(p)
  BY <1>0, <1>4, NetworkQuiet DEF RecvFin, LoopType, ServerType
<1> QED
  BY <1>1, <1>2, <1>3, <1>4

\* and the answers of the server to those.
LEMMA ServerQuiet ==
    ASSUME TypeOK, StartClean, NEW p, ServerEnd \/ ServerHello(p) \/ ServerPing(p) \/ ServerFin(p)
    PROVE  UpQuiet /\ DownQuiet
<1> USE DEF UpQuiet, DownQuiet, game, bufs, net, history
<1>0. loop \in LoopType /\ srv \in ServerType
  BY DEF TypeOK
<1>1. CASE ServerEnd
  BY <1>0, <1>1, NetworkQuiet DEF ServerEnd, LoopType, ServerType
<1>2. CASE ServerHello(p)
  BY <1>0, <1>2, NetworkQuiet DEF ServerHello, LoopType, ServerType, ServerReads
<1>3. CASE ServerPing(p)
  BY <1>0, <1>3, NetworkQuiet DEF ServerPing, LoopType, ServerType, ServerReads
<1>4. CASE ServerFin(p)
  BY <1>0, <1>4, NetworkQuiet DEF ServerFin, LoopType, ServerType, ServerReads
<1> QED
  BY <1>1, <1>2, <1>3, <1>4

\* Reading a message of the server leaves the other direction alone,
LEMMA ReadQuiet == ASSUME TypeOK, ReadMessage PROVE UpQuiet
<1>0. loop \in LoopType /\ srv \in ServerType
  BY DEF TypeOK
<1> QED
  BY <1>0 DEF ReadMessage, UpQuiet, LoopType, net, history

\* and so does relaying one.
LEMMA RelayQuiet == ASSUME TypeOK, NEW u, NEW n, ServerRelay(u, n) PROVE UpQuiet
<1>0. loop \in LoopType /\ srv \in ServerType
  BY DEF TypeOK
<1> QED
  BY <1>0 DEF ServerRelay, UpQuiet, ServerType, net, history

\* The server that reads a message leaves its own messages alone.
LEMMA ServerReadQuiet == ASSUME TypeOK, ServerRead PROVE DownQuiet
<1>0. loop \in LoopType /\ srv \in ServerType
  BY DEF TypeOK
<1> QED
  BY <1>0 DEF ServerRead, DownQuiet, ServerType, net, history

-----------------------------------------------------------------------------
(***************************************************************************)
(* The steps of the upward direction.                                     *)
(***************************************************************************)
\* The facts about types that the steps below use.
LEMMA Facts ==
    ASSUME TypeOK
    PROVE  /\ loop \in LoopType /\ srv \in ServerType
           /\ loop.msg_seq \in Nat /\ loop.snd_seq \in Nat /\ loop.ack \in Nat
           /\ loop.data \in Seq(Messages) /\ Len(loop.data) \in Nat
           /\ loop.rx \in Seq(Relayed) /\ Len(loop.rx) \in Nat
           /\ loop.recv_seq \in [Users -> Nat]
           /\ srv.last \in Nat /\ srv.ack \in Nat /\ srv.acked \in Nat
           /\ srv.rx \in Seq(Messages) /\ Len(srv.rx) \in Nat
           /\ srv.feed \in Seq(Relayed) /\ Len(srv.feed) \in Nat
           /\ pushed \in Seq(Bodies) /\ Len(pushed) \in Nat
           /\ got \in Seq(Bodies) /\ Len(got) \in Nat
           /\ heard \in Seq(Relayed) /\ Len(heard) \in Nat
<1>1. loop \in LoopType /\ srv \in ServerType /\ pushed \in Seq(Bodies) /\ got \in Seq(Bodies)
      /\ heard \in Seq(Relayed)
  BY DEF TypeOK
<1>2. /\ loop.msg_seq \in Nat /\ loop.snd_seq \in Nat /\ loop.ack \in Nat
      /\ loop.data \in Seq(Messages) /\ loop.rx \in Seq(Relayed)
      /\ loop.recv_seq \in [Users -> Nat]
  BY <1>1 DEF LoopType, Numbers
<1>3. /\ srv.last \in Nat /\ srv.ack \in Nat /\ srv.acked \in Nat
      /\ srv.rx \in Seq(Messages) /\ srv.feed \in Seq(Relayed)
  BY <1>1 DEF ServerType
<1> QED
  BY <1>1, <1>2, <1>3, LenProperties

\* And those about battle packets.
LEMMA PacketFacts ==
    ASSUME TypeOK
    PROVE  /\ \A p \in up : p.type = "Battle" =>
                 /\ p.seq \in Nat /\ p.ack \in Nat
                 /\ p.data \in Seq(Messages) /\ Len(p.data) \in Nat
           /\ \A p \in down : p.type = "Battle" =>
                 /\ p.seq \in Nat /\ p.ack \in Nat
                 /\ p.data \in Seq(Relayed) /\ Len(p.data) \in Nat
<1>1. \A p \in BattleUp : p.seq \in Nat /\ p.ack \in Nat /\ p.data \in Seq(Messages)
  BY DEF BattleUp
<1>2. \A p \in BattleDown : p.seq \in Nat /\ p.ack \in Nat /\ p.data \in Seq(Relayed)
  BY DEF BattleDown
<1>3. up \subseteq UpType /\ down \subseteq DownType
  BY DEF TypeOK
<1> QED
  BY <1>1, <1>2, <1>3, BattleTypes, LenProperties

\* A new battle starts from nothing.
LEMMA ConnectUp == ASSUME TypeOK, ConnectStart PROVE UpInv' /\ DownInv'
<1>1. /\ loop' = [NewLoop EXCEPT !.pc = "entry"] /\ srv' = NewServer /\ up' = {} /\ down' = {}
      /\ pushed' = <<>> /\ got' = <<>> /\ heard' = <<>>
  BY DEF ConnectStart
<1>2. /\ loop'.msg_seq = 1 /\ loop'.snd_seq = 1 /\ loop'.ack = 0 /\ loop'.data = <<>>
      /\ loop'.rx = <<>> /\ loop'.recv_seq = [u \in Users |-> 0]
      /\ srv'.last = 0 /\ srv'.ack = 0 /\ srv'.rx = <<>> /\ srv'.feed = <<>> /\ srv'.acked = 0
  BY <1>1 DEF NewLoop, NewServer
<1>3. Len(<<>>) = 0
  OBVIOUS
<1>4. UpInv'
  BY <1>1, <1>2, <1>3 DEF UpInv, StartClean, ClientWindow, PacketsUp, AcksDown, ServerReading,
                          ServerTook, Window
<1>5. DownInv'
  BY <1>1, <1>2, <1>3 DEF DownInv, PacketsDown, AcksUp, ClientReading, ClientHeard, FeedNumbers,
                          Filter, Fed
<1> QED
  BY <1>4, <1>5

\* What a window still is when the sequence grows, when a message is pushed, and
\* when messages are taken from its front.
LEMMA WindowGrow ==
    ASSUME NEW msgs \in Seq(Messages), NEW n, NEW bodies \in Seq(Bodies), NEW b \in Bodies,
           Window(msgs, n, bodies)
    PROVE  Window(msgs, n, Append(bodies, b))
<1>1. /\ Append(bodies, b) \in Seq(Bodies) /\ Len(Append(bodies, b)) = Len(bodies) + 1
      /\ \A i \in 1..Len(bodies) : Append(bodies, b)[i] = bodies[i]
  BY AppendProperties
<1>2. Len(msgs) \in Nat /\ Len(bodies) \in Nat
  BY LenProperties
<1> QED
  BY <1>1, <1>2 DEF Window

\* A message more in the window, and a body more that was pushed.
LEMMA WindowPush ==
    ASSUME NEW msgs \in Seq(Messages), NEW n, NEW bodies \in Seq(Bodies), NEW b \in Bodies,
           NEW m \in Messages, m.seq = Len(bodies) + 1, m.body = b,
           Window(msgs, n, bodies), n + Len(msgs) = Len(bodies)
    PROVE  Window(Append(msgs, m), n, Append(bodies, b))
<1>1. /\ Len(Append(bodies, b)) = Len(bodies) + 1
      /\ \A i \in 1..Len(bodies) : Append(bodies, b)[i] = bodies[i]
      /\ Append(bodies, b)[Len(bodies) + 1] = b
  BY AppendProperties
<1>2. /\ Len(Append(msgs, m)) = Len(msgs) + 1
      /\ \A i \in 1..Len(msgs) : Append(msgs, m)[i] = msgs[i]
      /\ Append(msgs, m)[Len(msgs) + 1] = m
  BY AppendProperties
<1>3. Len(msgs) \in Nat /\ Len(bodies) \in Nat /\ n \in Nat
  BY LenProperties DEF Window
<1> DEFINE msgs2 == Append(msgs, m)
           bodies2 == Append(bodies, b)
<1> HIDE DEF msgs2, bodies2
<1>4. ASSUME NEW i \in 1..(Len(msgs) + 1)
      PROVE  msgs2[i].seq = n + i /\ msgs2[i].body = bodies2[n + i]
  <2>1. CASE i \in 1..Len(msgs)
    <3>1. msgs2[i] = msgs[i] /\ bodies2[n + i] = bodies[n + i]
      BY <1>1, <1>2, <1>3, <2>1 DEF msgs2, bodies2
    <3> QED
      BY <2>1, <3>1 DEF Window
  <2>2. CASE i = Len(msgs) + 1
    <3>1. msgs2[i] = m /\ n + i = Len(bodies) + 1
      BY <1>2, <1>3, <2>2 DEF msgs2
    <3>2. bodies2[n + i] = b
      BY <1>1, <3>1 DEF bodies2
    <3> QED
      BY <3>1, <3>2
  <2> QED
    BY <1>3, <2>1, <2>2
<1> QED
  BY <1>1, <1>2, <1>3, <1>4 DEF Window, msgs2, bodies2

\* What is left of a window without its first k messages.
LEMMA WindowDrop ==
    ASSUME NEW msgs \in Seq(Messages), NEW n, NEW bodies \in Seq(Bodies), NEW k \in 0..Len(msgs),
           Window(msgs, n, bodies)
    PROVE  LET rest == SubSeq(msgs, k + 1, Len(msgs)) IN
           /\ Window(rest, n + k, bodies) /\ Len(rest) = Len(msgs) - k
<1> DEFINE rest == SubSeq(msgs, k + 1, Len(msgs))
<1>1. Len(msgs) \in Nat /\ Len(bodies) \in Nat /\ k \in Nat
  BY LenProperties
<1>2. \A i \in (k + 1)..Len(msgs) : msgs[i] \in Messages
  BY <1>1, ElementOfSeq
<1>3. /\ Len(rest) = Len(msgs) - k
      /\ \A i \in 1..Len(rest) : rest[i] = msgs[k + i]
  BY <1>1, <1>2, SubSeqProperties
<1> HIDE DEF rest
<1>4. n \in Nat /\ n + Len(msgs) <= Len(bodies)
  BY DEF Window
<1>5. ASSUME NEW i \in 1..Len(rest)
      PROVE  rest[i].seq = n + k + i /\ rest[i].body = bodies[n + k + i]
  <2>1. rest[i] = msgs[k + i] /\ k + i \in 1..Len(msgs)
    BY <1>1, <1>3
  <2>2. n + (k + i) = n + k + i
    BY <1>1, <1>3, <1>4
  <2> QED
    BY <2>1, <2>2 DEF Window
<1>6. Window(rest, n + k, bodies)
  BY <1>1, <1>3, <1>4, <1>5 DEF Window
<1> QED
  BY <1>3, <1>6 DEF rest

\* What is left of it without the first, and what the first is.
LEMMA WindowTail ==
    ASSUME NEW msgs \in Seq(Messages), NEW n, NEW bodies \in Seq(Bodies), msgs # <<>>,
           Window(msgs, n, bodies)
    PROVE  /\ Window(Tail(msgs), n + 1, bodies) /\ Len(Tail(msgs)) = Len(msgs) - 1
           /\ Len(msgs) >= 1
           /\ Head(msgs).seq = n + 1 /\ Head(msgs).body = bodies[n + 1]
<1>1. Len(msgs) \in Nat /\ Len(bodies) \in Nat /\ n \in Nat
  BY LenProperties DEF Window
<1>2. /\ Len(msgs) # 0 /\ Head(msgs) = msgs[1] /\ Len(Tail(msgs)) = Len(msgs) - 1
      /\ \A i \in 1..Len(Tail(msgs)) : Tail(msgs)[i] = msgs[i + 1]
  BY HeadTailProperties, EmptySeq
<1>3. /\ Len(msgs) >= 1 /\ n + Len(msgs) <= Len(bodies)
      /\ \A i \in 1..Len(msgs) : msgs[i].seq = n + i /\ msgs[i].body = bodies[n + i]
  BY <1>1, <1>2 DEF Window
<1>4. Head(msgs).seq = n + 1 /\ Head(msgs).body = bodies[n + 1]
  BY <1>1, <1>2, <1>3
<1> DEFINE rest == Tail(msgs)
<1> HIDE DEF rest
<1>5. ASSUME NEW i \in 1..Len(rest)
      PROVE  rest[i].seq = (n + 1) + i /\ rest[i].body = bodies[(n + 1) + i]
  <2>1. i + 1 \in 1..Len(msgs) /\ rest[i] = msgs[i + 1] /\ n + (i + 1) = (n + 1) + i
    BY <1>1, <1>2, <1>5 DEF rest
  <2> QED
    BY <1>3, <2>1
<1>6. n + 1 \in Nat /\ (n + 1) + Len(rest) <= Len(bodies)
  BY <1>1, <1>2, <1>3 DEF rest
<1>7. Window(rest, n + 1, bodies)
  BY <1>5, <1>6 DEF Window
<1> QED
  BY <1>2, <1>3, <1>4, <1>7 DEF rest

\* Send pushes at most one message and puts the window in flight.
LEMMA SendUpInv == ASSUME TypeOK, UpInv, NEW n \in 0..Len(send_buf), Send(n) PROVE UpInv'
<1> DEFINE push == n > 0
           body == SubSeq(send_buf, 1, n)
           m    == [seq |-> loop.msg_seq, body |-> body]
           l    == IF push THEN PushBattleMessage(loop, body) ELSE loop
           p    == [type |-> "Battle", sid |-> conn, seq |-> PacketSeq(l), ack |-> l.ack,
                    data |-> l.data]
<1>0. body \in Bodies /\ pushed \in Seq(Bodies) /\ loop.data \in Seq(Messages) /\ m \in Messages
  BY Facts, BodyType DEF TypeOK, Messages
<1>1. /\ loop'.msg_seq = l.msg_seq /\ loop'.snd_seq = l.snd_seq /\ loop'.ack = l.ack
      /\ loop'.data = l.data /\ loop'.state = l.state
  <2>1. l \in LoopType
    BY <1>0, Facts, PushType
  <2>2. \/ loop' = [l EXCEPT !.pc = "recv", !.countdown = Retransmit]
        \/ loop' = [l EXCEPT !.pc = "recv", !.countdown = Counted]
    BY DEF Send
  <2> HIDE DEF l
  <2> QED
    BY <2>1, <2>2 DEF LoopType
<1>2. /\ srv' = srv /\ got' = got /\ heard' = heard /\ down' = down
      /\ pushed' = IF push THEN Append(pushed, body) ELSE pushed
      /\ up' \subseteq up \union {p}
  BY DEF Send, SendUp, history
<1>3. /\ l.snd_seq = loop.snd_seq /\ l.ack = loop.ack /\ l.state = "McsInBattle"
      /\ push => l.msg_seq = loop.msg_seq + 1 /\ l.data = Append(loop.data, m)
      /\ ~push => l.msg_seq = loop.msg_seq /\ l.data = loop.data
  BY Facts DEF PushBattleMessage, LoopType, Send, Running
<1>4. m.seq = loop.msg_seq /\ m.body = body
  OBVIOUS
<1>5. p.type = "Battle" /\ p.seq = l.msg_seq - 1 /\ p.data = l.data
  BY DEF PacketSeq
<1> HIDE DEF push, body, l, m, p
<1>6. /\ Len(pushed) \in Nat /\ Len(loop.data) \in Nat /\ loop.snd_seq \in Nat
      /\ loop.msg_seq \in Nat /\ srv.ack \in Nat /\ Len(got) \in Nat
  BY Facts
<1>7. Len(pushed') = (IF push THEN Len(pushed) + 1 ELSE Len(pushed))
  BY <1>0, <1>2, AppendProperties
<1>8. Len(l.data) = (IF push THEN Len(loop.data) + 1 ELSE Len(loop.data))
  BY <1>0, <1>3, AppendProperties
<1>9. /\ loop.msg_seq = Len(pushed) + 1 /\ loop.snd_seq >= 1 /\ loop.snd_seq - 1 <= srv.ack
      /\ loop.snd_seq - 1 + Len(loop.data) = Len(pushed)
      /\ Window(loop.data, loop.snd_seq - 1, pushed)
  BY DEF UpInv, ClientWindow
<1>10. \A msgs \in Seq(Messages) : \A k : Window(msgs, k, pushed) => Window(msgs, k, pushed')
  BY <1>0, <1>2, WindowGrow
<1>11. Window(l.data, loop.snd_seq - 1, pushed')
  <2>1. CASE push
    BY <1>0, <1>2, <1>3, <1>4, <1>9, <2>1, WindowPush
  <2>2. CASE ~push
    BY <1>2, <1>3, <1>9, <2>2
  <2> QED
    BY <2>1, <2>2
<1>12. /\ l.msg_seq = Len(pushed') + 1 /\ loop.snd_seq - 1 + Len(l.data) = Len(pushed')
       /\ l.msg_seq - 1 = Len(pushed') /\ Len(pushed') - Len(l.data) = loop.snd_seq - 1
  <2> DEFINE first == loop.snd_seq
             len   == Len(loop.data)
             last  == Len(pushed)
             len2  == Len(l.data)
             last2 == Len(pushed')
             seq   == loop.msg_seq
             seq2  == l.msg_seq
  <2>1. /\ first \in Nat /\ len \in Nat /\ last \in Nat
        /\ first - 1 + len = last /\ seq = last + 1
    BY <1>6, <1>9
  <2>2. push => seq2 = seq + 1 /\ last2 = last + 1 /\ len2 = len + 1
    BY <1>3, <1>7, <1>8
  <2>3. ~push => seq2 = seq /\ last2 = last /\ len2 = len
    BY <1>3, <1>7, <1>8
  <2> HIDE DEF first, len, last, len2, last2, seq, seq2
  <2>4. /\ seq2 = last2 + 1 /\ first - 1 + len2 = last2
        /\ seq2 - 1 = last2 /\ last2 - len2 = first - 1
    <3>1. CASE push
      BY <2>1, <2>2, <3>1
    <3>2. CASE ~push
      BY <2>1, <2>3, <3>2
    <3> QED
      BY <3>1, <3>2
  <2> QED
    BY <2>4 DEF first, len, last, len2, last2, seq, seq2
<1>13. ClientWindow'
  BY <1>1, <1>2, <1>3, <1>9, <1>11, <1>12 DEF ClientWindow
<1>14. PacketsUp'
  <2>1. SUFFICES ASSUME NEW q \in up', q.type = "Battle"
                 PROVE  /\ q.seq - Len(q.data) <= srv.ack
                        /\ q.seq <= Len(pushed') /\ Window(q.data, q.seq - Len(q.data), pushed')
    BY <1>2 DEF PacketsUp
  <2>2. CASE q \in up
    <3>1. /\ q.seq - Len(q.data) <= srv.ack /\ q.seq <= Len(pushed)
          /\ Window(q.data, q.seq - Len(q.data), pushed)
      BY <2>1, <2>2 DEF UpInv, PacketsUp
    <3>2. q.seq \in Nat /\ q.data \in Seq(Messages)
      BY <2>1, <2>2, PacketFacts
    <3>3. q.seq <= Len(pushed')
      BY <1>6, <1>7, <3>1, <3>2
    <3> QED
      BY <1>10, <3>1, <3>2, <3>3
  <2>3. CASE q = p
    <3>1. q.seq = Len(pushed') /\ q.data = l.data
      BY <1>5, <1>12, <2>3
    <3>2. q.seq - Len(q.data) = loop.snd_seq - 1
      BY <1>12, <3>1
    <3>3. q.seq <= Len(pushed')
      BY <1>6, <1>7, <3>1
    <3> QED
      BY <1>9, <1>11, <3>1, <3>2, <3>3
  <2> QED
    BY <1>2, <2>2, <2>3
<1>15. AcksDown'
  <2>1. srv.ack <= Len(pushed')
    BY <1>6, <1>7 DEF UpInv, AcksDown
  <2> QED
    BY <1>2, <2>1 DEF UpInv, AcksDown
<1>16. ServerReading'
  <2>1. PICK k \in Nat : /\ k <= Len(got) /\ Window(srv.rx, k, pushed)
                         /\ srv.ack <= Len(got) \/ srv.ack <= k + Len(srv.rx)
    BY DEF UpInv, ServerReading
  <2>2. Window(srv.rx, k, pushed')
    BY <1>10, <2>1, Facts
  <2> QED
    BY <1>2, <2>1, <2>2 DEF ServerReading
<1>17. ServerTook'
  <2>1. \A i \in 1..Len(pushed) : pushed'[i] = pushed[i]
    BY <1>0, <1>2, AppendProperties
  <2>2. Len(got) <= Len(pushed) /\ \A i \in 1..Len(got) : got[i] = pushed[i]
    BY DEF UpInv, ServerTook
  <2>3. Len(got) <= Len(pushed')
    BY <1>6, <1>7, <2>2
  <2>4. \A i \in 1..Len(got) : got[i] = pushed'[i]
    BY <1>6, <2>1, <2>2
  <2> QED
    BY <1>2, <2>3, <2>4 DEF UpInv, ServerTook
<1>18. StartClean'
  BY <1>1, <1>3 DEF StartClean
<1> QED
  BY <1>13, <1>14, <1>15, <1>16, <1>17, <1>18 DEF UpInv

\* RecvBattle drops what is acknowledged from the window.
LEMMA RecvUpInv == ASSUME TypeOK, UpInv, NEW p \in down, RecvBattle(p) PROVE UpInv'
<1> DEFINE l == ApplySeqAck(loop, p.seq, p.ack)
           k == p.ack - loop.snd_seq + 1
<1>0. p.type = "Battle" /\ loop.state = "McsInBattle"
  BY DEF RecvBattle, Handled
<1>1. p.seq \in Nat /\ p.ack \in Nat
  BY <1>0, PacketFacts
<1>2. /\ l \in LoopType /\ loop' = [l EXCEPT !.rx = p.data]
  BY <1>1, Facts, ApplyType DEF RecvBattle
<1>3. /\ l.msg_seq = loop.msg_seq /\ l.state = loop.state
      /\ loop.snd_seq <= p.ack => /\ l.snd_seq = p.ack + 1
                                  /\ l.data = SubSeq(loop.data, p.ack - loop.snd_seq + 2, Len(loop.data))
      /\ ~(loop.snd_seq <= p.ack) => l.snd_seq = loop.snd_seq /\ l.data = loop.data
  BY Facts DEF ApplySeqAck, LoopType
<1> HIDE DEF l
<1>4. /\ loop'.msg_seq = l.msg_seq /\ loop'.snd_seq = l.snd_seq /\ loop'.data = l.data
      /\ loop'.state = l.state
  BY <1>2 DEF LoopType
<1>5. /\ srv' = srv /\ up' = up /\ got' = got /\ pushed' = pushed /\ down' \subseteq down
  BY NetworkQuiet DEF RecvBattle, history
<1>6. /\ Len(pushed) \in Nat /\ Len(loop.data) \in Nat /\ loop.snd_seq \in Nat
      /\ loop.msg_seq \in Nat /\ srv.ack \in Nat /\ loop.data \in Seq(Messages)
      /\ pushed \in Seq(Bodies)
  BY Facts
<1>7. /\ loop.msg_seq = Len(pushed) + 1 /\ loop.snd_seq >= 1 /\ loop.snd_seq - 1 <= srv.ack
      /\ loop.snd_seq - 1 + Len(loop.data) = Len(pushed)
      /\ Window(loop.data, loop.snd_seq - 1, pushed)
      /\ p.ack <= srv.ack /\ srv.ack <= Len(pushed)
  BY <1>0 DEF UpInv, ClientWindow, AcksDown
<1>8. ClientWindow'
  <2>1. CASE loop.snd_seq <= p.ack
    <3>0. /\ loop.snd_seq - 1 + Len(loop.data) = Len(pushed) /\ p.ack <= Len(pushed)
          /\ Len(pushed) \in Nat /\ Len(loop.data) \in Nat /\ loop.snd_seq \in Nat /\ p.ack \in Nat
      BY <1>1, <1>6, <1>7
    <3> DEFINE first == loop.snd_seq
               len   == Len(loop.data)
               last  == Len(pushed)
               ack   == p.ack
    <3>a. /\ first \in Nat /\ len \in Nat /\ last \in Nat /\ ack \in Nat
          /\ first - 1 + len = last /\ first <= ack /\ ack <= last
      BY <2>1, <3>0
    <3>b. k = ack - first + 1
      OBVIOUS
    <3> HIDE DEF first, len, last, ack, k
    <3>c. /\ k \in 0..len /\ k + 1 = ack - first + 2
          /\ first - 1 + k = ack /\ ack + (len - k) = last
      BY <3>a, <3>b
    <3>1. /\ k \in 0..Len(loop.data) /\ k + 1 = p.ack - loop.snd_seq + 2
          /\ loop.snd_seq - 1 + k = p.ack /\ p.ack + (Len(loop.data) - k) = Len(pushed)
      BY <3>c DEF first, len, last, ack
    <3> HIDE DEF k
    <3>2. l.data = SubSeq(loop.data, k + 1, Len(loop.data))
      BY <1>3, <2>1, <3>1
    <3>3. Window(l.data, p.ack, pushed) /\ Len(l.data) = Len(loop.data) - k
      BY <1>6, <1>7, <3>1, <3>2, WindowDrop
    <3>4. p.ack + Len(l.data) = Len(pushed)
      BY <3>1, <3>3
    <3>5. l.snd_seq = p.ack + 1 /\ l.snd_seq - 1 = p.ack /\ l.snd_seq >= 1
      BY <1>1, <1>3, <2>1
    <3> QED
      BY <1>3, <1>4, <1>5, <1>7, <3>3, <3>4, <3>5 DEF ClientWindow
  <2>2. CASE ~(loop.snd_seq <= p.ack)
    BY <1>3, <1>4, <1>5, <1>7, <2>2 DEF ClientWindow
  <2> QED
    BY <2>1, <2>2
<1>9. StartClean'
  BY <1>0, <1>3, <1>4 DEF StartClean
<1>10. PacketsUp' /\ AcksDown' /\ ServerReading' /\ ServerTook'
  BY <1>5 DEF UpInv, PacketsUp, AcksDown, ServerReading, ServerTook
<1> QED
  BY <1>8, <1>9, <1>10 DEF UpInv

\* The server acknowledges a packet before it reads its messages, but it has
\* read all that it acknowledged before.
LEMMA ServerBattleUpInv == ASSUME TypeOK, UpInv, NEW p \in up, ServerBattle(p) PROVE UpInv'
<1>1. p.type = "Battle" /\ srv.rx = <<>> /\ up' \subseteq up
  BY NetworkQuiet DEF ServerBattle, ServerReads
<1>2. /\ srv'.last = srv.last /\ srv'.rx = p.data
      /\ srv'.ack = IF srv.ack < p.seq THEN p.seq ELSE srv.ack
  BY Facts DEF ServerBattle, ServerType
<1>3. loop' = loop /\ down' = down /\ pushed' = pushed /\ got' = got
  BY DEF ServerBattle, history
<1>4. /\ p.seq \in Nat /\ Len(p.data) \in Nat /\ srv.ack \in Nat /\ Len(got) \in Nat
      /\ Len(pushed) \in Nat /\ loop.snd_seq \in Nat
  BY <1>1, PacketFacts, Facts
<1>5. srv.ack <= Len(got)
  <2>1. PICK n \in Nat : /\ n <= Len(got)
                         /\ srv.ack <= Len(got) \/ srv.ack <= n + Len(srv.rx)
    BY DEF UpInv, ServerReading
  <2>2. Len(srv.rx) = 0
    BY <1>1
  <2> QED
    BY <1>4, <2>1, <2>2
<1>6. /\ p.seq - Len(p.data) <= srv.ack /\ p.seq <= Len(pushed)
      /\ Window(p.data, p.seq - Len(p.data), pushed)
  BY <1>1 DEF UpInv, PacketsUp
<1>7. srv'.ack >= srv.ack /\ srv'.ack \in Nat
  BY <1>2, <1>4
<1>8. ServerReading'
  <2> DEFINE n == p.seq - Len(p.data)
  <2>1. n \in Nat /\ n <= Len(got)
    BY <1>4, <1>5, <1>6 DEF Window
  <2>2. srv'.ack <= Len(got) \/ srv'.ack <= n + Len(p.data)
    BY <1>2, <1>4, <1>5
  <2> QED
    BY <1>2, <1>3, <1>6, <2>1, <2>2 DEF ServerReading
<1>9. ClientWindow'
  BY <1>3, <1>4, <1>7 DEF UpInv, ClientWindow
<1>10. PacketsUp'
  <2>1. SUFFICES ASSUME NEW q \in up', q.type = "Battle"
                 PROVE  /\ q.seq - Len(q.data) <= srv'.ack
                        /\ q.seq <= Len(pushed) /\ Window(q.data, q.seq - Len(q.data), pushed)
    BY <1>3 DEF PacketsUp
  <2>2. q.seq \in Nat /\ Len(q.data) \in Nat
    BY <1>1, <2>1, PacketFacts
  <2>3. /\ q.seq - Len(q.data) <= srv.ack /\ q.seq <= Len(pushed)
        /\ Window(q.data, q.seq - Len(q.data), pushed)
    BY <1>1, <2>1 DEF UpInv, PacketsUp
  <2>4. q.seq - Len(q.data) <= srv'.ack
    BY <1>4, <1>7, <2>2, <2>3
  <2> QED
    BY <2>3, <2>4
<1>11. AcksDown'
  <2>1. srv'.ack <= Len(pushed)
    BY <1>2, <1>6 DEF UpInv, AcksDown
  <2>2. ASSUME NEW q \in down, q.type = "Battle" PROVE q.ack <= srv'.ack
    <3>1. q.ack \in Nat /\ q.ack <= srv.ack
      BY <2>2, PacketFacts DEF UpInv, AcksDown
    <3> QED
      BY <1>4, <1>7, <3>1
  <2> QED
    BY <1>3, <2>1, <2>2 DEF AcksDown
<1>12. StartClean' /\ ServerTook'
  BY <1>2, <1>3 DEF UpInv, StartClean, ServerTook
<1> QED
  BY <1>8, <1>9, <1>10, <1>11, <1>12 DEF UpInv

\* What the filter of the server does with the next message of a packet: a
\* message it has is rejected, and no message can be ahead of the next one.
LEMMA ServerFilter ==
    ASSUME TypeOK, UpInv, ServerRead
    PROVE  /\ UpInv'
           /\ got' # got => Len(got) < Len(pushed) /\ got' = Append(got, pushed[Len(got) + 1])
<1> DEFINE m    == Head(srv.rx)
           next == IsNextMessage(srv.last, m.seq)
<1>1. /\ srv'.last = (IF next THEN m.seq ELSE srv.last) /\ srv'.rx = Tail(srv.rx)
      /\ srv'.ack = srv.ack /\ got' = (IF next THEN Append(got, m.body) ELSE got)
  BY Facts DEF ServerRead, ServerType
<1>2. loop' = loop /\ down' = down /\ up' = up /\ pushed' = pushed
  BY DEF ServerRead, net
<1>3. /\ srv.rx \in Seq(Messages) /\ srv.rx # <<>> /\ pushed \in Seq(Bodies)
      /\ got \in Seq(Bodies) /\ Len(got) \in Nat /\ Len(pushed) \in Nat /\ Len(srv.rx) \in Nat
      /\ srv.ack \in Nat
  BY Facts DEF ServerRead
<1>4. PICK n \in Nat : /\ n <= Len(got) /\ Window(srv.rx, n, pushed)
                       /\ srv.ack <= Len(got) \/ srv.ack <= n + Len(srv.rx)
  BY DEF UpInv, ServerReading
<1>5. /\ Window(Tail(srv.rx), n + 1, pushed) /\ Len(Tail(srv.rx)) = Len(srv.rx) - 1
      /\ Len(srv.rx) >= 1 /\ m.seq = n + 1 /\ m.body = pushed[n + 1]
  BY <1>3, <1>4, WindowTail
<1>6. n + Len(srv.rx) <= Len(pushed)
  BY <1>4 DEF Window
<1>7. /\ srv.last = Len(got) /\ Len(got) <= Len(pushed)
      /\ \A i \in 1..Len(got) : got[i] = pushed[i]
  BY DEF UpInv, ServerTook
<1> HIDE DEF m
<1>8. next <=> n = Len(got)
  BY <1>3, <1>4, <1>5, <1>7 DEF IsNextMessage
<1> HIDE DEF next
<1>9. next => Len(got) < Len(pushed) /\ got' = Append(got, pushed[Len(got) + 1])
  BY <1>1, <1>3, <1>5, <1>6, <1>8
<1>10. pushed[n + 1] \in Bodies
  <2>1. n + 1 \in 1..Len(pushed)
    BY <1>3, <1>5, <1>6
  <2> QED
    BY <1>3, <2>1, ElementOfSeq
<1>11. /\ Len(got') = (IF next THEN Len(got) + 1 ELSE Len(got))
       /\ \A i \in 1..Len(got) : got'[i] = got[i]
       /\ next => got'[Len(got) + 1] = pushed[Len(got) + 1]
  BY <1>3, <1>8, <1>9, <1>10, <1>1, AppendProperties
<1>12. srv'.last = Len(got') /\ Len(got') <= Len(pushed)
  BY <1>1, <1>3, <1>5, <1>7, <1>8, <1>9, <1>11
<1>13. ServerTook'
  <2>1. ASSUME NEW i \in 1..Len(got') PROVE got'[i] = pushed[i]
    <3>1. CASE i \in 1..Len(got)
      BY <1>7, <1>11, <3>1
    <3>2. CASE i \notin 1..Len(got)
      <4>1. next /\ i = Len(got) + 1
        BY <1>3, <1>11, <3>2
      <4> QED
        BY <1>11, <4>1
    <3> QED
      BY <3>1, <3>2
  <2> QED
    BY <1>2, <1>12, <2>1 DEF ServerTook
<1>14. ServerReading'
  <2>1. n + 1 \in Nat /\ n + 1 <= Len(got')
    BY <1>3, <1>4, <1>8, <1>11
  <2>2. srv.ack <= Len(got') \/ srv.ack <= n + 1 + Len(Tail(srv.rx))
    <3>1. CASE srv.ack <= Len(got)
      <4>1. srv.ack <= Len(got')
        BY <1>3, <1>11, <3>1
      <4> QED
        BY <4>1
    <3>2. CASE srv.ack <= n + Len(srv.rx)
      <4>1. \A a, b \in Nat : a + b = a + 1 + (b - 1)
        OBVIOUS
      <4>2. n + Len(srv.rx) = n + 1 + Len(Tail(srv.rx))
        BY <1>3, <1>5, <4>1
      <4> QED
        BY <3>2, <4>2
    <3> QED
      BY <1>4, <3>1, <3>2
  <2> QED
    BY <1>1, <1>2, <1>5, <2>1, <2>2 DEF ServerReading
<1>15. StartClean' /\ ClientWindow' /\ PacketsUp' /\ AcksDown'
  BY <1>1, <1>2 DEF UpInv, StartClean, ClientWindow, PacketsUp, AcksDown
<1> QED
  BY <1>1, <1>9, <1>13, <1>14, <1>15 DEF UpInv

\* A packet of the server acknowledges what it has received.
LEMMA ServerSendUpInv == ASSUME TypeOK, UpInv, ServerSend PROVE UpInv'
<1> DEFINE p == [type |-> "Battle", seq |-> Len(srv.feed), ack |-> srv.ack,
                 data |-> SubSeq(srv.feed, srv.acked + 1, Len(srv.feed))]
<1>1. down' \subseteq down \union {p} /\ p.ack = srv.ack /\ p.type = "Battle"
  BY DEF ServerSend, SendDown
<1>2. loop' = loop /\ srv' = srv /\ up' = up /\ pushed' = pushed /\ got' = got
  BY DEF ServerSend, history
<1> HIDE DEF p
<1>3. AcksDown'
  <2>1. srv.ack \in Nat
    BY Facts
  <2> QED
    BY <1>1, <1>2, <2>1 DEF UpInv, AcksDown
<1> QED
  BY <1>2, <1>3 DEF UpInv, StartClean, ClientWindow, PacketsUp, ServerReading, ServerTook

-----------------------------------------------------------------------------
(***************************************************************************)
(* The steps of the downward direction.                                   *)
(***************************************************************************)
LEMMA FedGrow ==
    ASSUME NEW msgs \in Seq(Relayed), NEW n, NEW feed \in Seq(Relayed), NEW r \in Relayed,
           Fed(msgs, n, feed)
    PROVE  Fed(msgs, n, Append(feed, r))
<1>1. /\ Len(Append(feed, r)) = Len(feed) + 1
      /\ \A i \in 1..Len(feed) : Append(feed, r)[i] = feed[i]
  BY AppendProperties
<1>2. Len(msgs) \in Nat /\ Len(feed) \in Nat
  BY LenProperties
<1> QED
  BY <1>1, <1>2 DEF Fed

\* The messages of the feed after place k.
LEMMA FedRest ==
    ASSUME NEW feed \in Seq(Relayed), NEW k \in 0..Len(feed)
    PROVE  LET rest == SubSeq(feed, k + 1, Len(feed)) IN
           Fed(rest, k, feed) /\ Len(rest) = Len(feed) - k
<1> DEFINE rest == SubSeq(feed, k + 1, Len(feed))
<1>1. Len(feed) \in Nat /\ k \in Nat
  BY LenProperties
<1>2. \A i \in (k + 1)..Len(feed) : feed[i] \in Relayed
  BY <1>1, ElementOfSeq
<1>3. /\ Len(rest) = Len(feed) - k
      /\ \A i \in 1..Len(rest) : rest[i] = feed[k + i]
  BY <1>1, <1>2, SubSeqProperties
<1> HIDE DEF rest
<1>4. Fed(rest, k, feed)
  BY <1>1, <1>3 DEF Fed
<1> QED
  BY <1>3, <1>4 DEF rest

\* What is left of a packet without its first message, and what that is.
LEMMA FedTail ==
    ASSUME NEW msgs \in Seq(Relayed), NEW n, NEW feed \in Seq(Relayed), msgs # <<>>,
           Fed(msgs, n, feed)
    PROVE  /\ Fed(Tail(msgs), n + 1, feed) /\ Len(Tail(msgs)) = Len(msgs) - 1
           /\ Len(msgs) >= 1 /\ Head(msgs) = feed[n + 1]
<1>1. Len(msgs) \in Nat /\ Len(feed) \in Nat /\ n \in Nat
  BY LenProperties DEF Fed
<1>2. /\ Len(msgs) # 0 /\ Head(msgs) = msgs[1] /\ Len(Tail(msgs)) = Len(msgs) - 1
      /\ \A i \in 1..Len(Tail(msgs)) : Tail(msgs)[i] = msgs[i + 1]
  BY HeadTailProperties, EmptySeq
<1> QED
  BY <1>1, <1>2 DEF Fed

\* Send acknowledges what the client has received.
LEMMA SendDownInv == ASSUME TypeOK, DownInv, NEW n \in 0..Len(send_buf), Send(n) PROVE DownInv'
<1> DEFINE body == SubSeq(send_buf, 1, n)
           l    == IF n > 0 THEN PushBattleMessage(loop, body) ELSE loop
           p    == [type |-> "Battle", sid |-> conn, seq |-> PacketSeq(l), ack |-> l.ack,
                    data |-> l.data]
<1>0. body \in Bodies
  BY BodyType
<1>1. loop'.ack = loop.ack /\ loop'.recv_seq = loop.recv_seq /\ loop'.rx = loop.rx /\ l.ack = loop.ack
  <2>1. l \in LoopType
    BY <1>0, Facts, PushType
  <2>2. \/ loop' = [l EXCEPT !.pc = "recv", !.countdown = Retransmit]
        \/ loop' = [l EXCEPT !.pc = "recv", !.countdown = Counted]
    BY DEF Send
  <2>3. l.ack = loop.ack /\ l.recv_seq = loop.recv_seq /\ l.rx = loop.rx
    BY Facts DEF PushBattleMessage, LoopType
  <2> HIDE DEF l
  <2> QED
    BY <2>1, <2>2, <2>3 DEF LoopType
<1>2. /\ srv' = srv /\ heard' = heard /\ down' = down /\ up' \subseteq up \union {p}
  BY DEF Send, SendUp
<1>3. p.ack = loop.ack
  BY <1>1
<1> HIDE DEF p, l
<1>4. AcksUp'
  <2>1. loop.ack \in Nat
    BY Facts
  <2> QED
    BY <1>1, <1>2, <1>3, <2>1 DEF DownInv, AcksUp
<1> QED
  BY <1>1, <1>2, <1>4 DEF DownInv, PacketsDown, ClientReading, ClientHeard, FeedNumbers, Filter

\* The client acknowledges a packet before it reads its messages, too.
LEMMA RecvDownInv == ASSUME TypeOK, DownInv, NEW p \in down, RecvBattle(p) PROVE DownInv'
<1> DEFINE l == ApplySeqAck(loop, p.seq, p.ack)
<1>0. p.type = "Battle" /\ loop.rx = <<>>
  BY DEF RecvBattle, At
<1>1. /\ p.seq \in Nat /\ p.ack \in Nat /\ Len(p.data) \in Nat /\ p.data \in Seq(Relayed)
      /\ loop.ack \in Nat /\ Len(heard) \in Nat /\ Len(srv.feed) \in Nat /\ srv.acked \in Nat
  BY <1>0, PacketFacts, Facts
<1>2. l \in LoopType /\ loop' = [l EXCEPT !.rx = p.data]
  BY <1>1, Facts, ApplyType DEF RecvBattle
<1>3. l.ack = (IF loop.ack < p.seq THEN p.seq ELSE loop.ack) /\ l.recv_seq = loop.recv_seq
  BY Facts DEF ApplySeqAck, LoopType
<1> HIDE DEF l
<1>4. loop'.ack = l.ack /\ loop'.recv_seq = l.recv_seq /\ loop'.rx = p.data
  BY <1>2 DEF LoopType
<1>5. srv' = srv /\ up' = up /\ heard' = heard /\ down' \subseteq down
  BY NetworkQuiet DEF RecvBattle, history
<1>6. loop.ack <= Len(heard)
  <2>1. PICK n \in Nat : /\ n <= Len(heard)
                         /\ loop.ack <= Len(heard) \/ loop.ack <= n + Len(loop.rx)
    BY DEF DownInv, ClientReading
  <2>2. Len(loop.rx) = 0
    BY <1>0
  <2> QED
    BY <1>1, <2>1, <2>2
<1>7. /\ p.seq - Len(p.data) <= loop.ack /\ p.seq <= Len(srv.feed)
      /\ Fed(p.data, p.seq - Len(p.data), srv.feed)
  BY <1>0 DEF DownInv, PacketsDown
<1>8. loop'.ack >= loop.ack /\ loop'.ack \in Nat
  BY <1>1, <1>3, <1>4
<1>9. ClientReading'
  <2> DEFINE n == p.seq - Len(p.data)
  <2>1. n \in Nat /\ n <= Len(heard)
    BY <1>1, <1>6, <1>7 DEF Fed
  <2>2. loop'.ack <= Len(heard) \/ loop'.ack <= n + Len(p.data)
    BY <1>1, <1>3, <1>4, <1>6
  <2> QED
    BY <1>4, <1>5, <1>7, <2>1, <2>2 DEF ClientReading
<1>10. PacketsDown'
  <2>1. SUFFICES ASSUME NEW q \in down', q.type = "Battle"
                 PROVE  /\ q.seq - Len(q.data) <= loop'.ack
                        /\ q.seq <= Len(srv.feed) /\ Fed(q.data, q.seq - Len(q.data), srv.feed)
    BY <1>5 DEF PacketsDown
  <2>2. q.seq \in Nat /\ Len(q.data) \in Nat
    BY <1>5, <2>1, PacketFacts
  <2>3. /\ q.seq - Len(q.data) <= loop.ack /\ q.seq <= Len(srv.feed)
        /\ Fed(q.data, q.seq - Len(q.data), srv.feed)
    BY <1>5, <2>1 DEF DownInv, PacketsDown
  <2>4. q.seq - Len(q.data) <= loop'.ack
    BY <1>1, <1>8, <2>2, <2>3
  <2> QED
    BY <2>3, <2>4
<1>11. AcksUp'
  <2>1. loop'.ack <= Len(srv.feed)
    BY <1>3, <1>4, <1>7 DEF DownInv, AcksUp
  <2>2. srv.acked <= loop'.ack
    BY <1>1, <1>8 DEF DownInv, AcksUp
  <2>3. ASSUME NEW q \in up, q.type = "Battle" PROVE q.ack <= loop'.ack
    <3>1. q.ack \in Nat /\ q.ack <= loop.ack
      BY <2>3, PacketFacts DEF DownInv, AcksUp
    <3> QED
      BY <1>1, <1>8, <3>1
  <2> QED
    BY <1>5, <2>1, <2>2, <2>3 DEF AcksUp
<1>12. ClientHeard' /\ FeedNumbers' /\ Filter'
  BY <1>3, <1>4, <1>5 DEF DownInv, ClientHeard, FeedNumbers, Filter
<1> QED
  BY <1>9, <1>10, <1>11, <1>12 DEF DownInv

\* The server drops only what the client has acknowledged.
LEMMA ServerBattleDownInv == ASSUME TypeOK, DownInv, NEW p \in up, ServerBattle(p) PROVE DownInv'
<1>1. p.type = "Battle" /\ up' \subseteq up
  BY NetworkQuiet DEF ServerBattle, ServerReads
<1>2. srv'.feed = srv.feed /\ srv'.acked = IF srv.acked < p.ack THEN p.ack ELSE srv.acked
  BY Facts DEF ServerBattle, ServerType
<1>3. loop' = loop /\ down' = down /\ heard' = heard
  BY DEF ServerBattle, history
<1>4. AcksUp'
  BY <1>1, <1>2, <1>3 DEF DownInv, AcksUp
<1> QED
  BY <1>2, <1>3, <1>4 DEF DownInv, PacketsDown, ClientReading, ClientHeard, FeedNumbers, Filter

\* A packet of the server holds what the client has not acknowledged.
LEMMA ServerSendDownInv == ASSUME TypeOK, DownInv, ServerSend PROVE DownInv'
<1> DEFINE p == [type |-> "Battle", seq |-> Len(srv.feed), ack |-> srv.ack,
                 data |-> SubSeq(srv.feed, srv.acked + 1, Len(srv.feed))]
<1>1. /\ down' \subseteq down \union {p} /\ p.seq = Len(srv.feed)
      /\ p.data = SubSeq(srv.feed, srv.acked + 1, Len(srv.feed))
  BY DEF ServerSend, SendDown
<1>2. loop' = loop /\ srv' = srv /\ up' = up /\ heard' = heard
  BY DEF ServerSend, history
<1> HIDE DEF p
<1>3. /\ srv.feed \in Seq(Relayed) /\ Len(srv.feed) \in Nat /\ srv.acked \in Nat
      /\ loop.ack \in Nat
  BY Facts
<1>4. srv.acked <= loop.ack /\ loop.ack <= Len(srv.feed)
  BY DEF DownInv, AcksUp
<1>5. Fed(p.data, srv.acked, srv.feed) /\ Len(p.data) = Len(srv.feed) - srv.acked
  <2>1. srv.acked \in 0..Len(srv.feed)
    BY <1>3, <1>4
  <2> QED
    BY <1>1, <1>3, <2>1, FedRest
<1>6. p.seq - Len(p.data) = srv.acked
  BY <1>1, <1>3, <1>5
<1>7. PacketsDown'
  <2>1. SUFFICES ASSUME NEW q \in down', q.type = "Battle"
                 PROVE  /\ q.seq - Len(q.data) <= loop.ack
                        /\ q.seq <= Len(srv.feed) /\ Fed(q.data, q.seq - Len(q.data), srv.feed)
    BY <1>2 DEF PacketsDown
  <2>2. CASE q \in down
    BY <2>1, <2>2 DEF DownInv, PacketsDown
  <2>3. CASE q = p
    <3>1. Len(srv.feed) <= Len(srv.feed)
      BY <1>3
    <3> QED
      BY <1>1, <1>4, <1>5, <1>6, <2>3, <3>1
  <2> QED
    BY <1>1, <2>2, <2>3
<1> QED
  BY <1>2, <1>7 DEF DownInv, AcksUp, ClientReading, ClientHeard, FeedNumbers, Filter

\* The feed grows by the next number of a sender.
LEMMA RelayDownInv ==
    ASSUME TypeOK, DownInv, NEW u \in Users, NEW n \in 1..MaxTraffic, ServerRelay(u, n)
    PROVE  DownInv'
<1> DEFINE r    == [user |-> u, seq |-> n]
           feed == srv.feed
<1>1. r \in Relayed /\ r.user = u /\ r.seq = n /\ n \in Nat /\ n >= 1
  BY UdpAssumption DEF Relayed
<1>2. srv'.feed = Append(feed, r) /\ srv'.acked = srv.acked
  BY Facts DEF ServerRelay, ServerType
<1>3. loop' = loop /\ up' = up /\ down' = down /\ heard' = heard
  BY DEF ServerRelay, net, history
<1>4. /\ feed \in Seq(Relayed) /\ Len(feed) \in Nat /\ loop.ack \in Nat /\ Len(heard) \in Nat
      /\ loop.rx \in Seq(Relayed)
  BY Facts
<1>5. /\ \A i \in 1..Len(feed) : feed[i].user = u => feed[i].seq < n
      /\ n = 1 \/ \E i \in 1..Len(feed) : feed[i] = [user |-> u, seq |-> n - 1]
  BY DEF ServerRelay
<1> DEFINE feed2 == Append(feed, r)
<1>6. /\ Len(feed2) = Len(feed) + 1 /\ \A i \in 1..Len(feed) : feed2[i] = feed[i]
      /\ feed2[Len(feed) + 1] = r
  BY <1>1, <1>4, AppendProperties
<1>7. \A msgs \in Seq(Relayed) : \A k : Fed(msgs, k, feed) => Fed(msgs, k, feed2)
  BY <1>1, <1>4, FedGrow
<1> HIDE DEF feed2, r, feed
<1>8. FeedNumbers'
  <2>1. SUFFICES ASSUME NEW k \in 1..(Len(feed) + 1)
                 PROVE  /\ feed2[k].seq >= 1
                        /\ \A j \in 1..(k - 1) : feed2[j].user = feed2[k].user => feed2[j].seq < feed2[k].seq
                        /\ \/ feed2[k].seq = 1
                           \/ \E j \in 1..(k - 1) : /\ feed2[j].user = feed2[k].user
                                                    /\ feed2[j].seq = feed2[k].seq - 1
    BY <1>2, <1>6 DEF FeedNumbers, feed2
  <2>2. CASE k \in 1..Len(feed)
    <3>1. \A j \in 1..(k - 1) : j \in 1..Len(feed)
      BY <1>4, <2>2
    <3>2. /\ feed[k].seq >= 1
          /\ \A j \in 1..(k - 1) : feed[j].user = feed[k].user => feed[j].seq < feed[k].seq
          /\ \/ feed[k].seq = 1
             \/ \E j \in 1..(k - 1) : /\ feed[j].user = feed[k].user
                                      /\ feed[j].seq = feed[k].seq - 1
      BY <2>2 DEF DownInv, FeedNumbers, feed
    <3>3. feed2[k] = feed[k] /\ \A j \in 1..(k - 1) : feed2[j] = feed[j]
      BY <1>6, <2>2, <3>1
    <3> QED
      BY <3>2, <3>3
  <2>3. CASE k = Len(feed) + 1
    <3>1. feed2[k] = r /\ k - 1 = Len(feed)
      BY <1>4, <1>6, <2>3
    <3>2. \A j \in 1..Len(feed) : feed2[j] = feed[j]
      BY <1>6
    <3>3. \A j \in 1..Len(feed) : feed[j].user = u => feed[j].seq < n
      BY <1>5
    <3>4. n = 1 \/ \E j \in 1..Len(feed) : feed[j].user = u /\ feed[j].seq = n - 1
      BY <1>5
    <3> QED
      BY <1>1, <3>1, <3>2, <3>3, <3>4
  <2> QED
    BY <1>4, <2>2, <2>3
<1>9. PacketsDown'
  <2>1. SUFFICES ASSUME NEW q \in down, q.type = "Battle"
                 PROVE  /\ q.seq - Len(q.data) <= loop.ack
                        /\ q.seq <= Len(feed2) /\ Fed(q.data, q.seq - Len(q.data), feed2)
    BY <1>2, <1>3 DEF PacketsDown, feed2
  <2>2. /\ q.seq - Len(q.data) <= loop.ack
        /\ q.seq <= Len(feed) /\ Fed(q.data, q.seq - Len(q.data), feed)
    BY <2>1 DEF DownInv, PacketsDown, feed
  <2>3. q.seq \in Nat /\ q.data \in Seq(Relayed)
    BY <2>1, PacketFacts
  <2>4. q.seq <= Len(feed2)
    BY <1>4, <1>6, <2>2, <2>3
  <2> QED
    BY <1>7, <2>2, <2>3, <2>4
<1>10. AcksUp'
  <2>1. loop.ack <= Len(feed)
    BY DEF DownInv, AcksUp, feed
  <2>2. loop.ack <= Len(feed2)
    BY <1>4, <1>6, <2>1
  <2> QED
    BY <1>2, <1>3, <2>2 DEF DownInv, AcksUp, feed2
<1>11. ClientReading'
  BY <1>2, <1>3, <1>4, <1>7 DEF DownInv, ClientReading, feed, feed2
<1>12. ClientHeard'
  <2>1. Len(heard) <= Len(feed) /\ \A i \in 1..Len(heard) : heard[i] = feed[i]
    BY DEF DownInv, ClientHeard, feed
  <2>2. Len(heard) <= Len(feed2) /\ \A i \in 1..Len(heard) : i \in 1..Len(feed)
    BY <1>4, <1>6, <2>1
  <2> QED
    BY <1>2, <1>3, <1>6, <2>1, <2>2 DEF ClientHeard, feed2
<1>13. Filter'
  BY <1>3 DEF DownInv, Filter
<1> QED
  BY <1>8, <1>9, <1>10, <1>11, <1>12, <1>13 DEF DownInv

\* What the filter of the client does with the next message of a packet.  The
\* message at place n of the feed has been heard already, and its number is not
\* above the last one of its sender, or it is the first one not heard, and its
\* number is the next one of its sender.
LEMMA ClientFilter ==
    ASSUME TypeOK, DownInv, NEW n \in Nat, n <= Len(heard), n < Len(srv.feed)
    PROVE  LET m == srv.feed[n + 1] IN
           /\ IsNextMessage(loop.recv_seq[m.user], m.seq) <=> n = Len(heard)
           /\ n = Len(heard) => loop.recv_seq[m.user] <= m.seq
<1> DEFINE m == srv.feed[n + 1]
           u == m.user
           last == loop.recv_seq[u]
           h == Len(heard)
<1>1. /\ srv.feed \in Seq(Relayed) /\ Len(srv.feed) \in Nat /\ h \in Nat
      /\ loop.recv_seq \in [Users -> Nat]
  BY Facts
<1>2. n + 1 \in 1..Len(srv.feed)
  BY <1>1
<1>3. m \in Relayed
  BY <1>1, <1>2, ElementOfSeq
<1>4. u \in Users /\ m.seq \in Nat /\ last \in Nat
  BY <1>1, <1>3 DEF Relayed
<1>5. /\ m.seq >= 1
      /\ \A j \in 1..n : srv.feed[j].user = u => srv.feed[j].seq < m.seq
      /\ \/ m.seq = 1
         \/ \E j \in 1..n : srv.feed[j].user = u /\ srv.feed[j].seq = m.seq - 1
  <2>1. (n + 1) - 1 = n
    OBVIOUS
  <2> QED
    BY <1>2, <2>1 DEF DownInv, FeedNumbers
<1>6. \A i \in 1..h : heard[i] = srv.feed[i]
  BY DEF DownInv, ClientHeard
<1>7. /\ \A i \in 1..h : heard[i].user = u => heard[i].seq <= last
      /\ last # 0 => \E i \in 1..h : heard[i].user = u /\ heard[i].seq = last
  BY <1>4 DEF DownInv, Filter
<1> HIDE DEF m, u, last, h
<1>8. ASSUME n = h PROVE IsNextMessage(last, m.seq) /\ last <= m.seq
  <2>1. CASE last = 0
    BY <1>4, <1>8, <2>1 DEF IsNextMessage
  <2>2. CASE last # 0
    <3>1. last < m.seq
      <4>1. PICK i \in 1..h : heard[i].user = u /\ heard[i].seq = last
        BY <1>7, <2>2
      <4>2. srv.feed[i].user = u /\ srv.feed[i].seq = last
        BY <1>6, <4>1
      <4> QED
        BY <1>5, <1>8, <4>2
    <3>2. m.seq - 1 <= last
      <4>1. PICK j \in 1..n : srv.feed[j].user = u /\ srv.feed[j].seq = m.seq - 1
        BY <1>4, <1>5, <2>2, <3>1
      <4>2. heard[j].user = u /\ heard[j].seq = m.seq - 1
        BY <1>6, <1>8, <4>1
      <4> QED
        BY <1>7, <1>8, <4>2
    <3>3. m.seq = last + 1
      BY <1>4, <3>1, <3>2
    <3> QED
      BY <1>4, <1>8, <3>3 DEF IsNextMessage
  <2>3. QED
    BY <2>1, <2>2
<1>9. ASSUME n # h PROVE ~IsNextMessage(last, m.seq)
  <2>1. n + 1 \in 1..h
    BY <1>1, <1>9 DEF h
  <2>2. heard[n + 1] = m
    BY <1>6, <2>1 DEF m
  <2>3. m.seq <= last
    BY <1>7, <2>1, <2>2 DEF u
  <2>4. last # 0 /\ m.seq # last + 1
    BY <1>4, <1>5, <2>3
  <2> QED
    BY <1>9, <2>4 DEF IsNextMessage
<1> QED
  BY <1>8, <1>9 DEF m, u, last, h

\* The filter takes a message if and only if it is the next of the feed.
LEMMA ReadDownInv ==
    ASSUME TypeOK, DownInv, ReadMessage
    PROVE  /\ DownInv'
           /\ heard' # heard => /\ Len(heard) < Len(srv.feed)
                                /\ heard' = Append(heard, srv.feed[Len(heard) + 1])
<1> DEFINE m    == Head(loop.rx)
           next == IsNextMessage(loop.recv_seq[m.user], m.seq)
           h    == Len(heard)
<1>1. /\ loop.rx \in Seq(Relayed) /\ loop.rx # <<>> /\ heard \in Seq(Relayed)
      /\ srv.feed \in Seq(Relayed) /\ Len(srv.feed) \in Nat /\ h \in Nat /\ Len(loop.rx) \in Nat
      /\ loop.ack \in Nat /\ loop.recv_seq \in [Users -> Nat]
  BY Facts DEF ReadMessage
<1>2. m \in Relayed
  BY <1>1, HeadTailProperties
<1>3. m.user \in Users /\ m.seq \in Nat
  BY <1>2 DEF Relayed
<1>4. /\ loop'.rx = Tail(loop.rx) /\ loop'.ack = loop.ack
      /\ loop'.recv_seq = [loop.recv_seq EXCEPT ![m.user] = IF next THEN m.seq ELSE @]
      /\ heard' = IF next THEN Append(heard, m) ELSE heard
  BY <1>1, <1>3, Facts DEF ReadMessage, LoopType
<1>5. srv' = srv /\ up' = up /\ down' = down
  BY DEF ReadMessage, net
<1>6. PICK n \in Nat : /\ n <= h /\ Fed(loop.rx, n, srv.feed)
                       /\ loop.ack <= h \/ loop.ack <= n + Len(loop.rx)
  BY DEF DownInv, ClientReading
<1>7. /\ Fed(Tail(loop.rx), n + 1, srv.feed) /\ Len(Tail(loop.rx)) = Len(loop.rx) - 1
      /\ Len(loop.rx) >= 1 /\ m = srv.feed[n + 1]
  BY <1>1, <1>6, FedTail
<1>8. n + Len(loop.rx) <= Len(srv.feed)
  BY <1>6 DEF Fed
<1>9. n < Len(srv.feed)
  BY <1>1, <1>7, <1>8
<1>10. (next <=> n = h) /\ (next => loop.recv_seq[m.user] <= m.seq)
  BY <1>6, <1>7, <1>9, ClientFilter
<1> HIDE DEF m, next
<1>11. next => h < Len(srv.feed) /\ heard' = Append(heard, srv.feed[h + 1])
  BY <1>4, <1>7, <1>9, <1>10
<1>12. /\ Len(heard') = (IF next THEN h + 1 ELSE h)
       /\ \A i \in 1..h : heard'[i] = heard[i]
       /\ next => heard'[h + 1] = m
  BY <1>1, <1>2, <1>4, AppendProperties
<1> HIDE DEF h
<1>13. ClientHeard'
  <2>1. h <= Len(srv.feed) /\ \A i \in 1..h : heard[i] = srv.feed[i]
    BY DEF DownInv, ClientHeard, h
  <2>2. Len(heard') <= Len(srv.feed)
    BY <1>1, <1>11, <1>12, <2>1 DEF h
  <2>3. ASSUME NEW i \in 1..Len(heard') PROVE heard'[i] = srv.feed[i]
    <3>1. CASE i \in 1..h
      BY <1>12, <2>1, <3>1
    <3>2. CASE i \notin 1..h
      <4>1. next /\ i = h + 1
        BY <1>1, <1>12, <3>2 DEF h
      <4> QED
        BY <1>7, <1>10, <1>12, <4>1
    <3> QED
      BY <3>1, <3>2
  <2> QED
    BY <1>5, <2>2, <2>3 DEF ClientHeard
<1>14. ClientReading'
  <2>1. n + 1 \in Nat /\ n + 1 <= Len(heard')
    BY <1>1, <1>6, <1>10, <1>12 DEF h
  <2>2. loop.ack <= Len(heard') \/ loop.ack <= n + 1 + Len(Tail(loop.rx))
    <3>1. CASE loop.ack <= h
      <4>1. loop.ack <= Len(heard')
        BY <1>1, <1>12, <3>1 DEF h
      <4> QED
        BY <4>1
    <3>2. CASE loop.ack <= n + Len(loop.rx)
      <4>1. \A a, b \in Nat : a + b = a + 1 + (b - 1)
        OBVIOUS
      <4>2. n + Len(loop.rx) = n + 1 + Len(Tail(loop.rx))
        BY <1>1, <1>7, <4>1
      <4> QED
        BY <3>2, <4>2
    <3> QED
      BY <1>6, <3>1, <3>2
  <2> QED
    BY <1>4, <1>5, <1>7, <2>1, <2>2 DEF ClientReading
<1>15. Filter'
  <2>1. SUFFICES ASSUME NEW u \in Users
        PROVE  /\ \A i \in 1..Len(heard') : heard'[i].user = u => heard'[i].seq <= loop'.recv_seq[u]
               /\ loop'.recv_seq[u] # 0 =>
                     \E i \in 1..Len(heard') : heard'[i].user = u /\ heard'[i].seq = loop'.recv_seq[u]
    BY DEF Filter
  <2>2. /\ \A i \in 1..h : heard[i].user = u => heard[i].seq <= loop.recv_seq[u]
        /\ loop.recv_seq[u] # 0 =>
              \E i \in 1..h : heard[i].user = u /\ heard[i].seq = loop.recv_seq[u]
    BY <2>1 DEF DownInv, Filter, h
  <2>3. CASE ~next
    <3>1. loop'.recv_seq[u] = loop.recv_seq[u] /\ heard' = heard
      BY <1>1, <1>3, <1>4, <2>3
    <3> QED
      BY <2>2, <3>1 DEF h
  <2>4. CASE next /\ u # m.user
    <3>1. loop'.recv_seq[u] = loop.recv_seq[u]
      BY <1>1, <1>3, <1>4, <2>4
    <3>2. Len(heard') = h + 1 /\ heard'[h + 1] = m /\ h \in Nat
      BY <1>1, <1>12, <2>4 DEF h
    <3>3. ASSUME NEW i \in 1..Len(heard'), heard'[i].user = u
          PROVE  i \in 1..h /\ heard'[i] = heard[i]
      BY <1>12, <2>4, <3>2, <3>3
    <3>4. \A i \in 1..h : i \in 1..Len(heard') /\ heard'[i] = heard[i]
      BY <1>12, <3>2
    <3> QED
      BY <2>2, <3>1, <3>3, <3>4
  <2>5. CASE next /\ u = m.user
    <3>1. loop'.recv_seq[u] = m.seq /\ loop.recv_seq[u] <= m.seq /\ loop.recv_seq[u] \in Nat
      BY <1>1, <1>3, <1>4, <1>10, <2>5
    <3>2. /\ Len(heard') = h + 1 /\ heard'[h + 1] = m /\ h \in Nat
          /\ h + 1 \in 1..Len(heard')
      BY <1>1, <1>12, <2>5 DEF h
    <3>3. ASSUME NEW i \in 1..Len(heard'), heard'[i].user = u
          PROVE  heard'[i].seq <= m.seq
      <4>1. CASE i = h + 1
        BY <1>3, <3>2, <4>1
      <4>2. CASE i # h + 1
        <5>1. i \in 1..h /\ heard'[i] = heard[i]
          BY <1>12, <3>2, <4>2
        <5>2. heard[i].seq \in Nat
          <6>1. heard[i] \in Relayed
            BY <1>1, <5>1, ElementOfSeq DEF h
          <6> QED
            BY <6>1 DEF Relayed
        <5>3. heard[i].seq <= loop.recv_seq[u]
          BY <2>2, <3>3, <5>1
        <5> QED
          BY <1>3, <3>1, <5>1, <5>2, <5>3
      <4> QED
        BY <4>1, <4>2
    <3> QED
      BY <2>5, <3>1, <3>2, <3>3
  <2> QED
    BY <2>3, <2>4, <2>5
<1>16. PacketsDown' /\ AcksUp' /\ FeedNumbers'
  BY <1>4, <1>5 DEF DownInv, PacketsDown, AcksUp, FeedNumbers
<1> QED
  BY <1>4, <1>11, <1>13, <1>14, <1>15, <1>16 DEF DownInv, h

-----------------------------------------------------------------------------
(***************************************************************************)
(* The invariant holds, and each direction is a channel.                  *)
(***************************************************************************)
UdpInv == TypeOK /\ UpInv /\ DownInv

\* Nothing was sent.
LEMMA InvInit == Init => UpInv /\ DownInv
<1> SUFFICES ASSUME Init PROVE UpInv /\ DownInv
  OBVIOUS
<1>1. /\ loop = NewLoop /\ srv = NewServer /\ up = {} /\ down = {}
      /\ pushed = <<>> /\ got = <<>> /\ heard = <<>>
  BY DEF Init
<1>2. /\ loop.msg_seq = 1 /\ loop.snd_seq = 1 /\ loop.ack = 0 /\ loop.data = <<>>
      /\ loop.rx = <<>> /\ loop.recv_seq = [u \in Users |-> 0]
      /\ srv.last = 0 /\ srv.ack = 0 /\ srv.rx = <<>> /\ srv.feed = <<>> /\ srv.acked = 0
  BY <1>1 DEF NewLoop, NewServer
<1>3. Len(<<>>) = 0
  OBVIOUS
<1>4. UpInv
  BY <1>1, <1>2, <1>3 DEF UpInv, StartClean, ClientWindow, PacketsUp, AcksDown, ServerReading,
                          ServerTook, Window
<1>5. DownInv
  BY <1>1, <1>2, <1>3 DEF DownInv, PacketsDown, AcksUp, ClientReading, ClientHeard, FeedNumbers,
                          Filter, Fed
<1> QED
  BY <1>4, <1>5

\* A sequence is the front of what it becomes by one more element.
LEMMA AppendIsSend ==
    ASSUME NEW S, NEW s \in Seq(S), NEW e \in S
    PROVE  Len(Append(s, e)) = Len(s) + 1 /\ s = SubSeq(Append(s, e), 1, Len(s))
<1> DEFINE t == Append(s, e)
<1>1. Len(s) \in Nat /\ \A i \in 1..Len(s) : s[i] \in S
  BY LenProperties, ElementOfSeq
<1>2. t \in Seq(S) /\ Len(t) = Len(s) + 1 /\ \A i \in 1..Len(s) : t[i] = s[i]
  BY AppendProperties
<1> HIDE DEF t
<1>3. \A i \in 1..Len(s) : t[i] \in S
  BY <1>1, <1>2
<1>4. /\ SubSeq(t, 1, Len(s)) \in Seq(S) /\ Len(SubSeq(t, 1, Len(s))) = Len(s)
      /\ \A i \in 1..Len(s) : SubSeq(t, 1, Len(s))[i] = t[i]
  BY <1>1, <1>3, SubSeqProperties
<1>5. s = SubSeq(t, 1, Len(s))
  BY <1>2, <1>4, SeqEqual
<1> QED
  BY <1>2, <1>5 DEF t

\* Every step keeps the invariant and is a step of both channels.
LEMMA InvNext ==
    ASSUME UdpInv, [Next]_vars
    PROVE  /\ UpInv' /\ DownInv'
           /\ [Relay!Next]_<<pushed, got>> /\ [Feed!Next]_<<srv.feed, heard>>
<1> USE DEF UdpInv
<1> DEFINE Goal == /\ UpInv' /\ DownInv'
                   /\ [Relay!Next]_<<pushed, got>> /\ [Feed!Next]_<<srv.feed, heard>>
<1>0. StartClean
  BY DEF UpInv
<1>1. UpQuiet => UpInv' /\ [Relay!Next]_<<pushed, got>>
  BY UpQuietKeeps DEF UpQuiet
<1>2. DownQuiet => DownInv' /\ [Feed!Next]_<<srv.feed, heard>>
  BY DownQuietKeeps DEF DownQuiet
<1>3. CASE UNCHANGED vars
  <2>1. UpQuiet /\ DownQuiet
    BY <1>3 DEF vars, game, bufs, net, history, UpQuiet, DownQuiet
  <2> QED
    BY <1>1, <1>2, <2>1
<1>4. CASE SockWrite \/ SockRead \/ SockClose \/ Reset \/ ConnectClose \/ ConnectFail
  BY <1>0, <1>1, <1>2, <1>4, GameQuiet
<1>5. CASE ConnectStart
  <2>1. pushed' = <<>> /\ got' = <<>> /\ heard' = <<>> /\ srv'.feed = <<>>
    BY <1>5 DEF ConnectStart, NewServer
  <2> QED
    BY <1>5, <2>1, ConnectUp DEF Relay!Next, Relay!Renew, Feed!Next, Feed!Renew
<1>6. CASE \/ Enter \/ Top \/ Exit \/ RunStart \/ TakeSession \/ SayHello \/ BeginPing
           \/ SendPing \/ QueryFails \/ BeginBattle \/ Wait
  BY <1>0, <1>1, <1>2, <1>6, StepQuiet
<1>7. ASSUME NEW n \in 0..Len(send_buf), Send(n)
      PROVE  Goal
  <2> DEFINE body == SubSeq(send_buf, 1, n)
  <2>1. UpInv' /\ DownInv'
    BY <1>7, SendUpInv, SendDownInv
  <2>2. got' = got /\ heard' = heard /\ srv' = srv
    BY <1>7 DEF Send
  <2>3. pushed' = pushed \/ pushed' = Append(pushed, body)
    BY <1>7 DEF Send
  <2>4. pushed \in Seq(Bodies) /\ body \in Bodies
    BY BodyType DEF TypeOK
  <2>5. [Relay!Next]_<<pushed, got>>
    BY <2>2, <2>3, <2>4, AppendIsSend DEF Relay!Next, Relay!Send
  <2> QED
    BY <2>1, <2>2, <2>5
<1>8. CASE ReadMessage
  <2>1. UpInv' /\ [Relay!Next]_<<pushed, got>>
    BY <1>1, <1>8, ReadQuiet
  <2>2. srv' = srv
    BY <1>8 DEF ReadMessage
  <2>3. [Feed!Next]_<<srv.feed, heard>>
    BY <1>8, <2>2, ReadDownInv DEF Feed!Next, Feed!Deliver
  <2> QED
    BY <1>8, <2>1, <2>3, ReadDownInv
<1>9. CASE ServerRead
  <2>1. DownInv' /\ [Feed!Next]_<<srv.feed, heard>>
    BY <1>2, <1>9, ServerReadQuiet
  <2>2. pushed' = pushed
    BY <1>9 DEF ServerRead
  <2>3. [Relay!Next]_<<pushed, got>>
    BY <1>9, <2>2, ServerFilter DEF Relay!Next, Relay!Deliver
  <2> QED
    BY <1>9, <2>1, <2>3, ServerFilter
<1>10. CASE ServerSend
  <2>1. UpInv' /\ DownInv'
    BY <1>10, ServerSendUpInv, ServerSendDownInv
  <2>2. UNCHANGED <<pushed, got>> /\ UNCHANGED <<srv.feed, heard>>
    BY <1>10 DEF ServerSend, history
  <2> QED
    BY <2>1, <2>2
<1>11. ASSUME NEW u \in Users, NEW n \in 1..MaxTraffic, ServerRelay(u, n)
       PROVE  Goal
  <2>1. UpInv' /\ [Relay!Next]_<<pushed, got>>
    BY <1>1, <1>11, RelayQuiet
  <2>2. DownInv'
    BY <1>11, RelayDownInv
  <2>3. heard' = heard /\ srv'.feed = Append(srv.feed, [user |-> u, seq |-> n])
    BY <1>11, Facts DEF ServerRelay, ServerType, history
  <2>4. srv.feed \in Seq(Relayed) /\ [user |-> u, seq |-> n] \in Relayed
    BY Facts, UdpAssumption DEF Relayed
  <2>5. [Feed!Next]_<<srv.feed, heard>>
    BY <2>3, <2>4, AppendIsSend DEF Feed!Next, Feed!Send
  <2> QED
    BY <2>1, <2>2, <2>5
<1>12. ASSUME NEW p, ServerEnd \/ ServerHello(p) \/ ServerPing(p) \/ ServerFin(p)
       PROVE  Goal
  BY <1>0, <1>1, <1>2, <1>12, ServerQuiet
<1>13. ASSUME NEW p, RecvDrop(p) \/ RecvHello(p) \/ RecvPong(p) \/ RecvFin(p)
       PROVE  Goal
  BY <1>0, <1>1, <1>2, <1>13, RecvQuiet
<1>14. ASSUME NEW p \in down, RecvBattle(p)
       PROVE  Goal
  <2>1. UpInv' /\ DownInv'
    BY <1>14, RecvUpInv, RecvDownInv
  <2>2. UNCHANGED <<pushed, got>> /\ UNCHANGED <<srv.feed, heard>>
    BY <1>14 DEF RecvBattle, history
  <2> QED
    BY <2>1, <2>2
<1>15. ASSUME NEW p \in up, ServerBattle(p)
       PROVE  Goal
  <2>1. UpInv' /\ DownInv'
    BY <1>15, ServerBattleUpInv, ServerBattleDownInv
  <2>2. UNCHANGED <<pushed, got>> /\ UNCHANGED <<srv.feed, heard>>
    BY <1>15, Facts DEF ServerBattle, history, ServerType
  <2> QED
    BY <2>1, <2>2
<1> HIDE DEF Goal
<1>16. Next => Goal
  <2>1. Game => Goal
    BY <1>4, <1>5 DEF Game, Goal
  <2>2. Step => Goal
    BY <1>6, <1>7, <1>8 DEF Step, Goal
  <2>3. Server => Goal
    BY <1>9, <1>10, <1>11, <1>12 DEF Server, Goal
  <2>4. \A p \in down : Recv(p) => Goal
    BY <1>13, <1>14 DEF Recv
  <2>5. \A p \in up : ServerRecv(p) => Goal
    BY <1>12, <1>15 DEF ServerRecv
  <2> QED
    BY <2>1, <2>2, <2>3, <2>4, <2>5 DEF Next
<1> QED
  BY <1>3, <1>16 DEF Goal

\* The inductive invariant of both directions.
LEMMA UdpInvariance == Spec => []UdpInv
<1>1. Init => UdpInv
  BY TypeInit, InvInit DEF UdpInv
<1>2. UdpInv /\ [Next]_vars => UdpInv'
  BY TypeNext, InvNext DEF UdpInv
<1> QED
  BY <1>1, <1>2, PTL DEF Spec

\* An acknowledgment never asks ApplySeqAck to drop more messages than the
\* window holds, whatever is lost, repeated or reordered.
THEOREM AcksStayInWindow == Spec => []AckInWindow
<1>1. UdpInv => AckInWindow
  <2> SUFFICES ASSUME UdpInv, NEW p \in down, p.type = "Battle" PROVE p.ack < loop.msg_seq
    BY DEF AckInWindow
  <2>1. p.ack <= srv.ack /\ srv.ack <= Len(pushed) /\ loop.msg_seq = Len(pushed) + 1
    BY DEF UdpInv, UpInv, AcksDown, ClientWindow
  <2>2. p.ack \in Nat /\ srv.ack \in Nat /\ Len(pushed) \in Nat
    BY PacketFacts, Facts DEF UdpInv
  <2> QED
    BY <2>1, <2>2
<1> QED
  BY <1>1, UdpInvariance, PTL

\* The messages of the game reach the server in order, each exactly once: the
\* MessageBuffer of the client and the filter of the server implement a channel,
\* for every window size, retransmission interval and number of faults.
THEOREM RelayIsChannel == Spec => RelayedInOrder
<1>1. Init => Relay!Init
  BY DEF Init, Relay!Init
<1>2. UdpInv /\ [Next]_vars => [Relay!Next]_<<pushed, got>>
  BY InvNext
<1> QED
  BY <1>1, <1>2, UdpInvariance, PTL DEF Spec, RelayedInOrder, Relay!Spec

\* And so do those that the server relays: MessageFilter, which keeps a number
\* for each sender and takes the first message whatever its number, lets every
\* message of the feed through once and in the server's order.
THEOREM FeedIsChannel == Spec => HeardInOrder
<1>1. Init => Feed!Init
  BY DEF Init, Feed!Init, NewServer
<1>2. UdpInv /\ [Next]_vars => [Feed!Next]_<<srv.feed, heard>>
  BY InvNext
<1> QED
  BY <1>1, <1>2, UdpInvariance, PTL DEF Spec, HeardInOrder, Feed!Spec
=============================================================================
