------------------------------ MODULE GdxsvUdp ------------------------------
(***************************************************************************)
(* The UDP backend of a gdxsv battle (gdxsv/gdxsv_backend_udp.cpp) and    *)
(* its reliable messages (MessageBuffer and MessageFilter of              *)
(* gdxsv/gdxsv_network.cpp).  The game reads and writes a byte stream on  *)
(* the emulation thread.  Connect() starts a detached NetThreadLoop, which *)
(* turns what the game wrote into numbered messages and sends all those   *)
(* not yet acknowledged in every packet.  The network loses, repeats and  *)
(* reorders datagrams; the battle server, which is external, numbers and  *)
(* acknowledges the same way.                                             *)
(*                                                                        *)
(* A battle is named by the number of the Connect() that started it, and  *)
(* what the game writes in one call is one item <<battle, i>>.  Connect() *)
(* does not wait for the loop of an earlier battle to end: if it is still *)
(* alive the two share the buffers and the socket and nothing is promised, *)
(* so the model only goes on once it has ended.                           *)
(***************************************************************************)
EXTENDS Integers, FiniteSets, SequencesExt

CONSTANTS MaxConnects,  \* bound: calls of Connect()
          MaxTraffic,   \* bound: calls of OnSockWrite and messages relayed in a battle
          MaxFaults,    \* bound: datagrams lost or repeated, sends that fail
          MaxFlight,    \* bound: datagrams in flight each way, others are dropped
          BufSize,      \* MessageBuffer::kBufSize, 50
          PingRounds,   \* pongs that end the ping test, 10
          Retransmit,   \* loops between two retransmissions, 22
          Users         \* the players whose messages the server relays

ASSUME UdpAssumption ==
    /\ MaxConnects \in Nat /\ MaxTraffic \in Nat /\ MaxFaults \in Nat
    /\ MaxFlight \in Nat
    /\ BufSize \in Nat \ {0} /\ PingRounds \in Nat /\ Retransmit \in Nat

Hello == <<"hello">>         \* the bytes that NetThreadLoop gives the game first

VARIABLES
    mode,           \* Gdxsv::netmode_: "Offline", "Opening" (in Connect) or "McsUdp"
    conn,           \* the calls of Connect() that started a loop
    net_terminate,  \* GdxsvBackendUdp: the flag that ends the loop,
    remote,         \* mcs_remote_.is_open(),
    session_id,     \* session_id_, 0 when empty,
    send_buf, recv_buf,
    loop,           \* the locals of NetThreadLoop
    srv,            \* the battle server
    up, down,       \* the datagrams in the network
    faults,         \* the faults so far
    wrote, pushed, got, heard   \* history of the battle: items the game wrote, bodies
                                \* pushed, those the server took, messages the game got

game    == <<mode, conn, net_terminate, remote, session_id>>
bufs    == <<send_buf, recv_buf>>
net     == <<up, down, faults>>
history == <<wrote, pushed, got, heard>>
vars    == <<game, bufs, loop, srv, net, history>>

\* The locals of NetThreadLoop: where it is, its State, what it knows; the
\* MessageBuffer (msg_seq_, snd_seq_, and ack and battle_data of its packet_);
\* the MessageFilter; the messages of the packet it is reading, for which it
\* holds recv_buf_mtx_.
NewLoop == [pc |-> "none", state |-> "Start", session |-> FALSE, user |-> FALSE,
            pings |-> 0, countdown |-> 0,
            msg_seq |-> 1, snd_seq |-> 1, ack |-> 0, data |-> <<>>,
            recv_seq |-> [u \in Users |-> 0], rx |-> <<>>]

\* The server's side of a session: the last message its filter took, the seq it
\* acknowledges, the messages it is reading, those it relays and how many of
\* them are acknowledged.
NewServer == [at |-> "none", last |-> 0, ack |-> 0, rx |-> <<>>, feed |-> <<>>, acked |-> 0]

Init == /\ mode = "Offline" /\ conn = 0 /\ net_terminate = FALSE /\ remote = FALSE
        /\ session_id = 0 /\ send_buf = <<>> /\ recv_buf = <<>>
        /\ loop = NewLoop /\ srv = NewServer
        /\ up = {} /\ down = {} /\ faults = 0
        /\ wrote = 0 /\ pushed = <<>> /\ got = <<>> /\ heard = <<>>

-----------------------------------------------------------------------------
(***************************************************************************)
(* The network.                                                           *)
(***************************************************************************)
\* A datagram that is sent is in flight, or is lost.
SendUp(p) == \/ Cardinality(up) < MaxFlight /\ up' = up \union {p} /\ UNCHANGED faults
             \/ faults < MaxFaults /\ faults' = faults + 1 /\ UNCHANGED up
             \/ Cardinality(up) >= MaxFlight /\ UNCHANGED <<up, faults>>

SendDown(p) == \/ /\ remote /\ Cardinality(down) < MaxFlight
                  /\ down' = down \union {p} /\ UNCHANGED faults
               \/ remote /\ faults < MaxFaults /\ faults' = faults + 1 /\ UNCHANGED down
               \/ (remote => Cardinality(down) >= MaxFlight) /\ UNCHANGED <<down, faults>>

\* A datagram that is received is gone, or is repeated later.
TakeUp(p) == \/ up' = up \ {p} /\ UNCHANGED faults
             \/ faults < MaxFaults /\ faults' = faults + 1 /\ UNCHANGED up

TakeDown(p) == \/ down' = down \ {p} /\ UNCHANGED faults
               \/ faults < MaxFaults /\ faults' = faults + 1 /\ UNCHANGED down

-----------------------------------------------------------------------------
(***************************************************************************)
(* The emulation thread: the RPCs of the game, and Gdxsv::Reset.          *)
(***************************************************************************)
\* OnSockWrite
SockWrite == /\ mode = "McsUdp" /\ wrote + Len(srv.feed) < MaxTraffic
             /\ send_buf' = Append(send_buf, <<conn, wrote + 1>>)
             /\ wrote' = wrote + 1
             /\ UNCHANGED <<game, recv_buf, loop, srv, net, pushed, got, heard>>

\* OnSockRead waits for recv_buf_mtx_.
SockRead == /\ mode = "McsUdp" /\ recv_buf # <<>>
            /\ loop.rx = <<>>
            /\ recv_buf' = <<>>
            /\ UNCHANGED <<game, send_buf, loop, srv, net, history>>

\* CloseMcsRemoteWithReason.  With the address cleared no datagram passes the
\* sender check any more: what is in flight might as well be lost.
CloseMcsRemote == /\ down' = {}
                  /\ IF remote THEN SendUp([type |-> "Fin", sid |-> session_id])
                     ELSE UNCHANGED <<up, faults>>
                  /\ remote' = FALSE /\ net_terminate' = TRUE

SockClose == /\ mode = "McsUdp" /\ mode' = "Offline"
             /\ CloseMcsRemote
             /\ UNCHANGED <<conn, session_id, bufs, loop, srv, history>>

Reset == /\ mode # "Opening" /\ conn > 0 /\ mode' = "Offline"
         /\ CloseMcsRemote /\ session_id' = 0
         /\ UNCHANGED <<conn, bufs, loop, srv, history>>

\* Connect: close the remote of an earlier battle, then look up the server.
ConnectClose == /\ mode # "Opening" /\ conn < MaxConnects /\ mode' = "Opening"
                /\ CloseMcsRemote
                /\ UNCHANGED <<conn, session_id, bufs, loop, srv, history>>

\* The lookup fails and SOCK_OPEN leaves the game offline.
ConnectFail == /\ mode = "Opening" /\ mode' = "Offline"
               /\ UNCHANGED <<conn, net_terminate, remote, session_id>>
               /\ UNCHANGED <<bufs, loop, srv, net, history>>

\* The lookup succeeds and a loop starts.  The lobby takes seconds to arrange a
\* battle: no datagram of an earlier one is still in the network.
ConnectStart == /\ mode = "Opening" /\ mode' = "McsUdp"
                /\ loop.pc \in {"none", "gone"}
                /\ conn' = conn + 1 /\ remote' = TRUE /\ net_terminate' = FALSE
                /\ loop' = [NewLoop EXCEPT !.pc = "entry"]
                /\ srv' = NewServer /\ up' = {} /\ down' = {}
                /\ wrote' = 0 /\ pushed' = <<>> /\ got' = <<>> /\ heard' = <<>>
                /\ UNCHANGED <<session_id, bufs, faults>>

-----------------------------------------------------------------------------
(***************************************************************************)
(* NetThreadLoop.                                                         *)
(***************************************************************************)
At(where) == loop.pc = where /\ loop.rx = <<>>
Running(where) == At("run") /\ loop.state = where

\* Mutant: the buffers keep what the last battle left in them.
KeepBuffers == UNCHANGED bufs

\* The two critical sections of ClearBuffers touch different buffers: no other
\* thread tells them from one.
ClearBuffers == send_buf' = <<>> /\ recv_buf' = <<>>

Enter == /\ At("entry") /\ loop' = [loop EXCEPT !.pc = "top"]
         /\ ClearBuffers
         /\ UNCHANGED <<game, srv, net, history>>

\* RecvFrom has nothing (yet): sleep, and go round while (!net_terminate_).
Top == /\ At("top") \/ At("recv")
       /\ loop' = [loop EXCEPT !.pc = IF net_terminate THEN "exit" ELSE "run"]
       /\ UNCHANGED <<game, bufs, srv, net, history>>

Exit == /\ At("exit") /\ loop' = [loop EXCEPT !.pc = "gone"]
        /\ ClearBuffers
        /\ UNCHANGED <<game, srv, net, history>>

\* Mutant: messages are numbered from 0, the number that means none.
ClearedToZero(l) == [l EXCEPT !.msg_seq = 0, !.snd_seq = 0, !.ack = 0, !.data = <<>>]

\* MessageBuffer::Clear
Cleared(l) == [l EXCEPT !.msg_seq = 1, !.snd_seq = 1, !.ack = 0, !.data = <<>>]

RunStart == /\ Running("Start")
            /\ send_buf' = <<>> /\ recv_buf' = <<Hello>> /\ session_id' = 0
            /\ loop' = [Cleared(loop) EXCEPT !.state = "McsSessionExchange"]
            /\ UNCHANGED <<mode, conn, net_terminate, remote, srv, net, history>>

\* Mutant: the session message stays in the buffer.
TakeSessionOnly ==
    /\ Running("McsSessionExchange") /\ ~loop.session
    /\ loop' = [loop EXCEPT !.pc = "recv", !.session = (send_buf # <<>>)]
    /\ session_id' = IF send_buf # <<>> THEN conn ELSE session_id
    /\ UNCHANGED <<mode, conn, net_terminate, remote, bufs, srv, net, history>>

\* The first message of the game holds the session id; what the game wrote
\* with it is dropped.
TakeSession ==
    /\ Running("McsSessionExchange") /\ ~loop.session
    /\ loop' = [loop EXCEPT !.pc = "recv", !.session = (send_buf # <<>>)]
    /\ session_id' = IF send_buf # <<>> THEN conn ELSE session_id
    /\ send_buf' = <<>>
    /\ UNCHANGED <<mode, conn, net_terminate, remote, recv_buf, srv, net, history>>

\* Sent in every 100th iteration; the others only read the socket.
Query(type, sid) ==
    /\ loop' = [loop EXCEPT !.pc = "recv"]
    /\ IF remote THEN SendUp([type |-> type, sid |-> sid]) ELSE UNCHANGED <<up, faults>>
    /\ UNCHANGED <<game, bufs, srv, down, history>>

\* A hello or a ping that cannot be serialized ends the battle.
QueryFails == /\ \/ Running("McsSessionExchange") /\ loop.session /\ ~loop.user
                 \/ Running("McsPingTest") /\ loop.pings < PingRounds
              /\ loop' = [loop EXCEPT !.pc = "recv", !.state = "End"]
              /\ CloseMcsRemote
              /\ UNCHANGED <<mode, conn, session_id, bufs, srv, history>>

SayHello == /\ Running("McsSessionExchange") /\ loop.session /\ ~loop.user
            /\ Query("Hello", conn)

BeginPing == /\ Running("McsSessionExchange") /\ loop.session /\ loop.user
             /\ loop' = [loop EXCEPT !.state = "McsPingTest"]
             /\ UNCHANGED <<game, bufs, srv, net, history>>

SendPing == /\ Running("McsPingTest") /\ loop.pings < PingRounds
            /\ Query("Ping", session_id)

\* Mutant: the test that ends the ping test is off by one.
BeginBattleLate == /\ Running("McsPingTest") /\ loop.pings > PingRounds
                   /\ loop' = [loop EXCEPT !.state = "McsInBattle"]
                   /\ UNCHANGED <<game, bufs, srv, net, history>>

BeginBattle == /\ Running("McsPingTest") /\ loop.pings >= PingRounds
               /\ loop' = [loop EXCEPT !.state = "McsInBattle"]
               /\ UNCHANGED <<game, bufs, srv, net, history>>

\* Mutant: packet_.seq is set after msg_seq_ is incremented.
SeqAfter(l) == l.msg_seq

\* packet_.seq: the number of the last message pushed, 0 before the first.
PacketSeq(l) == l.msg_seq - 1

\* MessageBuffer::CanPush and PushBattleMessage
CanPush(l) == Len(l.data) < BufSize
PushBattleMessage(l, body) ==
    [l EXCEPT !.data = Append(@, [seq |-> l.msg_seq, body |-> body]), !.msg_seq = @ + 1]

\* A packet is due when the game has written something or the countdown is 0.
Due == send_buf # <<>> \/ loop.countdown = 0

\* The test decrements the countdown when there is nothing to send.  The code goes
\* on down below 0, where only the test for 0 reads it: as it takes 2^32 iterations
\* to come back to 0, the model keeps one value for all those below.
Counted == IF send_buf # <<>> \/ loop.countdown < 0 THEN loop.countdown ELSE loop.countdown - 1

\* Mutant: only an iteration that has something to send counts down.
WaitStill == /\ Running("McsInBattle") /\ ~Due
             /\ loop' = [loop EXCEPT !.pc = "recv"]
             /\ UNCHANGED <<game, bufs, srv, net, history>>

Wait == /\ Running("McsInBattle") /\ ~Due
        /\ loop' = [loop EXCEPT !.pc = "recv", !.countdown = Counted]
        /\ UNCHANGED <<game, bufs, srv, net, history>>

\* What the game wrote becomes one message, if the window has room, and the whole
\* window is sent.  The message takes n items, as many as buf holds; how many those are
\* is up to the lengths of the items, which the model leaves out, and the rest waits
\* for the next one (a cut inside an item is one between two shorter items).  A packet
\* that cannot be serialized, or a SendTo that fails, does not restart the countdown.
Send(n) ==
    /\ Running("McsInBattle") /\ Due
    /\ n > 0 <=> send_buf # <<>> /\ CanPush(loop)
    /\ LET body == SubSeq(send_buf, 1, n)
           l    == IF n > 0 THEN PushBattleMessage(loop, body) ELSE loop
       IN /\ pushed' = IF n > 0 THEN Append(pushed, body) ELSE pushed
          /\ send_buf' = SubSeq(send_buf, n + 1, Len(send_buf))
          /\ \/ /\ remote
                /\ SendUp([type |-> "Battle", sid |-> conn, seq |-> PacketSeq(l),
                           ack |-> l.ack, data |-> l.data])
                /\ loop' = [l EXCEPT !.pc = "recv", !.countdown = Retransmit]
             \/ /\ remote => faults < MaxFaults
                /\ faults' = IF remote THEN faults + 1 ELSE faults
                /\ loop' = [l EXCEPT !.pc = "recv", !.countdown = Counted]
                /\ UNCHANGED up
    /\ UNCHANGED <<game, recv_buf, srv, down, wrote, got, heard>>

\* MessageBuffer::ApplySeqAck
ApplySeqAck(l, seq, ack) ==
    [l EXCEPT !.data = IF l.snd_seq <= ack THEN SubSeq(@, ack - l.snd_seq + 2, Len(@)) ELSE @,
              !.snd_seq = IF @ <= ack THEN ack + 1 ELSE @,
              !.ack = IF @ < seq THEN seq ELSE @]

\* A datagram that does not come from mcs_remote_ is dropped, and so is one
\* that the state does not expect.
Handled(p) == /\ remote
              /\ \/ p.type = "Hello" /\ loop.state = "McsSessionExchange"
                 \/ p.type = "Pong" /\ loop.state = "McsPingTest"
                 \/ p.type = "Battle" /\ loop.state = "McsInBattle"
                 \/ p.type = "Fin"

RecvDrop(p) == /\ At("recv") /\ ~Handled(p) /\ TakeDown(p)
               /\ UNCHANGED <<game, bufs, loop, srv, up, history>>

RecvHello(p) == /\ At("recv") /\ Handled(p) /\ p.type = "Hello" /\ TakeDown(p)
                /\ loop' = [loop EXCEPT !.user = TRUE]
                /\ UNCHANGED <<game, bufs, srv, up, history>>

RecvPong(p) == /\ At("recv") /\ Handled(p) /\ p.type = "Pong" /\ TakeDown(p)
               /\ loop' = [loop EXCEPT !.pings = @ + 1]
               /\ UNCHANGED <<game, bufs, srv, up, history>>

RecvBattle(p) == /\ At("recv") /\ Handled(p) /\ p.type = "Battle" /\ TakeDown(p)
                 /\ loop' = [ApplySeqAck(loop, p.seq, p.ack) EXCEPT !.rx = p.data]
                 /\ UNCHANGED <<game, bufs, srv, up, history>>

RecvFin(p) == /\ At("recv") /\ Handled(p) /\ p.type = "Fin"
              /\ loop' = [loop EXCEPT !.state = "End"]
              /\ CloseMcsRemote
              /\ UNCHANGED <<mode, conn, session_id, bufs, srv, history>>

\* Mutant: the filter takes whatever is not the last message again.
IsOtherMessage(last, seq) == seq # last

\* MessageFilter::IsNextMessage
IsNextMessage(last, seq) == last = 0 \/ seq = last + 1

\* The messages of a packet one by one, under recv_buf_mtx_.
ReadMessage ==
    /\ loop.rx # <<>>
    /\ LET m    == Head(loop.rx)
           next == IsNextMessage(loop.recv_seq[m.user], m.seq)
       IN /\ loop' = [loop EXCEPT !.rx = Tail(@),
                                  !.recv_seq[m.user] = IF next THEN m.seq ELSE @]
          /\ recv_buf' = IF next THEN Append(recv_buf, <<conn, m>>) ELSE recv_buf
          /\ heard' = IF next THEN Append(heard, m) ELSE heard
    /\ UNCHANGED <<game, send_buf, srv, net, wrote, pushed, got>>

-----------------------------------------------------------------------------
(***************************************************************************)
(* The battle server (external), with a MessageBuffer and a MessageFilter *)
(* as the client has.                                                     *)
(***************************************************************************)
ServerReads(p, type) == p.type = type /\ p.sid = conn /\ srv.rx = <<>> /\ TakeUp(p)

ServerHello(p) == /\ ServerReads(p, "Hello") /\ srv.at # "closed"
                  /\ srv' = [srv EXCEPT !.at = IF @ = "none" THEN "open" ELSE @]
                  /\ down' = IF remote THEN down \union {[type |-> "Hello"]} ELSE down
                  /\ UNCHANGED <<game, bufs, loop, history>>

ServerPing(p) == /\ ServerReads(p, "Ping") /\ srv.at \in {"open", "battle"}
                 /\ down' = IF remote THEN down \union {[type |-> "Pong"]} ELSE down
                 /\ UNCHANGED <<game, bufs, loop, srv, history>>

ServerBattle(p) == /\ ServerReads(p, "Battle") /\ srv.at \in {"open", "battle"}
                   /\ srv' = [srv EXCEPT !.at = "battle",
                                         !.acked = IF @ < p.ack THEN p.ack ELSE @,
                                         !.ack = IF @ < p.seq THEN p.seq ELSE @,
                                         !.rx = p.data]
                   /\ UNCHANGED <<game, bufs, loop, down, history>>

ServerFin(p) == /\ ServerReads(p, "Fin")
                /\ srv' = [srv EXCEPT !.at = "closed"]
                /\ UNCHANGED <<game, bufs, loop, down, history>>

ServerRead ==
    /\ srv.rx # <<>>
    /\ LET m    == Head(srv.rx)
           next == IsNextMessage(srv.last, m.seq)
       IN /\ srv' = [srv EXCEPT !.rx = Tail(@), !.last = IF next THEN m.seq ELSE @]
          /\ got' = IF next THEN Append(got, m.body) ELSE got
    /\ UNCHANGED <<game, bufs, loop, net, wrote, pushed, heard>>

\* The number of a relayed message is the one its sender gave it.
ServerRelay(u, n) ==
    /\ srv.at = "battle" /\ wrote + Len(srv.feed) < MaxTraffic
    /\ \A i \in 1..Len(srv.feed) : srv.feed[i].user = u => srv.feed[i].seq < n
    /\ n = 1 \/ \E i \in 1..Len(srv.feed) : srv.feed[i] = [user |-> u, seq |-> n - 1]
    /\ srv' = [srv EXCEPT !.feed = Append(@, [user |-> u, seq |-> n])]
    /\ UNCHANGED <<game, bufs, loop, net, history>>

ServerSend ==
    /\ srv.at = "battle" /\ srv.rx = <<>>
    /\ SendDown([type |-> "Battle", seq |-> Len(srv.feed), ack |-> srv.ack,
                 data |-> SubSeq(srv.feed, srv.acked + 1, Len(srv.feed))])
    /\ UNCHANGED <<game, bufs, loop, srv, up, history>>

ServerEnd == /\ srv.at \in {"open", "battle"} /\ srv' = [srv EXCEPT !.at = "closed"]
             /\ SendDown([type |-> "Fin"])
             /\ UNCHANGED <<game, bufs, loop, up, history>>

-----------------------------------------------------------------------------
Game == SockWrite \/ SockRead \/ SockClose \/ Reset \/ ConnectClose \/ ConnectFail \/ ConnectStart

Step == \/ Enter \/ Top \/ Exit \/ RunStart \/ TakeSession \/ SayHello \/ BeginPing \/ SendPing
        \/ QueryFails \/ BeginBattle \/ Wait \/ ReadMessage
        \/ \E n \in 0..Len(send_buf) : Send(n)

Recv(p) == \/ RecvDrop(p) \/ RecvHello(p) \/ RecvPong(p) \/ RecvBattle(p) \/ RecvFin(p)

ServerRecv(p) == ServerHello(p) \/ ServerPing(p) \/ ServerBattle(p) \/ ServerFin(p)

Server == \/ ServerRead \/ ServerSend \/ ServerEnd
          \/ \E u \in Users, n \in 1..MaxTraffic : ServerRelay(u, n)

Next == \/ Game \/ Step \/ Server
        \/ \E p \in down : Recv(p)
        \/ \E p \in up : ServerRecv(p)

Spec == Init /\ [][Next]_vars

\* A loop that has not ended is scheduled; it empties the socket in every
\* iteration, so a datagram that is not lost is received, and it reads faster
\* than datagrams arrive, so it goes round again.  The server reads and answers
\* what it receives.
Fairness == /\ WF_vars(Step) /\ SF_vars(Top)
            /\ SF_vars(\E p \in down : p.type # "Battle" /\ Recv(p))
            /\ SF_vars(\E p \in down : p.type = "Battle" /\ Recv(p))
            /\ WF_vars(\E p \in up : ServerRecv(p))
            /\ WF_vars(ServerRead) /\ WF_vars(ServerSend)

LiveSpec == Spec /\ Fairness

-----------------------------------------------------------------------------
(***************************************************************************)
(* What the backend promises.                                             *)
(***************************************************************************)
Numbers    == Nat \ {0}        \* of messages
Bodies     == Seq(Nat \X Nat)
Messages   == [seq : Nat, body : Bodies]
Relayed    == [user : Users, seq : Nat]
Received   == Seq({Hello} \union (Nat \X Relayed))
Queries    == [type : {"Hello", "Ping", "Fin"}, sid : Nat]
BattleUp   == [type : {"Battle"}, sid : Nat, seq : Nat, ack : Nat, data : Seq(Messages)]
Answers    == [type : {"Hello", "Pong", "Fin"}]
BattleDown == [type : {"Battle"}, seq : Nat, ack : Nat, data : Seq(Relayed)]

UpType     == Queries \union BattleUp
DownType   == Answers \union BattleDown
LoopType   == [pc : {"none", "entry", "top", "run", "recv", "exit", "gone"},
               state : {"Start", "McsSessionExchange", "McsPingTest", "McsInBattle", "End"},
               session : BOOLEAN, user : BOOLEAN, pings : Nat, countdown : Int,
               msg_seq : Numbers, snd_seq : Numbers, ack : Nat, data : Seq(Messages),
               recv_seq : [Users -> Nat], rx : Seq(Relayed)]
ServerType == [at : {"none", "open", "battle", "closed"}, last : Nat, ack : Nat,
               rx : Seq(Messages), feed : Seq(Relayed), acked : Nat]

\* The variables have their types.  Messages are numbered from 1: the number 0 of a
\* packet, an acknowledgment or a filter stands for no message yet.
TypeOK ==
    /\ mode \in {"Offline", "Opening", "McsUdp"} /\ conn \in Nat /\ session_id \in Nat
    /\ net_terminate \in BOOLEAN /\ remote \in BOOLEAN
    /\ send_buf \in Bodies
    /\ recv_buf \in Received
    /\ loop \in LoopType /\ srv \in ServerType
    /\ up \subseteq UpType /\ down \subseteq DownType
    /\ faults \in Nat /\ wrote \in Nat
    /\ pushed \in Seq(Bodies) /\ got \in Seq(Bodies) /\ heard \in Seq(Relayed)

Relay == INSTANCE BattleChannel WITH sent <- pushed, delivered <- got
Feed  == INSTANCE BattleChannel WITH sent <- srv.feed, delivered <- heard

\* The messages of a battle reach the server in the order they were pushed,
\* each exactly once, whatever the network does: MessageBuffer, ApplySeqAck and
\* IsNextMessage implement a FIFO channel.
RelayedInOrder == Relay!Spec

\* The messages that the server relays reach the game in the server's order,
\* each exactly once, although the filter numbers them for each sender and
\* lets the first one through whatever its number.
HeardInOrder == Feed!Spec

\* An acknowledgment that the loop applies never asks DeleteSubrange to drop
\* more messages than the window holds.
AckInWindow == \A p \in down : p.type = "Battle" => p.ack < loop.msg_seq

\* What the server has relayed of a battle is a run of consecutive items that
\* the game wrote in that battle: nothing from before the session message, and
\* nothing that an earlier battle left in the buffers.
StreamIntact ==
    LET items == FlattenSeq(got) IN
    \A k \in 1..Len(items) : items[k] = <<conn, items[1][2] + k - 1>> /\ items[1][2] > 1

\* The game reads only messages of the battle it is connected to.
ReadsOwnBattle ==
    \A k \in 1..Len(recv_buf) : recv_buf[k] = Hello \/ recv_buf[k][1] = conn

Alive == loop.pc # "gone" /\ ~net_terminate /\ srv.at # "closed"
InBattle == Alive /\ loop.state = "McsInBattle"

\* Once the session is known the handshake ends, although hellos, pings and
\* their answers may be lost.
HandshakeEnds == loop.session /\ Alive ~> InBattle \/ ~Alive

\* In battle, whatever is in the window reaches the server, by retransmission if
\* need be, unless the retransmission itself failed: a SendTo that fails when
\* the countdown is at zero leaves it below zero for good.
WindowDrains == \A k \in 1..MaxTraffic :
    InBattle /\ Len(pushed) >= k ~> Len(got) >= k \/ ~InBattle \/ loop.countdown < 0
=============================================================================
