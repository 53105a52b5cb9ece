--------------------------- MODULE SecureConnection ---------------------------
(***************************************************************************)
(* One client and the server's session of its current connection:          *)
(* ClientCore.cpp (connectToServer, sendPacket, the heartbeat),            *)
(* TcpTransport.cpp (one I/O thread, a queue of posted tasks, close),      *)
(* ClientSecureChannel.cpp (the handshake and the numbered frames) and the *)
(* server's session/Session.cpp.                                           *)
(*                                                                         *)
(* Five threads of the client meet here: C connects, H beats, B sends for  *)
(* the rest of the program, U disconnects, and the I/O thread runs the     *)
(* posted tasks and the reads.  A step is what a thread does between two   *)
(* places where another one can be seen.                                   *)
(***************************************************************************)
EXTENDS Naturals, Sequences

CONSTANTS
    MaxConns,   \* bound: calls of connectToServer
    MaxEvents   \* bound: packets sent by either side, calls of disconnect, and
                \* faults (a cut link, a timeout, a refused dial, a silence)

ASSUME ConnectionAssumption == MaxConns \in Nat /\ MaxEvents \in Nat

VARIABLES
    conn,       \* connections begun so far
    open,       \* m_open
    genOk,      \* no close() has changed m_generation since the connection began
    notified,   \* m_notified
    told,       \* the connection whose end onConnectionClosed was last called for
    thread,     \* m_thread: "none", "on", "ended" but not joined
    sock,       \* m_stream: "none", "dialing", "open"
    ioq,        \* the tasks posted to m_io
    io,         \* where the I/O thread is in the task or callback it runs
    chan,       \* m_secureChannel
    promise,    \* m_handshakePromise: "none", "wait", "ok", "no"
    pc,         \* the threads C, H, B and U
    goal,       \* what C does when its close() is over
    hbRunning,  \* m_hbRunning
    stale,      \* nothing has come in for three heartbeat intervals
    post,       \* what H and B are about to post
    link,       \* the connection below: "none", "up", "cut"
    srv,        \* the server's Session
    c2s, s2c,   \* frames on the way
    past,       \* what has happened on this connection, for the properties
    events      \* how many events there have been

transport == <<open, genOk, notified, told, thread, sock>>
channel == <<chan, promise>>
client == <<pc, goal, hbRunning, stale, post>>
network == <<link, srv, c2s, s2c>>
connectionVars == <<conn, transport, ioq, io, channel, client, network, past, events>>

Kinds == {"hello", "serverHello", "finished", "serverFinished", "sealed", "plain"}
Frame(kind, key, seq) == [kind |-> kind, key |-> key, seq |-> seq]
NoFrame == Frame("plain", 0, 0)
Task(do, frame) == [do |-> do, frame |-> frame]
NoTask == Task("send", NoFrame)

Fresh == [st |-> "NotStarted", hello |-> 0, key |-> 0, snd |-> 0, rcv |-> 0]
NewSession == [st |-> "WaitClientHello", key |-> 0, snd |-> 0, rcv |-> 0, refused |-> FALSE]
NoSession == [NewSession EXCEPT !.st = "Closed"]
Clean == [intruded |-> FALSE, live |-> FALSE, byApp |-> FALSE, overlap |-> FALSE]

ConnectionInit ==
    /\ conn = 0 /\ open = FALSE /\ genOk = FALSE /\ notified = FALSE /\ told = 0
    /\ thread = "none" /\ sock = "none" /\ ioq = <<>> /\ io = "idle"
    /\ chan = Fresh /\ promise = "none"
    /\ pc = [C |-> "idle", H |-> "none", B |-> "idle", U |-> "idle"]
    /\ goal = "closed" /\ hbRunning = FALSE /\ stale = FALSE
    /\ post = [H |-> NoTask, B |-> NoTask]
    /\ link = "none" /\ srv = NoSession
    /\ c2s = <<>> /\ s2c = <<>>
    /\ past = Clean
    /\ events = 0

Established == chan.st = "Established"
Event == events < MaxEvents /\ events' = events + 1
LinkDown == link' = "none" /\ c2s' = <<>> /\ s2c' = <<>> /\ srv' = NoSession
Goto(t, where) == pc' = [pc EXCEPT ![t] = where]

(* std::terminate: no thread goes on. *)
Terminate == pc' = [t \in DOMAIN pc |-> "terminated"] /\ io' = "terminated"
Dead == io = "terminated"
InClose == {"join", "joining", "report"}

-----------------------------------------------------------------------------
(* TcpTransport::close by a thread other than the I/O thread.              *)

(* notifyClose: the close handler is called once for each connect(). *)
NotifyClose ==
    /\ notified' = TRUE
    /\ told' = IF notified THEN told ELSE conn

CloseStart(t) ==
    /\ pc[t] = "close"
    /\ genOk' = FALSE /\ open' = FALSE
    /\ IF conn = 0 /\ thread = "none"
       THEN Goto(t, "report") /\ UNCHANGED ioq
       ELSE Goto(t, "join") /\ ioq' = Append(ioq, Task("drain", NoFrame))
    /\ UNCHANGED <<conn, notified, told, thread, sock, io, channel, goal, hbRunning, stale, post>>
    /\ UNCHANGED <<network, past, events>>

(* stopIoThread: two threads that join the same thread end the program. *)
JoinBegin(t) ==
    /\ pc[t] = "join"
    /\ CASE thread = "none" -> Goto(t, "report") /\ UNCHANGED io
         [] thread # "none" /\ (\E u \in DOMAIN pc : pc[u] = "joining") -> Terminate
         [] OTHER -> Goto(t, "joining") /\ UNCHANGED io
    /\ UNCHANGED <<conn, transport, ioq, channel, goal, hbRunning, stale, post, network, past, events>>

JoinEnd(t) ==
    /\ pc[t] = "joining" /\ thread = "ended"
    /\ thread' = "none"
    /\ Goto(t, "report")
    /\ UNCHANGED <<conn, open, genOk, notified, told, sock, ioq, io, channel>>
    /\ UNCHANGED <<goal, hbRunning, stale, post, network, past, events>>

(* The end of close(), and where the thread goes on. *)
CloseEnd(t) ==
    /\ pc[t] = "report"
    /\ IF conn = 0 \/ (t = "C" /\ goal = "failed") THEN UNCHANGED <<notified, told>> ELSE NotifyClose
    /\ Goto(t, CASE t = "C" /\ goal = "dial" -> "restart"
                 [] t = "H" -> "wait"
                 [] OTHER -> "idle")
    /\ goal' = IF t = "C" THEN "closed" ELSE goal
    /\ UNCHANGED <<conn, open, genOk, thread, sock, ioq, io, channel>>
    /\ UNCHANGED <<hbRunning, stale, post, network, past, events>>

Close(t) == CloseStart(t) \/ JoinBegin(t) \/ JoinEnd(t) \/ CloseEnd(t)

-----------------------------------------------------------------------------
(* C: connectToServer and the connect() below it.                          *)

(* connect() refuses while a connection is open; otherwise it closes what  *)
(* is left of the last one.                                                *)
ConnectToServer ==
    /\ pc["C"] = "idle" /\ ~open /\ conn < MaxConns
    /\ Goto("C", "close") /\ goal' = "dial"
    /\ UNCHANGED <<conn, transport, ioq, io, channel, hbRunning, stale, post, network, past, events>>

(* Mutant: a reconnect does not clear m_notified. *)
RestartNotified ==
    /\ pc["C"] = "restart"
    /\ conn' = conn + 1
    /\ genOk' = TRUE /\ thread' = "on"
    /\ ioq' = Append(ioq, Task("dial", NoFrame))
    /\ LinkDown
    /\ past' = [Clean EXCEPT !.overlap = \E t \in {"H", "U"} : pc[t] \in InClose]
    /\ Goto("C", "dial")
    /\ UNCHANGED <<open, notified, told, sock, io, channel, goal, hbRunning, stale, post, events>>

(* io_context::restart, resetConnectionState, a new stream and a new I/O   *)
(* thread.                                                                 *)
Restart ==
    /\ pc["C"] = "restart"
    /\ conn' = conn + 1
    /\ genOk' = TRUE /\ notified' = FALSE /\ thread' = "on"
    /\ ioq' = Append(ioq, Task("dial", NoFrame))
    /\ LinkDown
    /\ past' = [Clean EXCEPT !.overlap = \E t \in {"H", "U"} : pc[t] \in InClose]
    /\ Goto("C", "dial")
    /\ UNCHANGED <<open, told, sock, io, channel, goal, hbRunning, stale, post, events>>

(* The dial failed: the I/O thread is joined, nobody is told. *)
DialGivenUp ==
    /\ pc["C"] = "dialFailed"
    /\ Goto("C", "join") /\ goal' = "failed"
    /\ open' = FALSE
    /\ UNCHANGED <<conn, genOk, notified, told, thread, sock, ioq, io, channel>>
    /\ UNCHANGED <<hbRunning, stale, post, network, past, events>>

(* kConnectTimeout, with the beginning of the close() it leads to. *)
DialTimeout ==
    /\ pc["C"] = "dial" /\ Event
    /\ genOk' = FALSE /\ open' = FALSE
    /\ ioq' = Append(ioq, Task("drain", NoFrame))
    /\ Goto("C", "join") /\ goal' = "closed"
    /\ UNCHANGED <<conn, notified, told, thread, sock, io, channel, hbRunning, stale, post>>
    /\ UNCHANGED <<network, past>>

(* Mutant: reset() leaves the number of the last frame sent. *)
ResetKeepsNumber(c) == [Fresh EXCEPT !.snd = c.snd]

(* ClientSecureChannel::reset *)
Reset(c) == Fresh

(* performAppHandshake up to its wait: the channel starts again. *)
Hello ==
    /\ pc["C"] = "hello"
    /\ stale' = FALSE
    /\ chan' = [Reset(chan) EXCEPT !.st = "HelloSent", !.hello = conn]
    /\ promise' = "wait"
    /\ ioq' = IF open THEN Append(ioq, Task("send", Frame("hello", conn, 0))) ELSE ioq
    /\ past' = [past EXCEPT !.intruded = @ \/ io \in {"sealing", "numbering"}]
    /\ Goto("C", "await")
    /\ UNCHANGED <<conn, transport, io, goal, hbRunning, post, network, events>>

HandshakeDone ==
    /\ pc["C"] = "await" /\ promise \in {"ok", "no"}
    /\ promise' = "none"
    /\ IF promise = "ok" THEN Goto("C", "beat") /\ UNCHANGED goal
       ELSE Goto("C", "close") /\ goal' = "closed"
    /\ UNCHANGED <<conn, transport, ioq, io, chan, hbRunning, stale, post, network, past, events>>

(* Fifteen seconds without an answer: a fault, unless none can come. *)
NoAnswerComes == ~open \/ link # "up" \/ srv.st = "Closed"

HandshakeTimeout ==
    /\ pc["C"] = "await" /\ promise = "wait"
    /\ IF NoAnswerComes THEN UNCHANGED events ELSE Event
    /\ promise' = "none"
    /\ Goto("C", "close") /\ goal' = "closed"
    /\ UNCHANGED <<conn, transport, ioq, io, chan, hbRunning, stale, post, network, past>>

(* startHeartbeat, then connectToServer returns true.  The thread of a     *)
(* heartbeat that is being stopped is still joinable: assigning to it ends *)
(* the program.                                                            *)
StartHeartbeat ==
    /\ pc["C"] = "beat"
    /\ past' = [past EXCEPT !.live = TRUE]
    /\ hbRunning' = TRUE
    /\ CASE hbRunning -> Goto("C", "idle") /\ UNCHANGED io
         [] ~hbRunning /\ pc["H"] # "none" -> Terminate
         [] OTHER -> pc' = [pc EXCEPT !["C"] = "idle", !["H"] = "wait"] /\ UNCHANGED io
    /\ UNCHANGED <<conn, transport, ioq, channel, goal, stale, post, network, events>>

ConnectThread ==
    \/ ConnectToServer \/ Restart \/ DialGivenUp \/ DialTimeout
    \/ Hello \/ HandshakeDone \/ HandshakeTimeout \/ StartHeartbeat
    \/ Close("C")

-----------------------------------------------------------------------------
(* H: the heartbeat thread.                                                *)

HeartbeatRound ==
    /\ pc["H"] = "wait" /\ (hbRunning => open)
    /\ CASE ~hbRunning -> Goto("H", "ended") /\ UNCHANGED events
         [] hbRunning /\ stale -> Goto("H", "close") /\ UNCHANGED events
         [] OTHER -> Event /\ Goto("H", "check")
    /\ UNCHANGED <<conn, transport, ioq, io, channel, goal, hbRunning, stale, post, network, past>>

(* Mutant: the number is drawn by the calling thread. *)
CheckSeals(t) ==
    /\ pc[t] = "check"
    /\ IF Established
       THEN /\ post' = [post EXCEPT ![t] = Task("send", Frame("sealed", chan.key, chan.snd + 1))]
            /\ chan' = [chan EXCEPT !.snd = @ + 1]
       ELSE post' = [post EXCEPT ![t] = NoTask] /\ UNCHANGED chan
    /\ Goto(t, "post")
    /\ UNCHANGED <<conn, transport, ioq, io, promise, goal, hbRunning, stale, network, past, events>>

(* sendPacket: on an established channel the packet is sealed on the I/O   *)
(* thread, otherwise it goes as it is.                                     *)
Check(t) ==
    /\ pc[t] = "check"
    /\ post' = [post EXCEPT ![t] =
                   IF Established THEN Task("encrypt", NoFrame) ELSE NoTask]
    /\ Goto(t, "post")
    /\ UNCHANGED <<conn, transport, ioq, io, channel, goal, hbRunning, stale, network, past, events>>

(* postToIo, or send(), which drops the packet when m_open is false. *)
Post(t) ==
    /\ pc[t] = "post"
    /\ ioq' = IF post[t].do = "encrypt" \/ open THEN Append(ioq, post[t]) ELSE ioq
    /\ post' = [post EXCEPT ![t] = NoTask]
    /\ Goto(t, IF t = "H" THEN "wait" ELSE "idle")
    /\ UNCHANGED <<conn, transport, io, channel, goal, hbRunning, stale, network, past, events>>

HeartbeatThread == HeartbeatRound \/ Check("H") \/ Post("H") \/ Close("H")

(* B: a thread of the program that finds isConnected() and sends. *)
ProgramSends ==
    /\ pc["B"] = "idle" /\ open
    /\ Event
    /\ Goto("B", "check")
    /\ UNCHANGED <<conn, transport, ioq, io, channel, goal, hbRunning, stale, post, network, past>>

ProgramThread == Check("B") \/ Post("B")

(* U: disconnect() by a thread of the program. *)
Disconnect ==
    /\ pc["U"] = "idle" /\ conn > 0
    /\ Event
    /\ hbRunning' = FALSE
    /\ Goto("U", IF hbRunning THEN "joinHeartbeat" ELSE "close")
    /\ UNCHANGED <<conn, transport, ioq, io, channel, goal, stale, post, network, past>>

HeartbeatJoined ==
    /\ pc["U"] = "joinHeartbeat" /\ pc["H"] = "ended"
    /\ pc' = [pc EXCEPT !["U"] = "close", !["H"] = "none"]
    /\ UNCHANGED <<conn, transport, ioq, io, channel, goal, hbRunning, stale, post, network, past, events>>

DisconnectThread == HeartbeatJoined \/ Close("U")

(* Time passes without a packet; while the link is up that is a fault. *)
Silence ==
    /\ conn > 0 /\ ~stale
    /\ IF link = "up" /\ srv.st # "Closed" THEN Event ELSE UNCHANGED events
    /\ stale' = TRUE
    /\ UNCHANGED <<conn, transport, ioq, io, channel, pc, goal, hbRunning, post, network, past>>

-----------------------------------------------------------------------------
(* The I/O thread.                                                         *)

Running == thread = "on" /\ io = "idle"
NextTask(do) == Running /\ ioq # <<>> /\ Head(ioq).do = do

TaskDial ==
    /\ NextTask("dial")
    /\ ioq' = Tail(ioq) /\ sock' = "dialing"
    /\ UNCHANGED <<conn, open, genOk, notified, told, thread, io, channel, client, network, past, events>>

(* The TLS handshake is over; the generation is compared. *)
DialOk ==
    /\ Running /\ sock = "dialing" /\ genOk /\ pc["C"] = "dial"
    /\ open' = TRUE /\ sock' = "open"
    /\ link' = "up" /\ srv' = NewSession
    /\ Goto("C", "hello")
    /\ UNCHANGED <<conn, genOk, notified, told, thread, ioq, io, channel>>
    /\ UNCHANGED <<goal, hbRunning, stale, post, c2s, s2c, past, events>>

DialFail ==
    /\ Running /\ sock = "dialing"
    /\ IF genOk THEN Event ELSE UNCHANGED events
    /\ sock' = "none"
    /\ pc' = [pc EXCEPT !["C"] = IF @ = "dial" THEN "dialFailed" ELSE @]
    /\ UNCHANGED <<conn, open, genOk, notified, told, thread, ioq, io, channel>>
    /\ UNCHANGED <<goal, hbRunning, stale, post, network, past>>

(* shutdownSocket; a dial under way ends with it, the server sees the end. *)
TaskDrain ==
    /\ NextTask("drain")
    /\ ioq' = Tail(ioq) /\ sock' = "none"
    /\ pc' = [pc EXCEPT !["C"] = IF @ = "dial" /\ sock = "dialing" THEN "dialFailed" ELSE @]
    /\ LinkDown
    /\ UNCHANGED <<conn, open, genOk, notified, told, thread, io, channel>>
    /\ UNCHANGED <<goal, hbRunning, stale, post, past, events>>

(* A frame goes out, unless the connection was closed meanwhile. *)
TaskSend ==
    /\ NextTask("send")
    /\ ioq' = Tail(ioq)
    /\ LET f == Head(ioq).frame IN
       /\ c2s' = IF open /\ link = "up" THEN Append(c2s, f) ELSE c2s
       /\ past' = [past EXCEPT !.intruded =
                      @ \/ (open /\ (f.kind = "plain" \/ f.key # conn))]
    /\ UNCHANGED <<conn, transport, io, channel, client, link, srv, s2c, events>>

(* The task of sendPacket looks at the channel again. *)
TaskEncrypt ==
    /\ NextTask("encrypt")
    /\ ioq' = Tail(ioq)
    /\ io' = IF Established THEN "sealing" ELSE "idle"
    /\ UNCHANGED <<conn, transport, channel, client, network, past, events>>

(* encrypt: its own look at the status spoils a channel that C has reset. *)
Seal ==
    /\ io = "sealing"
    /\ IF Established THEN io' = "numbering" /\ UNCHANGED chan
       ELSE io' = "idle" /\ chan' = [chan EXCEPT !.st = "Failed"]
    /\ UNCHANGED <<conn, transport, ioq, promise, client, network, past, events>>

(* The number is drawn and the frame goes to the end of the queue. *)
Number ==
    /\ io = "numbering"
    /\ io' = "idle"
    /\ chan' = [chan EXCEPT !.snd = @ + 1]
    /\ ioq' = IF open THEN Append(ioq, Task("send", Frame("sealed", chan.key, chan.snd + 1)))
              ELSE ioq
    /\ UNCHANGED <<conn, transport, promise, client, network, past, events>>

CanRead(kind) ==
    /\ Running /\ sock = "open" /\ genOk /\ s2c # <<>>
    /\ kind = Head(s2c).kind

(* close() on the I/O thread: the rest is posted and nobody is told. *)
CloseOnIo ==
    /\ genOk' = FALSE /\ open' = FALSE
    /\ ioq' = Append(ioq, Task("drain", NoFrame))

(* handleAppServerHello; the signature covers this connection's hello. *)
ReadServerHello ==
    /\ CanRead("serverHello")
    /\ s2c' = Tail(s2c) /\ stale' = FALSE
    /\ LET key == Head(s2c).key IN
       IF chan.st = "HelloSent" /\ key = chan.hello
       THEN /\ chan' = [chan EXCEPT !.st = "FinishedSent", !.key = key]
            /\ ioq' = IF open THEN Append(ioq, Task("send", Frame("finished", key, 0))) ELSE ioq
            /\ UNCHANGED <<promise, open, genOk>>
       ELSE /\ chan' = [chan EXCEPT !.st = "Failed"]
            /\ promise' = IF promise = "wait" THEN "no" ELSE promise
            /\ CloseOnIo
    /\ UNCHANGED <<conn, notified, told, thread, sock, io, pc, goal, hbRunning, post>>
    /\ UNCHANGED <<link, srv, c2s, past, events>>

(* handleAppServerFinished, completeHandshake *)
ReadServerFinished ==
    /\ CanRead("serverFinished")
    /\ s2c' = Tail(s2c) /\ stale' = FALSE
    /\ LET ok == chan.st = "FinishedSent" /\ Head(s2c).key = chan.key IN
       /\ chan' = [chan EXCEPT !.st = IF ok THEN "Established" ELSE "Failed"]
       /\ promise' = IF promise # "wait" THEN promise ELSE IF ok THEN "ok" ELSE "no"
       /\ IF ok THEN UNCHANGED <<open, genOk, ioq>> ELSE CloseOnIo
    /\ UNCHANGED <<conn, notified, told, thread, sock, io, pc, goal, hbRunning, post>>
    /\ UNCHANGED <<link, srv, c2s, past, events>>

(* handleAppEncryptedFrame: the next number under this session's keys, or  *)
(* the connection ends.  A packet may make the program disconnect.         *)
ReadSealed ==
    /\ CanRead("sealed")
    /\ s2c' = Tail(s2c) /\ stale' = FALSE
    /\ LET f == Head(s2c) IN
       IF Established /\ f.key = chan.key /\ f.seq = chan.rcv + 1
       THEN /\ chan' = [chan EXCEPT !.rcv = f.seq]
            /\ \/ io' = "idle" /\ UNCHANGED events
               \/ Event /\ io' = "disconnect"
            /\ UNCHANGED <<open, genOk, ioq>>
       ELSE /\ chan' = [chan EXCEPT !.st = IF Established THEN "Failed" ELSE @]
            /\ CloseOnIo
            /\ UNCHANGED <<io, events>>
    /\ UNCHANGED <<conn, notified, told, thread, sock, promise, pc, goal, hbRunning, post>>
    /\ UNCHANGED <<link, srv, c2s, past>>

(* disconnect() in a callback: the heartbeat thread is joined, even when   *)
(* it is itself waiting for the I/O thread.                                *)
DisconnectOnIo ==
    /\ io = "disconnect"
    /\ hbRunning' = FALSE
    /\ past' = [past EXCEPT !.byApp = TRUE]
    /\ IF hbRunning THEN io' = "joinHeartbeat" /\ UNCHANGED <<open, genOk, ioq>>
       ELSE io' = "idle" /\ CloseOnIo
    /\ UNCHANGED <<conn, notified, told, thread, sock, channel, pc, goal, stale, post, network, events>>

HeartbeatJoinedOnIo ==
    /\ io = "joinHeartbeat" /\ pc["H"] = "ended"
    /\ Goto("H", "none")
    /\ io' = "idle" /\ CloseOnIo
    /\ UNCHANGED <<conn, notified, told, thread, sock, channel, goal, hbRunning, stale, post>>
    /\ UNCHANGED <<network, past, events>>

(* Mutant: failClose leaves m_open. *)
ReadEndStaysOpen ==
    /\ Running /\ sock = "open" /\ genOk
    /\ link = "up" /\ srv.st = "Closed" /\ s2c = <<>>
    /\ sock' = "none" /\ LinkDown
    /\ NotifyClose
    /\ UNCHANGED <<conn, open, genOk, thread, ioq, io, channel, client, past, events>>

(* failClose: the read reports the end of the stream. *)
ReadEnd ==
    /\ Running /\ sock = "open" /\ genOk
    /\ link = "up" /\ srv.st = "Closed" /\ s2c = <<>>
    /\ open' = FALSE /\ sock' = "none" /\ LinkDown
    /\ NotifyClose
    /\ UNCHANGED <<conn, genOk, thread, ioq, io, channel, client, past, events>>

(* m_io.run() has nothing left to do. *)
IoExit ==
    /\ Running /\ ioq = <<>> /\ sock = "none"
    /\ thread' = "ended"
    /\ UNCHANGED <<conn, open, genOk, notified, told, sock, ioq, io, channel, client, network, past, events>>

IoThread ==
    \/ TaskDial \/ DialOk \/ DialFail \/ TaskDrain \/ TaskSend \/ TaskEncrypt \/ Seal \/ Number
    \/ ReadServerHello \/ ReadServerFinished \/ ReadSealed \/ ReadEnd
    \/ DisconnectOnIo \/ HeartbeatJoinedOnIo \/ IoExit

-----------------------------------------------------------------------------
(* The server's session and the network.                                   *)

SessionOpen == link = "up" /\ srv.st # "Closed"

(* failApplicationHandshake; what was not yet sent may be lost. *)
Refuse ==
    /\ srv' = [srv EXCEPT !.st = "Closed", !.refused = TRUE]
    /\ s2c' \in {s2c, <<>>}

(* doReadBody: one frame. *)
SessionRead ==
    /\ SessionOpen /\ c2s # <<>>
    /\ c2s' = Tail(c2s)
    /\ LET f == Head(c2s) IN
       CASE srv.st = "WaitClientHello" /\ f.kind = "hello" ->
               /\ srv' = [srv EXCEPT !.st = "WaitClientFinished", !.key = f.key]
               /\ s2c' = Append(s2c, Frame("serverHello", f.key, 0))
         [] srv.st = "WaitClientFinished" /\ f.kind = "finished" /\ f.key = srv.key ->
               /\ srv' = [srv EXCEPT !.st = "Established"]
               /\ s2c' = Append(s2c, Frame("serverFinished", f.key, 0))
         [] srv.st = "Established" /\ f.kind = "sealed" /\ f.key = srv.key /\ f.seq = srv.rcv + 1 ->
               srv' = [srv EXCEPT !.rcv = f.seq] /\ UNCHANGED s2c
         [] OTHER -> Refuse
    /\ UNCHANGED <<conn, transport, ioq, io, channel, client, link, past, events>>

(* deliver: an answer, or a packet of another client. *)
SessionDeliver ==
    /\ SessionOpen /\ srv.st = "Established" /\ srv.rcv > 0
    /\ Event
    /\ srv' = [srv EXCEPT !.snd = @ + 1]
    /\ s2c' = Append(s2c, Frame("sealed", srv.key, srv.snd + 1))
    /\ UNCHANGED <<conn, transport, ioq, io, channel, client, link, c2s, past>>

(* The handshake timer of the server, or a session it closes by itself. *)
SessionCloses ==
    /\ SessionOpen /\ Event
    /\ srv' = [srv EXCEPT !.st = "Closed"]
    /\ s2c' \in {s2c, <<>>}
    /\ UNCHANGED <<conn, transport, ioq, io, channel, client, link, c2s, past>>

(* The network goes away without a word. *)
Cut ==
    /\ link = "up" /\ Event
    /\ link' = "cut" /\ c2s' = <<>> /\ s2c' = <<>>
    /\ UNCHANGED <<conn, transport, ioq, io, channel, client, srv, past>>

-----------------------------------------------------------------------------
ConnectionNext ==
    \/ ConnectThread \/ HeartbeatThread \/ ProgramSends \/ ProgramThread
    \/ Disconnect \/ DisconnectThread \/ Silence
    \/ IoThread
    \/ SessionRead \/ SessionDeliver \/ SessionCloses \/ Cut

ConnectionSpec == ConnectionInit /\ [][ConnectionNext]_connectionVars

(* Threads go on with what they have begun, and time passes on a link that *)
(* is gone.  connectToServer, disconnect and sendPacket need not be called *)
(* again.  Every behaviour within the bounds comes to rest, so that one    *)
(* condition for all threads says what one for each would.                 *)
ThreadGoesOn ==
    \/ IoThread \/ (ConnectThread /\ pc["C"] # "idle")
    \/ HeartbeatThread \/ DisconnectThread
    \/ Silence /\ (link # "up" \/ srv.st = "Closed")

ConnectionFairSpec == ConnectionSpec /\ WF_connectionVars(ThreadGoesOn)

-----------------------------------------------------------------------------
Threads == {"C", "H", "B", "U"}
Places == {"idle", "none", "close", "join", "joining", "report", "restart", "dial", "dialFailed",
           "hello", "await", "beat", "wait", "check", "post", "ended", "joinHeartbeat", "terminated"}

ConnectionTypeOK ==
    /\ conn \in 0..MaxConns /\ told \in 0..MaxConns
    /\ {open, genOk, notified, hbRunning, stale} \subseteq BOOLEAN
    /\ thread \in {"none", "on", "ended"} /\ sock \in {"none", "dialing", "open"}
    /\ io \in {"idle", "sealing", "numbering", "disconnect", "joinHeartbeat", "terminated"}
    /\ \A i \in DOMAIN ioq : ioq[i].do \in {"dial", "drain", "send", "encrypt"}
    /\ promise \in {"none", "wait", "ok", "no"}
    /\ pc \in [Threads -> Places] /\ goal \in {"dial", "closed", "failed"}
    /\ open /\ ~Dead => thread = "on" /\ sock = "open" /\ genOk
    /\ link \in {"none", "up", "cut"}
    /\ \A i \in DOMAIN c2s : c2s[i].kind \in Kinds
    /\ \A i \in DOMAIN s2c : s2c[i].kind \in Kinds \ {"plain"}

(* A sequence of sealed frames only, with the numbers first + 1 .. last. *)
NumberedFrom(q, first, last, key) ==
    q = [i \in 1..(last - first) |-> Frame("sealed", key, first + i)]

(* The same of the sealed frames among others. *)
SealedIn(q) == {i \in DOMAIN q : q[i].kind = "sealed"}
SealedNumberedFrom(q, first, last, key) ==
    /\ {q[i].seq : i \in SealedIn(q)} = (first + 1)..last
    /\ \A i, j \in SealedIn(q) : i < j => q[i].seq < q[j].seq
    /\ \A i \in SealedIn(q) : q[i].key = key

Posted == [i \in DOMAIN ioq |-> ioq[i].frame]

(* Both ends established on an open connection into whose handshake nobody *)
(* sent: they use the same keys, and the sealed frames that one end has    *)
(* numbered and the other not yet read, those still queued for the I/O     *)
(* thread included, follow each other without a gap in both directions     *)
(* (sendPacket, encrypt, decrypt, handleEncryptedFrame).                   *)
InStep ==
    open /\ link = "up" /\ Established /\ srv.st = "Established" /\ chan.hello = conn /\ ~past.intruded
    => /\ chan.key = srv.key
       /\ SealedNumberedFrom(c2s \o Posted, srv.rcv, chan.snd, srv.key)
       /\ NumberedFrom(s2c, chan.rcv, srv.snd, srv.key)

(* A connection is refused by the server, or spoiled for the client, only  *)
(* when another thread sent a packet in the clear or under the old keys,   *)
(* or was sealing one when the channel was reset: never because of its own *)
(* handshake, of a late task of the connection before it, or of the        *)
(* numbers of its frames (failApplicationHandshake, ClientSecureChannel::  *)
(* fail).                                                                  *)
RefusedOnlyIfIntruded ==
    ~past.intruded => ~srv.refused /\ (chan.hello = conn => chan.st # "Failed")

Over == ~open \/ link # "up" \/ srv.st = "Closed"

(* The end of a connection that connectToServer returned true for is       *)
(* reported, however it ended: by the server, by another thread's close(), *)
(* or by a network that is silently gone, which only the heartbeat thread  *)
(* notices.  Left out are a disconnect() in a callback, which tells nobody;*)
(* a connection begun while another thread was inside close(), for whose   *)
(* join() the new I/O thread is the old one; and a program that has ended  *)
(* (notifyClose, startHeartbeat, stopIoThread).                            *)
CloseReported ==
    \A c \in 1..MaxConns :
        (conn = c /\ past.live /\ Over /\ ~past.overlap) ~> (told = c \/ past.byApp \/ Dead)
=============================================================================
