----------------------------- MODULE ChatServer -----------------------------
(***************************************************************************)
(* The message path of im_server: the connections (session/Session.cpp),   *)
(* the registry of online users (session/Presence.cpp), the chat handler   *)
(* (handlers/MessageHandler.cpp), the part of the login handlers that      *)
(* registers a connection and catches up on offline messages               *)
(* (handlers/AuthHandler.cpp, activateSession) and the messages table      *)
(* (db/Database.cpp).                                                      *)
(*                                                                         *)
(* Every connection has a business strand: its packets are handled one at  *)
(* a time, in order, concurrently with the handlers of other connections   *)
(* (the code may give two connections the same strand, which only takes    *)
(* interleavings away).  A handler is cut into steps where it calls the    *)
(* presence registry, the database or another session; each of those calls *)
(* is atomic (a mutex, or a task of the single database writer).  A frame  *)
(* already posted to the strand is handled even after its connection has   *)
(* closed.                                                                 *)
(*                                                                         *)
(* FriendStatus packets, which activateSession also sends, change no       *)
(* state of this module and are left out.                                  *)
(***************************************************************************)
EXTENDS Naturals, FiniteSets, FiniteSetsExt, Sequences

CONSTANTS
    Users,        \* account ids
    Conns,        \* connections; each is accepted at most once
    Msgs,         \* msg_ids, chosen by the sending client
    MediaMsgs,    \* the messages of type IMAGE or FILE
    From, To,     \* sender and receiver of a message
    Home,         \* the account whose client opens a connection
    Unfriend,     \* bound: the friendships that may be dissolved
    None,         \* a null shared_ptr / no user
    MaxQueue,     \* bound: frames waiting on one business strand
    MaxSends,     \* bound: transmissions of one message by its client
    MaxRestarts   \* bound: restarts of the server process

ASSUME ChatAssumption ==
    /\ IsFiniteSet(Msgs)
    /\ MediaMsgs \subseteq Msgs
    /\ From \in [Msgs -> Users] /\ To \in [Msgs -> Users]
    /\ \A m \in Msgs : From[m] # To[m]
    /\ Home \in [Conns -> Users]
    /\ None \notin Conns /\ None \notin Users /\ None \notin Msgs
    /\ MaxQueue \in Nat /\ MaxSends \in Nat /\ MaxRestarts \in Nat

VARIABLES
    conn,       \* Session: new | open | closing (closeAfterWrite) | closed
    uid,        \* Session::m_userId
    inq,        \* frames posted to the business strand, not yet handled
    pc,         \* the step the handler on the business strand takes next
    cur,        \* onChat: the message it handles
    target,     \* onChat: the session it found for the receiver
    ids, todo,  \* activateSession: the messages pulled, and still to push
    wire,       \* packets delivered to a session, not yet read by its client
    presence,   \* Presence::m_map
    seq,        \* messages.seq, 0 when the message has no row
    delivered,  \* messages.is_delivered
    friends,    \* the friends table, as a set of unordered pairs
    upload,     \* HttpFileServer::m_upload, by the message the file is for:
                \* none (not uploaded yet) | held (a record) | gone
    got,        \* messages the receiving client has read
    answer,     \* the last ChatInfoRs the sending client has read
    sends,      \* transmissions of a message so far
    pushed,     \* history: messages handed to a session of their receiver
    restarts    \* number of server restarts so far

net  == <<conn, inq, wire>>
auth == <<uid, presence>>
job  == <<pc, cur, target, ids, todo>>
db   == <<seq, delivered>>
client == <<got, answer, sends>>
vars == <<conn, uid, inq, pc, cur, target, ids, todo, wire, presence, seq, delivered, friends,
          upload, got, answer, sends, pushed, restarts>>

Results == {"SUCC", "FAIL", "NOT_FRIEND", "FILE_NOT_OWNED", "SERVER_ERROR"}

(* ChatInfoRq pushed to a receiver, ChatInfoRs answered to a sender. *)
Push(m, n)      == [kind |-> "rq", msg |-> m, seq |-> n, result |-> "SUCC"]
Reply(m, r, n)  == [kind |-> "rs", msg |-> m, seq |-> n, result |-> r]
Packets == [kind : {"rq", "rs"}, msg : Msgs, seq : Nat, result : Results]

Frames == [op : {"login"}, msg : {None}] \cup [op : {"chat"}, msg : Msgs]

Steps == {"idle", "get", "save", "push", "replace", "pull", "resend"}

Pair(m) == {From[m], To[m]}

Init ==
    /\ conn = [c \in Conns |-> "new"]
    /\ uid = [c \in Conns |-> None]
    /\ inq = [c \in Conns |-> <<>>]
    /\ pc = [c \in Conns |-> "idle"]
    /\ cur = [c \in Conns |-> None]
    /\ target = [c \in Conns |-> None]
    /\ ids = [c \in Conns |-> {}]
    /\ todo = [c \in Conns |-> {}]
    /\ wire = [c \in Conns |-> {}]
    /\ presence = [u \in Users |-> None]
    /\ seq = [m \in Msgs |-> 0]
    /\ delivered = [m \in Msgs |-> FALSE]
    /\ friends = {Pair(m) : m \in Msgs}
    /\ upload = [m \in Msgs |-> "none"]
    /\ got = [u \in Users |-> {}]
    /\ answer = [m \in Msgs |-> "none"]
    /\ sends = [m \in Msgs |-> 0]
    /\ pushed = {}
    /\ restarts = 0

(* The handler of c goes on to step p with these locals. *)
SetJob(c, p, m, t, i, d) ==
    /\ pc' = [pc EXCEPT ![c] = p]
    /\ cur' = [cur EXCEPT ![c] = m]
    /\ target' = [target EXCEPT ![c] = t]
    /\ ids' = [ids EXCEPT ![c] = i]
    /\ todo' = [todo EXCEPT ![c] = d]

EndJob(c) == SetJob(c, "idle", None, None, {}, {})

-----------------------------------------------------------------------------
(* A Session object lives while its socket is open, while a frame or a     *)
(* handler of its strand holds it, or while another handler targets it;    *)
(* Presence keeps only a weak_ptr to it.                                   *)
Alive(c) == \/ conn[c] \in {"open", "closing"}
            \/ inq[c] # <<>>
            \/ pc[c] # "idle"
            \/ \E d \in Conns : target[d] = c

(* Presence::get *)
Get(u) == IF presence[u] # None /\ Alive(presence[u]) THEN presence[u] ELSE None

(* Mutant: a closed session still queues what it is given. *)
DeliverToClosed(w, c, p) == IF c # None THEN [w EXCEPT ![c] = @ \cup {p}] ELSE w

(* Session::deliver: posted to the session's strand, dropped once the      *)
(* session has closed.                                                     *)
Deliver(w, c, p) == IF c # None /\ conn[c] \in {"open", "closing"}
                    THEN [w EXCEPT ![c] = @ \cup {p}]
                    ELSE w

(* Database::saveMessage: SELECT COALESCE(MAX(seq),0)+1 of the conversation. *)
ConvSeqs(p) == {seq[m] : m \in {x \in Msgs : Pair(x) = p /\ seq[x] > 0}}

(* Mutant: MAX(seq) without the + 1. *)
NextSeqIsMax(p) == IF ConvSeqs(p) = {} THEN 1 ELSE Max(ConvSeqs(p))

NextSeq(p) == IF ConvSeqs(p) = {} THEN 1 ELSE Max(ConvSeqs(p)) + 1

(* HttpFileServer::eraseUploadRecord *)
EraseUpload(m) == [upload EXCEPT ![m] = IF @ = "held" THEN "gone" ELSE @]

(* Mutant: the row is replaced, the msg_id is not looked up first. *)
SaveMessageReplaces(m, online) ==
    /\ seq' = [seq EXCEPT ![m] = NextSeq(Pair(m))]
    /\ delivered' = [delivered EXCEPT ![m] = online]

(* The idempotent read and the INSERT of saveMessage, one write transaction. *)
SaveMessage(m, online) ==
    IF seq[m] > 0
    THEN UNCHANGED db
    ELSE /\ seq' = [seq EXCEPT ![m] = NextSeq(Pair(m))]
         /\ delivered' = [delivered EXCEPT ![m] = online]

-----------------------------------------------------------------------------
(* Clients.                                                                *)

(* A connection is accepted and sends its login request (password or       *)
(* token); its credentials are valid.                                      *)
Connect(c) ==
    /\ conn[c] = "new"
    /\ conn' = [conn EXCEPT ![c] = "open"]
    /\ inq' = [inq EXCEPT ![c] = <<[op |-> "login", msg |-> None]>>]
    /\ UNCHANGED <<wire, auth, job, db, friends, upload, client, pushed, restarts>>

(* The outbox sends a message until it reads a final answer for it; a      *)
(* media message is put in the outbox once its file has been uploaded.     *)
ClientChat(c, m) ==
    /\ conn[c] \in {"open", "closing"} /\ uid[c] = From[m] /\ Home[c] = From[m]
    /\ answer[m] \in {"none", "SERVER_ERROR"}
    /\ m \in MediaMsgs => upload[m] # "none"
    /\ Len(inq[c]) < MaxQueue /\ sends[m] < MaxSends
    /\ sends' = [sends EXCEPT ![m] = @ + 1]
    /\ inq' = [inq EXCEPT ![c] = Append(@, [op |-> "chat", msg |-> m])]
    /\ UNCHANGED <<conn, wire, auth, job, db, friends, upload, got, answer, pushed, restarts>>

ClientRead(c, p) ==
    /\ conn[c] \in {"open", "closing"} /\ p \in wire[c]
    /\ wire' = [wire EXCEPT ![c] = @ \ {p}]
    /\ IF p.kind = "rq"
       THEN /\ got' = [got EXCEPT ![Home[c]] = @ \cup {p.msg}]
            /\ UNCHANGED answer
       ELSE /\ answer' = [answer EXCEPT ![p.msg] = p.result]
            /\ UNCHANGED got
    /\ UNCHANGED <<conn, inq, auth, job, db, friends, upload, sends, pushed, restarts>>

(* The client has uploaded the message's file (any of the upload paths). *)
FileUploaded(m) ==
    /\ m \in MediaMsgs /\ upload[m] = "none" /\ Pair(m) \in friends
    /\ upload' = [upload EXCEPT ![m] = "held"]
    /\ UNCHANGED <<net, auth, job, db, friends, client, pushed, restarts>>

-----------------------------------------------------------------------------
(* Frames leaving the strand: Server::dispatchPacket and the first checks  *)
(* of the handlers.                                                        *)

Dispatchable(c, op) ==
    pc[c] = "idle" /\ inq[c] # <<>> /\ Head(inq[c]).op = op

(* The access token of the connection has expired: the frame is dropped    *)
(* and the session closed before any handler sees it.                      *)
DispatchExpired(c) ==
    /\ pc[c] = "idle" /\ inq[c] # <<>> /\ uid[c] # None
    /\ inq' = [inq EXCEPT ![c] = Tail(@)]
    /\ conn' = [conn EXCEPT ![c] = IF @ = "open" THEN "closing" ELSE @]
    /\ UNCHANGED <<wire, auth, job, db, friends, upload, client, pushed, restarts>>

(* onLogin/onTokenLogin up to bindAuth. *)
StartLogin(c) ==
    /\ Dispatchable(c, "login") /\ uid[c] = None
    /\ inq' = [inq EXCEPT ![c] = Tail(@)]
    /\ uid' = [uid EXCEPT ![c] = Home[c]]
    /\ SetJob(c, "replace", None, None, {}, {})
    /\ UNCHANGED <<conn, wire, presence, db, friends, upload, client, pushed, restarts>>

Refuse(c, m, r) ==
    /\ wire' = Deliver(wire, c, Reply(m, r, 0))
    /\ UNCHANGED job

(* onChat up to the presence lookup. *)
StartChat(c) ==
    /\ Dispatchable(c, "chat") /\ uid[c] # None
    /\ inq' = [inq EXCEPT ![c] = Tail(@)]
    /\ LET m == Head(inq[c]).msg IN
       \/ Pair(m) \notin friends /\ Refuse(c, m, "NOT_FRIEND")
       \/ /\ Pair(m) \in friends
          /\ m \in MediaMsgs /\ upload[m] # "held"
          /\ Refuse(c, m, "FILE_NOT_OWNED")
       \/ /\ Pair(m) \in friends
          /\ m \in MediaMsgs => upload[m] = "held"
          /\ SetJob(c, "get", m, None, {}, {})
          /\ UNCHANGED wire
    /\ UNCHANGED <<conn, auth, db, friends, upload, client, pushed, restarts>>

-----------------------------------------------------------------------------
(* onChat, after its checks.                                               *)

ChatGet(c) ==
    /\ pc[c] = "get"
    /\ SetJob(c, "save", cur[c], Get(To[cur[c]]), {}, {})
    /\ UNCHANGED <<net, auth, db, friends, upload, client, pushed, restarts>>

ChatSave(c) ==
    /\ pc[c] = "save"
    /\ SaveMessage(cur[c], target[c] # None)
    /\ SetJob(c, "push", cur[c], target[c], {}, {})
    /\ UNCHANGED <<net, auth, friends, upload, client, pushed, restarts>>

ChatSaveFails(c) ==
    /\ pc[c] = "save"
    /\ wire' = Deliver(wire, c, Reply(cur[c], "SERVER_ERROR", 0))
    /\ EndJob(c)
    /\ UNCHANGED <<conn, inq, auth, db, friends, upload, client, pushed, restarts>>

ChatPush(c) ==
    LET m == cur[c]
        t == target[c]
        n == seq[m]
    IN  /\ pc[c] = "push"
        /\ upload' = EraseUpload(m)
        /\ IF t # None
           THEN /\ wire' = Deliver(Deliver(wire, t, Push(m, n)), c, Reply(m, "SUCC", n))
                /\ pushed' = pushed \cup {m}
           ELSE /\ wire' = Deliver(wire, c, Reply(m, "FAIL", n))
                /\ UNCHANGED pushed
        /\ EndJob(c)
        /\ UNCHANGED <<conn, inq, auth, db, friends, client, restarts>>

-----------------------------------------------------------------------------
(* activateSession.                                                        *)

(* Presence::replace, then the old session is told and closes once its     *)
(* packets are written.                                                    *)
ActReplace(c) ==
    LET u   == uid[c]
        old == Get(u)
    IN  /\ pc[c] = "replace"
        /\ presence' = [presence EXCEPT ![u] = c]
        /\ conn' = IF old # None /\ old # c
                   THEN [conn EXCEPT ![old] = IF @ = "open" THEN "closing" ELSE @]
                   ELSE conn
        /\ SetJob(c, "pull", None, None, {}, {})
        /\ UNCHANGED <<inq, wire, uid, db, friends, upload, client, pushed, restarts>>

(* Database::pullUndelivered *)
Undelivered(u) == {m \in Msgs : To[m] = u /\ seq[m] > 0 /\ ~delivered[m]}

ActPull(c) ==
    /\ pc[c] = "pull"
    /\ SetJob(c, "resend", None, None, Undelivered(uid[c]), Undelivered(uid[c]))
    /\ UNCHANGED <<net, auth, db, friends, upload, client, pushed, restarts>>

(* One message of the catch-up loop: it is pushed to the new session, and  *)
(* its sender, when online, gets the receipt it missed.                    *)
ActResend(c, m) ==
    /\ pc[c] = "resend" /\ m \in todo[c]
    /\ wire' = Deliver(Deliver(wire, c, Push(m, seq[m])),
                       Get(From[m]), Reply(m, "SUCC", seq[m]))
    /\ pushed' = pushed \cup {m}
    /\ SetJob(c, "resend", None, None, ids[c], todo[c] \ {m})
    /\ UNCHANGED <<conn, inq, auth, db, friends, upload, client, restarts>>

(* Database::markDelivered, the end of activateSession. *)
ActMark(c) ==
    /\ pc[c] = "resend" /\ todo[c] = {}
    /\ delivered' = [m \in Msgs |-> delivered[m] \/ m \in ids[c]]
    /\ EndJob(c)
    /\ UNCHANGED <<net, auth, seq, friends, upload, client, pushed, restarts>>

-----------------------------------------------------------------------------
(* Mutant: the entry is erased whichever session it names. *)
OfflineAny(u, c) == [presence EXCEPT ![u] = None]

(* Presence::offline, only when the map still holds this very session. *)
Offline(u, c) == IF presence[u] = c THEN [presence EXCEPT ![u] = None] ELSE presence

(* Session::onClosed and Server::onSessionClosed: the peer left, the write *)
(* queue of a closing session drained, or hbScanLoop found it stale.       *)
Close(c) ==
    /\ conn[c] \in {"open", "closing"}
    /\ conn' = [conn EXCEPT ![c] = "closed"]
    /\ wire' = [wire EXCEPT ![c] = {}]
    /\ presence' = IF uid[c] = None THEN presence ELSE Offline(uid[c], c)
    /\ UNCHANGED <<inq, uid, job, db, friends, upload, client, pushed, restarts>>

(* FriendHandler::onDeleteFriend, as this module sees it. *)
DeleteFriend(p) ==
    /\ p \in friends \cap Unfriend
    /\ friends' = friends \ {p}
    /\ UNCHANGED <<net, auth, job, db, upload, client, pushed, restarts>>

(* HttpFileServer::gcLoop drops a record that no message claimed for 24 h. *)
GcUpload(m) ==
    /\ upload[m] = "held"
    /\ upload' = EraseUpload(m)
    /\ UNCHANGED <<net, auth, job, db, friends, client, pushed, restarts>>

(* The process stops: connections, handlers, the presence map and the      *)
(* upload records are memory, the tables survive.                          *)
Restart ==
    /\ restarts < MaxRestarts
    /\ restarts' = restarts + 1
    /\ conn' = [c \in Conns |-> IF conn[c] = "new" THEN "new" ELSE "closed"]
    /\ inq' = [c \in Conns |-> <<>>]
    /\ pc' = [c \in Conns |-> "idle"]
    /\ cur' = [c \in Conns |-> None]
    /\ target' = [c \in Conns |-> None]
    /\ ids' = [c \in Conns |-> {}]
    /\ todo' = [c \in Conns |-> {}]
    /\ wire' = [c \in Conns |-> {}]
    /\ presence' = [u \in Users |-> None]
    /\ upload' = [m \in Msgs |-> IF upload[m] = "held" THEN "gone" ELSE upload[m]]
    /\ UNCHANGED <<uid, db, friends, client, pushed>>

Next ==
    \/ \E c \in Conns :
        \/ Connect(c) \/ DispatchExpired(c)
        \/ StartLogin(c) \/ StartChat(c)
        \/ ChatGet(c) \/ ChatSave(c) \/ ChatSaveFails(c) \/ ChatPush(c)
        \/ ActReplace(c) \/ ActPull(c) \/ ActMark(c) \/ Close(c)
        \/ \E m \in Msgs : ClientChat(c, m) \/ ActResend(c, m)
        \/ \E p \in wire[c] : ClientRead(c, p)
    \/ \E m \in Msgs : FileUploaded(m) \/ GcUpload(m)
    \/ \E p \in friends : DeleteFriend(p)
    \/ Restart

Spec == Init /\ [][Next]_vars

-----------------------------------------------------------------------------
NetType ==
    /\ conn \in [Conns -> {"new", "open", "closing", "closed"}]
    /\ inq \in [Conns -> Seq(Frames)]
    /\ wire \in [Conns -> SUBSET Packets]
    /\ \A c \in Conns : conn[c] \in {"new", "closed"} => wire[c] = {}

JobType ==
    /\ pc \in [Conns -> Steps]
    /\ cur \in [Conns -> Msgs \cup {None}]
    /\ target \in [Conns -> Conns \cup {None}]
    /\ ids \in [Conns -> SUBSET Msgs]
    /\ todo \in [Conns -> SUBSET Msgs]
    /\ \A c \in Conns : pc[c] \in {"get", "save", "push"} => cur[c] \in Msgs
    /\ \A c \in Conns : pc[c] \in {"replace", "pull", "resend"} => uid[c] \in Users

DataType ==
    /\ uid \in [Conns -> Users \cup {None}]
    /\ presence \in [Users -> Conns \cup {None}]
    /\ seq \in [Msgs -> Nat]
    /\ delivered \in [Msgs -> BOOLEAN]
    /\ friends \in SUBSET SUBSET Users
    /\ upload \in [Msgs -> {"none", "held", "gone"}]
    /\ got \in [Users -> SUBSET Msgs]
    /\ answer \in [Msgs -> Results \cup {"none"}]
    /\ sends \in [Msgs -> Nat]
    /\ pushed \in SUBSET Msgs
    /\ restarts \in Nat

(* The variables hold what the code's types allow; a session that is not   *)
(* open has nothing queued for its client, and a handler that runs has the *)
(* message or the user it works for.                                       *)
TypeOK == NetType /\ JobType /\ DataType

-----------------------------------------------------------------------------
Stored(m) == seq[m] > 0

(* saveMessage numbers the messages of a conversation 1, 2, 3, ... with no  *)
(* number used twice and none skipped, whichever handlers, retries,        *)
(* failures and restarts interleave; the clients' gap detection            *)
(* (SyncTracker) takes every hole for a lost message.                      *)
SeqDense ==
    /\ \A m1, m2 \in Msgs :
          Stored(m1) /\ Pair(m1) = Pair(m2) /\ seq[m1] = seq[m2] => m1 = m2
    /\ \A m \in Msgs : seq[m] > 1 =>
          \E k \in Msgs : Pair(k) = Pair(m) /\ seq[k] = seq[m] - 1

(* onChat and activateSession store a message before anyone hears of it: a *)
(* pushed message, or an answer that is not a refusal, carries the number  *)
(* under which the message is stored.                                      *)
StoredBeforeSent ==
    /\ \A c \in Conns : \A p \in wire[c] :
          IF p.result \in {"SUCC", "FAIL"} THEN Stored(p.msg) /\ p.seq = seq[p.msg]
                                           ELSE p.seq = 0
    /\ \A u \in Users : \A m \in got[u] : Stored(m) /\ To[m] = u
    /\ \A m \in Msgs : answer[m] \in {"SUCC", "FAIL"} => Stored(m)

(* A connection that logged in and has been neither kicked nor closed is   *)
(* the one Presence names for its user: no close, late login or kick of    *)
(* another connection of the user makes a working connection unreachable.  *)
OnlineReachable ==
    \A c \in Conns :
        conn[c] = "open" /\ uid[c] # None /\ pc[c] # "replace"
            => presence[uid[c]] = c

(* is_delivered is set only for a message that was handed to a session of  *)
(* its receiver, or that the running handler is about to hand over; only a *)
(* restart of the process between the two steps of onChat loses that.      *)
DeliveredWasPushed ==
    restarts = 0 =>
        \A m \in Msgs : delivered[m] =>
            \/ m \in pushed
            \/ \E c \in Conns : pc[c] = "push" /\ cur[c] = m
                               /\ target[c] # None

(* A stored message keeps its number for ever, and is_delivered is never   *)
(* taken back: a retry (same msg_id) or a catch-up changes neither.        *)
RowsAreFinal ==
    [][\A m \in Msgs : Stored(m) =>
          seq'[m] = seq[m] /\ (delivered[m] => delivered'[m])]_vars

Quiet == \A c \in Conns : pc[c] = "idle" /\ inq[c] = <<>>
InFlight(m) == \E c \in Conns : \E p \in wire[c] : p.kind = "rq" /\ p.msg = m

(* README: an offline receiver's messages keep their pending state until   *)
(* they are re-sent after reconnecting.  With no handler running, a stored *)
(* message its receiver has not read and that is on no connection is       *)
(* still pending.                                                          *)
KeptForCatchUp ==
    Quiet => \A m \in Msgs :
        Stored(m) /\ m \notin got[To[m]] /\ ~InFlight(m) => ~delivered[m]

(* README: a retry reuses the msg_id and gets the seq of the first         *)
(* processing.  The answer to a message that is stored is never            *)
(* FILE_NOT_OWNED.                                                         *)
RetryGetsFirstSeq ==
    \A c \in Conns : \A p \in wire[c] : p.result = "FILE_NOT_OWNED" => ~Stored(p.msg)
=============================================================================
