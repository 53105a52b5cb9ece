-------------------------- MODULE ChatServerProofs --------------------------
(***************************************************************************)
(* What holds of the message path for every set of users, connections and  *)
(* messages, and for every bound on queues, transmissions and restarts.    *)
(***************************************************************************)
EXTENDS ChatServer, TLAPS

(* The strengthening of SeqDense that is inductive: the numbers of a       *)
(* conversation are exactly 1..n, so that MAX(seq) exists and is n.        *)
SeqInjective ==
    \A m1, m2 \in Msgs :
        Stored(m1) /\ Pair(m1) = Pair(m2) /\ seq[m1] = seq[m2] => m1 = m2
ConvIsInterval == \A m \in Msgs : \E n \in Nat : ConvSeqs(Pair(m)) = 1..n
ConvInv == SeqInjective /\ ConvIsInterval

-----------------------------------------------------------------------------
(* Handing a packet to a session keeps every queue a set of packets, and   *)
(* the queues of sessions that are not open empty.                         *)
LEMMA DeliverType ==
    ASSUME NEW w \in [Conns -> SUBSET Packets], NEW c \in Conns \cup {None},
           NEW p \in Packets
    PROVE  /\ Deliver(w, c, p) \in [Conns -> SUBSET Packets]
           /\ \A d \in Conns : Deliver(w, c, p)[d] # w[d]
                                  => conn[d] \in {"open", "closing"}
  BY ChatAssumption DEF Deliver

(* Presence::get returns a connection or null. *)
LEMMA GetType ==
    ASSUME DataType, NEW u \in Users
    PROVE  Get(u) \in Conns \cup {None}
  BY DEF DataType, Get

LEMMA PacketType ==
    ASSUME NEW m \in Msgs, NEW n \in Nat, NEW r \in Results
    PROVE  Push(m, n) \in Packets /\ Reply(m, r, n) \in Packets
  BY DEF Push, Reply, Packets, Results

(* MAX(seq) + 1 of a conversation numbered 1..n is n + 1. *)
LEMMA NextSeqValue ==
    ASSUME NEW m \in Msgs, NEW n \in Nat, ConvSeqs(Pair(m)) = 1..n
    PROVE  NextSeq(Pair(m)) = n + 1
  <1>1. CASE n = 0
    BY <1>1 DEF NextSeq
  <1>2. CASE n > 0
    <2>1. n \in 1..n /\ \A y \in 1..n : n >= y
      BY <1>2
    <2>2. \A x \in 1..n : (\A y \in 1..n : x >= y) => x = n
      BY <2>1
    <2>3. Max(1..n) = n
      BY <2>1, <2>2 DEF Max
    <2> QED
      BY <1>2, <2>1, <2>3 DEF NextSeq
  <1> QED
    BY <1>1, <1>2

(* A handler's step keeps the handlers' locals typed. *)
LEMMA SetJobType ==
    ASSUME JobType, NEW c \in Conns, NEW p \in Steps, NEW m \in Msgs \cup {None},
           NEW t \in Conns \cup {None}, NEW i \in SUBSET Msgs, NEW d \in SUBSET Msgs,
           SetJob(c, p, m, t, i, d), UNCHANGED uid,
           p \in {"get", "save", "push"} => m \in Msgs,
           p \in {"replace", "pull", "resend"} => uid[c] \in Users
    PROVE  JobType'
  BY DEF JobType, SetJob

LEMMA EndJobType ==
    ASSUME JobType, NEW c \in Conns, EndJob(c), UNCHANGED uid
    PROVE  JobType'
  BY DEF JobType, SetJob, EndJob, Steps

(* A delivery on top of queues that are typed keeps the network typed. *)
LEMMA DeliverOver ==
    ASSUME NetType, NEW w \in [Conns -> SUBSET Packets],
           \A x \in Conns : w[x] # wire[x] => conn[x] \in {"open", "closing"},
           NEW c \in Conns \cup {None}, NEW p \in Packets,
           wire' = Deliver(w, c, p), UNCHANGED conn,
           inq' \in [Conns -> Seq(Frames)]
    PROVE  NetType'
  BY ChatAssumption DEF NetType, Deliver

LEMMA DeliverNet ==
    ASSUME NetType, NEW c \in Conns \cup {None}, NEW p \in Packets,
           wire' = Deliver(wire, c, p), UNCHANGED conn,
           inq' \in [Conns -> Seq(Frames)]
    PROVE  NetType'
  BY ChatAssumption DEF NetType, Deliver

(* So do two in a row: the push and the answer. *)
LEMMA DeliverNet2 ==
    ASSUME NetType, NEW c \in Conns \cup {None}, NEW d \in Conns \cup {None},
           NEW p \in Packets, NEW q \in Packets,
           wire' = Deliver(Deliver(wire, c, p), d, q), UNCHANGED <<conn, inq>>
    PROVE  NetType'
  <1>1. wire \in [Conns -> SUBSET Packets] /\ inq' \in [Conns -> Seq(Frames)]
    BY DEF NetType
  <1>2. /\ Deliver(wire, c, p) \in [Conns -> SUBSET Packets]
        /\ \A x \in Conns : Deliver(wire, c, p)[x] # wire[x]
                               => conn[x] \in {"open", "closing"}
    BY <1>1, DeliverType
  <1> QED
    BY <1>1, <1>2, DeliverOver

-----------------------------------------------------------------------------
(* Every step preserves TypeOK. *)
LEMMA TypeStep == TypeOK /\ ConvIsInterval /\ [Next]_vars => TypeOK'
  <1> SUFFICES ASSUME NetType, JobType, DataType, ConvIsInterval, [Next]_vars
               PROVE  TypeOK'
    BY DEF TypeOK
  <1> USE ChatAssumption DEF TypeOK
  <1>1. ASSUME NEW c \in Conns, Connect(c) PROVE TypeOK'
    <2>1. NetType'
      BY <1>1 DEF Connect, NetType, Frames
    <2> QED
      BY <1>1, <2>1 DEF Connect, JobType, DataType, auth, job, db, client
  <1>2. ASSUME NEW c \in Conns, DispatchExpired(c) PROVE TypeOK'
    <2>1. NetType'
      BY <1>2 DEF DispatchExpired, NetType
    <2> QED
      BY <1>2, <2>1 DEF DispatchExpired, JobType, DataType, auth, job, db, client
  <1>3. ASSUME NEW c \in Conns, StartLogin(c) PROVE TypeOK'
    <2>1. NetType'
      BY <1>3 DEF StartLogin, Dispatchable, NetType
    <2>2. JobType'
      BY <1>3 DEF StartLogin, JobType, DataType, SetJob, Steps
    <2> QED
      BY <1>3, <2>1, <2>2 DEF StartLogin, DataType, db, client
  <1>4. ASSUME NEW c \in Conns, StartChat(c) PROVE TypeOK'
    <2> DEFINE m == Head(inq[c]).msg
    <2>1. m \in Msgs /\ inq' \in [Conns -> Seq(Frames)] /\ DataType' /\ UNCHANGED uid
      BY <1>4 DEF StartChat, Dispatchable, NetType, DataType, Frames, auth, db, client
    <2>2. CASE SetJob(c, "get", m, None, {}, {}) /\ UNCHANGED wire
      <3>1. JobType'
        BY <2>1, <2>2, SetJobType DEF Steps
      <3> QED
        BY <1>4, <2>1, <2>2, <3>1 DEF StartChat, NetType
    <2>3. ASSUME NEW r \in Results, Refuse(c, m, r) PROVE TypeOK'
      <3>1. Reply(m, r, 0) \in Packets
        BY <2>1, PacketType
      <3>2. NetType'
        BY <1>4, <2>1, <2>3, <3>1, DeliverNet DEF Refuse, StartChat
      <3> QED
        BY <2>1, <2>3, <3>2 DEF Refuse, JobType, job
    <2> QED
      BY <1>4, <2>2, <2>3 DEF StartChat, Results
  <1>5. ASSUME NEW c \in Conns, ChatGet(c) PROVE TypeOK'
    <2>1. cur[c] \in Msgs /\ Get(To[cur[c]]) \in Conns \cup {None}
      BY <1>5, GetType DEF ChatGet, JobType
    <2>2. JobType'
      BY <1>5, <2>1, SetJobType DEF ChatGet, auth, Steps
    <2> QED
      BY <1>5, <2>2 DEF ChatGet, NetType, DataType, net, auth, db, client
  <1>6. ASSUME NEW c \in Conns, ChatSave(c) PROVE TypeOK'
    <2>1. cur[c] \in Msgs /\ target[c] \in Conns \cup {None}
      BY <1>6 DEF ChatSave, JobType
    <2>2. NextSeq(Pair(cur[c])) \in Nat
      <3>1. PICK n \in Nat : ConvSeqs(Pair(cur[c])) = 1..n
        BY <2>1 DEF ConvIsInterval
      <3>2. NextSeq(Pair(cur[c])) = n + 1
        BY ONLY <2>1, <3>1, n \in Nat, NextSeqValue
      <3> QED
        BY <3>2
    <2>3. JobType'
      BY <1>6, <2>1, SetJobType DEF ChatSave, auth, Steps
    <2>4. seq' \in [Msgs -> Nat] /\ delivered' \in [Msgs -> BOOLEAN]
      <3> DEFINE online == target[c] # None
      <3>1. online \in BOOLEAN
        OBVIOUS
      <3>2. SaveMessage(cur[c], online)
        BY <1>6 DEF ChatSave
      <3> HIDE DEF online
      <3> QED
        BY <2>1, <2>2, <3>1, <3>2 DEF SaveMessage, DataType, db
    <2> QED
      BY <1>6, <2>3, <2>4 DEF ChatSave, NetType, DataType, net, auth, client
  <1>7. ASSUME NEW c \in Conns, ChatSaveFails(c) PROVE TypeOK'
    <2>1. Reply(cur[c], "SERVER_ERROR", 0) \in Packets
      BY <1>7, PacketType DEF ChatSaveFails, JobType, Results
    <2>2. NetType'
      BY <1>7, <2>1, DeliverNet DEF ChatSaveFails, NetType
    <2>3. JobType'
      BY <1>7, EndJobType DEF ChatSaveFails, auth
    <2> QED
      BY <1>7, <2>2, <2>3 DEF ChatSaveFails, DataType, auth, db, client
  <1>8. ASSUME NEW c \in Conns, ChatPush(c) PROVE TypeOK'
    <2> DEFINE m == cur[c]
    <2>1. m \in Msgs /\ seq[m] \in Nat /\ target[c] \in Conns \cup {None}
      BY <1>8 DEF ChatPush, JobType, DataType
    <2>2. /\ Push(m, seq[m]) \in Packets
          /\ Reply(m, "SUCC", seq[m]) \in Packets /\ Reply(m, "FAIL", seq[m]) \in Packets
      BY <2>1, PacketType DEF Results
    <2>3. NetType'
      <3>1. inq' \in [Conns -> Seq(Frames)] /\ UNCHANGED <<conn, inq>>
        BY <1>8 DEF ChatPush, NetType
      <3>2. \/ wire' = Deliver(Deliver(wire, target[c], Push(m, seq[m])), c, Reply(m, "SUCC", seq[m]))
            \/ wire' = Deliver(wire, c, Reply(m, "FAIL", seq[m]))
        BY <1>8 DEF ChatPush
      <3> QED
        BY <2>1, <2>2, <3>1, <3>2, DeliverNet, DeliverNet2
    <2>4. JobType'
      BY <1>8, EndJobType DEF ChatPush, auth
    <2> QED
      BY <1>8, <2>1, <2>3, <2>4 DEF ChatPush, EraseUpload, DataType, auth, db, client
  <1>9. ASSUME NEW c \in Conns, ActReplace(c) PROVE TypeOK'
    <2>1. uid[c] \in Users /\ Get(uid[c]) \in Conns \cup {None}
      BY <1>9, GetType DEF ActReplace, JobType
    <2>2. NetType'
      BY <1>9, <2>1 DEF ActReplace, NetType
    <2>3. JobType'
      BY <1>9, <2>1, SetJobType DEF ActReplace, Steps
    <2> QED
      BY <1>9, <2>1, <2>2, <2>3 DEF ActReplace, DataType, db, client
  <1>10. ASSUME NEW c \in Conns, ActPull(c) PROVE TypeOK'
    <2>1. uid[c] \in Users /\ Undelivered(uid[c]) \in SUBSET Msgs
      BY <1>10 DEF ActPull, JobType, Undelivered
    <2>2. JobType'
      BY <1>10, <2>1, SetJobType DEF ActPull, auth, Steps
    <2> QED
      BY <1>10, <2>2 DEF ActPull, NetType, DataType, net, auth, db, client
  <1>11. ASSUME NEW c \in Conns, ActMark(c) PROVE TypeOK'
    <2>1. JobType'
      BY <1>11, EndJobType DEF ActMark, auth
    <2> QED
      BY <1>11, <2>1 DEF ActMark, NetType, DataType, net, auth, client
  <1>12. ASSUME NEW c \in Conns, Close(c) PROVE TypeOK'
    <2>1. NetType'
      BY <1>12 DEF Close, NetType
    <2> QED
      BY <1>12, <2>1 DEF Close, Offline, JobType, DataType, job, db, client
  <1>13. ASSUME NEW c \in Conns, NEW m \in Msgs, ClientChat(c, m) PROVE TypeOK'
    <2>1. NetType'
      BY <1>13 DEF ClientChat, NetType, Frames
    <2> QED
      BY <1>13, <2>1 DEF ClientChat, JobType, DataType, auth, job, db
  <1>14. ASSUME NEW c \in Conns, NEW m \in Msgs, ActResend(c, m) PROVE TypeOK'
    <2>1. Push(m, seq[m]) \in Packets /\ Reply(m, "SUCC", seq[m]) \in Packets
      BY PacketType DEF DataType, Results
    <2>2. Get(From[m]) \in Conns \cup {None}
      BY GetType
    <2>3. NetType'
      BY <1>14, <2>1, <2>2, DeliverNet2 DEF ActResend
    <2>4. uid[c] \in Users /\ ids[c] \in SUBSET Msgs /\ todo[c] \ {m} \in SUBSET Msgs
      BY <1>14 DEF ActResend, JobType
    <2>5. JobType'
      BY <1>14, <2>4, SetJobType DEF ActResend, auth, Steps
    <2> QED
      BY <1>14, <2>3, <2>5 DEF ActResend, DataType, auth, db, client
  <1>15. ASSUME NEW c \in Conns, NEW p \in wire[c], ClientRead(c, p) PROVE TypeOK'
    <2>1. p.msg \in Msgs /\ p.result \in Results
      BY DEF NetType, Packets
    <2>2. NetType'
      BY <1>15 DEF ClientRead, NetType
    <2> QED
      BY <1>15, <2>1, <2>2 DEF ClientRead, JobType, DataType, auth, job, db
  <1>16. ASSUME NEW m \in Msgs, FileUploaded(m) PROVE TypeOK'
    BY <1>16 DEF FileUploaded, NetType, JobType, DataType, net, auth, job, db, client
  <1>17. ASSUME NEW m \in Msgs, GcUpload(m) PROVE TypeOK'
    BY <1>17 DEF GcUpload, EraseUpload, NetType, JobType, DataType, net, auth, job, db, client
  <1>18. ASSUME NEW p \in friends, DeleteFriend(p) PROVE TypeOK'
    BY <1>18 DEF DeleteFriend, NetType, JobType, DataType, net, auth, job, db, client
  <1>19. CASE Restart
    <2>1. NetType'
      BY <1>19 DEF Restart, NetType
    <2>2. JobType'
      BY <1>19 DEF Restart, JobType, Steps
    <2> QED
      BY <1>19, <2>1, <2>2 DEF Restart, DataType, db, client
  <1>20. CASE UNCHANGED vars
    BY <1>20 DEF NetType, JobType, DataType, vars
  <1> QED
    BY <1>1, <1>2, <1>3, <1>4, <1>5, <1>6, <1>7, <1>8, <1>9, <1>10, <1>11, <1>12,
       <1>13, <1>14, <1>15, <1>16, <1>17, <1>18, <1>19, <1>20 DEF Next

-----------------------------------------------------------------------------
(* Only saveMessage, called by onChat, writes the column seq. *)
LEMMA SeqFrame ==
    ASSUME [Next]_vars
    PROVE  UNCHANGED seq \/ \E c \in Conns : ChatSave(c)
  BY DEF Next, vars, db, Connect, DispatchExpired, StartLogin, StartChat, ChatGet,
     ChatSaveFails, ChatPush, ActReplace, ActPull, ActMark, Close, ClientChat,
     ActResend, ClientRead, FileUploaded, GcUpload, DeleteFriend, Restart

(* saveMessage keeps a conversation's numbers an interval 1..n and distinct. *)
LEMMA SaveKeepsConv ==
    ASSUME TypeOK, ConvInv, NEW k \in Msgs, NEW online \in BOOLEAN,
           SaveMessage(k, online)
    PROVE  ConvInv'
  <1>1. CASE UNCHANGED db
    BY <1>1 DEF db, ConvInv, SeqInjective, ConvIsInterval, ConvSeqs, Stored
  <1>2. CASE ~(seq[k] > 0)
    <2>1. PICK n \in Nat : ConvSeqs(Pair(k)) = 1..n
      BY DEF ConvInv, ConvIsInterval
    <2>2. NextSeq(Pair(k)) = n + 1
      BY ONLY <2>1, n \in Nat, k \in Msgs, NextSeqValue
    <2>3. seq \in [Msgs -> Nat] /\ seq' = [seq EXCEPT ![k] = n + 1]
      BY <1>2, <2>2 DEF SaveMessage, TypeOK, DataType
    <2>4. \A m \in Msgs : Pair(m) = Pair(k) /\ seq[m] > 0 => seq[m] \in 1..n
      BY <2>1 DEF ConvSeqs
    <2>5. SeqInjective'
      BY <1>2, <2>3, <2>4 DEF ConvInv, SeqInjective, Stored
    <2>6. ASSUME NEW m \in Msgs PROVE \E i \in Nat : ConvSeqs(Pair(m))' = 1..i
      <3>1. CASE Pair(m) = Pair(k)
        <4>1. ConvSeqs(Pair(k))' \subseteq 1..(n + 1)
          BY <2>3, <2>4 DEF ConvSeqs
        <4>2. ASSUME NEW x \in 1..(n + 1) PROVE x \in ConvSeqs(Pair(k))'
          <5>1. CASE x = n + 1
            BY <2>3, <5>1 DEF ConvSeqs
          <5>2. CASE x \in 1..n
            <6>1. PICK y \in Msgs : Pair(y) = Pair(k) /\ seq[y] > 0 /\ seq[y] = x
              BY <2>1, <5>2 DEF ConvSeqs
            <6>2. seq'[y] = x /\ seq'[y] > 0
              BY <1>2, <2>3, <6>1
            <6> QED
              BY <6>1, <6>2 DEF ConvSeqs
          <5> QED
            BY <5>1, <5>2
        <4>3. ConvSeqs(Pair(m))' = 1..(n + 1)
          BY <3>1, <4>1, <4>2
        <4> QED
          BY <4>3
      <3>2. CASE Pair(m) # Pair(k)
        <4>1. ConvSeqs(Pair(m))' = ConvSeqs(Pair(m))
          BY <2>3, <3>2 DEF ConvSeqs
        <4> QED
          BY <4>1 DEF ConvInv, ConvIsInterval
      <3> QED
        BY <3>1, <3>2
    <2> QED
      BY <2>5, <2>6 DEF ConvInv, ConvIsInterval
  <1> QED
    BY <1>1, <1>2 DEF SaveMessage

LEMMA ConvStep == TypeOK /\ ConvInv /\ [Next]_vars => ConvInv'
  <1> SUFFICES ASSUME TypeOK, ConvInv, [Next]_vars PROVE ConvInv'
    OBVIOUS
  <1>1. CASE UNCHANGED seq
    BY <1>1 DEF ConvInv, SeqInjective, ConvIsInterval, ConvSeqs, Stored
  <1>2. ASSUME NEW c \in Conns, ChatSave(c) PROVE ConvInv'
    <2>1. cur[c] \in Msgs /\ (target[c] # None) \in BOOLEAN
      BY <1>2 DEF ChatSave, TypeOK, JobType
    <2>2. SaveMessage(cur[c], target[c] # None)
      BY <1>2 DEF ChatSave
    <2> QED
      BY <2>1, <2>2, SaveKeepsConv
  <1> QED
    BY <1>1, <1>2, SeqFrame

LEMMA InitInv == Init => TypeOK /\ ConvInv
  <1> SUFFICES ASSUME Init PROVE TypeOK /\ ConvInv
    OBVIOUS
  <1> USE ChatAssumption DEF Init
  <1>1. NetType
    BY DEF NetType
  <1>2. JobType
    BY DEF JobType, Steps
  <1>3. DataType
    BY DEF DataType, Pair
  <1>4. SeqInjective
    BY DEF SeqInjective, Stored
  <1>5. \A m \in Msgs : ConvSeqs(Pair(m)) = 1..0
    BY DEF ConvSeqs
  <1> QED
    BY <1>1, <1>2, <1>3, <1>4, <1>5 DEF TypeOK, ConvInv, ConvIsInterval

(* TypeOK holds of the message path for every instance.  That MAX(seq) is  *)
(* a number needs the interval form of ConvInv, so both are one induction. *)
THEOREM TypeCorrect == Spec => [](TypeOK /\ ConvInv)
  <1>1. Init => TypeOK /\ ConvInv
    BY InitInv
  <1>2. TypeOK /\ ConvInv /\ [Next]_vars => (TypeOK /\ ConvInv)'
    BY TypeStep, ConvStep DEF ConvInv
  <1> QED
    BY <1>1, <1>2, PTL DEF Spec

(* An interval numbering with distinct numbers is what SeqDense says. *)
LEMMA ConvIsDense == TypeOK /\ ConvInv => SeqDense
  <1> SUFFICES ASSUME TypeOK, ConvInv, NEW m \in Msgs, seq[m] > 1
               PROVE  \E k \in Msgs : Pair(k) = Pair(m) /\ seq[k] = seq[m] - 1
    BY DEF SeqDense, ConvInv, SeqInjective
  <1>1. PICK n \in Nat : ConvSeqs(Pair(m)) = 1..n
    BY DEF ConvInv, ConvIsInterval
  <1>2. seq[m] \in Nat /\ seq[m] \in ConvSeqs(Pair(m))
    BY DEF ConvSeqs, TypeOK, DataType
  <1>3. seq[m] - 1 \in ConvSeqs(Pair(m))
    BY <1>1, <1>2
  <1> QED
    BY <1>3 DEF ConvSeqs

(* saveMessage numbers every conversation densely and without duplicates,  *)
(* for any number of users, connections, messages, retries and restarts.   *)
THEOREM NumberingDense == Spec => []SeqDense
  BY TypeCorrect, ConvIsDense, PTL

-----------------------------------------------------------------------------
(* What one step does to a stored row. *)
RowKept == \A m \in Msgs : Stored(m) =>
               seq'[m] = seq[m] /\ (delivered[m] => delivered'[m])

LEMMA RowFrame ==
    ASSUME [Next]_vars
    PROVE  UNCHANGED db \/ \E c \in Conns : ChatSave(c) \/ ActMark(c)
  <1>1. CASE UNCHANGED vars
    BY <1>1 DEF vars, db
  <1>2. ASSUME NEW c \in Conns,
               Connect(c) \/ DispatchExpired(c) \/ StartLogin(c) \/ StartChat(c)
                 \/ ChatGet(c) \/ ChatSaveFails(c) \/ ChatPush(c) \/ ActReplace(c)
                 \/ ActPull(c) \/ Close(c)
        PROVE  UNCHANGED db
    BY <1>2 DEF Connect, DispatchExpired, StartLogin, StartChat, ChatGet, ChatSaveFails,
       ChatPush, ActReplace, ActPull, Close
  <1>3. CASE \/ \E c \in Conns : \/ \E m \in Msgs : ClientChat(c, m) \/ ActResend(c, m)
                                 \/ \E p \in wire[c] : ClientRead(c, p)
             \/ \E m \in Msgs : FileUploaded(m) \/ GcUpload(m)
             \/ \E p \in friends : DeleteFriend(p)
             \/ Restart
    BY <1>3 DEF ClientChat, ActResend, ClientRead, FileUploaded, GcUpload, DeleteFriend,
       Restart
  <1> QED
    BY <1>1, <1>2, <1>3 DEF Next

LEMMA RowsStep == TypeOK /\ [Next]_vars => RowKept
  <1> SUFFICES ASSUME TypeOK, [Next]_vars PROVE RowKept
    OBVIOUS
  <1> USE DEF RowKept, Stored, TypeOK, DataType
  <1>1. ASSUME NEW c \in Conns, ChatSave(c) PROVE RowKept
    <2>1. cur[c] \in Msgs
      BY <1>1 DEF ChatSave, JobType
    <2> QED
      BY <1>1, <2>1 DEF ChatSave, SaveMessage, db
  <1>2. ASSUME NEW c \in Conns, ActMark(c) PROVE RowKept
    BY <1>2 DEF ActMark
  <1>3. CASE UNCHANGED db
    BY <1>3 DEF db
  <1> QED
    BY <1>1, <1>2, <1>3, RowFrame

(* No retry, catch-up, failure or restart changes the number of a stored   *)
(* message or takes its is_delivered back.                                 *)
THEOREM RowsFinal == Spec => RowsAreFinal
  <1>1. TypeOK /\ [Next]_vars => [RowKept]_vars
    BY RowsStep
  <1> QED
    BY <1>1, TypeCorrect, PTL DEF Spec, RowsAreFinal, RowKept

-----------------------------------------------------------------------------
(* A connection that is not accepted yet has no user and no frames. *)
NewIsFresh == \A c \in Conns : conn[c] = "new" => uid[c] = None /\ inq[c] = <<>>

LEMMA FreshStep == TypeOK /\ NewIsFresh /\ [Next]_vars => NewIsFresh'
  <1> SUFFICES ASSUME NetType, DataType, NewIsFresh, [Next]_vars PROVE NewIsFresh'
    BY DEF TypeOK
  <1>1. ASSUME NEW c \in Conns, conn[c] # "new" \/ inq[c] # <<>> \/ conn'[c] # "new",
               \A d \in Conns : /\ conn'[d] = "new" => conn[d] = "new"
                                /\ d # c => uid'[d] = uid[d] /\ inq'[d] = inq[d]
        PROVE  NewIsFresh'
    BY <1>1 DEF NewIsFresh
  <1>2. CASE UNCHANGED <<uid, inq>> /\ \A d \in Conns : conn'[d] = "new" => conn[d] = "new"
    BY <1>2 DEF NewIsFresh
  <1>3. ASSUME NEW c \in Conns, Connect(c) PROVE NewIsFresh'
    BY <1>3, <1>1 DEF Connect, auth, NetType
  <1>4. ASSUME NEW c \in Conns, DispatchExpired(c) PROVE NewIsFresh'
    BY <1>4, <1>1 DEF DispatchExpired, auth, NetType
  <1>5. ASSUME NEW c \in Conns, StartLogin(c) \/ StartChat(c) PROVE NewIsFresh'
    BY <1>5, <1>1 DEF StartLogin, StartChat, Dispatchable, auth, NetType, DataType
  <1>6. ASSUME NEW c \in Conns, NEW m \in Msgs, ClientChat(c, m) PROVE NewIsFresh'
    BY <1>6, <1>1 DEF ClientChat, auth, NetType
  <1>7. CASE Restart
    BY <1>7 DEF Restart, NewIsFresh
  <1>8. ASSUME NEW c \in Conns, ActReplace(c) \/ Close(c) PROVE NewIsFresh'
    BY <1>8, <1>2 DEF ActReplace, Close, NetType
  <1>9. \/ UNCHANGED <<uid, inq, conn>> \/ Restart
        \/ \E c \in Conns :
             \/ Connect(c) \/ DispatchExpired(c) \/ StartLogin(c) \/ StartChat(c)
             \/ ActReplace(c) \/ Close(c) \/ \E m \in Msgs : ClientChat(c, m)
    BY DEF Next, vars, net, auth, ChatGet, ChatSave, ChatSaveFails, ChatPush, ActPull,
       ActMark, ActResend, ClientRead, FileUploaded, GcUpload, DeleteFriend
  <1> QED
    BY <1>2, <1>3, <1>4, <1>5, <1>6, <1>7, <1>8, <1>9

LEMMA ReachableStep ==
    TypeOK /\ NewIsFresh /\ OnlineReachable /\ [Next]_vars => OnlineReachable'
  <1> SUFFICES ASSUME NetType, JobType, DataType, NewIsFresh, OnlineReachable, [Next]_vars
               PROVE  OnlineReachable'
    BY DEF TypeOK
  <1> USE ChatAssumption DEF OnlineReachable
  <1>1. ASSUME NEW c \in Conns, Connect(c) PROVE OnlineReachable'
    BY <1>1 DEF Connect, auth, job, NetType, NewIsFresh
  <1>2. ASSUME NEW c \in Conns, ActReplace(c) PROVE OnlineReachable'
    <2>1. uid[c] \in Users
      BY <1>2 DEF ActReplace, JobType
    <2>2. /\ presence' = [presence EXCEPT ![uid[c]] = c]
          /\ uid' = uid /\ pc' = [pc EXCEPT ![c] = "pull"]
      BY <1>2 DEF ActReplace, SetJob
    <2>3. \A d \in Conns : conn'[d] = "open" => conn[d] = "open"
      BY <1>2 DEF ActReplace, NetType
    <2>4. ASSUME NEW d \in Conns, d # c, uid[d] = uid[c], presence[uid[c]] = d
          PROVE  conn'[d] # "open"
      <3>1. CASE conn[d] = "open"
        <4>1. Get(uid[c]) = d
          BY <2>4, <3>1 DEF Get, Alive
        <4> QED
          BY <1>2, <2>4, <3>1, <4>1 DEF ActReplace, NetType
      <3> QED
        BY <2>3, <3>1
    <2> QED
      BY <2>1, <2>2, <2>3, <2>4 DEF DataType, JobType
  <1>3. ASSUME NEW c \in Conns, Close(c) PROVE OnlineReachable'
    <2>1. pc' = pc /\ uid' = uid
      BY <1>3 DEF Close, job
    <2>2. conn' = [conn EXCEPT ![c] = "closed"]
      BY <1>3 DEF Close
    <2>3. \A u \in Users : presence[u] # c => presence'[u] = presence[u]
      BY <1>3 DEF Close, Offline, DataType
    <2> QED
      BY <2>1, <2>2, <2>3 DEF NetType, DataType
  <1>4. ASSUME NEW c \in Conns, StartLogin(c) PROVE OnlineReachable'
    BY <1>4 DEF StartLogin, SetJob, DataType, JobType
  <1>5. CASE Restart
    BY <1>5 DEF Restart
  <1>6. ASSUME NEW c \in Conns, NEW p \in Steps \ {"replace"}, pc[c] # "replace",
               pc' = [pc EXCEPT ![c] = p], UNCHANGED <<conn, auth>>
        PROVE  OnlineReachable'
    BY <1>6 DEF auth, JobType
  <1>7. ASSUME NEW c \in Conns,
               ChatGet(c) \/ ChatSave(c) \/ ChatSaveFails(c) \/ ChatPush(c)
                 \/ ActPull(c) \/ ActMark(c) \/ \E m \in Msgs : ActResend(c, m)
        PROVE  OnlineReachable'
    <2>1. pc[c] # "replace" /\ UNCHANGED <<conn, auth>>
      BY <1>7 DEF ChatGet, ChatSave, ChatSaveFails, ChatPush, ActPull, ActMark, ActResend,
         net
    <2>2. \E p \in Steps \ {"replace"} : pc' = [pc EXCEPT ![c] = p]
      BY <1>7 DEF ChatGet, ChatSave, ChatSaveFails, ChatPush, ActPull, ActMark, ActResend,
         SetJob, EndJob, Steps
    <2> QED
      BY <1>6, <2>1, <2>2
  <1>8. ASSUME NEW c \in Conns, StartChat(c) PROVE OnlineReachable'
    <2>1. pc[c] # "replace" /\ UNCHANGED <<conn, auth>>
      BY <1>8 DEF StartChat, Dispatchable
    <2>2. UNCHANGED pc \/ pc' = [pc EXCEPT ![c] = "get"]
      BY <1>8 DEF StartChat, Refuse, SetJob, job
    <2>3. CASE UNCHANGED pc
      BY <2>1, <2>3 DEF auth
    <2> QED
      BY <1>6, <2>1, <2>2, <2>3 DEF Steps
  <1>9. ASSUME NEW c \in Conns, DispatchExpired(c) PROVE OnlineReachable'
    BY <1>9 DEF DispatchExpired, auth, job, NetType
  <1>10. CASE UNCHANGED <<conn, auth, pc>>
    BY <1>10 DEF auth
  <1>11. \/ UNCHANGED <<conn, auth, pc>> \/ Restart
         \/ \E c \in Conns :
              \/ Connect(c) \/ ActReplace(c) \/ Close(c) \/ StartLogin(c) \/ StartChat(c)
              \/ ChatGet(c) \/ ChatSave(c) \/ ChatSaveFails(c) \/ ChatPush(c)
              \/ ActPull(c) \/ ActMark(c) \/ DispatchExpired(c)
              \/ \E m \in Msgs : ActResend(c, m)
    BY DEF Next, vars, net, auth, job, ClientChat, ClientRead, FileUploaded, GcUpload,
       DeleteFriend
  <1> QED
    BY <1>1, <1>2, <1>3, <1>4, <1>5, <1>7, <1>8, <1>9, <1>10, <1>11

(* A working, logged-in connection is always the one Presence names, with  *)
(* any number of connections of a user racing to log in and to close.      *)
THEOREM WorkingConnectionReachable == Spec => []OnlineReachable
  <1>1. Init => NewIsFresh /\ OnlineReachable
    BY DEF Init, NewIsFresh, OnlineReachable
  <1> QED
    BY <1>1, FreshStep, ReachableStep, TypeCorrect, PTL DEF Spec
-----------------------------------------------------------------------------
(* A connection serves the account of the client that opened it; Presence  *)
(* names a connection of the user it is asked for, and onChat has found a  *)
(* session of the receiver of its message.                                 *)
BoundTo ==
    /\ \A c \in Conns : uid[c] \in {None, Home[c]}
    /\ \A u \in Users : presence[u] # None => uid[presence[u]] = u
    /\ \A c \in Conns : target[c] # None =>
          cur[c] \in Msgs /\ uid[target[c]] = To[cur[c]]

(* A login binds a connection once. *)
LEMMA UidStep == TypeOK /\ [Next]_vars =>
                    \A c \in Conns : uid[c] # None => uid'[c] = uid[c]
  <1> SUFFICES ASSUME TypeOK, [Next]_vars
               PROVE  \A c \in Conns : uid[c] # None => uid'[c] = uid[c]
    OBVIOUS
  <1>1. ASSUME NEW c \in Conns, StartLogin(c)
        PROVE  \A d \in Conns : uid[d] # None => uid'[d] = uid[d]
    BY <1>1 DEF StartLogin, TypeOK, DataType
  <1>2. ASSUME NEW c \in Conns,
               Connect(c) \/ DispatchExpired(c) \/ StartChat(c) \/ ChatGet(c) \/ ChatSave(c)
                 \/ ChatSaveFails(c) \/ ChatPush(c) \/ ActReplace(c) \/ ActPull(c)
                 \/ ActMark(c) \/ Close(c)
        PROVE  UNCHANGED uid
    BY <1>2 DEF auth, Connect, DispatchExpired, StartChat, ChatGet, ChatSave,
       ChatSaveFails, ChatPush, ActReplace, ActPull, ActMark, Close
  <1>3. CASE \/ \E c \in Conns : \/ \E m \in Msgs : ClientChat(c, m) \/ ActResend(c, m)
                                 \/ \E p \in wire[c] : ClientRead(c, p)
             \/ \E m \in Msgs : FileUploaded(m) \/ GcUpload(m)
             \/ \E p \in friends : DeleteFriend(p)
             \/ Restart
             \/ UNCHANGED vars
    BY <1>3 DEF auth, vars, ClientChat, ActResend, ClientRead, FileUploaded, GcUpload,
       DeleteFriend, Restart
  <1> QED
    BY <1>1, <1>2, <1>3 DEF Next

LEMMA BoundStep == TypeOK /\ BoundTo /\ [Next]_vars => BoundTo'
  <1> SUFFICES ASSUME NetType, JobType, DataType, BoundTo, [Next]_vars PROVE BoundTo'
    BY DEF TypeOK
  <1> USE ChatAssumption DEF BoundTo
  <1>1. ASSUME NEW c \in Conns, NEW p \in Steps, NEW m \in Msgs \cup {None},
               NEW t \in Conns \cup {None}, NEW i, NEW d, SetJob(c, p, m, t, i, d),
               UNCHANGED auth, t # None => m \in Msgs /\ uid[t] = To[m]
        PROVE  BoundTo'
    BY <1>1 DEF SetJob, JobType, DataType, auth
  <1>2. ASSUME NEW c \in Conns, ChatGet(c) PROVE BoundTo'
    <2> DEFINE t == Get(To[cur[c]])
    <2>1. cur[c] \in Msgs /\ t \in Conns \cup {None}
      BY <1>2, GetType DEF ChatGet, JobType
    <2>2. t # None => uid[t] = To[cur[c]]
      BY <2>1 DEF Get
    <2> QED
      BY <1>2, <2>1, <2>2, <1>1 DEF ChatGet, Steps
  <1>3. ASSUME NEW c \in Conns, ChatSave(c) PROVE BoundTo'
    BY <1>3, <1>1 DEF ChatSave, JobType, Steps
  <1>4. ASSUME NEW c \in Conns,
               ChatSaveFails(c) \/ ChatPush(c) \/ ActPull(c) \/ ActMark(c)
                 \/ \E m \in Msgs : ActResend(c, m)
        PROVE  BoundTo'
    BY <1>4, <1>1 DEF ChatSaveFails, ChatPush, ActPull, ActMark, ActResend, EndJob, Steps
  <1>5. ASSUME NEW c \in Conns, StartChat(c) PROVE BoundTo'
    <2> DEFINE m == Head(inq[c]).msg
    <2>1. m \in Msgs /\ UNCHANGED auth
      BY <1>5 DEF StartChat, Dispatchable, NetType, Frames
    <2>2. SetJob(c, "get", m, None, {}, {}) \/ UNCHANGED job
      BY <1>5 DEF StartChat, Refuse
    <2>3. CASE SetJob(c, "get", m, None, {}, {})
      BY <2>1, <2>3, <1>1 DEF Steps
    <2> QED
      BY <2>1, <2>2, <2>3 DEF job, auth
  <1>6. ASSUME NEW c \in Conns, StartLogin(c) PROVE BoundTo'
    <2>1. uid[c] = None /\ uid' = [uid EXCEPT ![c] = Home[c]] /\ presence' = presence
      BY <1>6 DEF StartLogin
    <2>2. \A d \in Conns : uid[d] # None => uid'[d] = uid[d]
      BY <2>1 DEF DataType
    <2>3. /\ target' = [target EXCEPT ![c] = None] /\ cur' = [cur EXCEPT ![c] = None]
      BY <1>6 DEF StartLogin, SetJob
    <2>4. \A d \in Conns : uid'[d] \in {None, Home[d]}
      BY <2>1 DEF DataType
    <2>5. \A u \in Users : presence'[u] # None => uid'[presence'[u]] = u
      BY <2>1, <2>2 DEF DataType
    <2>6. \A d \in Conns : target'[d] # None =>
             cur'[d] \in Msgs /\ uid'[target'[d]] = To[cur'[d]]
      BY <2>2, <2>3 DEF JobType
    <2> QED
      BY <2>4, <2>5, <2>6
  <1>7. ASSUME NEW c \in Conns, ActReplace(c) PROVE BoundTo'
    <2>1. /\ uid[c] \in Users /\ presence' = [presence EXCEPT ![uid[c]] = c]
          /\ uid' = uid
      BY <1>7 DEF ActReplace, JobType
    <2>2. target' = [target EXCEPT ![c] = None] /\ cur' = [cur EXCEPT ![c] = None]
      BY <1>7 DEF ActReplace, SetJob
    <2> QED
      BY <2>1, <2>2 DEF JobType, DataType
  <1>8. ASSUME NEW c \in Conns, Close(c) PROVE BoundTo'
    BY <1>8 DEF Close, Offline, job, DataType
  <1>9. CASE Restart
    BY <1>9 DEF Restart
  <1>10. CASE UNCHANGED <<auth, cur, target>>
    BY <1>10 DEF auth
  <1>11. ASSUME NEW c \in Conns,
                \/ Connect(c) \/ DispatchExpired(c)
                \/ \E m \in Msgs : ClientChat(c, m)
                \/ \E p \in wire[c] : ClientRead(c, p)
         PROVE  UNCHANGED <<auth, cur, target>>
    BY <1>11 DEF job, Connect, DispatchExpired, ClientChat, ClientRead
  <1>12. CASE \/ \E m \in Msgs : FileUploaded(m) \/ GcUpload(m)
              \/ \E p \in friends : DeleteFriend(p)
              \/ UNCHANGED vars
    BY <1>10, <1>12 DEF vars, auth, job, FileUploaded, GcUpload, DeleteFriend
  <1> QED
    BY <1>2, <1>3, <1>4, <1>5, <1>6, <1>7, <1>8, <1>9, <1>10, <1>11, <1>12 DEF Next

-----------------------------------------------------------------------------
(* A handler that pushes works on a stored message, and the catch-up loop  *)
(* on stored messages for the user of its connection.                      *)
WorkStored ==
    \A c \in Conns :
        /\ pc[c] = "push" => Stored(cur[c])
        /\ \A m \in todo[c] : pc[c] = "resend" /\ Stored(m) /\ To[m] = uid[c]

(* saveMessage leaves its message with a row. *)
LEMMA SaveStores ==
    ASSUME TypeOK, ConvIsInterval, NEW c \in Conns, ChatSave(c)
    PROVE  seq'[cur[c]] > 0
  <1>1. cur[c] \in Msgs /\ SaveMessage(cur[c], target[c] # None)
    BY DEF ChatSave, TypeOK, JobType
  <1>2. PICK n \in Nat : ConvSeqs(Pair(cur[c])) = 1..n
    BY <1>1 DEF ConvIsInterval
  <1>3. NextSeq(Pair(cur[c])) = n + 1
    BY ONLY <1>1, <1>2, n \in Nat, NextSeqValue
  <1> QED
    BY <1>1, <1>3 DEF SaveMessage, db, TypeOK, DataType

LEMMA WorkStep == TypeOK /\ ConvInv /\ WorkStored /\ [Next]_vars => WorkStored'
  <1> SUFFICES ASSUME TypeOK, ConvInv, WorkStored, [Next]_vars PROVE WorkStored'
    OBVIOUS
  <1>1. \A m \in Msgs : Stored(m) => seq'[m] > 0
    BY RowsStep DEF RowKept, Stored
  <1>2. \A c \in Conns : uid[c] # None => uid'[c] = uid[c]
    BY UidStep
  <1>3. \A c \in Conns : pc[c] = "resend" => uid'[c] = uid[c]
    BY <1>2, ChatAssumption DEF TypeOK, JobType
  <1> USE DEF TypeOK, JobType, WorkStored
  <1>4. ASSUME NEW c \in Conns, NEW p \in Steps, NEW m, NEW t, NEW i,
               NEW d \in SUBSET Msgs, SetJob(c, p, m, t, i, d),
               p = "push" => seq'[m] > 0,
               \A x \in d : p = "resend" /\ seq'[x] > 0 /\ To[x] = uid'[c]
        PROVE  WorkStored'
    BY <1>1, <1>3, <1>4 DEF SetJob, Stored
  <1>5. ASSUME NEW c \in Conns, ChatSave(c) PROVE WorkStored'
    <2>1. seq'[cur[c]] > 0
      BY <1>5, SaveStores DEF ConvInv
    <2>2. SetJob(c, "push", cur[c], target[c], {}, {})
      BY <1>5 DEF ChatSave
    <2> QED
      BY <2>1, <2>2, <1>4 DEF Steps
  <1>6. ASSUME NEW c \in Conns, ActPull(c) PROVE WorkStored'
    <2>1. \A x \in Undelivered(uid[c]) : x \in Msgs /\ seq'[x] > 0 /\ To[x] = uid'[c]
      BY <1>6, <1>1 DEF ActPull, Undelivered, Stored, auth
    <2>2. SetJob(c, "resend", None, None, Undelivered(uid[c]), Undelivered(uid[c]))
      BY <1>6 DEF ActPull
    <2> QED
      BY <2>1, <2>2, <1>4 DEF Steps
  <1>7. ASSUME NEW c \in Conns, NEW m \in Msgs, ActResend(c, m) PROVE WorkStored'
    <2>1. SetJob(c, "resend", None, None, ids[c], todo[c] \ {m}) /\ pc[c] = "resend"
      BY <1>7 DEF ActResend
    <2>2. \A x \in todo[c] : x \in Msgs /\ seq'[x] > 0 /\ To[x] = uid'[c]
      BY <2>1, <1>1, <1>3
    <2> QED
      BY <2>1, <2>2, <1>4 DEF Steps
  <1>8. ASSUME NEW c \in Conns,
               StartLogin(c) \/ ChatGet(c) \/ ChatSaveFails(c) \/ ChatPush(c)
                 \/ ActReplace(c) \/ ActMark(c)
        PROVE  WorkStored'
    <2>1. \E p \in Steps \ {"push"} : \E m, t : SetJob(c, p, m, t, {}, {})
      BY <1>8 DEF StartLogin, ChatGet, ChatSaveFails, ChatPush, ActReplace, ActMark, EndJob,
         Steps
    <2> QED
      BY <2>1, <1>4
  <1>9. ASSUME NEW c \in Conns, StartChat(c) PROVE WorkStored'
    <2>1. UNCHANGED job \/ SetJob(c, "get", Head(inq[c]).msg, None, {}, {})
      BY <1>9 DEF StartChat, Refuse
    <2>2. CASE UNCHANGED job
      BY <1>1, <1>3, <2>2 DEF job, Stored
    <2> QED
      BY <2>1, <2>2, <1>4 DEF Steps
  <1>10. CASE Restart
    BY <1>10 DEF Restart
  <1>11. CASE UNCHANGED job
    BY <1>1, <1>3, <1>11 DEF job, Stored
  <1>12. ASSUME NEW c \in Conns,
                \/ Connect(c) \/ DispatchExpired(c) \/ Close(c)
                \/ \E m \in Msgs : ClientChat(c, m)
                \/ \E p \in wire[c] : ClientRead(c, p)
         PROVE  UNCHANGED job
    BY <1>12 DEF Connect, DispatchExpired, ClientChat, ClientRead, Close
  <1>13. CASE \/ \E m \in Msgs : FileUploaded(m) \/ GcUpload(m)
              \/ \E p \in friends : DeleteFriend(p)
              \/ UNCHANGED vars
    BY <1>11, <1>13 DEF vars, job, FileUploaded, GcUpload, DeleteFriend
  <1> QED
    BY <1>5, <1>6, <1>7, <1>8, <1>9, <1>10, <1>11, <1>12, <1>13 DEF Next

-----------------------------------------------------------------------------
(* A packet for connection c agrees with the numbers s of the table: one   *)
(* that is not a refusal carries the number of a stored message, and a     *)
(* push goes to its receiver.                                              *)
Backed(s, c, p) ==
    /\ IF p.result \in {"SUCC", "FAIL"} THEN s[p.msg] > 0 /\ p.seq = s[p.msg]
                                        ELSE p.seq = 0
    /\ p.kind = "rq" => p.result = "SUCC" /\ To[p.msg] = Home[c]

AllBacked(s, w) == \A c \in Conns : \A p \in w[c] : Backed(s, c, p)

LEMMA DeliverBacked ==
    ASSUME NEW s, NEW w \in [Conns -> SUBSET Packets], NEW c \in Conns \cup {None},
           NEW p, AllBacked(s, w), c # None => Backed(s, c, p)
    PROVE  AllBacked(s, Deliver(w, c, p))
  <1> SUFFICES ASSUME NEW x \in Conns, NEW q \in Deliver(w, c, p)[x]
               PROVE  Backed(s, x, q)
    BY DEF AllBacked
  <1>1. q \in w[x] \/ (c = x /\ q = p)
    BY DEF Deliver
  <1> QED
    BY <1>1, ChatAssumption DEF AllBacked

(* An answer is backed wherever it goes, a push where its receiver is. *)
LEMMA ReplyBacked ==
    ASSUME NEW s, NEW c, NEW m \in Msgs, NEW r \in Results,
           NEW n, IF r \in {"SUCC", "FAIL"} THEN s[m] > 0 /\ n = s[m] ELSE n = 0
    PROVE  Backed(s, c, Reply(m, r, n))
  BY DEF Backed, Reply

LEMMA PushBacked ==
    ASSUME NEW s, NEW c, NEW m \in Msgs, s[m] > 0, To[m] = Home[c]
    PROVE  Backed(s, c, Push(m, s[m]))
  BY DEF Backed, Push

(* What the clients have read is as good as what is on the wire. *)
ReadStored ==
    /\ \A u \in Users : \A m \in got[u] : Stored(m) /\ To[m] = u
    /\ \A m \in Msgs : answer[m] \in {"SUCC", "FAIL"} => Stored(m)

SentInv == BoundTo /\ WorkStored /\ AllBacked(seq, wire) /\ ReadStored

(* The table only gains rows, so what is queued stays backed. *)
LEMMA BackedKept ==
    ASSUME TypeOK, AllBacked(seq, wire), [Next]_vars
    PROVE  AllBacked(seq', wire)
  <1> SUFFICES ASSUME NEW c \in Conns, NEW p \in wire[c] PROVE Backed(seq', c, p)
    BY DEF AllBacked
  <1>1. p.msg \in Msgs
    BY DEF TypeOK, NetType, Packets
  <1>2. Backed(seq, c, p)
    BY DEF AllBacked
  <1>3. Stored(p.msg) => seq'[p.msg] = seq[p.msg]
    BY <1>1, RowsStep DEF RowKept
  <1> QED
    BY <1>2, <1>3 DEF Backed, Stored

LEMMA WireStep == TypeOK /\ SentInv /\ [Next]_vars => AllBacked(seq', wire')
  <1> SUFFICES ASSUME TypeOK, SentInv, [Next]_vars PROVE AllBacked(seq', wire')
    OBVIOUS
  <1>1. AllBacked(seq', wire) /\ wire \in [Conns -> SUBSET Packets]
    BY BackedKept DEF SentInv, TypeOK, NetType
  <1>2. CASE UNCHANGED wire
    BY <1>1, <1>2
  <1>3. CASE \A c \in Conns : wire'[c] \subseteq wire[c]
    BY <1>1, <1>3 DEF AllBacked
  <1>4. ASSUME NEW c \in Conns, NEW m \in Msgs, NEW r \in Results, NEW n,
               wire' = Deliver(wire, c, Reply(m, r, n)),
               IF r \in {"SUCC", "FAIL"} THEN seq'[m] > 0 /\ n = seq'[m] ELSE n = 0
        PROVE  AllBacked(seq', wire')
    <2>1. Backed(seq', c, Reply(m, r, n))
      BY <1>4, ReplyBacked
    <2> QED
      BY <1>1, <1>4, <2>1, DeliverBacked
  <1>5. ASSUME NEW m \in Msgs, NEW c \in Conns, NEW d \in Conns \cup {None},
               wire' = Deliver(Deliver(wire, c, Push(m, seq[m])), d, Reply(m, "SUCC", seq[m])),
               seq[m] > 0, seq' = seq, To[m] = Home[c]
        PROVE  AllBacked(seq', wire')
    <2>1. Backed(seq, c, Push(m, seq[m])) /\ Backed(seq, d, Reply(m, "SUCC", seq[m]))
      BY <1>5, PushBacked, ReplyBacked DEF Results
    <2>2. AllBacked(seq, Deliver(wire, c, Push(m, seq[m])))
      BY <1>1, <1>5, <2>1, DeliverBacked
    <2>3. Push(m, seq[m]) \in Packets
      BY PacketType DEF TypeOK, DataType, Results
    <2>4. Deliver(wire, c, Push(m, seq[m])) \in [Conns -> SUBSET Packets]
      BY <1>1, <2>3, DeliverType
    <2> QED
      BY <1>5, <2>1, <2>2, <2>4, DeliverBacked
  <1>6. ASSUME NEW c \in Conns, StartChat(c) PROVE AllBacked(seq', wire')
    <2> DEFINE m == Head(inq[c]).msg
    <2>1. m \in Msgs
      BY <1>6 DEF StartChat, Dispatchable, TypeOK, NetType, Frames
    <2>2. UNCHANGED wire \/ \E r \in {"NOT_FRIEND", "FILE_NOT_OWNED"} :
                               wire' = Deliver(wire, c, Reply(m, r, 0))
      BY <1>6 DEF StartChat, Refuse
    <2> QED
      BY <1>2, <1>4, <2>1, <2>2 DEF Results
  <1>7. ASSUME NEW c \in Conns, ChatSaveFails(c) PROVE AllBacked(seq', wire')
    BY <1>4, <1>7 DEF ChatSaveFails, Results, TypeOK, JobType
  <1>8. ASSUME NEW c \in Conns, ChatPush(c) PROVE AllBacked(seq', wire')
    <2> DEFINE m == cur[c]
               t == target[c]
    <2>1. m \in Msgs /\ seq[m] > 0 /\ seq' = seq /\ t \in Conns \cup {None}
      BY <1>8 DEF ChatPush, TypeOK, JobType, SentInv, WorkStored, Stored, db
    <2>2. CASE t = None
      <3>1. wire' = Deliver(wire, c, Reply(m, "FAIL", seq[m]))
        BY <1>8, <2>2 DEF ChatPush
      <3> QED
        BY <1>4, <2>1, <3>1 DEF Results
    <2>3. CASE t # None
      <3>1. uid[t] = To[m] /\ uid[t] \in {None, Home[t]}
        BY <2>1, <2>3 DEF SentInv, BoundTo
      <3>2. To[m] = Home[t]
        BY <2>1, <3>1, ChatAssumption
      <3>3. wire' = Deliver(Deliver(wire, t, Push(m, seq[m])), c, Reply(m, "SUCC", seq[m]))
        BY <1>8, <2>3 DEF ChatPush
      <3> QED
        BY <1>5, <2>1, <2>3, <3>2, <3>3
    <2> QED
      BY <2>2, <2>3
  <1>9. ASSUME NEW c \in Conns, NEW m \in Msgs, ActResend(c, m)
        PROVE  AllBacked(seq', wire')
    <2>1. pc[c] = "resend" /\ m \in todo[c] /\ seq' = seq
      BY <1>9 DEF ActResend, db
    <2>2. seq[m] > 0 /\ To[m] = Home[c]
      <3>1. Stored(m) /\ To[m] = uid[c]
        BY <2>1 DEF SentInv, WorkStored
      <3>2. uid[c] = Home[c]
        BY <2>1, ChatAssumption DEF SentInv, BoundTo, TypeOK, JobType
      <3> QED
        BY <3>1, <3>2 DEF Stored
    <2>3. Get(From[m]) \in Conns \cup {None}
      BY GetType, ChatAssumption DEF TypeOK
    <2>4. wire' = Deliver(Deliver(wire, c, Push(m, seq[m])),
                          Get(From[m]), Reply(m, "SUCC", seq[m]))
      BY <1>9 DEF ActResend
    <2> QED
      BY <1>5, <2>1, <2>2, <2>3, <2>4
  <1>10. ASSUME NEW c \in Conns,
                Close(c) \/ \E p \in wire[c] : ClientRead(c, p)
         PROVE  AllBacked(seq', wire')
    BY <1>1, <1>3, <1>10 DEF Close, ClientRead
  <1>11. CASE Restart
    BY <1>1, <1>3, <1>11 DEF Restart
  <1>12. ASSUME NEW c \in Conns,
                \/ Connect(c) \/ DispatchExpired(c) \/ StartLogin(c) \/ ChatGet(c)
                \/ ChatSave(c) \/ ActReplace(c) \/ ActPull(c) \/ ActMark(c)
                \/ \E m \in Msgs : ClientChat(c, m)
         PROVE  UNCHANGED wire
    BY <1>12 DEF net, Connect, DispatchExpired, StartLogin, ChatGet, ChatSave, ActReplace,
       ActPull, ActMark, ClientChat
  <1>13. CASE \/ \E m \in Msgs : FileUploaded(m) \/ GcUpload(m)
              \/ \E p \in friends : DeleteFriend(p)
              \/ UNCHANGED vars
    BY <1>2, <1>13 DEF vars, net, FileUploaded, GcUpload, DeleteFriend
  <1> QED
    BY <1>2, <1>6, <1>7, <1>8, <1>9, <1>10, <1>11, <1>12, <1>13 DEF Next

LEMMA ReadStep == TypeOK /\ SentInv /\ [Next]_vars => ReadStored'
  <1> SUFFICES ASSUME TypeOK, SentInv, [Next]_vars PROVE ReadStored'
    OBVIOUS
  <1>1. \A m \in Msgs : Stored(m) => Stored(m)'
    BY RowsStep DEF RowKept, Stored
  <1>2. \A u \in Users : \A m \in got[u] : m \in Msgs /\ Stored(m)' /\ To[m] = u
    BY <1>1 DEF SentInv, ReadStored, TypeOK, DataType
  <1>3. \A m \in Msgs : answer[m] \in {"SUCC", "FAIL"} => Stored(m)'
    BY <1>1 DEF SentInv, ReadStored
  <1>4. CASE UNCHANGED <<got, answer>>
    BY <1>2, <1>3, <1>4 DEF ReadStored
  <1>5. ASSUME NEW c \in Conns, NEW p \in wire[c], ClientRead(c, p) PROVE ReadStored'
    <2>1. Backed(seq, c, p) /\ p.msg \in Msgs
      BY DEF SentInv, AllBacked, TypeOK, NetType, Packets
    <2>2. p.result \in {"SUCC", "FAIL"} => Stored(p.msg)'
      BY <2>1, <1>1 DEF Backed, Stored
    <2>3. CASE p.kind = "rq"
      <3>1. got' = [got EXCEPT ![Home[c]] = @ \cup {p.msg}] /\ answer' = answer
        BY <1>5, <2>3 DEF ClientRead
      <3>2. To[p.msg] = Home[c] /\ Stored(p.msg)'
        BY <2>1, <2>2, <2>3 DEF Backed
      <3> QED
        BY <1>2, <1>3, <3>1, <3>2 DEF ReadStored, TypeOK, DataType
    <2>4. CASE p.kind # "rq"
      <3>1. answer' = [answer EXCEPT ![p.msg] = p.result] /\ got' = got
        BY <1>5, <2>4 DEF ClientRead
      <3> QED
        BY <1>2, <1>3, <2>1, <2>2, <3>1 DEF ReadStored, TypeOK, DataType
    <2> QED
      BY <2>3, <2>4
  <1>6. ASSUME NEW c \in Conns,
               Connect(c) \/ DispatchExpired(c) \/ StartLogin(c) \/ StartChat(c)
                 \/ ChatGet(c) \/ ChatSave(c) \/ ChatSaveFails(c) \/ ChatPush(c)
                 \/ ActReplace(c) \/ ActPull(c) \/ ActMark(c) \/ Close(c)
        PROVE  UNCHANGED <<got, answer>>
    BY <1>6 DEF client, Connect, DispatchExpired, StartLogin, StartChat, ChatGet, ChatSave,
       ChatSaveFails, ChatPush, ActReplace, ActPull, ActMark, Close
  <1>7. ASSUME NEW c \in Conns, NEW m \in Msgs, ClientChat(c, m) \/ ActResend(c, m)
        PROVE  UNCHANGED <<got, answer>>
    BY <1>7 DEF client, ClientChat, ActResend
  <1>8. CASE \/ \E m \in Msgs : FileUploaded(m) \/ GcUpload(m)
             \/ \E p \in friends : DeleteFriend(p)
             \/ Restart
             \/ UNCHANGED vars
    BY <1>4, <1>8 DEF vars, client, FileUploaded, GcUpload, DeleteFriend, Restart
  <1> QED
    BY <1>4, <1>5, <1>6, <1>7, <1>8 DEF Next

(* With any interleaving of handlers, failures, retries, kicks and         *)
(* restarts, a message is stored before its receiver, or its sender, hears *)
(* of it, whatever travels carries the number it is stored under, and only *)
(* its receiver reads it.                                                  *)
THEOREM SentIsStored == Spec => []StoredBeforeSent
  <1>1. Init => SentInv
    BY ChatAssumption
       DEF Init, SentInv, BoundTo, WorkStored, AllBacked, ReadStored, Stored
  <1>2. TypeOK /\ ConvInv /\ SentInv /\ [Next]_vars => SentInv'
    BY BoundStep, WorkStep, WireStep, ReadStep DEF SentInv, AllBacked
  <1>3. SentInv => StoredBeforeSent
    BY DEF SentInv, AllBacked, Backed, ReadStored, StoredBeforeSent, Stored
  <1> QED
    BY <1>1, <1>2, <1>3, TypeCorrect, PTL DEF Spec

-----------------------------------------------------------------------------
(* The catch-up loop has pushed what it no longer has to do. *)
PulledPushed == \A c \in Conns : ids[c] \ todo[c] \subseteq pushed

(* Some handler is between saveMessage and the push of m to a session. *)
AboutToPush(m) == \E c \in Conns : pc[c] = "push" /\ cur[c] = m /\ target[c] # None

DeliveredInv ==
    /\ PulledPushed
    /\ restarts = 0 => \A m \in Msgs : delivered[m] => m \in pushed \/ AboutToPush(m)

LEMMA DeliveredStep == TypeOK /\ DeliveredInv /\ [Next]_vars => DeliveredInv'
  <1> SUFFICES ASSUME NetType, JobType, DataType, DeliveredInv, [Next]_vars
               PROVE  DeliveredInv'
    BY DEF TypeOK
  <1> USE DEF DeliveredInv, PulledPushed, AboutToPush
  <1>1. ASSUME NEW c \in Conns, pc[c] # "push", NEW p, NEW m, NEW t, NEW i, NEW d,
               SetJob(c, p, m, t, i, d), i \ d \subseteq pushed', pushed \subseteq pushed',
               UNCHANGED <<delivered, restarts>>
        PROVE  DeliveredInv'
    <2>1. PulledPushed'
      BY <1>1 DEF SetJob, JobType
    <2>2. \A x \in Msgs : AboutToPush(x) => AboutToPush(x)'
      BY <1>1 DEF SetJob, JobType
    <2> QED
      BY <1>1, <2>1, <2>2
  <1>2. ASSUME NEW c \in Conns,
               StartLogin(c) \/ ChatGet(c) \/ ChatSaveFails(c) \/ ActReplace(c) \/ ActPull(c)
        PROVE  DeliveredInv'
    <2>1. pc[c] # "push"
      BY <1>2 DEF StartLogin, Dispatchable, ChatGet, ChatSaveFails, ActReplace, ActPull
    <2>2. UNCHANGED <<delivered, restarts, pushed>>
      BY <1>2 DEF StartLogin, ChatGet, ChatSaveFails, ActReplace, ActPull, db
    <2>3. PICK p, m, t, d : SetJob(c, p, m, t, d, d)
      BY <1>2 DEF StartLogin, ChatGet, ChatSaveFails, ActReplace, ActPull, EndJob
    <2> QED
      BY <1>1, <2>1, <2>2, <2>3
  <1>3. ASSUME NEW c \in Conns, ChatSave(c) PROVE DeliveredInv'
    <2> DEFINE online == target[c] # None
    <2>1. /\ pc[c] = "save" /\ cur[c] \in Msgs
          /\ pc' = [pc EXCEPT ![c] = "push"]
          /\ cur' = [cur EXCEPT ![c] = cur[c]] /\ target' = [target EXCEPT ![c] = target[c]]
          /\ ids' = [ids EXCEPT ![c] = {}] /\ todo' = [todo EXCEPT ![c] = {}]
          /\ UNCHANGED <<pushed, restarts>>
      BY <1>3 DEF ChatSave, SetJob, JobType
    <2>2. UNCHANGED delivered \/ delivered' = [delivered EXCEPT ![cur[c]] = online]
      BY <1>3 DEF ChatSave, SaveMessage, db
    <2>3. PulledPushed'
      BY <2>1 DEF JobType
    <2>4. \A m \in Msgs : AboutToPush(m) => AboutToPush(m)'
      BY <2>1 DEF JobType
    <2>5. online => AboutToPush(cur[c])'
      BY <2>1 DEF JobType
    <2>6. ASSUME NEW m \in Msgs, delivered'[m]
          PROVE  delivered[m] \/ (m = cur[c] /\ online)
      BY <2>1, <2>2, <2>6 DEF DataType
    <2> QED
      BY <2>1, <2>3, <2>4, <2>5, <2>6
  <1>4. ASSUME NEW c \in Conns, ChatPush(c) PROVE DeliveredInv'
    <2>1. /\ pushed \subseteq pushed' /\ (target[c] # None => cur[c] \in pushed')
          /\ UNCHANGED <<delivered, restarts>>
      BY <1>4 DEF ChatPush, db
    <2>2. /\ pc' = [pc EXCEPT ![c] = "idle"] /\ cur' = [cur EXCEPT ![c] = None]
          /\ target' = [target EXCEPT ![c] = None]
          /\ ids' = [ids EXCEPT ![c] = {}] /\ todo' = [todo EXCEPT ![c] = {}]
      BY <1>4 DEF ChatPush, EndJob, SetJob
    <2>3. PulledPushed'
      BY <2>1, <2>2 DEF JobType
    <2>4. \A m \in Msgs : AboutToPush(m) => AboutToPush(m)' \/ m \in pushed'
      BY <2>1, <2>2 DEF JobType
    <2> QED
      BY <2>1, <2>3, <2>4
  <1>5. ASSUME NEW c \in Conns, ActMark(c) PROVE DeliveredInv'
    <2>1. /\ pc[c] = "resend" /\ ids[c] \subseteq pushed /\ UNCHANGED <<pushed, restarts>>
          /\ delivered' = [m \in Msgs |-> delivered[m] \/ m \in ids[c]]
      BY <1>5 DEF ActMark
    <2>2. /\ pc' = [pc EXCEPT ![c] = "idle"] /\ cur' = [cur EXCEPT ![c] = None]
          /\ target' = [target EXCEPT ![c] = None]
          /\ ids' = [ids EXCEPT ![c] = {}] /\ todo' = [todo EXCEPT ![c] = {}]
      BY <1>5 DEF ActMark, EndJob, SetJob
    <2>3. PulledPushed'
      BY <2>1, <2>2 DEF JobType
    <2>4. \A m \in Msgs : AboutToPush(m) => AboutToPush(m)'
      BY <2>1, <2>2 DEF JobType
    <2>5. \A m \in Msgs : delivered'[m] => delivered[m] \/ m \in pushed'
      BY <2>1
    <2> QED
      BY <2>1, <2>3, <2>4, <2>5
  <1>6. ASSUME NEW c \in Conns, NEW m \in Msgs, ActResend(c, m) PROVE DeliveredInv'
    <2>1. /\ pc[c] # "push" /\ pushed' = pushed \cup {m}
          /\ SetJob(c, "resend", None, None, ids[c], todo[c] \ {m})
          /\ UNCHANGED <<delivered, restarts>>
      BY <1>6 DEF ActResend, db
    <2>2. ids[c] \ (todo[c] \ {m}) \subseteq pushed'
      BY <2>1
    <2> QED
      BY <1>1, <2>1, <2>2
  <1>7. ASSUME NEW c \in Conns, StartChat(c) PROVE DeliveredInv'
    <2>1. pc[c] # "push" /\ UNCHANGED <<delivered, restarts, pushed>>
      BY <1>7 DEF StartChat, Dispatchable, db
    <2>2. UNCHANGED job \/ SetJob(c, "get", Head(inq[c]).msg, None, {}, {})
      BY <1>7 DEF StartChat, Refuse
    <2>3. CASE UNCHANGED job
      BY <2>1, <2>3 DEF job
    <2> QED
      BY <1>1, <2>1, <2>2, <2>3
  <1>8. CASE Restart
    <2>1. restarts' # 0 /\ ids' = [c \in Conns |-> {}]
      BY <1>8 DEF Restart, DataType
    <2> QED
      BY <2>1
  <1>9. CASE UNCHANGED <<job, delivered, pushed, restarts>>
    BY <1>9 DEF job
  <1>10. ASSUME NEW c \in Conns,
                \/ Connect(c) \/ DispatchExpired(c) \/ Close(c)
                \/ \E m \in Msgs : ClientChat(c, m)
                \/ \E p \in wire[c] : ClientRead(c, p)
         PROVE  UNCHANGED <<job, delivered, pushed, restarts>>
    BY <1>10 DEF db, Connect, DispatchExpired, Close, ClientChat, ClientRead
  <1>11. CASE \/ \E m \in Msgs : FileUploaded(m) \/ GcUpload(m)
              \/ \E p \in friends : DeleteFriend(p)
              \/ UNCHANGED vars
    BY <1>9, <1>11 DEF vars, job, db, FileUploaded, GcUpload, DeleteFriend
  <1> QED
    BY <1>2, <1>3, <1>4, <1>5, <1>6, <1>7, <1>8, <1>9, <1>10, <1>11 DEF Next

(* As long as the server has not restarted, is_delivered is set only for a *)
(* message handed to a session of its receiver or about to be.             *)
THEOREM DeliveredIsPushed == Spec => []DeliveredWasPushed
  <1>1. Init => DeliveredInv
    BY DEF Init, DeliveredInv, PulledPushed
  <1>2. DeliveredInv => DeliveredWasPushed
    BY DEF DeliveredInv, AboutToPush, DeliveredWasPushed
  <1> QED
    BY <1>1, <1>2, DeliveredStep, TypeCorrect, PTL DEF Spec
=============================================================================
