-------------------------- MODULE KernelHostProofs --------------------------
(***************************************************************************)
(* What holds of the account's kernel and of the database file under it,   *)
(* for every number of openings, commands, readers, connections and        *)
(* faults; and, in the second part, of the connection the kernel's client  *)
(* has to the server, for every number of connections, packets and faults. *)
(* The two share no variable.                                              *)
(***************************************************************************)
EXTENDS KernelHost, SecureConnection, SequenceTheorems, FiniteSetTheorems, TLAPS

-----------------------------------------------------------------------------
(* The inductive invariant.                                                *)

(* The parts of TypeOK, each preserved by itself. *)
LifeType ==
  /\ status \in [Dbs -> {"new", "Ready", "Closing", "Closed", "Locked"}]
  /\ closing \in [Dbs -> 0 .. 5]
  /\ lock \in Dbs \cup {Free, Rival}

OpenType ==
  /\ running \in [Dbs -> BOOLEAN] /\ pool \in [Dbs -> BOOLEAN]
  /\ writeOpen \in [Dbs -> BOOLEAN] /\ readOpen \in [Dbs -> BOOLEAN]

WriteType ==
  /\ queue \in [Dbs -> Seq(Cmds)]
  /\ writer \in [Dbs -> Cmds \cup {Waits, Exited}]
  /\ committed \subseteq Cmds

DoneType == done \in Seq([cmd : Cmds, res : {"Ok", "SqlFailed"}])

CallType ==
  /\ call \in [Cmds -> [at : {"out", "fetched", "queued", "back"},
                        db : Dbs \cup {NoDb}]]
  /\ answer \in [Cmds -> Results \cup {"none"}]

ReadType ==
  /\ leased \in [Dbs -> SUBSET Readers] /\ waiting \in [Dbs -> SUBSET Readers]
  /\ reader \in [Readers -> [at : {"out", "fetched", "waiting", "reading", "back"},
                             db : Dbs \cup {NoDb}]]

FaultType == faults \in 0 .. MaxFaults

LEMMA StoreParts ==
  StoreTypeOK <=> /\ LifeType /\ OpenType /\ WriteType /\ DoneType
                  /\ CallType /\ ReadType /\ FaultType
  <1>1. Len(ClosingSteps) = 5
    BY DEF ClosingSteps
  <1> QED
    BY <1>1 DEF StoreTypeOK, LifeType, OpenType, WriteType, DoneType,
       CallType, ReadType, FaultType

(* closeInternal closes one thing after the other: what is open and who    *)
(* may be at work follows from the step it is at.                          *)
LifeInv ==
  \A d \in Dbs :
    /\ closing[d] # 0 <=> status[d] = "Closing"
    /\ lock = d <=> status[d] \in {"Ready", "Closing"}
    /\ writeOpen[d] <=> status[d] = "Ready" \/ closing[d] \in 1 .. 4
    /\ readOpen[d] <=> status[d] = "Ready" \/ closing[d] \in 1 .. 3
    /\ pool[d] => status[d] = "Ready" \/ closing[d] \in 1 .. 2
    /\ writer[d] # Exited => status[d] = "Ready" \/ closing[d] \in 1 .. 2
    /\ leased[d] # {} => status[d] = "Ready" \/ closing[d] \in 1 .. 3

NoRepeat(s) == \A i, j \in DOMAIN s : s[i] = s[j] => i = j

(* A command is in one place at most: in one queue, once, or with one      *)
(* writer.                                                                 *)
QueueInv ==
  /\ \A d \in Dbs : NoRepeat(queue[d])
  /\ \A d, e \in Dbs : \A c \in Cmds :
       /\ c \in Range(queue[d]) /\ c \in Range(queue[e]) => d = e
       /\ writer[d] = c /\ writer[e] = c => d = e
       /\ writer[d] = c => c \notin Range(queue[e])

(* Queued, or in its transaction. *)
Pending(c) == \E d \in Dbs : c \in Range(queue[d]) \/ writer[d] = c

(* A command that is out has left no trace; a pending one is not committed *)
(* and not answered, unless its caller gave up.                            *)
CallInv ==
  \A c \in Cmds :
    /\ answer[c] # "none" => call[c].at = "back"
    /\ call[c].at \in {"out", "fetched"} => ~Pending(c) /\ c \notin committed
    /\ Pending(c) => c \notin committed /\ answer[c] \in {"none", "Unknown"}
    /\ c \in committed => answer[c] \in {"none", "Unknown", "Ok"}
    /\ answer[c] = "Ok" => c \in committed

(* A result on its way is true, and nothing of its command is pending. *)
DoneInv ==
  \A r \in Range(done) :
    /\ call[r.cmd].at \in {"queued", "back"} /\ ~Pending(r.cmd)
    /\ r.res = "Ok" <=> r.cmd \in committed

(* Whoever works with a database has fetched one. *)
AtInv ==
  /\ \A c \in Cmds : call[c].at \in {"fetched", "queued"} => call[c].db \in Dbs
  /\ \A r \in Readers : reader[r].at # "out" => reader[r].db \in Dbs

StoreInv ==
  StoreTypeOK /\ LifeInv /\ QueueInv /\ CallInv /\ DoneInv /\ AtInv

-----------------------------------------------------------------------------
(* The database file by itself: whatever its callers do.                   *)

StoreNext ==
  \/ \E d \in Dbs : Open(d) \/ OpenRefused(d) \/ CloseBegin(d)
                    \/ CloseStep(d) \/ WriterStep(d)
  \/ RivalLocks \/ RivalLeaves \/ Tell
  \/ \E c \in Cmds : Submit(c) \/ GiveUp(c) \/ \E d \in Dbs : Fetch(c, d)
  \/ \E r \in Readers : \/ Leases(r) \/ Queues(r) \/ Refused(r) \/ Returns(r)
                        \/ \E d \in Dbs : Fetches(r, d)

LEMMA ClosingStep ==
  ASSUME NEW d \in Dbs, closing[d] \in 0 .. 5
  PROVE  /\ At(d, "stop") <=> closing[d] = 1
         /\ At(d, "pool") <=> closing[d] = 2
         /\ At(d, "leases") <=> closing[d] = 3
         /\ At(d, "connection") <=> closing[d] = 4
         /\ At(d, "unlock") <=> closing[d] = 5
  BY DEF At, ClosingSteps

(* What a queue holds after a command came or went. *)
LEMMA QueueGrows ==
  ASSUME NEW S, NEW s \in Seq(S), NEW c \in S
  PROVE  /\ Append(s, c) \in Seq(S)
         /\ Range(Append(s, c)) = Range(s) \cup {c}
         /\ NoRepeat(s) /\ c \notin Range(s) => NoRepeat(Append(s, c))
  <1>1. /\ Append(s, c) \in Seq(S) /\ DOMAIN s = 1 .. Len(s) /\ Len(s) \in Nat
        /\ DOMAIN Append(s, c) = 1 .. Len(s) + 1
        /\ \A i \in 1 .. Len(s) : Append(s, c)[i] = s[i]
        /\ Append(s, c)[Len(s) + 1] = c
    OBVIOUS
  <1>2. Range(Append(s, c)) = Range(s) \cup {c}
    BY <1>1, SMT DEF Range
  <1>3. NoRepeat(s) /\ c \notin Range(s) => NoRepeat(Append(s, c))
    BY <1>1, SMT DEF Range, NoRepeat
  <1> QED
    BY <1>1, <1>2, <1>3

LEMMA RangeIn ==
  ASSUME NEW S, NEW s \in Seq(S)
  PROVE  Range(s) \subseteq S
  BY LenProperties DEF Range

LEMMA QueueShrinks ==
  ASSUME NEW S, NEW s \in Seq(S), s # <<>>
  PROVE  /\ Tail(s) \in Seq(S) /\ Head(s) \in S
         /\ Range(s) = Range(Tail(s)) \cup {Head(s)}
         /\ NoRepeat(s) => NoRepeat(Tail(s)) /\ Head(s) \notin Range(Tail(s))
  <1>1. /\ Tail(s) \in Seq(S) /\ DOMAIN s = 1 .. Len(s) /\ Len(s) \in Nat \ {0}
        /\ DOMAIN Tail(s) = 1 .. Len(s) - 1
        /\ \A i \in 1 .. Len(s) - 1 : Tail(s)[i] = s[i + 1]
        /\ Head(s) = s[1] /\ Head(s) \in S
    BY HeadTailProperties, EmptySeq
  <1>2. Range(s) = Range(Tail(s)) \cup {Head(s)}
    <2>1. ASSUME NEW i \in 1 .. Len(s)
          PROVE  s[i] = Head(s) \/ s[i] \in Range(Tail(s))
      <3>1. i = 1 \/ (i - 1 \in 1 .. Len(s) - 1 /\ s[i] = Tail(s)[i - 1])
        BY <1>1
      <3> QED
        BY <1>1, <3>1 DEF Range
    <2>2. ASSUME NEW i \in 1 .. Len(s) - 1
          PROVE  Tail(s)[i] \in Range(s)
      <3>1. i + 1 \in 1 .. Len(s) /\ Tail(s)[i] = s[i + 1]
        BY <1>1
      <3> QED
        BY <1>1, <3>1 DEF Range
    <2>3. Head(s) \in Range(s)
      BY <1>1 DEF Range
    <2>4. Range(s) \subseteq Range(Tail(s)) \cup {Head(s)}
      BY <1>1, <2>1 DEF Range
    <2>5. Range(Tail(s)) \subseteq Range(s)
      BY <1>1, <2>2 DEF Range
    <2> QED
      BY <2>3, <2>4, <2>5
  <1>3. NoRepeat(s) => NoRepeat(Tail(s)) /\ Head(s) \notin Range(Tail(s))
    BY <1>1, SMT DEF Range, NoRepeat
  <1> QED
    BY <1>1, <1>2, <1>3

LEMMA LifeTypeStep ==
  ASSUME LifeType, StoreNext \/ UNCHANGED storeVars
  PROVE  LifeType'
  <1>1. CASE \/ (\E d \in Dbs : Open(d)) \/ (\E d \in Dbs : OpenRefused(d))
             \/ RivalLocks \/ RivalLeaves
    BY <1>1 DEF Open, LockFree, calls, OpenRefused, Fault, writing, reading,
       RivalLocks, RivalLeaves, LifeType
  <1>2. CASE (\E d \in Dbs : CloseBegin(d))
    BY <1>2 DEF CloseBegin, writing, calls, reading, LifeType
  <1>3. CASE \/ (\E d \in Dbs : QueueStops(d))
             \/ (\E d \in Dbs : PoolStops(d))
             \/ (\E d \in Dbs : LeasesReturned(d))
             \/ (\E d \in Dbs : ConnectionCloses(d))
             \/ (\E d \in Dbs : Unlock(d))
    <2>1. PICK d \in Dbs : CloseStep(d)
      BY <1>3 DEF CloseStep
    <2>2. closing[d] \in 0 .. 5 /\ closing'[d] \in 0 .. 5
      BY <2>1, ClosingStep DEF CloseStep, LifeType, QueueStops, PoolStops,
         LeasesReturned, ConnectionCloses, Unlock, NextStep
    <2>3. /\ closing' = [closing EXCEPT ![d] = closing'[d]]
          /\ status' = status \/ status' = [status EXCEPT ![d] = "Closed"]
          /\ lock' = lock \/ lock' = Free
      BY <2>1 DEF CloseStep, LifeType, QueueStops, PoolStops,
         LeasesReturned, ConnectionCloses, Unlock, NextStep
    <2> QED
      BY <2>2, <2>3 DEF LifeType
  <1>4. CASE \/ (\E c \in Cmds, d \in Dbs : Fetch(c, d))
             \/ (\E c \in Cmds : Submit(c)) \/ (\E c \in Cmds : GiveUp(c))
             \/ (\E d \in Dbs : WriterTakes(d))
             \/ (\E d \in Dbs : Commit(d)) \/ (\E d \in Dbs : Rollback(d))
             \/ (\E d \in Dbs : WriterExits(d)) \/ Tell
    BY <1>4 DEF Fetch, Answered, life, writing, reading, Submit, Accept,
       Goes, GiveUp, Fault, WriterTakes, calls, Commit, Finish, Rollback,
       WriterExits, Tell, LifeType
  <1>5. CASE \/ (\E r \in Readers, d \in Dbs : Fetches(r, d))
             \/ (\E r \in Readers : Leases(r))
             \/ (\E r \in Readers : Queues(r))
             \/ (\E r \in Readers : Refused(r))
             \/ (\E r \in Readers : Returns(r))
    BY <1>5 DEF Fetches, life, writing, calls, Leases, Idle, Queues,
       Refused, Leaves, Returns, LifeType
  <1>6. CASE UNCHANGED storeVars
    BY <1>6 DEF storeVars, life, writing, calls, reading, LifeType
  <1> QED
    BY <1>1, <1>2, <1>3, <1>4, <1>5, <1>6 DEF StoreNext, CloseStep, WriterStep

LEMMA OpenTypeStep ==
  ASSUME OpenType, StoreNext \/ UNCHANGED storeVars
  PROVE  OpenType'
  <1>1. CASE \/ (\E d \in Dbs : Open(d)) \/ (\E d \in Dbs : OpenRefused(d))
             \/ RivalLocks \/ RivalLeaves
    BY <1>1 DEF Open, LockFree, calls, OpenRefused, Fault, writing, reading,
       RivalLocks, RivalLeaves, OpenType
  <1>2. CASE \/ (\E d \in Dbs : CloseBegin(d))
             \/ (\E d \in Dbs : QueueStops(d))
             \/ (\E d \in Dbs : PoolStops(d))
             \/ (\E d \in Dbs : LeasesReturned(d))
             \/ (\E d \in Dbs : ConnectionCloses(d))
             \/ (\E d \in Dbs : Unlock(d))
    BY <1>2 DEF CloseBegin, writing, calls, reading, QueueStops, At,
       NextStep, PoolStops, LeasesReturned, ConnectionCloses, Unlock,
       OpenType
  <1>3. CASE \/ (\E c \in Cmds, d \in Dbs : Fetch(c, d))
             \/ (\E c \in Cmds : Submit(c)) \/ (\E c \in Cmds : GiveUp(c))
             \/ (\E d \in Dbs : WriterTakes(d))
             \/ (\E d \in Dbs : Commit(d)) \/ (\E d \in Dbs : Rollback(d))
             \/ (\E d \in Dbs : WriterExits(d)) \/ Tell
    BY <1>3 DEF Fetch, Answered, life, writing, reading, Submit, Accept,
       Goes, GiveUp, Fault, WriterTakes, calls, Commit, Finish, Rollback,
       WriterExits, Tell, OpenType
  <1>4. CASE \/ (\E r \in Readers, d \in Dbs : Fetches(r, d))
             \/ (\E r \in Readers : Leases(r))
             \/ (\E r \in Readers : Queues(r))
             \/ (\E r \in Readers : Refused(r))
             \/ (\E r \in Readers : Returns(r))
    BY <1>4 DEF Fetches, life, writing, calls, Leases, Idle, Queues,
       Refused, Leaves, Returns, OpenType
  <1>5. CASE UNCHANGED storeVars
    BY <1>5 DEF storeVars, life, writing, calls, reading, OpenType
  <1> QED
    BY <1>1, <1>2, <1>3, <1>4, <1>5 DEF StoreNext, CloseStep, WriterStep

LEMMA WriteTypeStep ==
  ASSUME WriteType, AtInv, StoreNext \/ UNCHANGED storeVars
  PROVE  WriteType'
  <1>1. CASE \/ (\E d \in Dbs : Open(d)) \/ (\E d \in Dbs : OpenRefused(d))
             \/ RivalLocks \/ RivalLeaves
    BY <1>1 DEF Open, LockFree, calls, OpenRefused, Fault, writing, reading,
       RivalLocks, RivalLeaves, WriteType
  <1>2. CASE \/ (\E d \in Dbs : CloseBegin(d))
             \/ (\E d \in Dbs : QueueStops(d))
             \/ (\E d \in Dbs : PoolStops(d))
             \/ (\E d \in Dbs : LeasesReturned(d))
             \/ (\E d \in Dbs : ConnectionCloses(d))
             \/ (\E d \in Dbs : Unlock(d))
    BY <1>2 DEF CloseBegin, writing, calls, reading, QueueStops, At,
       NextStep, PoolStops, LeasesReturned, ConnectionCloses, Unlock,
       WriteType
  <1>3. CASE \/ (\E c \in Cmds, d \in Dbs : Fetch(c, d))
             \/ (\E c \in Cmds : GiveUp(c)) \/ Tell
    BY <1>3 DEF Fetch, Answered, life, writing, reading, GiveUp, Fault,
       Goes, Tell, calls, WriteType
  <1>4. CASE (\E c \in Cmds : Submit(c))
    <2>1. PICK c \in Cmds : Submit(c)
      BY <1>4
    <2>2. call[c].db \in Dbs
      BY <2>1 DEF Submit, AtInv
    <2>3. \/ queue' = [queue EXCEPT ![call[c].db] = Append(@, c)]
          \/ UNCHANGED queue
      BY <2>1 DEF Submit
    <2>4. Append(queue[call[c].db], c) \in Seq(Cmds)
      BY <2>2, QueueGrows DEF WriteType
    <2> QED
      BY <2>1, <2>2, <2>3, <2>4 DEF Submit, WriteType
  <1>5. CASE (\E d \in Dbs : WriterTakes(d))
    <2>1. PICK d \in Dbs : WriterTakes(d)
      BY <1>5
    <2>2. Head(queue[d]) \in Cmds /\ Tail(queue[d]) \in Seq(Cmds)
      BY <2>1, QueueShrinks DEF WriterTakes, WriteType
    <2> QED
      BY <2>1, <2>2 DEF WriterTakes, WriteType
  <1>6. CASE \/ (\E d \in Dbs : Commit(d)) \/ (\E d \in Dbs : Rollback(d))
             \/ (\E d \in Dbs : WriterExits(d))
    BY <1>6 DEF Commit, Finish, life, calls, reading, Rollback, Fault,
       WriterExits, WriteType
  <1>7. CASE \/ (\E r \in Readers, d \in Dbs : Fetches(r, d))
             \/ (\E r \in Readers : Leases(r))
             \/ (\E r \in Readers : Queues(r))
             \/ (\E r \in Readers : Refused(r))
             \/ (\E r \in Readers : Returns(r))
    BY <1>7 DEF Fetches, life, writing, calls, Leases, Idle, Queues,
       Refused, Leaves, Returns, WriteType
  <1>8. CASE UNCHANGED storeVars
    BY <1>8 DEF storeVars, life, writing, calls, reading, WriteType
  <1> QED
    BY <1>1, <1>2, <1>3, <1>4, <1>5, <1>6, <1>7, <1>8 DEF StoreNext, CloseStep, WriterStep

LEMMA DoneTypeStep ==
  ASSUME DoneType, StoreNext \/ UNCHANGED storeVars
  PROVE  DoneType'
  <1>1. CASE \/ (\E d \in Dbs : Open(d)) \/ (\E d \in Dbs : OpenRefused(d))
             \/ RivalLocks \/ RivalLeaves
    BY <1>1 DEF Open, LockFree, calls, OpenRefused, Fault, writing, reading,
       RivalLocks, RivalLeaves, DoneType
  <1>2. CASE \/ (\E d \in Dbs : CloseBegin(d))
             \/ (\E d \in Dbs : QueueStops(d))
             \/ (\E d \in Dbs : PoolStops(d))
             \/ (\E d \in Dbs : LeasesReturned(d))
             \/ (\E d \in Dbs : ConnectionCloses(d))
             \/ (\E d \in Dbs : Unlock(d))
    BY <1>2 DEF CloseBegin, writing, calls, reading, QueueStops, At,
       NextStep, PoolStops, LeasesReturned, ConnectionCloses, Unlock,
       DoneType
  <1>3. CASE \/ (\E c \in Cmds, d \in Dbs : Fetch(c, d))
             \/ (\E c \in Cmds : GiveUp(c)) \/ (\E c \in Cmds : Submit(c))
             \/ (\E d \in Dbs : WriterTakes(d))
             \/ (\E d \in Dbs : WriterExits(d))
    BY <1>3 DEF Fetch, Answered, life, writing, reading, GiveUp, Fault,
       Goes, Submit, Accept, WriterTakes, calls, WriterExits, DoneType
  <1>4. CASE \/ (\E d \in Dbs : Commit(d)) \/ (\E d \in Dbs : Rollback(d))
    <2>1. PICK d \in Dbs : Commit(d) \/ Rollback(d)
      BY <1>4
    <2>2. PICK res \in {"Ok", "SqlFailed"} :
            writer[d] \in Cmds /\ done' = Append(done, [cmd |-> writer[d], res |-> res])
      BY <2>1 DEF Commit, Rollback, Finish
    <2> QED
      BY <2>2, QueueGrows DEF DoneType
  <1>5. CASE Tell
    BY <1>5, HeadTailProperties DEF Tell, Goes, Answered, calls, life,
       reading, DoneType
  <1>6. CASE \/ (\E r \in Readers, d \in Dbs : Fetches(r, d))
             \/ (\E r \in Readers : Leases(r))
             \/ (\E r \in Readers : Queues(r))
             \/ (\E r \in Readers : Refused(r))
             \/ (\E r \in Readers : Returns(r))
    BY <1>6 DEF Fetches, life, writing, calls, Leases, Idle, Queues,
       Refused, Leaves, Returns, DoneType
  <1>7. CASE UNCHANGED storeVars
    BY <1>7 DEF storeVars, life, writing, calls, reading, DoneType
  <1> QED
    BY <1>1, <1>2, <1>3, <1>4, <1>5, <1>6, <1>7 DEF StoreNext, CloseStep, WriterStep

LEMMA CallTypeStep ==
  ASSUME CallType, DoneType, StoreNext \/ UNCHANGED storeVars
  PROVE  CallType'
  <1>1. CASE \/ (\E d \in Dbs : Open(d)) \/ (\E d \in Dbs : OpenRefused(d))
             \/ RivalLocks \/ RivalLeaves
    BY <1>1 DEF Open, LockFree, calls, OpenRefused, Fault, writing, reading,
       RivalLocks, RivalLeaves, CallType
  <1>2. CASE \/ (\E d \in Dbs : CloseBegin(d))
             \/ (\E d \in Dbs : QueueStops(d))
             \/ (\E d \in Dbs : PoolStops(d))
             \/ (\E d \in Dbs : LeasesReturned(d))
             \/ (\E d \in Dbs : ConnectionCloses(d))
             \/ (\E d \in Dbs : Unlock(d))
    BY <1>2 DEF CloseBegin, writing, calls, reading, QueueStops, At,
       NextStep, PoolStops, LeasesReturned, ConnectionCloses, Unlock,
       CallType
  <1>3. CASE \/ (\E d \in Dbs : WriterTakes(d))
             \/ (\E d \in Dbs : Commit(d)) \/ (\E d \in Dbs : Rollback(d))
             \/ (\E d \in Dbs : WriterExits(d))
    BY <1>3 DEF WriterTakes, life, calls, reading, Commit, Finish, Rollback,
       Fault, WriterExits, CallType
  <1>a. ASSUME NEW c \in Cmds, NEW to \in {"queued", "back"}, Goes(c, to)
        PROVE  call' \in [Cmds -> [at : {"out", "fetched", "queued", "back"},
                                   db : Dbs \cup {NoDb}]]
    BY <1>a DEF Goes, CallType
  <1>b. ASSUME NEW c \in Cmds, NEW res \in Results, Answered(c, res)
        PROVE  answer' \in [Cmds -> Results \cup {"none"}]
    BY <1>b DEF Answered, CallType
  <1>4. CASE (\E c \in Cmds, d \in Dbs : Fetch(c, d))
    BY <1>4 DEF Fetch, Answered, life, writing, reading, CallType, Results
  <1>5. CASE (\E c \in Cmds : GiveUp(c))
    BY <1>5, <1>a, <1>b DEF GiveUp, CallType, Results
  <1>6. CASE (\E c \in Cmds : Submit(c))
    <2>1. PICK c \in Cmds : Submit(c)
      BY <1>6
    <2>2. \/ Goes(c, "queued") /\ UNCHANGED answer
          \/ \E res \in Results : Goes(c, "back") /\ Answered(c, res)
      BY <2>1 DEF Submit, Accept, Results
    <2> QED
      BY <2>2, <1>a, <1>b DEF CallType
  <1>7. CASE Tell
    <2>1. Head(done) \in [cmd : Cmds, res : {"Ok", "SqlFailed"}]
      BY <1>7, QueueShrinks DEF Tell, DoneType
    <2>2. Head(done).cmd \in Cmds /\ Head(done).res \in Results
      BY <2>1 DEF Results
    <2> QED
      BY <1>7, <2>2, <1>a, <1>b DEF Tell, calls, CallType
  <1>8. CASE \/ (\E r \in Readers, d \in Dbs : Fetches(r, d))
             \/ (\E r \in Readers : Leases(r))
             \/ (\E r \in Readers : Queues(r))
             \/ (\E r \in Readers : Refused(r))
             \/ (\E r \in Readers : Returns(r))
    BY <1>8 DEF Fetches, life, writing, calls, Leases, Idle, Queues,
       Refused, Leaves, Returns, CallType
  <1>9. CASE UNCHANGED storeVars
    BY <1>9 DEF storeVars, life, writing, calls, reading, CallType
  <1> QED
    BY <1>1, <1>2, <1>3, <1>4, <1>5, <1>6, <1>7, <1>8, <1>9 DEF StoreNext, CloseStep, WriterStep

LEMMA ReadTypeStep ==
  ASSUME ReadType, AtInv, StoreNext \/ UNCHANGED storeVars
  PROVE  ReadType'
  <1>1. CASE \/ (\E d \in Dbs : Open(d)) \/ (\E d \in Dbs : OpenRefused(d))
             \/ RivalLocks \/ RivalLeaves
    BY <1>1 DEF Open, LockFree, calls, OpenRefused, Fault, writing, reading,
       RivalLocks, RivalLeaves, ReadType
  <1>2. CASE \/ (\E d \in Dbs : CloseBegin(d))
             \/ (\E d \in Dbs : QueueStops(d))
             \/ (\E d \in Dbs : PoolStops(d))
             \/ (\E d \in Dbs : LeasesReturned(d))
             \/ (\E d \in Dbs : ConnectionCloses(d))
             \/ (\E d \in Dbs : Unlock(d))
    BY <1>2 DEF CloseBegin, writing, calls, reading, QueueStops, At,
       NextStep, PoolStops, LeasesReturned, ConnectionCloses, Unlock,
       ReadType
  <1>3. CASE \/ (\E c \in Cmds, d \in Dbs : Fetch(c, d))
             \/ (\E c \in Cmds : Submit(c)) \/ (\E c \in Cmds : GiveUp(c))
             \/ (\E d \in Dbs : WriterTakes(d))
             \/ (\E d \in Dbs : Commit(d)) \/ (\E d \in Dbs : Rollback(d))
             \/ (\E d \in Dbs : WriterExits(d)) \/ Tell
    BY <1>3 DEF Fetch, Answered, life, writing, reading, Submit, Accept,
       Goes, GiveUp, Fault, WriterTakes, calls, Commit, Finish, Rollback,
       WriterExits, Tell, ReadType
  <1>4. CASE (\E r \in Readers, d \in Dbs : Fetches(r, d))
    BY <1>4 DEF Fetches, life, writing, calls, ReadType
  <1>5. CASE (\E r \in Readers : Leases(r))
    BY <1>5 DEF Leases, Idle, life, writing, calls, ReadType, AtInv
  <1>6. CASE \/ (\E r \in Readers : Queues(r))
             \/ (\E r \in Readers : Refused(r))
    BY <1>6 DEF Queues, Idle, life, writing, calls, Refused, Leaves,
       ReadType, AtInv
  <1>7. CASE (\E r \in Readers : Returns(r))
    BY <1>7 DEF Returns, Leaves, life, writing, calls, ReadType, AtInv
  <1>8. CASE UNCHANGED storeVars
    BY <1>8 DEF storeVars, life, writing, calls, reading, ReadType
  <1> QED
    BY <1>1, <1>2, <1>3, <1>4, <1>5, <1>6, <1>7, <1>8 DEF StoreNext, CloseStep, WriterStep

LEMMA FaultTypeStep ==
  ASSUME FaultType, StoreNext \/ UNCHANGED storeVars
  PROVE  FaultType'
  <1>1. CASE \/ (\E d \in Dbs : Open(d)) \/ RivalLeaves
             \/ (\E d \in Dbs : CloseBegin(d))
             \/ (\E d \in Dbs : QueueStops(d))
             \/ (\E d \in Dbs : PoolStops(d))
             \/ (\E d \in Dbs : LeasesReturned(d))
             \/ (\E d \in Dbs : ConnectionCloses(d))
             \/ (\E d \in Dbs : Unlock(d))
             \/ (\E c \in Cmds, d \in Dbs : Fetch(c, d))
             \/ (\E c \in Cmds : Submit(c))
             \/ (\E d \in Dbs : WriterTakes(d))
             \/ (\E d \in Dbs : Commit(d))
             \/ (\E d \in Dbs : WriterExits(d)) \/ Tell
    BY <1>1 DEF Open, LockFree, calls, RivalLeaves, writing, reading,
       CloseBegin, QueueStops, At, NextStep, PoolStops, LeasesReturned,
       ConnectionCloses, Unlock, Fetch, Answered, life, Submit, Accept,
       Goes, WriterTakes, Commit, Finish, WriterExits, Tell, FaultType
  <1>2. CASE \/ (\E d \in Dbs : OpenRefused(d)) \/ RivalLocks
             \/ (\E c \in Cmds : GiveUp(c)) \/ (\E d \in Dbs : Rollback(d))
    <2>1. Fault \/ UNCHANGED faults
      BY <1>2 DEF OpenRefused, RivalLocks, GiveUp, Rollback
    <2> QED
      BY <2>1, StoreAssumption DEF FaultType, Fault
  <1>3. CASE \/ (\E r \in Readers, d \in Dbs : Fetches(r, d))
             \/ (\E r \in Readers : Leases(r))
             \/ (\E r \in Readers : Queues(r))
             \/ (\E r \in Readers : Refused(r))
             \/ (\E r \in Readers : Returns(r))
    BY <1>3 DEF Fetches, life, writing, calls, Leases, Idle, Queues,
       Refused, Leaves, Returns, FaultType
  <1>4. CASE UNCHANGED storeVars
    BY <1>4 DEF storeVars, life, writing, calls, reading, FaultType
  <1> QED
    BY <1>1, <1>2, <1>3, <1>4 DEF StoreNext, CloseStep, WriterStep

LEMMA LifeInvStep ==
  ASSUME LifeType, OpenType, WriteType, ReadType, LifeInv, AtInv,
         StoreNext \/ UNCHANGED storeVars
  PROVE  LifeInv'
  <1>1. CASE (\E d \in Dbs : Open(d))
    BY <1>1 DEF Open, LockFree, calls, LifeType, OpenType, WriteType,
       LifeInv, Dbs, Free, Rival, Waits, Exited
  <1>2. CASE (\E d \in Dbs : OpenRefused(d))
    BY <1>2 DEF OpenRefused, LockFree, Fault, writing, calls, reading,
       LifeType, OpenType, WriteType, LifeInv, Dbs, Free, Rival, Waits,
       Exited
  <1>3. CASE RivalLocks
    BY <1>3, StoreAssumption DEF RivalLocks, LockFree, Fault, writing,
       calls, reading, LifeType, OpenType, WriteType, LifeInv, Dbs, Free,
       Rival, Waits, Exited
  <1>4. CASE RivalLeaves
    BY <1>4, StoreAssumption DEF RivalLeaves, writing, calls, reading,
       LifeType, OpenType, WriteType, LifeInv, Dbs, Free, Rival, Waits,
       Exited
  <1>5. CASE (\E d \in Dbs : CloseBegin(d))
    BY <1>5 DEF CloseBegin, writing, calls, reading, LifeType, OpenType,
       WriteType, LifeInv, Dbs, Free, Rival, Waits, Exited
  <1>6. CASE (\E d \in Dbs : QueueStops(d))
    <2>1. PICK d \in Dbs : QueueStops(d)
      BY <1>6
    <2>2. closing[d] = 1
      BY <2>1, ClosingStep DEF LifeType, QueueStops
    <2>3. closing' = [closing EXCEPT ![d] = 2]
      BY <2>1, <2>2 DEF QueueStops, NextStep
    <2> QED
      BY <2>1, <2>2, <2>3 DEF QueueStops, LifeType, OpenType,
         WriteType, ReadType, LifeInv, writing, calls, reading, Dbs, Free
  <1>7. CASE (\E d \in Dbs : PoolStops(d))
    <2>1. PICK d \in Dbs : PoolStops(d)
      BY <1>7
    <2>2. closing[d] = 2
      BY <2>1, ClosingStep DEF LifeType, PoolStops
    <2>3. closing' = [closing EXCEPT ![d] = 3]
      BY <2>1, <2>2 DEF PoolStops, NextStep
    <2> QED
      BY <2>1, <2>2, <2>3 DEF PoolStops, LifeType, OpenType,
         WriteType, ReadType, LifeInv, writing, calls, reading, Dbs, Free
  <1>8. CASE (\E d \in Dbs : LeasesReturned(d))
    <2>1. PICK d \in Dbs : LeasesReturned(d)
      BY <1>8
    <2>2. closing[d] = 3
      BY <2>1, ClosingStep DEF LifeType, LeasesReturned
    <2>3. closing' = [closing EXCEPT ![d] = 4]
      BY <2>1, <2>2 DEF LeasesReturned, NextStep
    <2> QED
      BY <2>1, <2>2, <2>3 DEF LeasesReturned, LifeType, OpenType,
         WriteType, ReadType, LifeInv, writing, calls, reading, Dbs, Free
  <1>9. CASE (\E d \in Dbs : ConnectionCloses(d))
    <2>1. PICK d \in Dbs : ConnectionCloses(d)
      BY <1>9
    <2>2. closing[d] = 4
      BY <2>1, ClosingStep DEF LifeType, ConnectionCloses
    <2>3. closing' = [closing EXCEPT ![d] = 5]
      BY <2>1, <2>2 DEF ConnectionCloses, NextStep
    <2> QED
      BY <2>1, <2>2, <2>3 DEF ConnectionCloses, LifeType, OpenType,
         WriteType, ReadType, LifeInv, writing, calls, reading, Dbs, Free
  <1>10. CASE (\E d \in Dbs : Unlock(d))
    <2>1. PICK d \in Dbs : Unlock(d)
      BY <1>10
    <2>2. closing[d] = 5
      BY <2>1, ClosingStep DEF LifeType, Unlock
    <2>3. closing' = [closing EXCEPT ![d] = 0]
      BY <2>1, <2>2 DEF Unlock, NextStep
    <2> QED
      BY <2>1, <2>2, <2>3 DEF Unlock, LifeType, OpenType,
         WriteType, ReadType, LifeInv, writing, calls, reading, Dbs, Free
  <1>11. CASE \/ (\E c \in Cmds, d \in Dbs : Fetch(c, d))
              \/ (\E c \in Cmds : Submit(c)) \/ (\E c \in Cmds : GiveUp(c))
              \/ Tell
    BY <1>11 DEF Fetch, Answered, life, writing, reading, Submit, Accept,
       Goes, GiveUp, Fault, Tell, calls, LifeInv
  <1>12. CASE (\E d \in Dbs : WriterTakes(d))
    BY <1>12, QueueShrinks DEF WriterTakes, life, calls, reading, LifeType,
       OpenType, WriteType, LifeInv, Dbs, Free, Rival, Waits, Exited
  <1>13. CASE \/ (\E d \in Dbs : Commit(d)) \/ (\E d \in Dbs : Rollback(d))
              \/ (\E d \in Dbs : WriterExits(d))
    <2>1. PICK d \in Dbs : Commit(d) \/ Rollback(d) \/ WriterExits(d)
      BY <1>13
    <2>2. writer[d] # Exited
      BY <2>1, StoreAssumption DEF Commit, Rollback, WriterExits, Waits, Exited
    <2>3. /\ writer' = [writer EXCEPT ![d] = Waits] \/ writer' = [writer EXCEPT ![d] = Exited]
          /\ UNCHANGED <<life, pool, leased>>
      BY <2>1 DEF Commit, Rollback, WriterExits, Finish, reading
    <2> QED
      BY <2>2, <2>3 DEF WriteType, LifeInv, life
  <1>14. CASE (\E r \in Readers : Leases(r))
    <2>1. PICK r \in Readers : Leases(r)
      BY <1>14
    <2>2. reader[r].db \in Dbs /\ pool[reader[r].db]
      BY <2>1 DEF Leases, AtInv
    <2>3. leased' = [leased EXCEPT ![reader[r].db] = @ \cup {r}]
      BY <2>1 DEF Leases
    <2> QED
      BY <2>1, <2>2, <2>3 DEF Leases, LifeInv, ReadType, life, writing, Exited
  <1>15. CASE \/ (\E r \in Readers, d \in Dbs : Fetches(r, d))
              \/ (\E r \in Readers : Queues(r))
              \/ (\E r \in Readers : Refused(r))
              \/ (\E r \in Readers : Returns(r))
    BY <1>15 DEF Fetches, life, writing, calls, Queues, Idle, Refused,
       Leaves, Returns, LifeInv, ReadType, AtInv
  <1>16. CASE UNCHANGED storeVars
    BY <1>16 DEF storeVars, life, writing, calls, reading, LifeInv
  <1> QED
    BY <1>1, <1>2, <1>3, <1>4, <1>5, <1>6, <1>7, <1>8, <1>9, <1>10, <1>11,
       <1>12, <1>13, <1>14, <1>15, <1>16 DEF StoreNext, CloseStep, WriterStep

LEMMA AtInvStep ==
  ASSUME CallType, ReadType, AtInv, StoreNext \/ UNCHANGED storeVars
  PROVE  AtInv'
  <1>1. CASE \/ (\E d \in Dbs : Open(d)) \/ (\E d \in Dbs : OpenRefused(d))
             \/ RivalLocks \/ RivalLeaves
    BY <1>1 DEF Open, LockFree, calls, OpenRefused, Fault, writing, reading,
       RivalLocks, RivalLeaves, AtInv
  <1>2. CASE \/ (\E d \in Dbs : CloseBegin(d))
             \/ (\E d \in Dbs : QueueStops(d))
             \/ (\E d \in Dbs : PoolStops(d))
             \/ (\E d \in Dbs : LeasesReturned(d))
             \/ (\E d \in Dbs : ConnectionCloses(d))
             \/ (\E d \in Dbs : Unlock(d))
    BY <1>2 DEF CloseBegin, writing, calls, reading, QueueStops, At,
       NextStep, PoolStops, LeasesReturned, ConnectionCloses, Unlock, AtInv
  <1>3. CASE \/ (\E d \in Dbs : WriterTakes(d))
             \/ (\E d \in Dbs : Commit(d)) \/ (\E d \in Dbs : Rollback(d))
             \/ (\E d \in Dbs : WriterExits(d))
    BY <1>3 DEF WriterTakes, life, calls, reading, Commit, Finish, Rollback,
       Fault, WriterExits, AtInv
  <1>4. CASE \/ (\E c \in Cmds, d \in Dbs : Fetch(c, d))
             \/ (\E c \in Cmds : Submit(c))
    BY <1>4 DEF Fetch, Answered, life, writing, reading, Submit, Accept,
       Goes, AtInv, CallType
  <1>5. CASE \/ (\E c \in Cmds : GiveUp(c)) \/ Tell
    BY <1>5 DEF GiveUp, Fault, Goes, Answered, life, writing, reading, Tell,
       calls, AtInv, CallType
  <1>6. CASE (\E r \in Readers, d \in Dbs : Fetches(r, d))
    BY <1>6 DEF Fetches, life, writing, calls, AtInv, ReadType
  <1>7. CASE \/ (\E r \in Readers : Leases(r))
             \/ (\E r \in Readers : Queues(r))
             \/ (\E r \in Readers : Refused(r))
             \/ (\E r \in Readers : Returns(r))
    BY <1>7 DEF Leases, Idle, life, writing, calls, Queues, Refused, Leaves,
       Returns, AtInv, ReadType
  <1>8. CASE UNCHANGED storeVars
    BY <1>8 DEF storeVars, life, writing, calls, reading, AtInv
  <1> QED
    BY <1>1, <1>2, <1>3, <1>4, <1>5, <1>6, <1>7, <1>8 DEF StoreNext, CloseStep, WriterStep

-----------------------------------------------------------------------------
(* How commands move: into a queue, to the writer, out.                    *)

LEMMA StaysPut ==
  ASSUME LifeInv, WriteType, StoreNext \/ UNCHANGED storeVars,
         ~ \E c \in Cmds : Submit(c),
         ~ \E d \in Dbs : WriterTakes(d) \/ Commit(d) \/ Rollback(d)
  PROVE  /\ UNCHANGED <<queue, committed>>
         /\ \A d \in Dbs : \/ writer'[d] = writer[d]
                           \/ writer[d] \notin Cmds /\ writer'[d] \notin Cmds
         /\ \A c \in Cmds : Pending(c)' <=> Pending(c)
  <1>1. UNCHANGED <<queue, committed>>
    BY DEF StoreNext, storeVars, life, writing, Open, OpenRefused, CloseBegin,
       CloseStep, WriterStep, QueueStops, PoolStops, LeasesReturned,
       ConnectionCloses, Unlock, RivalLocks, RivalLeaves, Tell, GiveUp, Fetch,
       Leases, Queues, Refused, Returns, Fetches, WriterExits
  <1>2. \/ UNCHANGED writer
        \/ \E d \in Dbs : Open(d) \/ WriterExits(d)
    BY DEF StoreNext, storeVars, life, writing, OpenRefused, CloseBegin,
       CloseStep, WriterStep, QueueStops, PoolStops, LeasesReturned,
       ConnectionCloses, Unlock, RivalLocks, RivalLeaves, Tell, GiveUp, Fetch,
       Leases, Queues, Refused, Returns, Fetches
  <1>3. \A d \in Dbs : \/ writer'[d] = writer[d]
                       \/ writer[d] \notin Cmds /\ writer'[d] \notin Cmds
    <2>1. Waits \notin Cmds /\ Exited \notin Cmds
      BY StoreAssumption DEF Waits, Exited
    <2>2. CASE UNCHANGED writer
      BY <2>2
    <2>3. CASE \E d \in Dbs : Open(d) \/ WriterExits(d)
      <3>1. PICK d \in Dbs : Open(d) \/ WriterExits(d)
        BY <2>3
      <3>2. writer[d] \in {Waits, Exited}
        BY <3>1 DEF Open, WriterExits, LifeInv
      <3>3. writer' \in {[writer EXCEPT ![d] = Waits], [writer EXCEPT ![d] = Exited]}
        BY <3>1 DEF Open, WriterExits
      <3> QED
        BY <2>1, <3>2, <3>3 DEF WriteType
    <2> QED
      BY <1>2, <2>2, <2>3
  <1> QED
    BY <1>1, <1>3 DEF Pending

LEMMA Submitted ==
  ASSUME WriteType, CallType, AtInv, QueueInv, CallInv, NEW c \in Cmds, Submit(c)
  PROVE  /\ QueueInv' /\ UNCHANGED <<writer, committed>>
         /\ \A x \in Cmds : Pending(x)' <=> Pending(x) \/ (x = c /\ call'[c].at = "queued")
  <1> DEFINE d == call[c].db
  <1>1. d \in Dbs /\ ~Pending(c) /\ UNCHANGED <<writer, committed>>
    BY DEF Submit, AtInv, CallInv
  <1>2. CASE Accept(c, d) # "Ok"
    <2>1. UNCHANGED queue /\ call'[c].at = "back"
      BY <1>2 DEF Submit, Goes, CallType
    <2> QED
      BY <1>1, <2>1 DEF QueueInv, Pending
  <1>3. CASE Accept(c, d) = "Ok"
    <2>1. queue' = [queue EXCEPT ![d] = Append(queue[d], c)] /\ call'[c].at = "queued"
      BY <1>3 DEF Submit, Goes, CallType
    <2>2. /\ queue'[d] = Append(queue[d], c)
          /\ \A e \in Dbs \ {d} : queue'[e] = queue[e]
      BY <1>1, <2>1 DEF WriteType
    <2>3. /\ Range(queue'[d]) = Range(queue[d]) \cup {c}
          /\ NoRepeat(queue'[d])
      BY <1>1, <2>2, QueueGrows DEF WriteType, QueueInv, Pending
    <2>4. \A x \in Cmds : Pending(x)' <=> Pending(x) \/ x = c
      BY <1>1, <2>2, <2>3 DEF Pending
    <2>5. QueueInv'
      <3>1. \A e \in Dbs : c \notin Range(queue[e]) /\ writer[e] # c
        BY <1>1 DEF Pending
      <3>2. \A e \in Dbs : NoRepeat(queue'[e])
        BY <2>2, <2>3 DEF QueueInv
      <3>3. ASSUME NEW e \in Dbs, NEW x \in Cmds
            PROVE  x \in Range(queue'[e]) <=> x \in Range(queue[e]) \/ (x = c /\ e = d)
        BY <2>2, <2>3
      <3> QED
        BY <1>1, <3>1, <3>2, <3>3 DEF QueueInv
    <2> QED
      BY <1>1, <2>1, <2>4, <2>5
  <1> QED
    BY <1>2, <1>3

LEMMA Taken ==
  ASSUME WriteType, QueueInv, NEW d \in Dbs, WriterTakes(d)
  PROVE  /\ QueueInv' /\ UNCHANGED committed
         /\ \A x \in Cmds : Pending(x)' <=> Pending(x)
  <1> DEFINE c == Head(queue[d])
  <1>1. writer[d] \notin Cmds
    BY StoreAssumption DEF WriterTakes, Waits
  <1>2. /\ c \in Cmds /\ Range(queue[d]) = Range(Tail(queue[d])) \cup {c}
        /\ NoRepeat(Tail(queue[d])) /\ c \notin Range(Tail(queue[d]))
    BY QueueShrinks DEF WriterTakes, WriteType, QueueInv
  <1>3. /\ queue'[d] = Tail(queue[d]) /\ writer'[d] = c /\ UNCHANGED committed
        /\ \A e \in Dbs \ {d} : queue'[e] = queue[e] /\ writer'[e] = writer[e]
    BY DEF WriterTakes, WriteType
  <1>4. \A x \in Cmds : Pending(x)' <=> Pending(x)
    BY <1>1, <1>2, <1>3 DEF Pending
  <1>5. QueueInv'
    BY <1>1, <1>2, <1>3 DEF QueueInv
  <1> QED
    BY <1>3, <1>4, <1>5

LEMMA Finished ==
  ASSUME WriteType, QueueInv, NEW d \in Dbs, Commit(d) \/ Rollback(d)
  PROVE  /\ QueueInv' /\ writer[d] \in Cmds /\ UNCHANGED call /\ UNCHANGED answer
         /\ \A x \in Cmds : Pending(x)' <=> Pending(x) /\ x # writer[d]
         /\ \/ /\ committed' = committed \cup {writer[d]}
               /\ done' = Append(done, [cmd |-> writer[d], res |-> "Ok"])
            \/ /\ committed' = committed
               /\ done' = Append(done, [cmd |-> writer[d], res |-> "SqlFailed"])
  <1>1. /\ writer[d] \in Cmds /\ UNCHANGED queue /\ UNCHANGED call /\ UNCHANGED answer
        /\ writer' = [writer EXCEPT ![d] = Waits] /\ Waits \notin Cmds
        /\ \/ /\ committed' = committed \cup {writer[d]}
              /\ done' = Append(done, [cmd |-> writer[d], res |-> "Ok"])
           \/ /\ committed' = committed
              /\ done' = Append(done, [cmd |-> writer[d], res |-> "SqlFailed"])
    BY StoreAssumption DEF Commit, Rollback, Finish, calls, Waits
  <1>2. writer'[d] \notin Cmds /\ \A e \in Dbs \ {d} : writer'[e] = writer[e]
    BY <1>1 DEF WriteType
  <1>3. \A x \in Cmds : Pending(x)' <=> Pending(x) /\ x # writer[d]
    BY <1>1, <1>2 DEF Pending, QueueInv
  <1>4. QueueInv'
    BY <1>1, <1>2 DEF QueueInv
  <1> QED
    BY <1>1, <1>3, <1>4

LEMMA QueueInvStep ==
  ASSUME LifeInv, WriteType, CallType, AtInv, QueueInv, CallInv,
         StoreNext \/ UNCHANGED storeVars
  PROVE  QueueInv'
  <1>1. CASE \E c \in Cmds : Submit(c)
    BY <1>1, Submitted
  <1>2. CASE \E d \in Dbs : WriterTakes(d) \/ Commit(d) \/ Rollback(d)
    BY <1>2, Taken, Finished
  <1>3. CASE /\ ~ \E c \in Cmds : Submit(c)
             /\ ~ \E d \in Dbs : WriterTakes(d) \/ Commit(d) \/ Rollback(d)
    BY <1>3, StaysPut DEF QueueInv
  <1> QED
    BY <1>1, <1>2, <1>3

LEMMA CallInvStep ==
  ASSUME LifeInv, WriteType, CallType, DoneType, AtInv, QueueInv, CallInv, DoneInv,
         StoreNext \/ UNCHANGED storeVars
  PROVE  CallInv'
  <1>1. CASE \E c \in Cmds : Submit(c)
    <2>1. PICK c \in Cmds : Submit(c)
      BY <1>1
    <2>2. \/ call' = [call EXCEPT ![c].at = "queued"] /\ UNCHANGED answer
          \/ /\ call' = [call EXCEPT ![c].at = "back"]
             /\ answer' \in {[answer EXCEPT ![c] = "NotOpen"], [answer EXCEPT ![c] = "QueueFull"]}
      BY <2>1 DEF Submit, Goes, Answered, Accept
    <2>3. call[c].at = "fetched" /\ ~Pending(c) /\ c \notin committed /\ answer[c] = "none"
      BY <2>1 DEF Submit, CallInv
    <2>4. \A x \in Cmds \ {c} : call'[x] = call[x] /\ answer'[x] = answer[x]
      BY <2>2 DEF CallType
    <2>5. \/ call'[c].at = "queued" /\ answer'[c] = "none"
          \/ call'[c].at = "back" /\ answer'[c] \in {"NotOpen", "QueueFull"}
      BY <2>2, <2>3 DEF CallType
    <2> QED
      BY <2>1, <2>3, <2>4, <2>5, Submitted DEF CallInv
  <1>2. CASE \E d \in Dbs : WriterTakes(d)
    BY <1>2, Taken DEF CallInv, WriterTakes, calls
  <1>3. CASE \E d \in Dbs : Commit(d) \/ Rollback(d)
    <2>1. PICK d \in Dbs : Commit(d) \/ Rollback(d)
      BY <1>3
    <2>2. writer[d] \in Cmds /\ Pending(writer[d])
      BY <2>1, Finished DEF Pending
    <2>3. /\ UNCHANGED <<call, answer>>
          /\ \A x \in Cmds : Pending(x)' <=> Pending(x) /\ x # writer[d]
          /\ committed \subseteq committed' /\ committed' \subseteq committed \cup {writer[d]}
      BY <2>1, Finished
    <2>4. call[writer[d]].at \in {"queued", "back"} /\ answer[writer[d]] \in {"none", "Unknown"}
      BY <2>2 DEF CallInv, CallType
    <2> QED
      BY <2>2, <2>3, <2>4 DEF CallInv
  <1>4. CASE /\ ~ \E c \in Cmds : Submit(c)
             /\ ~ \E d \in Dbs : WriterTakes(d) \/ Commit(d) \/ Rollback(d)
    <2>1. /\ UNCHANGED committed
          /\ \A c \in Cmds : Pending(c)' <=> Pending(c)
      BY <1>4, StaysPut
    <2>2. CASE \E c \in Cmds, d \in Dbs : Fetch(c, d)
      <3>1. PICK c \in Cmds, d \in Dbs : Fetch(c, d)
        BY <2>2
      <3>2. \A x \in Cmds \ {c} : call'[x] = call[x] /\ answer'[x] = answer[x]
        BY <3>1 DEF Fetch, Answered, CallType
      <3>3. /\ call[c].at = "out"
            /\ \/ call'[c].at = "fetched" /\ answer'[c] = answer[c]
               \/ call'[c].at = "back" /\ answer'[c] = "NotOpen"
        BY <3>1 DEF Fetch, Answered, CallType
      <3> QED
        BY <2>1, <3>2, <3>3 DEF CallInv
    <2>3. CASE \E c \in Cmds : GiveUp(c)
      <3>1. PICK c \in Cmds : GiveUp(c)
        BY <2>3
      <3>2. \A x \in Cmds \ {c} : call'[x] = call[x] /\ answer'[x] = answer[x]
        BY <3>1 DEF GiveUp, Goes, Answered, CallType
      <3>3. call[c].at = "queued" /\ call'[c].at = "back" /\ answer'[c] = "Unknown"
        BY <3>1 DEF GiveUp, Goes, Answered, CallType
      <3> QED
        BY <2>1, <3>2, <3>3 DEF CallInv
    <2>4. CASE Tell
      <3> DEFINE c == Head(done).cmd
      <3>1. /\ c \in Cmds /\ Head(done) \in Range(done)
            /\ Head(done).res \in {"Ok", "SqlFailed"}
        <4>1. done \in Seq([cmd : Cmds, res : {"Ok", "SqlFailed"}]) /\ done # <<>>
          BY <2>4 DEF Tell, DoneType
        <4>2. Head(done) \in [cmd : Cmds, res : {"Ok", "SqlFailed"}]
          BY <4>1, QueueShrinks
        <4>3. Head(done) \in Range(done)
          BY <4>1, QueueShrinks
        <4> QED
          BY <4>2, <4>3
      <3>2. CASE call[c].at # "queued"
        BY <2>1, <2>4, <3>2 DEF Tell, calls, CallInv
      <3>3. CASE call[c].at = "queued"
        <4>1. \A x \in Cmds \ {c} : call'[x] = call[x] /\ answer'[x] = answer[x]
          BY <2>4, <3>3 DEF Tell, Goes, Answered, CallType
        <4>2. call'[c].at = "back" /\ answer'[c] = Head(done).res
          BY <2>4, <3>1, <3>3 DEF Tell, Goes, Answered, CallType
        <4>3. ~Pending(c) /\ (Head(done).res = "Ok" <=> c \in committed)
          BY <3>1 DEF DoneInv
        <4> QED
          BY <2>1, <3>1, <4>1, <4>2, <4>3 DEF CallInv
      <3> QED
        BY <3>2, <3>3
    <2>5. CASE UNCHANGED <<call, answer>>
      BY <2>1, <2>5 DEF CallInv
    <2> QED
      BY <1>4, <2>2, <2>3, <2>4, <2>5 DEF StoreNext, storeVars, calls, writing,
         life, Open, OpenRefused, CloseBegin, CloseStep, WriterStep, QueueStops,
         PoolStops, LeasesReturned, ConnectionCloses, Unlock, RivalLocks,
         RivalLeaves, WriterExits, Leases, Queues, Refused, Returns, Fetches
  <1> QED
    BY <1>1, <1>2, <1>3, <1>4

LEMMA DoneInvStep ==
  ASSUME LifeInv, WriteType, CallType, DoneType, AtInv, QueueInv, CallInv, DoneInv,
         StoreNext \/ UNCHANGED storeVars
  PROVE  DoneInv'
  <1>0. \A r \in Range(done) : r.cmd \in Cmds /\ r.res \in {"Ok", "SqlFailed"}
    BY RangeIn DEF DoneType
  <1>1. CASE \E c \in Cmds : Submit(c)
    <2>1. PICK c \in Cmds : Submit(c)
      BY <1>1
    <2>2. UNCHANGED done /\ call[c].at = "fetched"
          /\ \A x \in Cmds \ {c} : call'[x] = call[x]
      BY <2>1 DEF Submit, Goes, CallType
    <2>3. \A r \in Range(done) : r.cmd # c
      BY <2>2 DEF DoneInv
    <2> QED
      BY <1>0, <2>1, <2>2, <2>3, Submitted DEF DoneInv
  <1>2. CASE \E d \in Dbs : WriterTakes(d)
    BY <1>0, <1>2, Taken DEF DoneInv, WriterTakes, calls
  <1>3. CASE \E d \in Dbs : Commit(d) \/ Rollback(d)
    <2>1. PICK d \in Dbs : Commit(d) \/ Rollback(d)
      BY <1>3
    <2>2. writer[d] \in Cmds /\ Pending(writer[d])
      BY <2>1, Finished DEF Pending
    <2>3. \A r \in Range(done) : r.cmd # writer[d]
      BY <2>2 DEF DoneInv
    <2>4. /\ UNCHANGED call /\ call[writer[d]].at \in {"queued", "back"}
          /\ writer[d] \notin committed
      BY <2>1, <2>2, Finished DEF CallInv, CallType
    <2>5. PICK res \in {"Ok", "SqlFailed"} :
            /\ done' = Append(done, [cmd |-> writer[d], res |-> res])
            /\ committed' = IF res = "Ok" THEN committed \cup {writer[d]} ELSE committed
      BY <2>1, Finished
    <2>6. Range(done') = Range(done) \cup {[cmd |-> writer[d], res |-> res]}
      <3> DEFINE S == [cmd : Cmds, res : {"Ok", "SqlFailed"}]
      <3>1. [cmd |-> writer[d], res |-> res] \in S
        BY <2>2
      <3>2. done \in Seq(S)
        BY DEF DoneType
      <3> HIDE DEF S
      <3> QED
        BY <2>5, <3>1, <3>2, QueueGrows
    <2>7. \A x \in Cmds : Pending(x)' <=> Pending(x) /\ x # writer[d]
      BY <2>1, Finished
    <2>8. ASSUME NEW r \in Range(done)
          PROVE  /\ call'[r.cmd].at \in {"queued", "back"} /\ ~Pending(r.cmd)'
                 /\ r.res = "Ok" <=> r.cmd \in committed'
      BY <1>0, <2>3, <2>4, <2>5, <2>7 DEF DoneInv
    <2> QED
      BY <2>2, <2>4, <2>5, <2>6, <2>7, <2>8 DEF DoneInv
  <1>4. CASE /\ ~ \E c \in Cmds : Submit(c)
             /\ ~ \E d \in Dbs : WriterTakes(d) \/ Commit(d) \/ Rollback(d)
    <2>1. /\ UNCHANGED committed
          /\ \A c \in Cmds : Pending(c)' <=> Pending(c)
      BY <1>4, StaysPut
    <2>2. Range(done') \subseteq Range(done)
      <3>1. Tell => Range(done') \subseteq Range(done)
        BY QueueShrinks DEF Tell, DoneType
      <3>2. Tell \/ UNCHANGED done
        BY <1>4 DEF StoreNext, storeVars, calls, writing,
           life, Open, OpenRefused, CloseBegin, CloseStep, WriterStep, QueueStops,
           PoolStops, LeasesReturned, ConnectionCloses, Unlock, RivalLocks, Fetch,
           GiveUp, RivalLeaves, WriterExits, Leases, Queues, Refused, Returns, Fetches
      <3> QED
        BY <3>1, <3>2
    <2>3. ASSUME NEW c \in Cmds, call[c].at \in {"queued", "back"}
          PROVE  call'[c].at \in {"queued", "back"}
      <3>1. CASE Tell
        BY <2>3, <3>1 DEF CallType, Tell, Goes, calls
      <3>2. CASE \E d \in Cmds : GiveUp(d)
        BY <2>3, <3>2 DEF CallType, GiveUp, Goes
      <3>3. CASE \E d \in Cmds, b \in Dbs : Fetch(d, b)
        BY <2>3, <3>3 DEF CallType, Fetch
      <3>4. CASE UNCHANGED call
        BY <2>3, <3>4
      <3>5. \/ Tell \/ UNCHANGED call
            \/ \E d \in Cmds : GiveUp(d)
            \/ \E d \in Cmds, b \in Dbs : Fetch(d, b)
        BY <1>4 DEF StoreNext, storeVars, calls, writing,
           Open, OpenRefused, CloseBegin, CloseStep, WriterStep, QueueStops,
           PoolStops, LeasesReturned, ConnectionCloses, Unlock, RivalLocks,
           RivalLeaves, WriterExits, Leases, Queues, Refused, Returns, Fetches
      <3> QED
        BY <3>1, <3>2, <3>3, <3>4, <3>5
    <2> QED
      BY <1>0, <2>1, <2>2, <2>3 DEF DoneInv
  <1> QED
    BY <1>1, <1>2, <1>3, <1>4

LEMMA StoreStep ==
  ASSUME StoreInv, StoreNext \/ UNCHANGED storeVars
  PROVE  StoreInv'
  <1>1. /\ LifeType /\ OpenType /\ WriteType /\ DoneType /\ CallType /\ ReadType
        /\ FaultType /\ LifeInv /\ QueueInv /\ CallInv /\ DoneInv /\ AtInv
    BY StoreParts DEF StoreInv
  <1>2. /\ LifeType' /\ OpenType' /\ WriteType' /\ DoneType' /\ CallType' /\ ReadType'
        /\ FaultType'
    BY <1>1, LifeTypeStep, OpenTypeStep, WriteTypeStep, DoneTypeStep, CallTypeStep,
       ReadTypeStep, FaultTypeStep
  <1>3. LifeInv' /\ AtInv'
    BY <1>1, LifeInvStep, AtInvStep
  <1>4. QueueInv' /\ CallInv' /\ DoneInv'
    BY <1>1, QueueInvStep, CallInvStep, DoneInvStep
  <1>5. StoreTypeOK' <=> (/\ LifeType /\ OpenType /\ WriteType /\ DoneType
                          /\ CallType /\ ReadType /\ FaultType)'
    BY StoreParts, PTL
  <1> QED
    BY <1>2, <1>3, <1>4, <1>5 DEF StoreInv

LEMMA StoreStarts ==
  ASSUME StoreInit
  PROVE  StoreInv
  <1>1. Range(<<>>) = {} /\ NoRepeat(<<>>)
    BY DEF Range, NoRepeat
  <1>2. /\ LifeType /\ OpenType /\ DoneType /\ CallType /\ ReadType /\ FaultType
    BY StoreAssumption DEF StoreInit, LifeType, OpenType, DoneType, CallType, ReadType,
       FaultType, Out, NoDb
  <1>3. WriteType
    BY DEF StoreInit, WriteType
  <1>4. LifeInv /\ AtInv
    BY DEF StoreInit, LifeInv, AtInv, Out, Dbs, Free
  <1>5. \A d \in Dbs : Range(queue[d]) = {} /\ NoRepeat(queue[d]) /\ writer[d] \notin Cmds
    BY <1>1, StoreAssumption DEF StoreInit, Exited
  <1>6. QueueInv /\ CallInv
    BY <1>5 DEF StoreInit, QueueInv, CallInv, Pending, Out
  <1>7. DoneInv
    BY <1>1 DEF StoreInit, DoneInv
  <1> QED
    BY <1>2, <1>3, <1>4, <1>6, <1>7, StoreParts DEF StoreInv

(* What the file's invariant says to its callers. *)
LEMMA StorePromises ==
  StoreInv => UseWhileOpen /\ OneWriter /\ TruthfulAnswer
  <1> SUFFICES ASSUME StoreInv
               PROVE  UseWhileOpen /\ OneWriter /\ TruthfulAnswer
    OBVIOUS
  <1>1. LifeType /\ LifeInv /\ CallInv
    BY StoreParts DEF StoreInv
  <1>2. UseWhileOpen /\ OneWriter
    BY <1>1, StoreAssumption DEF LifeType, LifeInv, UseWhileOpen, OneWriter, Exited
  <1>3. \A c \in Underway : c \in Cmds /\ (call[c].at = "fetched" \/ Pending(c))
    <2>1. ASSUME NEW c \in Cmds, \E d \in Dbs : c \in {queue[d][i] : i \in DOMAIN queue[d]}
          PROVE  Pending(c)
      BY <2>1 DEF Pending, Range
    <2>2. \A d \in Dbs : {queue[d][i] : i \in DOMAIN queue[d]} \subseteq Cmds
      BY RangeIn, StoreParts DEF StoreInv, WriteType, Range
    <2>3. \A c \in Cmds : c \in {writer[d] : d \in Dbs} => Pending(c)
      BY DEF Pending
    <2>4. \A c \in Underway :
            \/ c \in Cmds /\ call[c].at = "fetched"
            \/ \E d \in Dbs : c \in {queue[d][i] : i \in DOMAIN queue[d]}
            \/ c \in Cmds /\ c \in {writer[d] : d \in Dbs}
      BY DEF Underway
    <2> QED
      BY <2>1, <2>2, <2>3, <2>4
  <1>4. TruthfulAnswer
    BY <1>1, <1>3 DEF TruthfulAnswer, CallInv
  <1> QED
    BY <1>2, <1>4

-----------------------------------------------------------------------------
(* The host and its commands.                                              *)

PhaseType ==
  /\ phase \in {"AccountReady", "Activating", "Ready", "Failed"}
  /\ host \in {"idle", "opened", "failed", "destroy", "close", "gone"}
  /\ after \in {"AccountReady", "Failed"}
  /\ db \in Dbs \cup {NoDb}
  /\ runtime \in {"none", "Running", "Destroying"}

OpType ==
  /\ op \in [Cmds -> {"new", "refused", "admitted", "writing", "publish",
                      "notify", "complete", "done"}]
  /\ inst \in [Cmds -> Dbs \cup {NoDb}]
  /\ record \in [Cmds -> {"none", "Ok", "Failed", "Cancelled"}]

VersionType ==
  /\ version \in 0 .. Cardinality(Cmds) /\ bus \in 0 .. version
  /\ mine \in [Cmds -> 0 .. Cardinality(Cmds)]
  /\ shown \in 0 .. Cardinality(Cmds) /\ loaded \in -1 .. Cardinality(Cmds)

PageType ==
  /\ strays \in {"none", "taken", "swallowed"} /\ seen \subseteq Cmds /\ blank \in BOOLEAN

LEMMA TypeParts ==
  TypeOK <=> StoreTypeOK /\ PhaseType /\ OpType /\ VersionType /\ PageType
  BY DEF TypeOK, PhaseType, OpType, VersionType, PageType

(* Where there is a runtime there is its database; a teardown goes by the  *)
(* runtime; a command that was admitted belongs to an instance.            *)
HostInv ==
  /\ runtime # "none" \/ phase = "Ready" => db \in Dbs
  /\ host = "destroy" => runtime = "Running"
  /\ host = "close" => runtime = "Destroying"
  /\ \A c \in Cmds : op[c] \notin {"new", "refused"} => inst[c] \in Dbs

(* Databases are opened one after the other, and nothing belongs yet to    *)
(* the one that has just been opened.                                      *)
UsedInv ==
  \E n \in 0 .. MaxDbs :
    /\ Used = 1 .. n
    /\ db <= n /\ (host = "opened" => db < n)
    /\ \A c \in Cmds : inst[c] <= n /\ (host = "opened" => inst[c] < n)

(* Commands that have drawn a version, or have gone by. *)
Drawn == {c \in Cmds : op[c] \in {"publish", "notify", "complete", "done"}}

(* No command of this instance has a version that was not drawn from it. *)
VersionInv ==
  /\ version <= Cardinality(Drawn)
  /\ \A c \in Cmds : inst[c] = db /\ db # NoDb => mine[c] <= version
  /\ \A c \in Cmds : mine[c] # 0 => c \in Drawn

IInv ==
  /\ StoreInv /\ PhaseType /\ OpType /\ VersionType /\ PageType
  /\ HostInv /\ UsedInv /\ VersionInv

(* Whatever the host does, it does to the database file one of its steps. *)
LEMMA UsesStore ==
  ASSUME PhaseType, OpType, HostInv, [Next]_vars
  PROVE  StoreNext \/ UNCHANGED storeVars
  <1>1. CASE (\E d \in Dbs : Login(d))
    BY <1>1 DEF Login, opVars, busVars, pageVars, StoreNext
  <1>2. CASE \/ (\E d \in Dbs : Ready(d)) \/ ActivateFails \/ LeavesAccount
             \/ Gone \/ (\E c \in Cmds : Begin(c))
             \/ (\E c \in Cmds : Written(c))
             \/ (\E c \in Cmds : Publish(c)) \/ (\E c \in Cmds : Notify(c))
             \/ (\E c \in Cmds : Complete(c))
    BY <1>2 DEF Ready, opVars, ActivateFails, TearDown, busVars, pageVars,
       LeavesAccount, Gone, Begin, Step, hostVars, Written, DrawVersion,
       Publish, Notify, Complete
  <1>3. CASE \/ Destroy \/ CloseOn
    BY <1>3 DEF Destroy, CancelAll, busVars, pageVars, CloseOn, opVars,
       HostInv, StoreNext
  <1>4. CASE (\E c \in Cmds : Write(c))
    BY <1>4 DEF Write, Step, hostVars, busVars, pageVars, HostInv, StoreNext
  <1>5. CASE \/ (\E c \in Cmds : Submits(c))
             \/ (\E c \in Cmds : TimesOut(c))
    BY <1>5 DEF Submits, hostVars, opVars, busVars, pageVars, TimesOut,
       StoreNext
  <1>6. CASE Reload
    BY <1>6, HostAssumption DEF Reload, hostVars, opVars, busVars, HostInv,
       StoreNext
  <1>7. CASE (\E r \in Readers : ReadElsewhere(r))
    BY <1>7 DEF ReadElsewhere, hostVars, opVars, busVars, pageVars, HostInv,
       StoreNext
  <1>8. CASE (\E r \in Readers : Reads(r))
    BY <1>8, HostAssumption DEF Reads, PageReads, PageFails, hostVars,
       opVars, busVars, StoreNext
  <1>9. CASE \/ OtherProcess \/ (\E d \in Dbs : Writes(d)) \/ Executor
    BY <1>9 DEF OtherProcess, hostVars, opVars, busVars, pageVars, Writes,
       Executor, StoreNext
  <1>10. CASE UNCHANGED vars
    BY <1>10 DEF vars, hostVars, opVars, busVars, pageVars
  <1> QED
    BY <1>1, <1>2, <1>3, <1>4, <1>5, <1>6, <1>7, <1>8, <1>9, <1>10 DEF Next, ThreadStep, HostStep, OpStep

LEMMA PhaseTypeStep ==
  ASSUME PhaseType, [Next]_vars
  PROVE  PhaseType'
  <1>1. CASE \/ (\E d \in Dbs : Login(d)) \/ (\E d \in Dbs : Ready(d))
             \/ ActivateFails \/ LeavesAccount
    BY <1>1 DEF Login, opVars, busVars, pageVars, Ready, ActivateFails,
       TearDown, LeavesAccount, PhaseType
  <1>2. CASE \/ Destroy \/ CloseOn \/ Gone
    BY <1>2 DEF Destroy, CancelAll, busVars, pageVars, CloseOn, opVars,
       Gone, PhaseType
  <1>3. CASE \/ (\E c \in Cmds : Begin(c)) \/ (\E c \in Cmds : Write(c))
             \/ (\E c \in Cmds : Submits(c))
             \/ (\E c \in Cmds : TimesOut(c))
    BY <1>3 DEF Begin, Step, hostVars, busVars, pageVars, Write, Submits,
       opVars, TimesOut, PhaseType
  <1>4. CASE \/ (\E c \in Cmds : Written(c))
             \/ (\E c \in Cmds : Publish(c)) \/ (\E c \in Cmds : Notify(c))
             \/ (\E c \in Cmds : Complete(c))
    BY <1>4 DEF Written, Step, DrawVersion, hostVars, pageVars, Publish,
       Notify, busVars, Complete, PhaseType
  <1>5. CASE \/ Reload \/ (\E r \in Readers : ReadElsewhere(r))
             \/ (\E r \in Readers : Reads(r))
    BY <1>5 DEF Reload, hostVars, opVars, busVars, ReadElsewhere, pageVars,
       Reads, PageReads, PageFails, PhaseType
  <1>6. CASE \/ OtherProcess \/ (\E d \in Dbs : Writes(d)) \/ Executor
    BY <1>6 DEF OtherProcess, hostVars, opVars, busVars, pageVars, Writes,
       Executor, PhaseType
  <1>7. CASE UNCHANGED vars
    BY <1>7 DEF vars, hostVars, opVars, busVars, pageVars, PhaseType
  <1> QED
    BY <1>1, <1>2, <1>3, <1>4, <1>5, <1>6, <1>7 DEF Next, ThreadStep, HostStep, OpStep

LEMMA OpTypeStep ==
  ASSUME PhaseType, OpType, [Next]_vars
  PROVE  OpType'
  <1>1. CASE \/ (\E d \in Dbs : Login(d)) \/ (\E d \in Dbs : Ready(d))
             \/ ActivateFails \/ LeavesAccount
    BY <1>1 DEF Login, opVars, busVars, pageVars, Ready, ActivateFails,
       TearDown, LeavesAccount, OpType
  <1>2. CASE Destroy
    BY <1>2 DEF Destroy, CancelAll, busVars, pageVars, OpType
  <1>3. CASE \/ CloseOn \/ Gone
    BY <1>3 DEF CloseOn, opVars, busVars, pageVars, Gone, OpType
  <1>4. CASE (\E c \in Cmds : Begin(c))
    BY <1>4 DEF Begin, Step, hostVars, busVars, pageVars, OpType, PhaseType
  <1>5. CASE \/ (\E c \in Cmds : Write(c)) \/ (\E c \in Cmds : Submits(c))
             \/ (\E c \in Cmds : TimesOut(c))
    BY <1>5 DEF Write, Step, hostVars, busVars, pageVars, Submits, opVars,
       TimesOut, OpType
  <1>6. CASE \/ (\E c \in Cmds : Written(c))
             \/ (\E c \in Cmds : Publish(c)) \/ (\E c \in Cmds : Notify(c))
    BY <1>6 DEF Written, Step, DrawVersion, hostVars, pageVars, Publish,
       Notify, busVars, OpType
  <1>7. CASE (\E c \in Cmds : Complete(c))
    BY <1>7 DEF Complete, Step, hostVars, pageVars, OpType
  <1>8. CASE \/ Reload \/ (\E r \in Readers : ReadElsewhere(r))
             \/ (\E r \in Readers : Reads(r))
    BY <1>8 DEF Reload, hostVars, opVars, busVars, ReadElsewhere, pageVars,
       Reads, PageReads, PageFails, OpType
  <1>9. CASE \/ OtherProcess \/ (\E d \in Dbs : Writes(d)) \/ Executor
    BY <1>9 DEF OtherProcess, hostVars, opVars, busVars, pageVars, Writes,
       Executor, OpType
  <1>10. CASE UNCHANGED vars
    BY <1>10 DEF vars, hostVars, opVars, busVars, pageVars, OpType
  <1> QED
    BY <1>1, <1>2, <1>3, <1>4, <1>5, <1>6, <1>7, <1>8, <1>9, <1>10 DEF Next, ThreadStep, HostStep, OpStep

LEMMA PageTypeStep ==
  ASSUME WriteType, PageType, [Next]_vars
  PROVE  PageType'
  <1>1. CASE \/ (\E d \in Dbs : Login(d)) \/ (\E d \in Dbs : Ready(d))
             \/ ActivateFails \/ LeavesAccount
    BY <1>1 DEF Login, opVars, busVars, pageVars, Ready, ActivateFails,
       TearDown, LeavesAccount, PageType
  <1>2. CASE \/ Destroy \/ CloseOn \/ Gone
    BY <1>2 DEF Destroy, CancelAll, busVars, pageVars, CloseOn, opVars,
       Gone, PageType
  <1>3. CASE \/ (\E c \in Cmds : Begin(c)) \/ (\E c \in Cmds : Write(c))
             \/ (\E c \in Cmds : Submits(c))
             \/ (\E c \in Cmds : TimesOut(c))
    BY <1>3 DEF Begin, Step, hostVars, busVars, pageVars, Write, Submits,
       opVars, TimesOut, PageType
  <1>4. CASE \/ (\E c \in Cmds : Written(c))
             \/ (\E c \in Cmds : Publish(c)) \/ (\E c \in Cmds : Notify(c))
             \/ (\E c \in Cmds : Complete(c))
    BY <1>4 DEF Written, Step, DrawVersion, hostVars, pageVars, Publish,
       Notify, busVars, Complete, PageType
  <1>5. CASE Reload
    BY <1>5 DEF Reload, hostVars, opVars, busVars, PageType
  <1>6. CASE (\E r \in Readers : ReadElsewhere(r))
    BY <1>6 DEF ReadElsewhere, hostVars, opVars, busVars, pageVars, PageType
  <1>7. CASE (\E r \in Readers : Reads(r))
    BY <1>7 DEF Reads, PageReads, PageFails, hostVars, opVars, busVars,
       PageType, WriteType
  <1>8. CASE \/ OtherProcess \/ (\E d \in Dbs : Writes(d)) \/ Executor
    BY <1>8 DEF OtherProcess, hostVars, opVars, busVars, pageVars, Writes,
       Executor, PageType
  <1>9. CASE UNCHANGED vars
    BY <1>9 DEF vars, hostVars, opVars, busVars, pageVars, PageType
  <1> QED
    BY <1>1, <1>2, <1>3, <1>4, <1>5, <1>6, <1>7, <1>8, <1>9 DEF Next, ThreadStep, HostStep, OpStep

LEMMA HostInvStep ==
  ASSUME PhaseType, OpType, HostInv, [Next]_vars
  PROVE  HostInv'
  <1>1. CASE (\E d \in Dbs : Login(d))
    BY <1>1 DEF Login, opVars, busVars, pageVars, HostInv
  <1>2. CASE (\E d \in Dbs : Ready(d))
    BY <1>2 DEF Ready, opVars, HostInv
  <1>3. CASE \/ ActivateFails \/ LeavesAccount
    BY <1>3 DEF ActivateFails, TearDown, opVars, busVars, pageVars,
       LeavesAccount, HostInv
  <1>4. CASE \/ Destroy \/ CloseOn
    BY <1>4 DEF Destroy, CancelAll, busVars, pageVars, CloseOn, opVars,
       HostInv
  <1>5. CASE Gone
    BY <1>5 DEF Gone, opVars, busVars, pageVars, HostInv, PhaseType
  <1>6. CASE (\E c \in Cmds : Begin(c))
    BY <1>6 DEF Begin, Step, hostVars, busVars, pageVars, HostInv, OpType
  <1>7. CASE (\E c \in Cmds : Write(c))
    BY <1>7 DEF Write, Step, hostVars, busVars, pageVars, HostInv, OpType
  <1>8. CASE \/ (\E c \in Cmds : Submits(c))
             \/ (\E c \in Cmds : TimesOut(c))
    BY <1>8 DEF Submits, hostVars, opVars, busVars, pageVars, TimesOut,
       HostInv
  <1>9. CASE \/ (\E c \in Cmds : Written(c))
             \/ (\E c \in Cmds : Publish(c)) \/ (\E c \in Cmds : Notify(c))
             \/ (\E c \in Cmds : Complete(c))
    BY <1>9 DEF Written, Step, DrawVersion, hostVars, pageVars, Publish,
       Notify, busVars, Complete, HostInv, OpType
  <1>10. CASE \/ Reload \/ (\E r \in Readers : ReadElsewhere(r))
              \/ (\E r \in Readers : Reads(r))
    BY <1>10 DEF Reload, hostVars, opVars, busVars, ReadElsewhere, pageVars,
       Reads, PageReads, PageFails, HostInv
  <1>11. CASE \/ OtherProcess \/ (\E d \in Dbs : Writes(d)) \/ Executor
    BY <1>11 DEF OtherProcess, hostVars, opVars, busVars, pageVars, Writes,
       Executor, HostInv
  <1>12. CASE UNCHANGED vars
    BY <1>12 DEF vars, hostVars, opVars, busVars, pageVars, HostInv
  <1> QED
    BY <1>1, <1>2, <1>3, <1>4, <1>5, <1>6, <1>7, <1>8, <1>9, <1>10, <1>11,
       <1>12 DEF Next, ThreadStep, HostStep, OpStep

LEMMA UsedStays ==
  ASSUME LifeType, LifeInv, PhaseType, OpType, HostInv, [Next]_vars,
         ~ \E d \in Dbs : Login(d)
  PROVE  Used' = Used
  <1>1. \/ UNCHANGED status
        \/ \E d \in Dbs : CloseBegin(d) \/ Unlock(d)
    BY DEF Next, ThreadStep, HostStep, OpStep, Ready, ActivateFails,
       LeavesAccount, Destroy, CloseOn, Gone, Begin, Write, Submits, TimesOut, Written,
       Publish, Notify, Complete, Reload, ReadElsewhere, Reads, OtherProcess, Writes,
       Executor, vars, storeVars, life, CloseStep, QueueStops, PoolStops,
       LeasesReturned, ConnectionCloses, Fetch, Submit, GiveUp, Fetches, PageReads,
       PageFails, Leases, Queues, Refused, Returns, RivalLocks, RivalLeaves,
       WriterStep, WriterTakes, Commit, Rollback, Finish, WriterExits, Tell, HostInv
  <1>2. ASSUME NEW d \in Dbs, CloseBegin(d) \/ Unlock(d)
        PROVE  \A e \in Dbs : status'[e] # "new" <=> status[e] # "new"
    <2>1. status[d] # "new"
      BY <1>2, ClosingStep DEF CloseBegin, Unlock, LifeInv, LifeType
    <2>2. status' \in {[status EXCEPT ![d] = "Closing"], [status EXCEPT ![d] = "Closed"]}
      BY <1>2 DEF CloseBegin, Unlock
    <2> QED
      BY <2>1, <2>2 DEF LifeType
  <1> QED
    BY <1>1, <1>2 DEF Used

LEMMA UsedInvStep ==
  ASSUME LifeType, LifeInv, PhaseType, OpType, HostInv, UsedInv, [Next]_vars
  PROVE  UsedInv'
  <1>1. PICK n \in 0 .. MaxDbs :
          /\ Used = 1 .. n
          /\ db <= n /\ (host = "opened" => db < n)
          /\ \A c \in Cmds : inst[c] <= n /\ (host = "opened" => inst[c] < n)
    BY DEF UsedInv
  <1>2. n \in Nat /\ Cardinality(Used) = n
    BY <1>1, FS_Interval, StoreAssumption
  <1>3. CASE \E d \in Dbs : Login(d)
    <2>1. PICK d \in Dbs : Login(d)
      BY <1>3
    <2>2. d = n + 1 /\ UNCHANGED <<db, inst>>
      BY <1>2, <2>1 DEF Login, opVars
    <2>3. Used' = Used \cup {d}
      BY <2>1 DEF Login, Open, OpenRefused, Used, LifeType
    <2>4. Used' = 1 .. n + 1 /\ n + 1 \in 0 .. MaxDbs
      BY <1>1, <1>2, <2>2, <2>3, StoreAssumption DEF Dbs
    <2>5. db < n + 1 /\ \A c \in Cmds : inst[c] < n + 1
      BY <1>1, <1>2 DEF PhaseType, OpType, Dbs, NoDb
    <2>6. /\ db' <= n + 1 /\ db' < n + 1
          /\ \A c \in Cmds : inst'[c] <= n + 1 /\ inst'[c] < n + 1
      BY <2>2, <2>5, <1>2 DEF PhaseType, OpType, Dbs, NoDb
    <2> QED
      BY <2>4, <2>6 DEF UsedInv
  <1>4. CASE ~ \E d \in Dbs : Login(d)
    <2>1. Used' = 1 .. n
      BY <1>1, <1>4, UsedStays
    <2>2. db' <= n /\ (host' = "opened" => db' < n)
      BY <1>1, <1>2, <1>4 DEF Next, ThreadStep, HostStep, OpStep, Ready, ActivateFails,
         LeavesAccount, Destroy, CloseOn, Gone, Begin, Write, Submits, TimesOut, Written,
         Publish, Notify, Complete, Reload, ReadElsewhere, Reads, OtherProcess, Writes,
         Executor, vars, hostVars, TearDown, NoDb
    <2>3. \A c \in Cmds : inst'[c] <= n /\ (host' = "opened" => inst'[c] < n)
      BY <1>1, <1>2, <1>4 DEF Next, ThreadStep, HostStep, OpStep, Ready, ActivateFails,
         LeavesAccount, Destroy, CloseOn, Gone, Begin, Write, Submits, TimesOut, Written,
         Publish, Notify, Complete, Reload, ReadElsewhere, Reads, OtherProcess, Writes,
         Executor, vars, opVars, hostVars, TearDown, NoDb, OpType
    <2> QED
      BY <2>1, <2>2, <2>3 DEF UsedInv
  <1> QED
    BY <1>3, <1>4

LEMMA DrawnFinite ==
  /\ IsFiniteSet(Drawn) /\ Cardinality(Drawn) \in Nat /\ Cardinality(Cmds) \in Nat
  /\ Cardinality(Drawn) <= Cardinality(Cmds)
  <1>1. Drawn \in SUBSET Cmds
    BY DEF Drawn
  <1> QED
    BY <1>1, FS_Subset, FS_CardinalityType, HostAssumption

LEMMA DrawnStays ==
  ASSUME OpType, [Next]_vars,
         ~ \E c \in Cmds : Written(c)
  PROVE  Drawn' = Drawn
  <1>1. CASE \/ (\E d \in Dbs : Login(d)) \/ (\E d \in Dbs : Ready(d))
             \/ ActivateFails \/ LeavesAccount
    BY <1>1 DEF Login, opVars, busVars, pageVars, Ready, ActivateFails,
       TearDown, LeavesAccount, Drawn
  <1>2. CASE \/ Destroy \/ CloseOn \/ Gone
    BY <1>2 DEF Destroy, CancelAll, busVars, pageVars, CloseOn, opVars,
       Gone, Drawn
  <1>3. CASE (\E c \in Cmds : Begin(c))
    BY <1>3 DEF Begin, Step, hostVars, busVars, pageVars, OpType, Drawn
  <1>4. CASE (\E c \in Cmds : Write(c))
    BY <1>4 DEF Write, Step, hostVars, busVars, pageVars, OpType, Drawn
  <1>5. CASE \/ (\E c \in Cmds : Submits(c))
             \/ (\E c \in Cmds : TimesOut(c))
    BY <1>5 DEF Submits, hostVars, opVars, busVars, pageVars, TimesOut,
       Drawn
  <1>6. CASE (\E c \in Cmds : Written(c))
    BY <1>6 DEF Written, Step, DrawVersion, hostVars, pageVars
  <1>7. CASE (\E c \in Cmds : Publish(c))
    BY <1>7 DEF Publish, Step, hostVars, pageVars, OpType, Drawn
  <1>8. CASE (\E c \in Cmds : Notify(c))
    BY <1>8 DEF Notify, Step, hostVars, busVars, OpType, Drawn
  <1>9. CASE (\E c \in Cmds : Complete(c))
    BY <1>9 DEF Complete, Step, hostVars, pageVars, OpType, Drawn
  <1>10. CASE \/ Reload \/ (\E r \in Readers : ReadElsewhere(r))
              \/ (\E r \in Readers : Reads(r))
    BY <1>10 DEF Reload, hostVars, opVars, busVars, ReadElsewhere, pageVars,
       Reads, PageReads, PageFails, Drawn
  <1>11. CASE \/ OtherProcess \/ (\E d \in Dbs : Writes(d)) \/ Executor
    BY <1>11 DEF OtherProcess, hostVars, opVars, busVars, pageVars, Writes,
       Executor, Drawn
  <1>12. CASE UNCHANGED vars
    BY <1>12 DEF vars, hostVars, opVars, busVars, pageVars, Drawn
  <1> QED
    BY <1>1, <1>2, <1>3, <1>4, <1>5, <1>6, <1>7, <1>8, <1>9, <1>10, <1>11,
       <1>12 DEF Next, ThreadStep, HostStep, OpStep

LEMMA WrittenDraws ==
  ASSUME OpType, NEW c \in Cmds, Written(c)
  PROVE  /\ c \notin Drawn /\ Drawn' = Drawn \cup {c}
         /\ Cardinality(Drawn') = Cardinality(Drawn) + 1
  <1>1. c \notin Drawn /\ Drawn' = Drawn \cup {c}
    BY DEF Written, Step, OpType, Drawn
  <1> QED
    BY <1>1, DrawnFinite, FS_AddElement

LEMMA VersionInvStep ==
  ASSUME PhaseType, OpType, VersionType, UsedInv, VersionInv, [Next]_vars
  PROVE  VersionInv'
  <1>0. version \in Nat /\ Cardinality(Drawn) \in Nat /\ mine \in [Cmds -> Nat]
    BY DrawnFinite DEF VersionType
  <1>1. CASE \E c \in Cmds : Written(c)
    <2>1. PICK c \in Cmds : Written(c)
      BY <1>1
    <2>2. \/ /\ inst[c] = db /\ version' = version + 1
             /\ mine' = [mine EXCEPT ![c] = version + 1]
          \/ UNCHANGED <<version, mine>>
      BY <2>1 DEF Written, DrawVersion
    <2>3. UNCHANGED <<inst, db>>
      BY <2>1 DEF Written, hostVars
    <2>4. /\ \A x \in Cmds : mine'[x] # 0 => x \in Drawn'
          /\ \A x \in Cmds : inst[x] = db /\ db # NoDb => mine'[x] <= version'
      BY <1>0, <2>1, <2>2, WrittenDraws DEF VersionInv
    <2>5. version' <= Cardinality(Drawn')
      BY <1>0, <2>1, <2>2, WrittenDraws DEF VersionInv
    <2> QED
      BY <2>3, <2>4, <2>5 DEF VersionInv
  <1>2. CASE ~ \E c \in Cmds : Written(c)
    <2>1. Drawn' = Drawn
      BY <1>2, DrawnStays
    <2>2. CASE \E d \in Dbs : Ready(d)
      <3>1. PICK d \in Dbs : Ready(d)
        BY <2>2
      <3>2. \A c \in Cmds : inst[c] # d
        <4>1. PICK n \in 0 .. MaxDbs :
                Used = 1 .. n /\ \A c \in Cmds : host = "opened" => inst[c] < n
          BY DEF UsedInv
        <4>2. Cardinality(Used) = n
          BY <4>1, FS_Interval, StoreAssumption
        <4> QED
          BY <3>1, <4>1, <4>2 DEF Ready, OpType, Dbs, NoDb
      <3> QED
        BY <1>0, <2>1, <3>1, <3>2 DEF Ready, opVars, VersionInv
    <2>3. CASE \E c \in Cmds : Begin(c)
      <3>1. PICK c \in Cmds : Begin(c)
        BY <2>3
      <3>2. mine[c] = 0
        BY <3>1 DEF Begin, VersionInv, Drawn
      <3>3. UNCHANGED <<db, mine, version>> /\ \A x \in Cmds \ {c} : inst'[x] = inst[x]
        BY <3>1 DEF Begin, hostVars, busVars, OpType
      <3> QED
        BY <1>0, <2>1, <3>2, <3>3 DEF VersionInv
    <2>4. CASE Gone
      BY <2>1, <2>4 DEF Gone, opVars, busVars, VersionInv
    <2>5. CASE \E c \in Cmds : Complete(c)
      <3>1. PICK c \in Cmds : Complete(c)
        BY <2>5
      <3>2. /\ UNCHANGED <<db, inst, version>> /\ mine'[c] = 0
            /\ \A x \in Cmds \ {c} : mine'[x] = mine[x]
        BY <1>0, <3>1 DEF Complete, hostVars
      <3> QED
        BY <1>0, <2>1, <3>2 DEF VersionInv
    <2>6. CASE UNCHANGED <<db, inst, version, mine>>
      BY <2>1, <2>6 DEF VersionInv
    <2> QED
      BY <1>2, <2>2, <2>3, <2>4, <2>5, <2>6 DEF Next, ThreadStep, HostStep, OpStep,
         Login, ActivateFails, LeavesAccount, Destroy, CloseOn, TearDown, Write, Submits,
         TimesOut, Publish, Notify, Reload, ReadElsewhere, Reads, OtherProcess, Writes,
         Executor, vars, hostVars, opVars, busVars
  <1> QED
    BY <1>1, <1>2

LEMMA VersionTypeStep ==
  ASSUME VersionType, VersionInv, VersionInv', OpType, HostInv, [Next]_vars
  PROVE  VersionType'
  <1>1. CASE \/ (\E d \in Dbs : Login(d)) \/ ActivateFails \/ LeavesAccount
    BY <1>1 DEF Login, opVars, busVars, pageVars, ActivateFails, TearDown,
       LeavesAccount, VersionType
  <1>2. CASE (\E d \in Dbs : Ready(d))
    BY <1>2, DrawnFinite DEF Ready, opVars, VersionType
  <1>3. CASE \/ Destroy \/ CloseOn \/ Gone
    BY <1>3 DEF Destroy, CancelAll, busVars, pageVars, CloseOn, opVars,
       Gone, VersionType
  <1>4. CASE (\E c \in Cmds : Begin(c))
    BY <1>4 DEF Begin, Step, hostVars, busVars, pageVars, VersionType
  <1>5. CASE \/ (\E c \in Cmds : Write(c)) \/ (\E c \in Cmds : Submits(c))
             \/ (\E c \in Cmds : TimesOut(c))
    BY <1>5 DEF Write, Step, hostVars, busVars, pageVars, Submits, opVars,
       TimesOut, VersionType
  <1>6. CASE (\E c \in Cmds : Written(c))
    <2>1. PICK c \in Cmds : Written(c)
      BY <1>6
    <2>2. \/ /\ version' = version + 1
             /\ mine' = [mine EXCEPT ![c] = version + 1]
          \/ UNCHANGED <<version, mine>>
      BY <2>1 DEF Written, DrawVersion
    <2>3. version + 1 \in 0 .. Cardinality(Cmds)
      <3>1. Cardinality(Drawn) + 1 <= Cardinality(Cmds)
        <4>1. Drawn \in SUBSET Cmds /\ c \notin Drawn
          BY <2>1, WrittenDraws DEF Drawn
        <4> QED
          BY <4>1, DrawnFinite, FS_Subset, HostAssumption
      <3> QED
        BY <3>1, DrawnFinite DEF VersionType, VersionInv
    <2>4. UNCHANGED <<bus, shown, loaded>>
      BY <2>1 DEF Written, pageVars
    <2> QED
      BY <2>2, <2>3, <2>4, DrawnFinite DEF VersionType
  <1>7. CASE (\E c \in Cmds : Publish(c))
    <2>1. PICK c \in Cmds : Publish(c)
      BY <1>7
    <2>2. db \in Dbs \/ ~Current(c)
      BY DEF Current, HostInv
    <2>3. bus' = bus \/ (bus' = mine[c] /\ inst[c] = db /\ db # NoDb)
      BY <2>1, <2>2 DEF Publish, Current, Dbs, NoDb
    <2>4. bus' = bus \/ (bus' = mine[c] /\ mine[c] <= version)
      BY <2>3 DEF VersionInv
    <2>5. UNCHANGED <<version, mine, shown, loaded>>
      BY <2>1 DEF Publish, pageVars
    <2> QED
      BY <2>4, <2>5 DEF VersionType
  <1>8. CASE (\E c \in Cmds : Notify(c))
    BY <1>8 DEF Notify, Step, hostVars, busVars, VersionType
  <1>9. CASE (\E c \in Cmds : Complete(c))
    BY <1>9, DrawnFinite DEF Complete, Step, hostVars, pageVars, VersionType
  <1>10. CASE Reload
    BY <1>10 DEF Reload, hostVars, opVars, busVars, VersionType
  <1>11. CASE \/ (\E r \in Readers : ReadElsewhere(r))
              \/ (\E r \in Readers : Reads(r))
    BY <1>11 DEF ReadElsewhere, hostVars, opVars, busVars, pageVars, Reads,
       PageReads, PageFails, VersionType
  <1>12. CASE \/ OtherProcess \/ (\E d \in Dbs : Writes(d)) \/ Executor
    BY <1>12 DEF OtherProcess, hostVars, opVars, busVars, pageVars, Writes,
       Executor, VersionType
  <1>13. CASE UNCHANGED vars
    BY <1>13 DEF vars, hostVars, opVars, busVars, pageVars, VersionType
  <1> QED
    BY <1>1, <1>2, <1>3, <1>4, <1>5, <1>6, <1>7, <1>8, <1>9, <1>10, <1>11,
       <1>12, <1>13 DEF Next, ThreadStep, HostStep, OpStep

LEMMA Start_IInv == Init => IInv
  <1> SUFFICES ASSUME Init PROVE IInv
    OBVIOUS
  <1>1. StoreInv
    BY StoreStarts DEF Init
  <1>2. PhaseType /\ OpType /\ PageType /\ HostInv
    BY DEF Init, PhaseType, OpType, PageType, HostInv
  <1>3. Drawn = {} /\ VersionType
    BY DrawnFinite DEF Init, Drawn, VersionType
  <1>4. VersionInv
    BY <1>3, FS_EmptySet DEF Init, VersionInv
  <1>5. UsedInv
    <2>1. Used = 1 .. 0
      BY DEF Init, StoreInit, Used
    <2>2. 0 \in 0 .. MaxDbs
      BY StoreAssumption
    <2> QED
      BY <2>1, <2>2 DEF Init, UsedInv, NoDb
  <1> QED
    BY <1>1, <1>2, <1>3, <1>4, <1>5 DEF IInv

LEMMA Step_IInv == IInv /\ [Next]_vars => IInv'
  <1> SUFFICES ASSUME IInv, [Next]_vars PROVE IInv'
    OBVIOUS
  <1>1. /\ StoreInv /\ PhaseType /\ OpType /\ VersionType /\ PageType
        /\ HostInv /\ UsedInv /\ VersionInv
    BY DEF IInv
  <1>2. LifeType /\ WriteType /\ LifeInv
    BY <1>1, StoreParts DEF StoreInv
  <1>3. StoreInv'
    BY <1>1, UsesStore, StoreStep
  <1>4. PhaseType' /\ OpType' /\ PageType' /\ HostInv'
    BY <1>1, <1>2, PhaseTypeStep, OpTypeStep, PageTypeStep, HostInvStep
  <1>5. UsedInv' /\ VersionInv'
    BY <1>1, <1>2, UsedInvStep, VersionInvStep
  <1>6. VersionType'
    BY <1>1, <1>5, VersionTypeStep
  <1> QED
    BY <1>3, <1>4, <1>5, <1>6 DEF IInv

LEMMA Always_IInv == Spec => []IInv
  BY Start_IInv, Step_IInv, PTL DEF Spec

-----------------------------------------------------------------------------
(* The kernel uses the database file by its operations only: what holds of *)
(* the file whatever its callers do holds of it here (NativeKernelHost,    *)
(* ClientRuntime and NativeRepository over NativeDatabase).                *)
StoreSpec == StoreInit /\ [][StoreNext]_storeVars

THEOREM ImplementsStore == Spec => StoreSpec
  <1>1. Init => StoreInit
    BY DEF Init
  <1>2. IInv /\ [Next]_vars => [StoreNext]_storeVars
    BY UsesStore DEF IInv
  <1> QED
    BY <1>1, <1>2, Always_IInv, PTL DEF Spec, StoreSpec

(* Every variable of the kernel stays in its type.  The bounds say more:   *)
(* no runtime publishes a version it did not draw, and no more versions    *)
(* are drawn than commands ended (m_dbVersion, InvalidationBus).           *)
THEOREM TypeCorrect == Spec => []TypeOK
  <1>1. IInv => TypeOK
    BY TypeParts DEF IInv, StoreInv
  <1> QED
    BY <1>1, Always_IInv, PTL

(* However openings, closings and other processes interleave, whoever has  *)
(* the file open for writing holds its lock (ProcessLock, closeInternal).  *)
THEOREM LockedWhileWriting == Spec => []OneWriter
  <1>1. IInv => OneWriter
    BY StorePromises DEF IInv
  <1> QED
    BY <1>1, Always_IInv, PTL

(* No transaction and no read is caught by the closing of its connection   *)
(* (DbCommandQueue::close, ReadPool::close before the connections).        *)
THEOREM NeverClosedInUse == Spec => []UseWhileOpen
  <1>1. IInv => UseWhileOpen
    BY StorePromises DEF IInv
  <1> QED
    BY <1>1, Always_IInv, PTL

(* What submitSync says of a command is what has become of it, and will    *)
(* not change, also when the queue is full, closing or slow.               *)
THEOREM AnswersAreTrue == Spec => []TruthfulAnswer
  <1>1. IInv => TruthfulAnswer
    BY StorePromises DEF IInv
  <1> QED
    BY <1>1, Always_IInv, PTL

-----------------------------------------------------------------------------
(***************************************************************************)
(* The connection (SecureConnection).                                      *)
(***************************************************************************)

(* The connection: types, and what a step keeps of them.                  *)
Frames == [kind : Kinds, key : Nat, seq : Nat]
Tasks == {x \in [do : {"dial", "drain", "send", "encrypt"}, frame : Frames] :
             x.do # "send" => x.frame = NoFrame}
Posts == {Task("encrypt", NoFrame), NoTask}

CountType ==
    /\ conn \in 0..MaxConns /\ told \in 0..MaxConns
    /\ goal = "dial" => pc["C"] \in {"close", "join", "joining", "report", "terminated"}
    /\ goal = "dial" \/ pc["C"] = "restart" => conn < MaxConns
FlagType ==
    /\ open \in BOOLEAN /\ genOk \in BOOLEAN /\ notified \in BOOLEAN
    /\ hbRunning \in BOOLEAN /\ stale \in BOOLEAN
StageType ==
    /\ thread \in {"none", "on", "ended"} /\ sock \in {"none", "dialing", "open"}
    /\ io \in {"idle", "sealing", "numbering", "disconnect", "joinHeartbeat", "terminated"}
    /\ promise \in {"none", "wait", "ok", "no"}
    /\ goal \in {"dial", "closed", "failed"}
    /\ link \in {"none", "up", "cut"}
PlaceType == pc \in [Threads -> Places]
PostType == post \in [{"H", "B"} -> Posts]
PastType == past \in [intruded : BOOLEAN, live : BOOLEAN, byApp : BOOLEAN, overlap : BOOLEAN]
Statuses == {"NotStarted", "HelloSent", "FinishedSent", "Established", "Failed"}
Channels == [st : Statuses, hello : Nat, key : Nat, snd : Nat, rcv : Nat]
Stages == {"WaitClientHello", "WaitClientFinished", "Established", "Closed"}
Sessions == [st : Stages, key : Nat, snd : Nat, rcv : Nat, refused : BOOLEAN]
ChanType == chan \in Channels
SrvType == srv \in Sessions
QueueType ==
    /\ ioq \in Seq(Tasks) /\ c2s \in Seq(Frames)
    /\ s2c \in Seq(Frames) /\ \A i \in DOMAIN s2c : s2c[i].kind # "plain"

-----------------------------------------------------------------------------
(* Sequences, as the tasks and the two directions of the wire are used.     *)
LEMMA Appended ==
    ASSUME NEW S, NEW q \in Seq(S), NEW e \in S
    PROVE  /\ Append(q, e) \in Seq(S)
           /\ DOMAIN q = 1..Len(q) /\ Len(q) \in Nat
           /\ Len(Append(q, e)) = Len(q) + 1
           /\ DOMAIN Append(q, e) = 1..(Len(q) + 1)
           /\ \A i \in DOMAIN q : Append(q, e)[i] = q[i]
           /\ Append(q, e)[Len(q) + 1] = e
  BY AppendProperties

LEMMA Popped ==
    ASSUME NEW S, NEW q \in Seq(S), q # <<>>
    PROVE  /\ Tail(q) \in Seq(S) /\ Head(q) \in S /\ Head(q) = q[1]
           /\ DOMAIN q = 1..Len(q) /\ Len(q) \in Nat \ {0}
           /\ Len(Tail(q)) = Len(q) - 1
           /\ DOMAIN Tail(q) = 1..(Len(q) - 1)
           /\ \A i \in DOMAIN Tail(q) : Tail(q)[i] = q[i + 1]
  BY HeadTailProperties

(* Every task and every frame the program makes is one.                    *)
LEMMA TaskTypes ==
    /\ NoFrame \in Frames /\ NoTask \in Tasks
    /\ \A d \in {"dial", "drain", "encrypt"} : Task(d, NoFrame) \in Tasks
    /\ \A f \in Frames : Task("send", f) \in Tasks
    /\ \A k \in Kinds : \A x, n \in Nat : Frame(k, x, n) \in Frames
    /\ Posts \subseteq Tasks
  BY DEF Frames, Tasks, Posts, NoTask, Task, NoFrame, Frame, Kinds

-----------------------------------------------------------------------------
(* Only Restart begins a connection, and C has reserved it: the number of  *)
(* connections stays within its bound because C aims at a dial only while  *)
(* one is left.                                                            *)
LEMMA CountStep ==
  ASSUME CountType, PlaceType, MaxConns \in Nat, [ConnectionNext]_connectionVars PROVE CountType'
  <1> USE DEF CountType, PlaceType, Threads
  <1>1. CASE ConnectThread
    BY <1>1 DEF ConnectThread, ConnectToServer, Restart, DialGivenUp, DialTimeout, Hello,
       HandshakeDone, HandshakeTimeout, StartHeartbeat, Close, CloseStart, JoinBegin, JoinEnd,
       CloseEnd, NotifyClose, transport, Goto, Terminate
  <1>2. CASE HeartbeatThread \/ ProgramSends \/ ProgramThread \/ Disconnect \/ DisconnectThread
            \/ Silence
    BY <1>2 DEF HeartbeatThread, HeartbeatRound, Check, Post, ProgramSends, ProgramThread, Disconnect,
       DisconnectThread, HeartbeatJoined, Silence, Goto, Terminate,
       Close, CloseStart, JoinBegin, JoinEnd, CloseEnd, NotifyClose, transport
  <1>3. CASE IoThread
    BY <1>3 DEF IoThread, TaskDial, DialOk, DialFail, TaskDrain, TaskSend, TaskEncrypt, Seal, Number,
       ReadServerHello, ReadServerFinished, ReadSealed, ReadEnd, DisconnectOnIo, HeartbeatJoinedOnIo,
       IoExit, NotifyClose, transport, client, Goto
  <1>4. CASE SessionRead \/ SessionDeliver \/ SessionCloses \/ Cut
    BY <1>4 DEF SessionRead, SessionDeliver, SessionCloses, Cut, transport, client
  <1>5. CASE UNCHANGED connectionVars
    BY <1>5 DEF connectionVars, transport, client
  <1> QED
    BY <1>1, <1>2, <1>3, <1>4, <1>5 DEF ConnectionNext

LEMMA FlagStep ==
  ASSUME FlagType, [ConnectionNext]_connectionVars PROVE FlagType'
  <1> USE DEF FlagType
  <1>1. CASE ConnectThread
    BY <1>1 DEF ConnectThread, ConnectToServer, Restart, DialGivenUp, DialTimeout, Hello,
       HandshakeDone, HandshakeTimeout, StartHeartbeat, Close, CloseStart, JoinBegin, JoinEnd,
       CloseEnd, NotifyClose, transport
  <1>2. CASE HeartbeatThread \/ ProgramSends \/ ProgramThread \/ Disconnect \/ DisconnectThread
            \/ Silence
    BY <1>2 DEF HeartbeatThread, HeartbeatRound, Check, Post, ProgramSends, ProgramThread, Disconnect,
       DisconnectThread, HeartbeatJoined, Silence,
       Close, CloseStart, JoinBegin, JoinEnd, CloseEnd, NotifyClose, transport
  <1>3. CASE IoThread
    BY <1>3 DEF IoThread, TaskDial, DialOk, DialFail, TaskDrain, TaskSend, TaskEncrypt, Seal, Number,
       ReadServerHello, ReadServerFinished, ReadSealed, ReadEnd, DisconnectOnIo, HeartbeatJoinedOnIo,
       IoExit, NotifyClose, CloseOnIo, transport, client
  <1>4. CASE SessionRead \/ SessionDeliver \/ SessionCloses \/ Cut
    BY <1>4 DEF SessionRead, SessionDeliver, SessionCloses, Cut, transport, client
  <1>5. CASE UNCHANGED connectionVars
    BY <1>5 DEF connectionVars, transport, client
  <1> QED
    BY <1>1, <1>2, <1>3, <1>4, <1>5 DEF ConnectionNext

LEMMA StageStep ==
  ASSUME StageType, [ConnectionNext]_connectionVars PROVE StageType'
  <1> USE DEF StageType
  <1>1. CASE ConnectThread
    BY <1>1 DEF ConnectThread, ConnectToServer, Restart, DialGivenUp, DialTimeout, Hello,
       HandshakeDone, HandshakeTimeout, StartHeartbeat, Close, CloseStart, JoinBegin, JoinEnd,
       CloseEnd, NotifyClose, transport, network, channel, LinkDown, Terminate
  <1>2. CASE HeartbeatThread \/ ProgramSends \/ ProgramThread \/ Disconnect \/ DisconnectThread
            \/ Silence
    BY <1>2 DEF HeartbeatThread, HeartbeatRound, Check, Post, ProgramSends, ProgramThread, Disconnect,
       DisconnectThread, HeartbeatJoined, Silence,
       Close, CloseStart, JoinBegin, JoinEnd, CloseEnd, NotifyClose, transport, network, channel,
       Terminate
  <1>3. CASE IoThread
    BY <1>3 DEF IoThread, TaskDial, DialOk, DialFail, TaskDrain, TaskSend, TaskEncrypt, Seal, Number,
       ReadServerHello, ReadServerFinished, ReadSealed, ReadEnd, DisconnectOnIo, HeartbeatJoinedOnIo,
       IoExit, NotifyClose, CloseOnIo, transport, client, network, channel, LinkDown
  <1>4. CASE SessionRead \/ SessionDeliver \/ SessionCloses \/ Cut
    BY <1>4 DEF SessionRead, SessionDeliver, SessionCloses, Cut, transport, client, channel
  <1>5. CASE UNCHANGED connectionVars
    BY <1>5 DEF connectionVars, transport, client, network, channel
  <1> QED
    BY <1>1, <1>2, <1>3, <1>4, <1>5 DEF ConnectionNext

LEMMA PlaceStep ==
  ASSUME PlaceType, [ConnectionNext]_connectionVars PROVE PlaceType'
  <1> USE DEF PlaceType, Threads, Places
  <1>1. CASE ConnectThread
    BY <1>1 DEF ConnectThread, ConnectToServer, Restart, DialGivenUp, DialTimeout, Hello,
       HandshakeDone, HandshakeTimeout, StartHeartbeat, Close, CloseStart, JoinBegin, JoinEnd,
       CloseEnd, Terminate, Goto
  <1>2. CASE HeartbeatThread \/ ProgramSends \/ ProgramThread \/ Disconnect \/ DisconnectThread
            \/ Silence
    BY <1>2 DEF HeartbeatThread, HeartbeatRound, Check, Post, ProgramSends, ProgramThread, Disconnect,
       DisconnectThread, HeartbeatJoined, Silence,
       Close, CloseStart, JoinBegin, JoinEnd, CloseEnd,Terminate, Goto
  <1>3. CASE IoThread
    BY <1>3 DEF IoThread, TaskDial, DialOk, DialFail, TaskDrain, TaskSend, TaskEncrypt, Seal, Number,
       ReadServerHello, ReadServerFinished, ReadSealed, ReadEnd, DisconnectOnIo, HeartbeatJoinedOnIo,
       IoExit, Goto, client
  <1>4. CASE SessionRead \/ SessionDeliver \/ SessionCloses \/ Cut
    BY <1>4 DEF SessionRead, SessionDeliver, SessionCloses, Cut, client
  <1>5. CASE UNCHANGED connectionVars
    BY <1>5 DEF connectionVars, client
  <1> QED
    BY <1>1, <1>2, <1>3, <1>4, <1>5 DEF ConnectionNext

LEMMA PastStep ==
  ASSUME PastType, [ConnectionNext]_connectionVars PROVE PastType'
  <1> USE DEF PastType
  <1>1. CASE ConnectThread
    BY <1>1 DEF ConnectThread, ConnectToServer, Restart, DialGivenUp, DialTimeout, Hello,
       HandshakeDone, HandshakeTimeout, StartHeartbeat, Close, CloseStart, JoinBegin, JoinEnd,
       CloseEnd, Clean
  <1>2. CASE HeartbeatThread \/ ProgramSends \/ ProgramThread \/ Disconnect \/ DisconnectThread
            \/ Silence
    BY <1>2 DEF HeartbeatThread, HeartbeatRound, Check, Post, ProgramSends, ProgramThread, Disconnect,
       DisconnectThread, HeartbeatJoined, Silence,
       Close, CloseStart, JoinBegin, JoinEnd, CloseEnd
  <1>3. CASE IoThread
    BY <1>3 DEF IoThread, TaskDial, DialOk, DialFail, TaskDrain, TaskSend, TaskEncrypt, Seal, Number,
       ReadServerHello, ReadServerFinished, ReadSealed, ReadEnd, DisconnectOnIo, HeartbeatJoinedOnIo,
       IoExit
  <1>4. CASE SessionRead \/ SessionDeliver \/ SessionCloses \/ Cut
    BY <1>4 DEF SessionRead, SessionDeliver, SessionCloses, Cut
  <1>5. CASE UNCHANGED connectionVars
    BY <1>5 DEF connectionVars
  <1> QED
    BY <1>1, <1>2, <1>3, <1>4, <1>5 DEF ConnectionNext

LEMMA PostStep ==
  ASSUME PostType, [ConnectionNext]_connectionVars PROVE PostType'
  <1> USE DEF PostType, Posts, NoTask
  <1>1. CASE ConnectThread
    BY <1>1 DEF ConnectThread, ConnectToServer, Restart, DialGivenUp, DialTimeout, Hello,
       HandshakeDone, HandshakeTimeout, StartHeartbeat, Close, CloseStart, JoinBegin, JoinEnd,
       CloseEnd
  <1>2. CASE HeartbeatThread \/ ProgramSends \/ ProgramThread \/ Disconnect \/ DisconnectThread
            \/ Silence
    BY <1>2 DEF HeartbeatThread, HeartbeatRound, Check, Post, ProgramSends, ProgramThread, Disconnect,
       DisconnectThread, HeartbeatJoined, Silence,
       Close, CloseStart, JoinBegin, JoinEnd, CloseEnd
  <1>3. CASE IoThread
    BY <1>3 DEF IoThread, TaskDial, DialOk, DialFail, TaskDrain, TaskSend, TaskEncrypt, Seal, Number,
       ReadServerHello, ReadServerFinished, ReadSealed, ReadEnd, DisconnectOnIo, HeartbeatJoinedOnIo,
       IoExit, client
  <1>4. CASE SessionRead \/ SessionDeliver \/ SessionCloses \/ Cut
    BY <1>4 DEF SessionRead, SessionDeliver, SessionCloses, Cut, client
  <1>5. CASE UNCHANGED connectionVars
    BY <1>5 DEF connectionVars, client
  <1> QED
    BY <1>1, <1>2, <1>3, <1>4, <1>5 DEF ConnectionNext

(* reset() and a new session begin with a typed state.                     *)
LEMMA FreshType ==
  Fresh \in Channels /\ NewSession \in Sessions /\ NoSession \in Sessions
  <1>1. Fresh \in Channels
    BY DEF Channels, Statuses, Fresh
  <1>2. NewSession \in Sessions
    BY DEF Sessions, Stages, NewSession
  <1>3. NoSession \in Sessions
    BY <1>2 DEF NoSession, Sessions, Stages
  <1> QED
    BY <1>1, <1>2, <1>3

LEMMA ChanStep ==
  ASSUME ChanType, PastType, CountType, QueueType, MaxConns \in Nat, [ConnectionNext]_connectionVars
  PROVE  ChanType'
  <1> USE DEF ChanType
  <1>0. UNCHANGED chan => ChanType'
    OBVIOUS
  <1>1. CASE ConnectThread
    <2>1. CASE Hello
      <3>1. chan' = [Fresh EXCEPT !.st = "HelloSent", !.hello = conn]
        BY <2>1 DEF Hello, Reset
      <3>2. conn \in Nat
        BY DEF CountType
      <3> QED
        BY <3>1, <3>2, FreshType DEF Channels, Statuses
    <2>2. ASSUME ConnectThread, ~Hello PROVE UNCHANGED chan
      BY <2>2
       DEF ConnectThread, ConnectToServer, Restart, DialGivenUp, DialTimeout,
       HandshakeDone, HandshakeTimeout, StartHeartbeat, Close, CloseStart, JoinBegin, JoinEnd,
       CloseEnd, channel
    <2> QED
      BY <1>0, <1>1, <2>1, <2>2
  <1>2. CASE HeartbeatThread \/ ProgramSends \/ ProgramThread \/ Disconnect \/ DisconnectThread
            \/ Silence
    BY <1>2 DEF HeartbeatThread, HeartbeatRound, Check, Post, ProgramSends, ProgramThread, Disconnect,
       DisconnectThread, HeartbeatJoined, Silence,
       Close, CloseStart, JoinBegin, JoinEnd, CloseEnd, channel
  <1>3. CASE IoThread
    <2>0. s2c # <<>> => Head(s2c) \in Frames
      BY Popped DEF QueueType
    <2>1. s2c # <<>> => Head(s2c).key \in Nat /\ Head(s2c).seq \in Nat
      BY <2>0 DEF Frames
    <2>3. CASE Seal
      BY <2>3 DEF Seal, Channels, Statuses
    <2>4. CASE Number
      BY <2>4 DEF Number, Channels
    <2>5. CASE ReadServerHello
      BY <2>5, <2>1 DEF ReadServerHello, CanRead, Channels, Statuses
    <2>6. CASE ReadServerFinished
      BY <2>6 DEF ReadServerFinished, Channels, Statuses
    <2>7. CASE ReadSealed
      BY <2>7, <2>1 DEF ReadSealed, CanRead, Channels, Statuses
    <2>8. CASE TaskDial \/ DialOk \/ DialFail \/ TaskDrain \/ TaskSend \/ TaskEncrypt \/ ReadEnd
               \/ DisconnectOnIo \/ HeartbeatJoinedOnIo \/ IoExit
      BY <2>8 DEF TaskDial, DialOk, DialFail, TaskDrain, TaskSend, TaskEncrypt, ReadEnd,
         DisconnectOnIo, HeartbeatJoinedOnIo, IoExit, channel
    <2> QED
      BY <1>3, <2>3, <2>4, <2>5, <2>6, <2>7, <2>8 DEF IoThread
  <1>4. CASE SessionRead \/ SessionDeliver \/ SessionCloses \/ Cut
    BY <1>4 DEF SessionRead, SessionDeliver, SessionCloses, Cut, channel
  <1>5. CASE UNCHANGED connectionVars
    BY <1>5 DEF connectionVars, channel
  <1> QED
    BY <1>1, <1>2, <1>3, <1>4, <1>5 DEF ConnectionNext

LEMMA SrvStep ==
  ASSUME SrvType, QueueType, [ConnectionNext]_connectionVars PROVE SrvType'
  <1> USE DEF SrvType
  <1>0. LinkDown => srv' \in Sessions
    BY FreshType DEF LinkDown
  <1>1. CASE ConnectThread
    BY <1>0, <1>1 DEF ConnectThread, ConnectToServer, Restart, DialGivenUp, DialTimeout, Hello,
       HandshakeDone, HandshakeTimeout, StartHeartbeat, Close, CloseStart, JoinBegin, JoinEnd,
       CloseEnd, network
  <1>2. CASE HeartbeatThread \/ ProgramSends \/ ProgramThread \/ Disconnect \/ DisconnectThread
            \/ Silence
    BY <1>2 DEF HeartbeatThread, HeartbeatRound, Check, Post, ProgramSends, ProgramThread, Disconnect,
       DisconnectThread, HeartbeatJoined, Silence,
       Close, CloseStart, JoinBegin, JoinEnd, CloseEnd, network
  <1>3. CASE IoThread
    BY <1>0, <1>3, FreshType
       DEF IoThread, TaskDial, DialOk, DialFail, TaskDrain, TaskSend, TaskEncrypt, Seal,
       Number, ReadServerHello, ReadServerFinished, ReadSealed, ReadEnd, DisconnectOnIo,
       HeartbeatJoinedOnIo, IoExit, network
  <1>4. CASE SessionRead \/ SessionDeliver \/ SessionCloses \/ Cut
    <2>0. c2s # <<>> => Head(c2s) \in Frames
      BY Popped DEF QueueType
    <2>1. c2s # <<>> => Head(c2s).key \in Nat /\ Head(c2s).seq \in Nat
      BY <2>0 DEF Frames
    <2>2. CASE SessionRead
      BY <2>1, <2>2 DEF SessionRead, Refuse, Sessions, Stages
    <2>3. CASE SessionDeliver \/ SessionCloses \/ Cut
      BY <2>3 DEF SessionDeliver, SessionCloses, Cut, Sessions, Stages
    <2> QED
      BY <1>4, <2>2, <2>3
  <1>5. CASE UNCHANGED connectionVars
    BY <1>5 DEF connectionVars, network
  <1> QED
    BY <1>1, <1>2, <1>3, <1>4, <1>5 DEF ConnectionNext

(* What a step does to the queues.                                         *)
LEMMA QueueSteps ==
  ASSUME QueueType, [ConnectionNext]_connectionVars
  PROVE  /\ \/ ioq' = ioq
            \/ \E d \in {"dial", "drain"} : ioq' = Append(ioq, Task(d, NoFrame))
            \/ ioq' = Append(ioq, Task("send", Frame("hello", conn, 0)))
            \/ \E t \in {"H", "B"} : ioq' = Append(ioq, post[t])
            \/ ioq' = Append(ioq, Task("send", Frame("sealed", chan.key, chan.snd + 1)))
            \/ s2c # <<>> /\ ioq' = Append(ioq, Task("send", Frame("finished", Head(s2c).key, 0)))
            \/ ioq # <<>> /\ ioq' = Tail(ioq)
         /\ \/ c2s' \in {c2s, <<>>}
            \/ ioq # <<>> /\ c2s' = Append(c2s, Head(ioq).frame)
            \/ c2s # <<>> /\ c2s' = Tail(c2s)
         /\ \/ s2c' \in {s2c, <<>>}
            \/ s2c # <<>> /\ s2c' = Tail(s2c)
            \/ /\ c2s # <<>>
               /\ \E k \in {"serverHello", "serverFinished"} :
                     s2c' = Append(s2c, Frame(k, Head(c2s).key, 0))
            \/ s2c' = Append(s2c, Frame("sealed", srv.key, srv.snd + 1))
  <1>1. CASE ConnectThread
    <2>1. CASE Restart
      BY <2>1 DEF Restart, LinkDown
    <2>2. CASE DialTimeout
      BY <2>2 DEF DialTimeout, network
    <2>3. CASE Hello
      BY <2>3 DEF Hello, network
    <2>4. CASE ConnectToServer \/ DialGivenUp \/ HandshakeDone \/ HandshakeTimeout
      BY <2>4 DEF ConnectToServer, DialGivenUp, HandshakeDone, HandshakeTimeout, network
    <2>5. CASE StartHeartbeat
      BY <2>5 DEF StartHeartbeat, network
    <2>6. CASE Close("C")
      BY <2>6 DEF Close, CloseStart, JoinBegin, JoinEnd, CloseEnd, network
    <2> QED
      BY <1>1, <2>1, <2>2, <2>3, <2>4, <2>5, <2>6 DEF ConnectThread
  <1>2. CASE HeartbeatThread \/ ProgramSends \/ ProgramThread \/ Disconnect \/ DisconnectThread
            \/ Silence
    <2>1. CASE HeartbeatRound \/ Check("H") \/ Check("B") \/ ProgramSends \/ Disconnect
               \/ HeartbeatJoined \/ Silence
      BY <2>1 DEF HeartbeatRound, Check, ProgramSends, Disconnect, HeartbeatJoined, Silence, network
    <2>2. CASE Close("H") \/ Close("U")
      BY <2>2 DEF Close, CloseStart, JoinBegin, JoinEnd, CloseEnd, network
    <2>3. CASE Post("H") \/ Post("B")
      BY <2>3 DEF Post, network
    <2> QED
      BY <1>2, <2>1, <2>2, <2>3 DEF HeartbeatThread, ProgramThread, DisconnectThread
  <1>3. CASE IoThread
    <2>1. CASE TaskDial \/ DialOk \/ DialFail \/ TaskEncrypt
      BY <2>1 DEF TaskDial, DialOk, DialFail, TaskEncrypt, NextTask, network
    <2>2. CASE TaskDrain \/ Seal \/ IoExit \/ ReadEnd
      BY <2>2 DEF TaskDrain, Seal, IoExit, ReadEnd, LinkDown, NextTask, network
    <2>3. CASE TaskSend
      BY <2>3 DEF TaskSend, NextTask
    <2>4. CASE Number
      BY <2>4 DEF Number, network
    <2>5. CASE ReadServerHello
      BY <2>5 DEF ReadServerHello, CloseOnIo, CanRead
    <2>6. CASE ReadServerFinished \/ ReadSealed
      BY <2>6 DEF ReadServerFinished, ReadSealed, CloseOnIo, CanRead
    <2>7. CASE DisconnectOnIo \/ HeartbeatJoinedOnIo
      BY <2>7 DEF DisconnectOnIo, HeartbeatJoinedOnIo, CloseOnIo, network
    <2> QED
      BY <1>3, <2>1, <2>2, <2>3, <2>4, <2>5, <2>6, <2>7 DEF IoThread
  <1>4. CASE SessionRead \/ SessionDeliver \/ SessionCloses \/ Cut
    <2>1. CASE SessionRead
      BY <2>1 DEF SessionRead, Refuse
    <2>2. CASE SessionDeliver
      BY <2>2 DEF SessionDeliver
    <2>3. CASE SessionCloses \/ Cut
      BY <2>3 DEF SessionCloses, Cut
    <2> QED
      BY <1>4, <2>1, <2>2, <2>3
  <1>5. CASE UNCHANGED connectionVars
    BY <1>5 DEF connectionVars, network
  <1> QED
    BY <1>1, <1>2, <1>3, <1>4, <1>5 DEF ConnectionNext

LEMMA QueueStep ==
  ASSUME CountType, PostType, ChanType, SrvType, QueueType, MaxConns \in Nat, [ConnectionNext]_connectionVars
  PROVE QueueType'
  <1>a. /\ \A x \in Tasks : Append(ioq, x) \in Seq(Tasks)
        /\ \A x \in Frames : Append(c2s, x) \in Seq(Frames)
        /\ \A x \in Frames : Append(s2c, x) \in Seq(Frames)
    BY Appended DEF QueueType
  <1>b. \A x \in Frames : x.kind # "plain" =>
           \A i \in DOMAIN Append(s2c, x) : Append(s2c, x)[i].kind # "plain"
    BY Appended DEF QueueType
  <1>c. /\ ioq # <<>> => Head(ioq) \in Tasks /\ Tail(ioq) \in Seq(Tasks)
        /\ c2s # <<>> => Head(c2s) \in Frames /\ Tail(c2s) \in Seq(Frames)
        /\ s2c # <<>> => Head(s2c) \in Frames /\ Tail(s2c) \in Seq(Frames)
    BY Popped DEF QueueType
  <1>d. s2c # <<>> => \A i \in DOMAIN Tail(s2c) : Tail(s2c)[i].kind # "plain"
    BY Popped DEF QueueType
  <1>e. /\ <<>> \in Seq(Frames) /\ DOMAIN <<>> = {}
    BY EmptySeq
  <1>g. /\ conn \in Nat
        /\ c2s # <<>> => Head(c2s).key \in Nat
        /\ s2c # <<>> => Head(s2c).key \in Nat
    <2>1. \A f \in Frames : f.key \in Nat
      BY DEF Frames
    <2>2. conn \in Nat
      BY DEF CountType
    <2> QED
      BY <1>c, <2>1, <2>2
  <1>h. /\ Frame("hello", conn, 0) \in Frames
        /\ Frame("sealed", chan.key, chan.snd + 1) \in Frames
        /\ Frame("sealed", srv.key, srv.snd + 1) \in Frames
        /\ \A n \in Nat : /\ Frame("finished", n, 0) \in Frames /\ Frame("serverHello", n, 0) \in Frames
                         /\ Frame("serverFinished", n, 0) \in Frames
    BY <1>g, TaskTypes DEF ChanType, SrvType, Channels, Sessions, Kinds
  <1>k. /\ Frame("sealed", srv.key, srv.snd + 1).kind # "plain"
        /\ \A k \in {"serverHello", "serverFinished"} : \A n : Frame(k, n, 0).kind # "plain"
    BY DEF Frame
  <1>l. /\ \A t \in {"H", "B"} : post[t] \in Tasks
        /\ \A x \in Tasks : x.frame \in Frames
    BY TaskTypes DEF PostType, Tasks
  <1>1. ioq' \in Seq(Tasks)
    BY <1>a, <1>c, <1>g, <1>h, <1>l, QueueSteps, TaskTypes DEF QueueType
  <1>2. c2s' \in Seq(Frames)
    BY <1>a, <1>c, <1>e, <1>l, QueueSteps DEF QueueType
  <1>3. s2c' \in Seq(Frames)
    BY <1>a, <1>c, <1>e, <1>g, <1>h, QueueSteps DEF QueueType
  <1>4. \A i \in DOMAIN s2c' : s2c'[i].kind # "plain"
    <2>1. CASE s2c' \in {s2c, <<>>}
      BY <2>1, <1>e DEF QueueType
    <2>2. CASE s2c # <<>> /\ s2c' = Tail(s2c)
      BY <2>2, <1>d
    <2>3. ASSUME c2s # <<>>, NEW k \in {"serverHello", "serverFinished"},
                 s2c' = Append(s2c, Frame(k, Head(c2s).key, 0))
          PROVE  \A i \in DOMAIN s2c' : s2c'[i].kind # "plain"
      BY <2>3, <1>b, <1>g, <1>h, <1>k
    <2>4. CASE s2c' = Append(s2c, Frame("sealed", srv.key, srv.snd + 1))
      BY <2>4, <1>b, <1>h, <1>k
    <2> QED
      BY <2>1, <2>2, <2>3, <2>4, QueueSteps
  <1> QED
    BY <1>1, <1>2, <1>3, <1>4 DEF QueueType

-----------------------------------------------------------------------------
TransportType ==
    /\ CountType /\ FlagType /\ StageType /\ PlaceType /\ PostType /\ PastType
    /\ ChanType /\ SrvType /\ QueueType

LEMMA TransportTypeInit ==
  ASSUME ConnectionInit PROVE TransportType
  <1> USE DEF ConnectionInit
  <1>1. CountType
    BY ConnectionAssumption DEF CountType
  <1>2. FlagType /\ StageType
    BY DEF FlagType, StageType
  <1>3. PlaceType
    BY DEF PlaceType, Threads, Places
  <1>4. PostType
    BY DEF PostType, Posts
  <1>5. PastType
    BY DEF PastType, Clean
  <1>6. ChanType /\ SrvType
    BY FreshType DEF ChanType, SrvType
  <1>7. QueueType
    BY EmptySeq DEF QueueType
  <1> QED
    BY <1>1, <1>2, <1>3, <1>4, <1>5, <1>6, <1>7 DEF TransportType

LEMMA TransportTypeStep ==
  ASSUME TransportType, [ConnectionNext]_connectionVars PROVE TransportType'
  <1>1. MaxConns \in Nat
    BY ConnectionAssumption
  <1> QED
    BY <1>1, CountStep, FlagStep, StageStep, PlaceStep, PostStep, PastStep, ChanStep, SrvStep,
       QueueStep DEF TransportType

-----------------------------------------------------------------------------
(* The inductive invariant of the connection.                              *)
Opening == {"join", "joining", "report", "restart", "dial", "dialFailed"}

(* open() is true exactly on the socket of a connection nobody has closed, *)
(* and C is past its close() and before its dial only while it is false.   *)
OpenInv ==
    /\ open => thread = "on" /\ sock = "open" /\ genOk
    /\ sock = "open" /\ genOk => open
    /\ thread # "on" => sock = "none"
    /\ pc["C"] \in {"report", "restart"} => thread = "none"
    /\ pc["C"] \in Opening => ~open
    /\ pc["C"] = "dial" => link = "none"

WireInv == link # "up" => c2s = <<>> /\ s2c = <<>>

Without(q, do) == \A i \in DOMAIN q : q[i].do # do
OneDial(q) == \A i, j \in DOMAIN q : q[i].do = "dial" /\ q[j].do = "dial" => i = j
DrainsFirst(q) ==
    \A i \in DOMAIN q : q[i].do = "drain" => \E j \in DOMAIN q : i < j /\ q[j].do = "dial"

(* While C waits for its dial no frame is queued; there is one dial at     *)
(* most, and every drain is queued before a dial.                          *)
TaskInv ==
    /\ thread # "on" => Without(ioq, "dial") /\ Without(ioq, "send")
    /\ pc["C"] = "dial" => Without(ioq, "send")
    /\ sock = "none" \/ Without(ioq, "dial")
    /\ OneDial(ioq)
    /\ genOk /\ thread = "on" => DrainsFirst(ioq)

(* The channel's keys come from its last hello, and C has not sent the one *)
(* of this connection before it gets to it.                                *)
HelloInv ==
    /\ chan.hello <= conn /\ chan.key \in {0, chan.hello}
    /\ pc["C"] \in {"dial", "hello"} => chan.hello < conn

(* Without an intrusion the channel of this connection has not failed, and *)
(* the I/O thread seals only once it is established.                       *)
SpoilInv ==
    ~past.intruded /\ chan.hello = conn =>
      /\ chan.st # "Failed"
      /\ io \in {"sealing", "numbering"} => Established

(* Without an intrusion the session has refused nothing, and what is on    *)
(* its way to it is what its stage waits for: the hello, the finished      *)
(* frame, or sealed frames in order.                                       *)
ServerInv ==
    ~past.intruded =>
      /\ ~srv.refused
      /\ link = "up" =>
         /\ srv.st \in {"WaitClientHello", "WaitClientFinished"} => srv.rcv = 0 /\ srv.snd = 0
         /\ srv.st \in {"WaitClientFinished", "Established"} => srv.key = conn
         /\ srv.st = "WaitClientHello" => c2s \in {<<>>, <<Frame("hello", conn, 0)>>}
         /\ srv.st = "WaitClientFinished" => c2s \in {<<>>, <<Frame("finished", conn, 0)>>}
         /\ srv.st = "Established" => \A i \in DOMAIN c2s : c2s[i] = Frame("sealed", conn, srv.rcv + i)

(* A frame of no channel, or of the channel of an earlier connection.      *)
Alien(f) == f.kind = "plain" \/ f.key # conn
AllAlien(q) == \A i \in DOMAIN q : Alien(q[i].frame)
PlainOnly(q) == \A i \in DOMAIN q : q[i].frame.kind = "plain"
Queued(q, f) ==
    \E j \in DOMAIN q :
        /\ q[j] = Task("send", f)
        /\ \A i \in DOMAIN q : i # j => Alien(q[i].frame)
        /\ \A i \in DOMAIN q : i > j => q[i].frame.kind = "plain"
Seals(q, i) == q[i].frame.kind = "sealed"
(* The queue holds packets in the clear and, in order, the sealed frames   *)
(* first + 1 .. last.                                                      *)
Chain(q, first, last, key) ==
    /\ first <= last
    /\ \A i \in DOMAIN q : q[i].frame.kind \in {"plain", "sealed"}
    /\ \A i \in DOMAIN q : Seals(q, i) => q[i].frame.key = key /\ q[i].frame.seq \in (first + 1)..last
    /\ \A n \in (first + 1)..last : \E i \in DOMAIN q : Seals(q, i) /\ q[i].frame.seq = n
    /\ \A i, j \in DOMAIN q : Seals(q, i) /\ Seals(q, j) /\ i < j => q[i].frame.seq < q[j].frame.seq

Unsent == chan.snd = 0 /\ chan.rcv = 0

(* The six phases of a connection nobody intruded on: what the channel,    *)
(* the queue of tasks, both directions of the wire and the session may be  *)
(* in each.                                                                *)
BeforeHello ==
    /\ chan.hello < conn /\ AllAlien(ioq)
    /\ srv.st \in {"WaitClientHello", "Closed"} /\ c2s = <<>> /\ s2c = <<>>

HelloQueued ==
    /\ chan.hello = conn /\ chan.st = "HelloSent" /\ Unsent
    /\ Queued(ioq, Frame("hello", conn, 0))
    /\ srv.st \in {"WaitClientHello", "Closed"} /\ c2s = <<>> /\ s2c = <<>>

HelloGone ==
    /\ chan.hello = conn /\ chan.st = "HelloSent" /\ Unsent
    /\ PlainOnly(ioq)
    /\ \/ srv.st = "WaitClientHello" /\ s2c = <<>>
       \/ srv.st = "WaitClientFinished" /\ c2s = <<>> /\ s2c = <<Frame("serverHello", conn, 0)>>
       \/ srv.st = "Closed" /\ s2c \in {<<>>, <<Frame("serverHello", conn, 0)>>}

FinishedQueued ==
    /\ chan.hello = conn /\ chan.st = "FinishedSent" /\ Unsent /\ chan.key = conn
    /\ Queued(ioq, Frame("finished", conn, 0))
    /\ (srv.st = "WaitClientFinished" /\ c2s = <<>>) \/ srv.st = "Closed"
    /\ s2c = <<>>

FinishedGone ==
    /\ chan.hello = conn /\ chan.st = "FinishedSent" /\ Unsent /\ chan.key = conn
    /\ PlainOnly(ioq)
    /\ \/ srv.st = "WaitClientFinished" /\ s2c = <<>>
       \/ /\ srv.st = "Established" /\ srv.rcv = 0 /\ srv.snd = 0 /\ c2s = <<>>
          /\ s2c = <<Frame("serverFinished", conn, 0)>>
       \/ srv.st = "Closed" /\ s2c \in {<<>>, <<Frame("serverFinished", conn, 0)>>}

Secured ==
    /\ chan.hello = conn /\ chan.st = "Established" /\ chan.key = conn
    /\ \A i \in DOMAIN s2c : s2c[i] = Frame("sealed", conn, chan.rcv + i)
    /\ \/ srv.st = "Closed"
       \/ /\ srv.st = "Established" /\ srv.snd = chan.rcv + Len(s2c)
          /\ Chain(ioq, srv.rcv + Len(c2s), chan.snd, conn)

ClientInv ==
    open /\ link = "up" /\ ~past.intruded =>
      \/ BeforeHello \/ HelloQueued \/ HelloGone
      \/ FinishedQueued \/ FinishedGone \/ Secured

ConnectionInv ==
    /\ TransportType /\ OpenInv /\ WireInv /\ TaskInv
    /\ HelloInv /\ SpoilInv /\ ServerInv /\ ClientInv

-----------------------------------------------------------------------------
(* What the predicates on the queue of tasks keep.                         *)
PlainTask(x) == x.frame.kind = "plain"

(* Posting a task and taking the first one, for each predicate.            *)
LEMMA WithoutKept ==
  ASSUME NEW q \in Seq(Tasks), NEW do, Without(q, do)
  PROVE  /\ \A x \in Tasks : x.do # do => Without(Append(q, x), do)
         /\ q # <<>> => Without(Tail(q), do)
  <1>1. ASSUME NEW x \in Tasks, x.do # do PROVE Without(Append(q, x), do)
    <2>1. /\ DOMAIN Append(q, x) = 1..(Len(q) + 1) /\ Len(q) \in Nat /\ DOMAIN q = 1..Len(q)
          /\ \A i \in DOMAIN q : Append(q, x)[i] = q[i]
          /\ Append(q, x)[Len(q) + 1] = x
      BY Appended
    <2> QED
      BY <1>1, <2>1 DEF Without
  <1>2. ASSUME q # <<>> PROVE Without(Tail(q), do)
    BY <1>2, Popped DEF Without
  <1> QED
    BY <1>1, <1>2

LEMMA OneDialKept ==
  ASSUME NEW q \in Seq(Tasks), OneDial(q)
  PROVE  /\ \A x \in Tasks : x.do # "dial" \/ Without(q, "dial") => OneDial(Append(q, x))
         /\ q # <<>> => OneDial(Tail(q))
         /\ q # <<>> /\ Head(q).do = "dial" => Without(Tail(q), "dial")
  <1>1. ASSUME NEW x \in Tasks, x.do # "dial" \/ Without(q, "dial") PROVE OneDial(Append(q, x))
    <2>1. /\ DOMAIN Append(q, x) = 1..(Len(q) + 1) /\ Len(q) \in Nat /\ DOMAIN q = 1..Len(q)
          /\ \A i \in DOMAIN q : Append(q, x)[i] = q[i]
          /\ Append(q, x)[Len(q) + 1] = x
      BY Appended
    <2> QED
      BY <1>1, <2>1 DEF Without, OneDial
  <1>2. ASSUME q # <<>> PROVE OneDial(Tail(q)) /\ (Head(q).do = "dial" => Without(Tail(q), "dial"))
    <2>1. /\ Head(q) = q[1] /\ DOMAIN q = 1..Len(q) /\ Len(q) \in Nat \ {0}
          /\ DOMAIN Tail(q) = 1..(Len(q) - 1)
          /\ \A i \in DOMAIN Tail(q) : Tail(q)[i] = q[i + 1]
      BY <1>2, Popped
    <2> QED
      BY <2>1 DEF Without, OneDial
  <1> QED
    BY <1>1, <1>2

LEMMA DrainsFirstKept ==
  ASSUME NEW q \in Seq(Tasks)
  PROVE  /\ \A x \in Tasks : DrainsFirst(q) /\ x.do # "drain" => DrainsFirst(Append(q, x))
         /\ \A x \in Tasks : x.do = "dial" => DrainsFirst(Append(q, x))
         /\ q # <<>> /\ DrainsFirst(q) => DrainsFirst(Tail(q))
         /\ q # <<>> /\ DrainsFirst(q) /\ Head(q).do = "drain" => ~Without(q, "dial")
  <1>1. ASSUME NEW x \in Tasks
        PROVE  /\ DrainsFirst(q) /\ x.do # "drain" => DrainsFirst(Append(q, x))
               /\ x.do = "dial" => DrainsFirst(Append(q, x))
    <2>1. /\ DOMAIN Append(q, x) = 1..(Len(q) + 1) /\ Len(q) \in Nat /\ DOMAIN q = 1..Len(q)
          /\ \A i \in DOMAIN q : Append(q, x)[i] = q[i]
          /\ Append(q, x)[Len(q) + 1] = x
      BY Appended
    <2>2. ASSUME DrainsFirst(q), x.do # "drain" PROVE DrainsFirst(Append(q, x))
      BY <2>1, <2>2 DEF DrainsFirst
    <2>3. ASSUME x.do = "dial" PROVE DrainsFirst(Append(q, x))
      BY <2>1, <2>3 DEF DrainsFirst
    <2> QED
      BY <2>2, <2>3
  <1>2. ASSUME q # <<>>, DrainsFirst(q)
        PROVE  DrainsFirst(Tail(q)) /\ (Head(q).do = "drain" => ~Without(q, "dial"))
    <2>1. /\ Head(q) = q[1] /\ DOMAIN q = 1..Len(q) /\ Len(q) \in Nat \ {0}
          /\ DOMAIN Tail(q) = 1..(Len(q) - 1)
          /\ \A i \in DOMAIN Tail(q) : Tail(q)[i] = q[i + 1]
      BY <1>2, Popped
    <2>2. DrainsFirst(Tail(q))
      <3> SUFFICES ASSUME NEW i \in DOMAIN Tail(q), Tail(q)[i].do = "drain"
                   PROVE  \E j \in DOMAIN Tail(q) : i < j /\ Tail(q)[j].do = "dial"
        BY DEF DrainsFirst
      <3>1. i + 1 \in DOMAIN q /\ q[i + 1].do = "drain"
        BY <2>1
      <3>2. PICK j \in DOMAIN q : i + 1 < j /\ q[j].do = "dial"
        BY <3>1, <1>2 DEF DrainsFirst
      <3>3. j - 1 \in DOMAIN Tail(q) /\ Tail(q)[j - 1] = q[(j - 1) + 1] /\ (j - 1) + 1 = j
        BY <2>1, <3>2
      <3>4. i < j - 1 /\ Tail(q)[j - 1].do = "dial"
        BY <2>1, <3>2, <3>3
      <3> QED
        BY <3>3, <3>4
    <2>3. Head(q).do = "drain" => ~Without(q, "dial")
      BY <1>2, <2>1 DEF DrainsFirst, Without
    <2> QED
      BY <2>2, <2>3
  <1> QED
    BY <1>1, <1>2

LEMMA AlienKept ==
  ASSUME NEW q \in Seq(Tasks)
  PROVE  /\ \A x \in Tasks : Alien(x.frame) /\ AllAlien(q) => AllAlien(Append(q, x))
         /\ q # <<>> /\ AllAlien(q) => AllAlien(Tail(q)) /\ Alien(Head(q).frame)
         /\ \A x \in Tasks : PlainTask(x) /\ PlainOnly(q) => PlainOnly(Append(q, x))
         /\ q # <<>> /\ PlainOnly(q) => PlainOnly(Tail(q)) /\ PlainTask(Head(q))
  <1>1. ASSUME NEW x \in Tasks
        PROVE  /\ Alien(x.frame) /\ AllAlien(q) => AllAlien(Append(q, x))
               /\ PlainTask(x) /\ PlainOnly(q) => PlainOnly(Append(q, x))
    <2>1. /\ DOMAIN Append(q, x) = 1..(Len(q) + 1) /\ Len(q) \in Nat /\ DOMAIN q = 1..Len(q)
          /\ \A i \in DOMAIN q : Append(q, x)[i] = q[i]
          /\ Append(q, x)[Len(q) + 1] = x
      BY Appended
    <2> QED
      BY <1>1, <2>1 DEF AllAlien, PlainOnly, Alien, PlainTask
  <1>2. ASSUME q # <<>>
        PROVE  /\ AllAlien(q) => AllAlien(Tail(q)) /\ Alien(Head(q).frame)
               /\ PlainOnly(q) => PlainOnly(Tail(q)) /\ PlainTask(Head(q))
    <2>1. /\ Head(q) = q[1] /\ DOMAIN q = 1..Len(q) /\ Len(q) \in Nat \ {0}
          /\ DOMAIN Tail(q) = 1..(Len(q) - 1)
          /\ \A i \in DOMAIN Tail(q) : Tail(q)[i] = q[i + 1]
      BY <1>2, Popped
    <2> QED
      BY <2>1 DEF AllAlien, PlainOnly, PlainTask
  <1> QED
    BY <1>1, <1>2

(* f, a frame of this connection, is queued once, and only packets in the  *)
(* clear follow it.                                                        *)
LEMMA QueuedKept ==
  ASSUME NEW q \in Seq(Tasks), NEW f \in Frames, f.kind # "plain", f.key = conn
  PROVE  /\ \A x \in Tasks : PlainTask(x) /\ Queued(q, f) => Queued(Append(q, x), f)
         /\ AllAlien(q) => Queued(Append(q, Task("send", f)), f)
         /\ q # <<>> /\ Queued(q, f) /\ Alien(Head(q).frame) => Queued(Tail(q), f)
         /\ q # <<>> /\ Queued(q, f) /\ ~Alien(Head(q).frame)
              => Head(q) = Task("send", f) /\ PlainOnly(Tail(q))
  <1>1. ASSUME NEW x \in Tasks, PlainTask(x), Queued(q, f) PROVE Queued(Append(q, x), f)
    <2>1. /\ DOMAIN Append(q, x) = 1..(Len(q) + 1) /\ Len(q) \in Nat /\ DOMAIN q = 1..Len(q)
          /\ \A i \in DOMAIN q : Append(q, x)[i] = q[i]
          /\ Append(q, x)[Len(q) + 1] = x
      BY Appended
    <2>2. PICK j \in DOMAIN q :
             /\ q[j] = Task("send", f)
             /\ \A i \in DOMAIN q : i # j => Alien(q[i].frame)
             /\ \A i \in DOMAIN q : i > j => q[i].frame.kind = "plain"
      BY <1>1 DEF Queued
    <2>3. x.frame.kind = "plain" /\ Alien(x.frame)
      BY <1>1 DEF PlainTask, Alien
    <2>4. \A i \in DOMAIN Append(q, x) : i \in DOMAIN q \/ Append(q, x)[i] = x
      BY <2>1
    <2>5. j \in DOMAIN Append(q, x) /\ Append(q, x)[j] = Task("send", f)
      BY <2>1, <2>2
    <2>6. /\ \A i \in DOMAIN Append(q, x) : i # j => Alien(Append(q, x)[i].frame)
          /\ \A i \in DOMAIN Append(q, x) : i > j => Append(q, x)[i].frame.kind = "plain"
      BY <2>1, <2>2, <2>3, <2>4
    <2> QED
      BY <2>5, <2>6 DEF Queued
  <1>2. ASSUME AllAlien(q) PROVE Queued(Append(q, Task("send", f)), f)
    <2> DEFINE x == Task("send", f)
    <2>0. x \in Tasks
      BY TaskTypes
    <2> HIDE DEF x
    <2>1. /\ DOMAIN Append(q, x) = 1..(Len(q) + 1) /\ Len(q) \in Nat /\ DOMAIN q = 1..Len(q)
          /\ \A i \in DOMAIN q : Append(q, x)[i] = q[i]
          /\ Append(q, x)[Len(q) + 1] = x
      BY <2>0, Appended
    <2>2. \A i \in DOMAIN Append(q, x) : Len(q) + 1 # i => Alien(Append(q, x)[i].frame)
      BY <1>2, <2>1 DEF AllAlien
    <2>3. \A i \in DOMAIN Append(q, x) : ~(i > Len(q) + 1)
      BY <2>1
    <2>4. Len(q) + 1 \in DOMAIN Append(q, x)
      BY <2>1
    <2>5. Append(q, x)[Len(q) + 1] = Task("send", f)
      BY <2>1 DEF x
    <2>6. Queued(Append(q, x), f)
      BY <2>2, <2>3, <2>4, <2>5 DEF Queued
    <2> QED
      BY <2>6 DEF x
  <1>3. ASSUME q # <<>>, Queued(q, f)
        PROVE  /\ Alien(Head(q).frame) => Queued(Tail(q), f)
               /\ ~Alien(Head(q).frame) => Head(q) = Task("send", f) /\ PlainOnly(Tail(q))
    <2>1. /\ Head(q) = q[1] /\ DOMAIN q = 1..Len(q) /\ Len(q) \in Nat \ {0}
          /\ DOMAIN Tail(q) = 1..(Len(q) - 1)
          /\ \A i \in DOMAIN Tail(q) : Tail(q)[i] = q[i + 1]
      BY <1>3, Popped
    <2>2. PICK j \in DOMAIN q :
             /\ q[j] = Task("send", f)
             /\ \A i \in DOMAIN q : i # j => Alien(q[i].frame)
             /\ \A i \in DOMAIN q : i > j => q[i].frame.kind = "plain"
      BY <1>3 DEF Queued
    <2>3. q[j].frame = f /\ ~Alien(q[j].frame)
      BY <2>2 DEF Task, Alien
    <2>4. CASE j = 1
      <3>1. ~Alien(Head(q).frame) /\ Head(q) = Task("send", f)
        BY <2>1, <2>2, <2>3, <2>4
      <3>2. PlainOnly(Tail(q))
        BY <2>1, <2>2, <2>4 DEF PlainOnly
      <3> QED
        BY <3>1, <3>2
    <2>5. CASE j # 1
      <3>1. Alien(Head(q).frame)
        BY <2>1, <2>2, <2>5
      <3>2. j - 1 \in DOMAIN Tail(q) /\ Tail(q)[j - 1] = q[j]
        <4>1. j - 1 \in DOMAIN Tail(q) /\ (j - 1) + 1 = j
          BY <2>1, <2>5
        <4> QED
          BY <4>1, <2>1
      <3>3. \A i \in DOMAIN Tail(q) : i # j - 1 => Alien(Tail(q)[i].frame)
        <4> SUFFICES ASSUME NEW i \in DOMAIN Tail(q), i # j - 1 PROVE Alien(Tail(q)[i].frame)
          OBVIOUS
        <4>1. i + 1 \in DOMAIN q /\ i + 1 # j
          BY <2>1
        <4> QED
          BY <4>1, <2>1, <2>2
      <3>4. \A i \in DOMAIN Tail(q) : i > j - 1 => Tail(q)[i].frame.kind = "plain"
        <4> SUFFICES ASSUME NEW i \in DOMAIN Tail(q), i > j - 1 PROVE Tail(q)[i].frame.kind = "plain"
          OBVIOUS
        <4>1. i + 1 \in DOMAIN q /\ i + 1 > j
          BY <2>1
        <4> QED
          BY <4>1, <2>1, <2>2
      <3>5. Queued(Tail(q), f)
        BY <2>2, <3>2, <3>3, <3>4 DEF Queued
      <3> QED
        BY <3>1, <3>5
    <2> QED
      BY <2>4, <2>5
  <1> QED
    BY <1>1, <1>2, <1>3

(* Sealing appends the next number, and the first frame that is not a      *)
(* packet in the clear carries the first number: FIFO keeps the numbers in *)
(* order.                                                                  *)
LEMMA ChainKept ==
  ASSUME NEW q \in Seq(Tasks), NEW a \in Nat, NEW b \in Nat, NEW k \in Nat, Chain(q, a, b, k)
  PROVE  /\ \A x \in Tasks : PlainTask(x) => Chain(Append(q, x), a, b, k)
         /\ Chain(Append(q, Task("send", Frame("sealed", k, b + 1))), a, b + 1, k)
         /\ q # <<>> /\ PlainTask(Head(q)) => Chain(Tail(q), a, b, k)
         /\ q # <<>> /\ ~PlainTask(Head(q))
              => Head(q).frame = Frame("sealed", k, a + 1) /\ Chain(Tail(q), a + 1, b, k)
  <1>0. /\ a <= b
        /\ \A i \in DOMAIN q : q[i].frame.kind \in {"plain", "sealed"}
        /\ \A i \in DOMAIN q : Seals(q, i) => q[i].frame.key = k /\ q[i].frame.seq \in (a + 1)..b
        /\ \A n \in (a + 1)..b : \E i \in DOMAIN q : Seals(q, i) /\ q[i].frame.seq = n
        /\ \A i, j \in DOMAIN q : Seals(q, i) /\ Seals(q, j) /\ i < j => q[i].frame.seq < q[j].frame.seq
    BY DEF Chain
  <1>1. ASSUME NEW x \in Tasks, PlainTask(x) PROVE Chain(Append(q, x), a, b, k)
    <2>1. /\ DOMAIN Append(q, x) = 1..(Len(q) + 1) /\ Len(q) \in Nat /\ DOMAIN q = 1..Len(q)
          /\ \A i \in DOMAIN q : Append(q, x)[i] = q[i]
          /\ Append(q, x)[Len(q) + 1] = x
      BY Appended
    <2>2. \A i \in DOMAIN Append(q, x) : Seals(Append(q, x), i) => i \in DOMAIN q /\ Seals(q, i)
      BY <1>1, <2>1 DEF Seals, PlainTask
    <2>3. \A i \in DOMAIN q : Seals(q, i) => i \in DOMAIN Append(q, x) /\ Seals(Append(q, x), i)
      BY <2>1 DEF Seals
    <2>4. \A i \in DOMAIN Append(q, x) : Append(q, x)[i].frame.kind \in {"plain", "sealed"}
      BY <1>0, <1>1, <2>1 DEF PlainTask
    <2>5. \A n \in (a + 1)..b : \E i \in DOMAIN Append(q, x) :
             Seals(Append(q, x), i) /\ Append(q, x)[i].frame.seq = n
      BY <1>0, <2>1, <2>3
    <2>6. \A i \in DOMAIN Append(q, x) : Seals(Append(q, x), i) =>
             Append(q, x)[i].frame.key = k /\ Append(q, x)[i].frame.seq \in (a + 1)..b
      BY <1>0, <2>1, <2>2
    <2>7. \A i, j \in DOMAIN Append(q, x) : Seals(Append(q, x), i) /\ Seals(Append(q, x), j) /\ i < j
             => Append(q, x)[i].frame.seq < Append(q, x)[j].frame.seq
      BY <1>0, <2>1, <2>2
    <2> QED
      BY <1>0, <2>4, <2>5, <2>6, <2>7 DEF Chain
  <1>2. Chain(Append(q, Task("send", Frame("sealed", k, b + 1))), a, b + 1, k)
    <2> DEFINE x == Task("send", Frame("sealed", k, b + 1))
    <2>0. x \in Tasks /\ x.frame.kind = "sealed" /\ x.frame.key = k /\ x.frame.seq = b + 1
      <3>1. Frame("sealed", k, b + 1) \in Frames
        BY TaskTypes DEF Kinds
      <3> QED
        BY <3>1, TaskTypes DEF Task, Frame
    <2> HIDE DEF x
    <2> DEFINE r == Append(q, x)
    <2>1. /\ DOMAIN r = 1..(Len(q) + 1) /\ Len(q) \in Nat /\ DOMAIN q = 1..Len(q)
          /\ \A i \in DOMAIN q : r[i] = q[i]
          /\ r[Len(q) + 1] = x
      BY <2>0, Appended
    <2> HIDE DEF r
    <2>2. \A i \in DOMAIN r : i = Len(q) + 1 \/ (i \in DOMAIN q /\ (Seals(r, i) <=> Seals(q, i)))
      BY <2>1 DEF Seals
    <2>3. \A i \in DOMAIN q : i \in DOMAIN r /\ (Seals(r, i) <=> Seals(q, i))
      BY <2>1 DEF Seals
    <2>4. \A i \in DOMAIN r : r[i].frame.kind \in {"plain", "sealed"}
      BY <1>0, <2>0, <2>1
    <2>5. \A n \in (a + 1)..(b + 1) : \E i \in DOMAIN r : Seals(r, i) /\ r[i].frame.seq = n
      <3> SUFFICES ASSUME NEW n \in (a + 1)..(b + 1)
                   PROVE  \E i \in DOMAIN r : Seals(r, i) /\ r[i].frame.seq = n
        OBVIOUS
      <3>1. CASE n = b + 1
        BY <3>1, <2>0, <2>1 DEF Seals
      <3>2. CASE n # b + 1
        <4>1. n \in (a + 1)..b
          BY <3>2
        <4> QED
          BY <4>1, <1>0, <2>1, <2>3
      <3> QED
        BY <3>1, <3>2
    <2>6. \A i \in DOMAIN r : Seals(r, i) => r[i].frame.key = k /\ r[i].frame.seq \in (a + 1)..(b + 1)
      <3> SUFFICES ASSUME NEW i \in DOMAIN r, Seals(r, i)
                   PROVE  r[i].frame.key = k /\ r[i].frame.seq \in (a + 1)..(b + 1)
        OBVIOUS
      <3>1. CASE i = Len(q) + 1
        BY <3>1, <1>0, <2>0, <2>1
      <3>2. CASE i \in DOMAIN q
        <4>1. r[i].frame.key = k /\ r[i].frame.seq \in (a + 1)..b
          BY <3>2, <1>0, <2>1, <2>3
        <4> QED
          BY <4>1
      <3> QED
        BY <3>1, <3>2, <2>2
    <2>7. \A i, j \in DOMAIN r : Seals(r, i) /\ Seals(r, j) /\ i < j => r[i].frame.seq < r[j].frame.seq
      <3> SUFFICES ASSUME NEW i \in DOMAIN r, NEW j \in DOMAIN r, Seals(r, i), Seals(r, j), i < j
                   PROVE  r[i].frame.seq < r[j].frame.seq
        OBVIOUS
      <3>1. i \in DOMAIN q /\ Seals(q, i) /\ q[i].frame.seq \in (a + 1)..b
        BY <1>0, <2>1, <2>3
      <3>2. CASE j = Len(q) + 1
        <4>1. r[i].frame.seq \in (a + 1)..b
          BY <3>1, <2>1
        <4>2. r[j].frame.seq = b + 1
          BY <3>2, <2>0, <2>1
        <4> QED
          BY <4>1, <4>2
      <3>3. CASE j \in DOMAIN q
        BY <3>1, <3>3, <1>0, <2>1, <2>3
      <3> QED
        BY <3>2, <3>3, <2>2
    <2>8. a <= b + 1
      BY <1>0
    <2>9. Chain(r, a, b + 1, k)
      BY <2>4, <2>5, <2>6, <2>7, <2>8 DEF Chain
    <2> QED
      BY <2>9 DEF r, x
  <1>3. ASSUME q # <<>>
        PROVE  /\ PlainTask(Head(q)) => Chain(Tail(q), a, b, k)
               /\ ~PlainTask(Head(q)) => /\ Head(q).frame = Frame("sealed", k, a + 1)
                                     /\ Chain(Tail(q), a + 1, b, k)
    <2> DEFINE r == Tail(q)
    <2>1. /\ Head(q) = q[1] /\ DOMAIN q = 1..Len(q) /\ Len(q) \in Nat \ {0} /\ Head(q) \in Tasks
          /\ DOMAIN r = 1..(Len(q) - 1)
          /\ \A i \in DOMAIN r : r[i] = q[i + 1]
      BY <1>3, Popped
    <2> HIDE DEF r
    <2>2. \A i \in DOMAIN r : i + 1 \in DOMAIN q /\ (Seals(r, i) <=> Seals(q, i + 1))
      BY <2>1 DEF Seals
    <2>3. \A i \in DOMAIN q : i # 1 =>
             /\ i - 1 \in DOMAIN r /\ r[i - 1] = q[i] /\ (Seals(r, i - 1) <=> Seals(q, i))
      <3> SUFFICES ASSUME NEW i \in DOMAIN q, i # 1
                   PROVE  i - 1 \in DOMAIN r /\ r[i - 1] = q[i] /\ (Seals(r, i - 1) <=> Seals(q, i))
        OBVIOUS
      <3>1. i - 1 \in DOMAIN r /\ (i - 1) + 1 = i
        BY <2>1
      <3>2. r[i - 1] = q[i]
        BY <2>1, <3>1
      <3> QED
        BY <3>1, <3>2 DEF Seals
    <2>4. \A i \in DOMAIN r : r[i].frame.kind \in {"plain", "sealed"}
      BY <1>0, <2>1, <2>2
    <2>5. \A i \in DOMAIN r : Seals(r, i) => r[i].frame.key = k /\ r[i].frame.seq \in (a + 1)..b
      BY <1>0, <2>1, <2>2
    <2>6. \A i, j \in DOMAIN r : Seals(r, i) /\ Seals(r, j) /\ i < j => r[i].frame.seq < r[j].frame.seq
      <3> SUFFICES ASSUME NEW i \in DOMAIN r, NEW j \in DOMAIN r, Seals(r, i), Seals(r, j), i < j
                   PROVE  r[i].frame.seq < r[j].frame.seq
        OBVIOUS
      <3>1. i + 1 \in DOMAIN q /\ j + 1 \in DOMAIN q /\ i + 1 < j + 1 /\ Seals(q, i + 1) /\ Seals(q, j + 1)
        BY <2>1, <2>2
      <3> QED
        BY <3>1, <1>0, <2>1
    <2>7. CASE PlainTask(Head(q))
      <3>1. ~Seals(q, 1)
        BY <2>7, <2>1 DEF PlainTask, Seals
      <3>2. \A n \in (a + 1)..b : \E i \in DOMAIN r : Seals(r, i) /\ r[i].frame.seq = n
        <4> SUFFICES ASSUME NEW n \in (a + 1)..b
                     PROVE  \E i \in DOMAIN r : Seals(r, i) /\ r[i].frame.seq = n
          OBVIOUS
        <4>1. PICK i \in DOMAIN q : Seals(q, i) /\ q[i].frame.seq = n
          BY <1>0
        <4>2. i # 1
          BY <3>1, <4>1
        <4> QED
          BY <4>1, <4>2, <2>3
      <3>3. Chain(r, a, b, k)
        BY <1>0, <2>4, <2>5, <2>6, <3>2 DEF Chain
      <3> QED
        BY <3>3, <2>7 DEF r
    <2>8. CASE ~PlainTask(Head(q))
      <3>1. Seals(q, 1) /\ 1 \in DOMAIN q
        BY <2>8, <2>1, <1>0 DEF PlainTask, Seals
      <3>2. q[1].frame.key = k /\ q[1].frame.seq \in (a + 1)..b
        BY <3>1, <1>0
      <3>2a. a + 1 <= b
        BY <3>2
      <3>3. q[1].frame.seq = a + 1
        <4>1. a + 1 \in (a + 1)..b
          BY <3>2a
        <4>2. PICK i \in DOMAIN q : Seals(q, i) /\ q[i].frame.seq = a + 1
          BY <4>1, <1>0
        <4>3. CASE i = 1
          BY <4>2, <4>3
        <4>4. CASE i # 1
          <5>1. 1 < i
            BY <4>4, <2>1
          <5>2. q[1].frame.seq < a + 1
            BY <5>1, <4>2, <3>1, <1>0
          <5> QED
            BY <5>2, <3>2
        <4> QED
          BY <4>3, <4>4
      <3>4. Head(q).frame = Frame("sealed", k, a + 1)
        <4>1. Head(q).frame \in Frames
          BY <2>1 DEF Tasks
        <4> QED
          BY <4>1, <2>1, <3>1, <3>2, <3>3 DEF Frames, Frame, Seals
      <3>5. \A i \in DOMAIN r : Seals(r, i) => r[i].frame.seq \in ((a + 1) + 1)..b
        <4> SUFFICES ASSUME NEW i \in DOMAIN r, Seals(r, i) PROVE r[i].frame.seq \in ((a + 1) + 1)..b
          OBVIOUS
        <4>1. i + 1 \in DOMAIN q /\ Seals(q, i + 1) /\ 1 < i + 1 /\ r[i] = q[i + 1]
          BY <2>1, <2>2
        <4>2. a + 1 < r[i].frame.seq
          BY <4>1, <3>1, <3>3, <1>0
        <4>3. r[i].frame.seq \in (a + 1)..b
          BY <2>5
        <4> QED
          BY <4>2, <4>3
      <3>6. \A n \in ((a + 1) + 1)..b : \E i \in DOMAIN r : Seals(r, i) /\ r[i].frame.seq = n
        <4> SUFFICES ASSUME NEW n \in ((a + 1) + 1)..b
                     PROVE  \E i \in DOMAIN r : Seals(r, i) /\ r[i].frame.seq = n
          OBVIOUS
        <4>1. n \in (a + 1)..b /\ n # a + 1
          OBVIOUS
        <4>2. PICK i \in DOMAIN q : Seals(q, i) /\ q[i].frame.seq = n
          BY <4>1, <1>0
        <4> QED
          BY <4>1, <4>2, <3>3, <2>3
      <3>8. Chain(r, a + 1, b, k)
        BY <2>4, <2>5, <2>6, <3>5, <3>6, <3>2a DEF Chain
      <3> QED
        BY <3>4, <3>8, <2>8 DEF r
    <2> QED
      BY <2>7, <2>8
  <1> QED
    BY <1>1, <1>2, <1>3

(* A queue without frames of the channel is the empty chain, whatever the  *)
(* counters are.                                                           *)
LEMMA PlainChain ==
  ASSUME NEW q \in Seq(Tasks), PlainOnly(q), NEW a \in Nat, NEW k
  PROVE  Chain(q, a, a, k) /\ AllAlien(q)
  <1>1. \A i \in DOMAIN q : ~Seals(q, i)
    BY DEF PlainOnly, Seals
  <1>2. (a + 1)..a = {}
    OBVIOUS
  <1>3. \A i \in DOMAIN q : q[i].frame.kind \in {"plain", "sealed"}
    BY DEF PlainOnly
  <1>4. Chain(q, a, a, k)
    BY <1>1, <1>2, <1>3 DEF Chain
  <1> QED
    BY <1>4 DEF PlainOnly, AllAlien, Alien

LEMMA Single ==
  ASSUME NEW S, NEW x \in S
  PROVE  /\ <<x>> \in Seq(S) /\ <<x>> # <<>> /\ Len(<<x>>) = 1 /\ Len(<<>>) = 0
         /\ Head(<<x>>) = x /\ Tail(<<x>>) = <<>> /\ Append(<<>>, x) = <<x>>
         /\ DOMAIN <<x>> = {1} /\ <<x>>[1] = x /\ DOMAIN <<>> = {}
  OBVIOUS

-----------------------------------------------------------------------------
(* Preservation.  Goto moves one thread, Terminate all of them.            *)
LEMMA Moves ==
  ASSUME PlaceType
  PROVE  /\ \A t \in Threads : \A w : Goto(t, w) =>
               pc'[t] = w /\ \A u \in Threads : u # t => pc'[u] = pc[u]
         /\ Terminate => \A u \in Threads : pc'[u] = "terminated"
         /\ {"C", "H", "B", "U"} = Threads
  <1>1. ASSUME NEW t \in Threads, NEW w, Goto(t, w)
        PROVE  pc'[t] = w /\ \A u \in Threads : u # t => pc'[u] = pc[u]
    BY <1>1 DEF PlaceType, Goto
  <1>2. Terminate => \A u \in Threads : pc'[u] = "terminated"
    BY DEF PlaceType, Terminate
  <1>3. {"C", "H", "B", "U"} = Threads
    BY DEF Threads
  <1> QED
    BY <1>1, <1>2, <1>3

bits == <<open, genOk, thread, sock, link>>

(* A step that touches neither the socket nor the I/O thread.              *)
LEMMA OpenKept ==
  ASSUME OpenInv, UNCHANGED bits, pc'["C"] \in {pc["C"], "joining", "terminated"} \/ pc'["C"] \notin Opening
         \/ (pc'["C"] \in {"report", "restart"} /\ thread = "none"),
         pc'["C"] \in Opening => pc["C"] \in Opening
  PROVE  OpenInv'
  BY DEF OpenInv, Opening, bits

(* open() is true only while the I/O thread of this connection runs with   *)
(* its socket, and never while C is between its close() and the end of its *)
(* dial.                                                                   *)
LEMMA OpenStep ==
  ASSUME TransportType, OpenInv, TaskInv, [ConnectionNext]_connectionVars PROVE OpenInv'
  <1> USE DEF TransportType
  <1>p. "C" \in Threads /\ "H" \in Threads /\ "B" \in Threads /\ "U" \in Threads
    BY DEF Threads
  <1>c. ASSUME NEW t \in {"C", "H", "U"}, Close(t) PROVE OpenInv'
    <2>0. t \in Threads
      BY <1>p
    <2>1. CASE CloseStart(t)
      <3>1. /\ ~genOk' /\ ~open' /\ UNCHANGED <<thread, sock, link>>
            /\ pc[t] = "close"
            /\ \/ thread = "none" /\ Goto(t, "report")
               \/ Goto(t, "join")
        BY <2>1 DEF CloseStart, network
      <3>2. \/ thread = "none" /\ pc'["C"] \in {pc["C"], "report"}
            \/ pc'["C"] \in {pc["C"], "join"}
        BY <2>0, <3>1, <1>p, Moves
      <3> QED
        BY <3>1, <3>2 DEF OpenInv, Opening
    <2>2. CASE JoinBegin(t)
      <3>1. /\ UNCHANGED bits /\ pc[t] = "join"
            /\ \/ Goto(t, "report") /\ thread = "none"
               \/ Terminate
               \/ Goto(t, "joining")
        BY <2>2 DEF JoinBegin, bits, network, transport
      <3>2. \/ pc'["C"] \in {pc["C"], "terminated"}
            \/ pc["C"] = "join" /\ pc'["C"] = "report" /\ thread = "none"
            \/ pc["C"] = "join" /\ pc'["C"] = "joining"
        BY <2>0, <3>1, <1>p, Moves
      <3> QED
        BY <3>1, <3>2, OpenKept DEF Opening
    <2>3. CASE JoinEnd(t)
      <3>1. /\ thread' = "none" /\ UNCHANGED <<open, genOk, sock, link>>
            /\ pc[t] = "joining" /\ thread = "ended" /\ Goto(t, "report")
        BY <2>3 DEF JoinEnd, network
      <3>2. pc'["C"] = pc["C"] \/ (pc["C"] = "joining" /\ pc'["C"] = "report")
        BY <2>0, <3>1, <1>p, Moves
      <3> QED
        BY <3>1, <3>2 DEF OpenInv, Opening
    <2>4. CASE CloseEnd(t)
      <3>1. /\ UNCHANGED bits /\ pc[t] = "report"
            /\ \/ Goto(t, "restart") \/ Goto(t, "wait") \/ Goto(t, "idle")
        BY <2>4 DEF CloseEnd, NotifyClose, bits, network
      <3>2. \/ pc'["C"] = pc["C"]
            \/ pc["C"] = "report" /\ pc'["C"] \in {"restart", "wait", "idle"}
        BY <2>0, <3>1, <1>p, Moves
      <3>3. pc["C"] = "report" => thread = "none"
        BY DEF OpenInv
      <3> QED
        BY <3>1, <3>2, <3>3, OpenKept DEF Opening
    <2> QED
      BY <1>c, <2>1, <2>2, <2>3, <2>4 DEF Close
  <1>1. CASE ConnectThread
    <2>1. CASE Restart
      <3>1. /\ genOk' /\ thread' = "on" /\ UNCHANGED <<open, sock>> /\ link' = "none"
            /\ pc["C"] = "restart" /\ Goto("C", "dial")
        BY <2>1 DEF Restart, LinkDown
      <3>2. pc'["C"] = "dial"
        BY <3>1, <1>p, Moves
      <3> QED
        BY <3>1, <3>2 DEF OpenInv, Opening
    <2>2. CASE DialGivenUp \/ DialTimeout
      <3>1. /\ pc["C"] \in {"dialFailed", "dial"} /\ UNCHANGED <<thread, sock, link>>
            /\ ~open' /\ (genOk' => genOk) /\ Goto("C", "join")
        BY <2>2 DEF DialGivenUp, DialTimeout, network
      <3>2. pc'["C"] = "join"
        BY <3>1, <1>p, Moves
      <3> QED
        BY <3>1, <3>2 DEF OpenInv, Opening
    <2>3. CASE ConnectToServer \/ Hello \/ HandshakeDone \/ HandshakeTimeout
      <3>1. /\ UNCHANGED bits
            /\ Goto("C", "close") \/ Goto("C", "await") \/ Goto("C", "beat")
        BY <2>3 DEF ConnectToServer, Hello, HandshakeDone, HandshakeTimeout, bits, network, transport
      <3>2. pc'["C"] \in {"close", "await", "beat"}
        BY <3>1, <1>p, Moves
      <3> QED
        BY <3>1, <3>2, OpenKept DEF Opening
    <2>4. CASE StartHeartbeat
      <3>1. /\ UNCHANGED bits
            /\ Goto("C", "idle") \/ Terminate \/ pc' = [pc EXCEPT !["C"] = "idle", !["H"] = "wait"]
        BY <2>4 DEF StartHeartbeat, bits, network, transport
      <3>2. pc'["C"] \in {"idle", "terminated"}
        BY <3>1, <1>p, Moves DEF PlaceType, Threads
      <3> QED
        BY <3>1, <3>2, OpenKept DEF Opening
    <2> QED
      BY <1>1, <1>c, <2>1, <2>2, <2>3, <2>4 DEF ConnectThread
  <1>2. CASE HeartbeatRound \/ Check("H") \/ Check("B") \/ Post("H") \/ Post("B") \/ ProgramSends
             \/ Disconnect \/ HeartbeatJoined \/ Silence
    <2>1. /\ UNCHANGED bits
          /\ \/ \E t \in {"H", "B", "U"} : \E w \in Places : Goto(t, w)
             \/ pc' = [pc EXCEPT !["U"] = "close", !["H"] = "none"]
             \/ UNCHANGED pc
      BY <1>2 DEF HeartbeatRound, Check, Post, ProgramSends, Disconnect, HeartbeatJoined, Silence,
         bits, network, transport, Places
    <2>2. pc'["C"] = pc["C"]
      BY <2>1, <1>p, Moves DEF PlaceType, Threads
    <2> QED
      BY <2>1, <2>2, OpenKept
  <1>3. CASE IoThread
    <2>1. CASE TaskDial
      <3>1. /\ thread = "on" /\ ioq # <<>> /\ Head(ioq).do = "dial"
            /\ sock' = "dialing" /\ UNCHANGED <<open, genOk, thread, link, pc>>
        BY <2>1 DEF TaskDial, NextTask, Running, client, network
      <3>2. sock = "none"
        BY <3>1, Popped DEF TaskInv, Without, QueueType
      <3> QED
        BY <3>1, <3>2 DEF OpenInv, Opening
    <2>2. CASE DialOk
      <3>1. /\ open' /\ sock' = "open" /\ link' = "up" /\ thread = "on" /\ genOk /\ UNCHANGED <<genOk, thread>>
            /\ Goto("C", "hello")
        BY <2>2 DEF DialOk, Running
      <3>2. pc'["C"] = "hello"
        BY <3>1, <1>p, Moves
      <3> QED
        BY <3>1, <3>2 DEF OpenInv, Opening
    <2>3. CASE DialFail
      <3>1. /\ sock = "dialing" /\ sock' = "none" /\ UNCHANGED <<open, genOk, thread, link>>
            /\ pc' = [pc EXCEPT !["C"] = IF @ = "dial" THEN "dialFailed" ELSE @]
        BY <2>3 DEF DialFail, network
      <3>2. pc'["C"] = pc["C"] \/ (pc["C"] = "dial" /\ pc'["C"] = "dialFailed")
        BY <3>1 DEF PlaceType, Threads
      <3> QED
        BY <3>1, <3>2 DEF OpenInv, Opening
    <2>4. CASE TaskDrain
      <3>1. /\ thread = "on" /\ ioq # <<>> /\ Head(ioq).do = "drain"
            /\ sock' = "none" /\ link' = "none" /\ UNCHANGED <<open, genOk, thread>>
            /\ pc' = [pc EXCEPT !["C"] = IF @ = "dial" /\ sock = "dialing" THEN "dialFailed" ELSE @]
        BY <2>4 DEF TaskDrain, NextTask, Running, LinkDown
      <3>2. pc'["C"] = pc["C"] \/ (pc["C"] = "dial" /\ pc'["C"] = "dialFailed")
        BY <3>1 DEF PlaceType, Threads
      <3>3. genOk => sock = "none"
        <4>1. ioq \in Seq(Tasks)
          BY DEF QueueType
        <4>2. genOk => ~Without(ioq, "dial")
          BY <3>1, <4>1, DrainsFirstKept DEF TaskInv
        <4> QED
          BY <4>2 DEF TaskInv
      <3> QED
        BY <3>1, <3>2, <3>3 DEF OpenInv, Opening
    <2>5. CASE TaskSend \/ TaskEncrypt \/ Seal \/ Number
      BY <2>5, OpenKept DEF TaskSend, TaskEncrypt, Seal, Number, bits, transport, client, network,
         OpenInv
    <2>6. CASE ReadServerHello \/ ReadServerFinished \/ ReadSealed
      <3>1. /\ UNCHANGED <<thread, sock, pc, link>>
            /\ UNCHANGED <<open, genOk>> \/ (~open' /\ ~genOk')
        BY <2>6 DEF ReadServerHello, ReadServerFinished, ReadSealed, CloseOnIo
      <3> QED
        BY <3>1 DEF OpenInv, Opening
    <2>7. CASE DisconnectOnIo \/ HeartbeatJoinedOnIo
      <3>1. /\ UNCHANGED <<thread, sock, link>> /\ (UNCHANGED pc \/ Goto("H", "none"))
            /\ UNCHANGED <<open, genOk>> \/ (~open' /\ ~genOk')
        BY <2>7 DEF DisconnectOnIo, HeartbeatJoinedOnIo, CloseOnIo, network
      <3>2. pc'["C"] = pc["C"]
        BY <3>1, <1>p, Moves
      <3> QED
        BY <3>1, <3>2 DEF OpenInv, Opening
    <2>8. CASE ReadEnd
      <3>1. ~open' /\ sock' = "none" /\ link' = "none" /\ UNCHANGED <<genOk, thread, pc>>
        BY <2>8 DEF ReadEnd, LinkDown, client
      <3> QED
        BY <3>1 DEF OpenInv, Opening
    <2>9. CASE IoExit
      <3>1. thread = "on" /\ sock = "none" /\ thread' = "ended" /\ UNCHANGED <<open, genOk, sock, link, pc>>
        BY <2>9 DEF IoExit, Running, client, network
      <3> QED
        BY <3>1 DEF OpenInv, Opening
    <2> QED
      BY <1>3, <2>1, <2>2, <2>3, <2>4, <2>5, <2>6, <2>7, <2>8, <2>9 DEF IoThread
  <1>4. CASE SessionRead \/ SessionDeliver \/ SessionCloses \/ Cut
    <2>1. UNCHANGED <<open, genOk, thread, sock, pc>> /\ (UNCHANGED link \/ (link = "up" /\ link' = "cut"))
      BY <1>4 DEF SessionRead, SessionDeliver, SessionCloses, Cut, transport, client
    <2> QED
      BY <2>1 DEF OpenInv, Opening
  <1>5. CASE UNCHANGED connectionVars
    BY <1>5, OpenKept DEF connectionVars, bits, transport, client, network, OpenInv
  <1> QED
    BY <1>1, <1>2, <1>3, <1>4, <1>5, <1>c
       DEF ConnectionNext, HeartbeatThread, ProgramThread, DisconnectThread

(* Nothing is on a link that is down.                                      *)
LEMMA WireStep ==
  ASSUME TransportType, WireInv, [ConnectionNext]_connectionVars PROVE WireInv'
  <1>0. UNCHANGED <<link, c2s, s2c>> \/ (c2s' = <<>> /\ s2c' = <<>>) \/ (link = "up" /\ link' = "up") => WireInv'
    BY DEF WireInv
  <1>1. CASE ConnectThread
    BY <1>0, <1>1 DEF ConnectThread, ConnectToServer, Restart, DialGivenUp, DialTimeout, Hello,
       HandshakeDone, HandshakeTimeout, StartHeartbeat, Close, CloseStart, JoinBegin, JoinEnd,
       CloseEnd, network, LinkDown
  <1>2. CASE HeartbeatThread \/ ProgramSends \/ ProgramThread \/ Disconnect \/ DisconnectThread
            \/ Silence
    BY <1>0, <1>2 DEF HeartbeatThread, HeartbeatRound, Check, Post, ProgramSends, ProgramThread,
       Disconnect,
       DisconnectThread, HeartbeatJoined, Silence,
       Close, CloseStart, JoinBegin, JoinEnd, CloseEnd, network
  <1>3. CASE IoThread
    <2>1. CASE TaskDial \/ DialFail \/ TaskDrain \/ TaskEncrypt \/ Seal \/ Number \/ ReadEnd
               \/ DisconnectOnIo \/ HeartbeatJoinedOnIo \/ IoExit
      BY <1>0, <2>1
         DEF TaskDial, DialFail, TaskDrain, TaskEncrypt, Seal, Number, ReadEnd, DisconnectOnIo,
         HeartbeatJoinedOnIo, IoExit, network, LinkDown
    <2>2. CASE DialOk
      BY <2>2 DEF DialOk, WireInv
    <2>3. CASE TaskSend
      <3>1. UNCHANGED <<link, s2c>> /\ (link = "up" \/ UNCHANGED c2s)
        BY <2>3 DEF TaskSend
      <3> QED
        BY <1>0, <3>1
    <2>4. CASE ReadServerHello \/ ReadServerFinished \/ ReadSealed
      <3>1. UNCHANGED link /\ s2c # <<>>
        BY <2>4 DEF ReadServerHello, ReadServerFinished, ReadSealed, CanRead
      <3> QED
        BY <3>1 DEF WireInv
    <2> QED
      BY <1>3, <2>1, <2>2, <2>3, <2>4 DEF IoThread
  <1>4. CASE SessionRead \/ SessionDeliver \/ SessionCloses \/ Cut
    BY <1>0, <1>4 DEF SessionRead, SessionDeliver, SessionCloses, Cut, SessionOpen
  <1>5. CASE UNCHANGED connectionVars
    BY <1>0, <1>5 DEF connectionVars, network
  <1> QED
    BY <1>1, <1>2, <1>3, <1>4, <1>5 DEF ConnectionNext

(* Only Restart makes C wait for a dial, and only DialOk ends the wait     *)
(* well.                                                                   *)
LEMMA DialPlaces ==
  ASSUME PlaceType, [ConnectionNext]_connectionVars
  PROVE  pc'["C"] \in {"dial", "hello"} => pc'["C"] = pc["C"] \/ Restart \/ DialOk
  <1>p. "C" \in Threads /\ "H" \in Threads /\ "B" \in Threads /\ "U" \in Threads
    BY DEF Threads
  <1>c. ASSUME NEW t \in {"C", "H", "U"}, Close(t)
        PROVE  pc'["C"] \notin {"dial", "hello"} \/ pc'["C"] = pc["C"]
    <2>1. \/ Terminate
          \/ \E w \in {"report", "join", "joining", "restart", "wait", "idle"} : Goto(t, w)
      BY <1>c DEF Close, CloseStart, JoinBegin, JoinEnd, CloseEnd
    <2>2. t \in Threads
      BY <1>p
    <2> QED
      BY <2>1, <2>2, <1>p, Moves
  <1>1. CASE ConnectThread
    <2>1. CASE DialGivenUp \/ DialTimeout \/ ConnectToServer \/ Hello \/ HandshakeDone
              \/ HandshakeTimeout
      <3>1. \E w \in {"join", "close", "await", "beat"} : Goto("C", w)
        BY <2>1 DEF DialGivenUp, DialTimeout, ConnectToServer, Hello, HandshakeDone, HandshakeTimeout
      <3> QED
        BY <3>1, <1>p, Moves
    <2>4. CASE StartHeartbeat
      <3>1. Goto("C", "idle") \/ Terminate \/ pc' = [pc EXCEPT !["C"] = "idle", !["H"] = "wait"]
        BY <2>4 DEF StartHeartbeat
      <3> QED
        BY <3>1, <1>p, Moves DEF PlaceType, Threads
    <2> QED
      BY <1>1, <1>c, <2>1, <2>4 DEF ConnectThread
  <1>2. CASE HeartbeatRound \/ Check("H") \/ Check("B") \/ Post("H") \/ Post("B") \/ ProgramSends
             \/ Disconnect \/ HeartbeatJoined \/ Silence
    <2>1. \/ \E t \in {"H", "B", "U"} : \E w \in Places : Goto(t, w)
          \/ pc' = [pc EXCEPT !["U"] = "close", !["H"] = "none"]
          \/ UNCHANGED pc
      BY <1>2 DEF HeartbeatRound, Check, Post, ProgramSends, Disconnect, HeartbeatJoined, Silence,
         Places
    <2> QED
      BY <2>1, <1>p, Moves DEF PlaceType, Threads
  <1>3. CASE IoThread
    <2>1. CASE DialFail \/ TaskDrain
      <3>1. \/ pc' = [pc EXCEPT !["C"] = IF @ = "dial" THEN "dialFailed" ELSE @]
            \/ pc' = [pc EXCEPT !["C"] = IF @ = "dial" /\ sock = "dialing" THEN "dialFailed" ELSE @]
        BY <2>1 DEF DialFail, TaskDrain
      <3> QED
        BY <3>1 DEF PlaceType, Threads
    <2>2. CASE HeartbeatJoinedOnIo
      <3>1. Goto("H", "none")
        BY <2>2 DEF HeartbeatJoinedOnIo
      <3> QED
        BY <3>1, <1>p, Moves
    <2>3. CASE ~(DialFail \/ TaskDrain \/ HeartbeatJoinedOnIo)
      BY <1>3, <2>3
         DEF IoThread, TaskDial, TaskSend, TaskEncrypt, Seal, Number, ReadServerHello,
         ReadServerFinished, ReadSealed, ReadEnd, DisconnectOnIo, IoExit, client
    <2> QED
      BY <2>1, <2>2, <2>3
  <1>4. CASE SessionRead \/ SessionDeliver \/ SessionCloses \/ Cut
    BY <1>4 DEF SessionRead, SessionDeliver, SessionCloses, Cut, client
  <1>5. CASE UNCHANGED connectionVars
    BY <1>5 DEF connectionVars, client
  <1> QED
    BY <1>1, <1>2, <1>3, <1>4, <1>5, <1>c
       DEF ConnectionNext, HeartbeatThread, ProgramThread, DisconnectThread

(* A step that posts no dial and takes none.                               *)
PostsAllowed(x) ==
    /\ x \in Tasks /\ x.do # "dial"
    /\ x.do = "send" => open
    /\ x.do = "drain" => ~genOk'

LEMMA TaskKept ==
  ASSUME TransportType, OpenInv, TaskInv,
         \/ ioq' = ioq
         \/ \E x : PostsAllowed(x) /\ ioq' = Append(ioq, x)
         \/ ioq # <<>> /\ ioq' = Tail(ioq) /\ Head(ioq).do # "dial",
         thread' = thread \/ (thread = "ended" /\ thread' = "none"),
         pc'["C"] = "dial" => pc["C"] = "dial",
         sock' = "none" \/ sock # "none",
         genOk' => genOk
  PROVE  TaskInv'
  <1>0. ioq \in Seq(Tasks)
    BY DEF TransportType, QueueType
  <1>1. \A do \in {"dial", "send"} : Without(ioq, do) /\ (open => do # "send") => Without(ioq', do)
    <2> SUFFICES ASSUME NEW do \in {"dial", "send"}, Without(ioq, do), open => do # "send"
                 PROVE  Without(ioq', do)
      OBVIOUS
    <2>1. ASSUME NEW x, PostsAllowed(x) PROVE x \in Tasks /\ x.do # do
      BY <2>1 DEF PostsAllowed
    <2> QED
      BY <1>0, <2>1, WithoutKept
  <1>2. OneDial(ioq')
    <2>1. OneDial(ioq)
      BY DEF TaskInv
    <2>2. ASSUME NEW x, PostsAllowed(x) PROVE x \in Tasks /\ x.do # "dial"
      BY <2>2 DEF PostsAllowed
    <2> QED
      BY <1>0, <2>1, <2>2, OneDialKept
  <1>3. genOk' /\ thread = "on" => DrainsFirst(ioq')
    <2> SUFFICES ASSUME genOk', thread = "on" PROVE DrainsFirst(ioq')
      OBVIOUS
    <2>1. DrainsFirst(ioq)
      BY DEF TaskInv
    <2>2. ASSUME NEW x, PostsAllowed(x) PROVE x \in Tasks /\ x.do # "drain"
      BY <2>2 DEF PostsAllowed
    <2> QED
      BY <1>0, <2>1, <2>2, DrainsFirstKept
  <1>4. thread # "on" \/ pc["C"] = "dial" => ~open
    BY DEF OpenInv, Opening
  <1>5. thread' # "on" => Without(ioq', "dial") /\ Without(ioq', "send")
    BY <1>1, <1>4 DEF TaskInv
  <1>6. pc'["C"] = "dial" => Without(ioq', "send")
    BY <1>1, <1>4 DEF TaskInv
  <1>7. sock' = "none" \/ Without(ioq', "dial")
    BY <1>1 DEF TaskInv
  <1>8. genOk' /\ thread' = "on" => DrainsFirst(ioq')
    BY <1>3
  <1> QED
    BY <1>2, <1>5, <1>6, <1>7, <1>8 DEF TaskInv

(* No task of the old connection sends on, or drains, the socket of the    *)
(* new one.                                                                *)
LEMMA TaskStep ==
  ASSUME TransportType, OpenInv, TaskInv, [ConnectionNext]_connectionVars PROVE TaskInv'
  <1>d. ~Restart /\ ~DialOk => (pc'["C"] = "dial" => pc["C"] = "dial")
    BY DialPlaces DEF TransportType
  <1>e. Task("drain", NoFrame) \in Tasks /\ Task("drain", NoFrame).do = "drain"
    BY TaskTypes DEF Task
  <1>s. \A f \in Frames : Task("send", f) \in Tasks /\ Task("send", f).do = "send"
    <2>1. \A f \in Frames : Task("send", f).do = "send"
      BY DEF Task
    <2> QED
      BY <2>1, TaskTypes
  <1>t. ioq \in Seq(Tasks)
    BY DEF TransportType, QueueType
  <1>n. conn \in Nat /\ chan.key \in Nat /\ chan.snd \in Nat
    BY DEF TransportType, CountType, ChanType, Channels
  <1>h. s2c # <<>> => Head(s2c).key \in Nat
    <2>1. s2c # <<>> => Head(s2c) \in Frames
      BY Popped DEF TransportType, QueueType
    <2> QED
      BY <2>1 DEF Frames
  <1>f. /\ Frame("hello", conn, 0) \in Frames
        /\ Frame("sealed", chan.key, chan.snd + 1) \in Frames
        /\ s2c # <<>> => Frame("finished", Head(s2c).key, 0) \in Frames
    BY <1>n, <1>h, TaskTypes DEF Kinds
  <1>k. CloseOnIo => ~genOk' /\ PostsAllowed(Task("drain", NoFrame)) /\ ioq' = Append(ioq, Task("drain", NoFrame))
    BY <1>e DEF CloseOnIo, PostsAllowed
  <1>c. ASSUME NEW t \in {"C", "H", "U"}, Close(t), ~Restart, ~DialOk PROVE TaskInv'
    <2>1. CASE CloseStart(t)
      <3>1. /\ ~genOk' /\ UNCHANGED <<thread, sock>>
            /\ ioq' = ioq \/ ioq' = Append(ioq, Task("drain", NoFrame))
        BY <2>1 DEF CloseStart
      <3>2. PostsAllowed(Task("drain", NoFrame))
        BY <3>1, <1>e DEF PostsAllowed
      <3> QED
        BY <3>1, <3>2, <1>c, <1>d, TaskKept
    <2>2. CASE JoinBegin(t) \/ JoinEnd(t) \/ CloseEnd(t)
      <3>1. /\ UNCHANGED <<genOk, sock, ioq>>
            /\ UNCHANGED thread \/ (thread = "ended" /\ thread' = "none")
        BY <2>2 DEF JoinBegin, JoinEnd, CloseEnd, transport
      <3> QED
        BY <3>1, <1>c, <1>d, TaskKept
    <2> QED
      BY <1>c, <2>1, <2>2 DEF Close
  <1>1. CASE Restart
    <2>1. /\ thread' = "on" /\ UNCHANGED sock /\ pc["C"] = "restart"
          /\ ioq' = Append(ioq, Task("dial", NoFrame))
      BY <1>1 DEF Restart
    <2>2. thread = "none" /\ sock = "none" /\ Without(ioq, "dial") /\ Without(ioq, "send")
      BY <2>1 DEF OpenInv, TaskInv
    <2>3. Task("dial", NoFrame) \in Tasks /\ Task("dial", NoFrame).do = "dial"
      BY TaskTypes DEF Task
    <2>4. OneDial(ioq')
      BY <2>1, <2>2, <2>3, <1>t, OneDialKept DEF TaskInv
    <2>5. Without(ioq', "send")
      BY <2>1, <2>2, <2>3, <1>t, WithoutKept
    <2>6. DrainsFirst(ioq')
      BY <2>1, <2>3, <1>t, DrainsFirstKept
    <2> QED
      BY <2>1, <2>2, <2>4, <2>5, <2>6 DEF TaskInv
  <1>2. CASE DialOk
    <2>1. /\ UNCHANGED <<ioq, thread, genOk>> /\ sock = "dialing" /\ pc["C"] = "dial"
      BY <1>2 DEF DialOk
    <2> QED
      BY <2>1, TaskKept
  <1>3. ASSUME ~Restart, ~DialOk, ConnectThread PROVE TaskInv'
    <2>1. CASE DialTimeout
      <3>1. /\ ~genOk' /\ UNCHANGED <<thread, sock>> /\ ioq' = Append(ioq, Task("drain", NoFrame))
        BY <2>1 DEF DialTimeout
      <3>2. PostsAllowed(Task("drain", NoFrame))
        BY <3>1, <1>e DEF PostsAllowed
      <3> QED
        BY <3>1, <3>2, <1>3, <1>d, TaskKept
    <2>2. CASE Hello
      <3>1. /\ UNCHANGED <<thread, sock, genOk>>
            /\ ioq' = ioq \/ (open /\ ioq' = Append(ioq, Task("send", Frame("hello", conn, 0))))
        BY <2>2 DEF Hello, transport
      <3>2. open => PostsAllowed(Task("send", Frame("hello", conn, 0)))
        BY <1>s, <1>f DEF PostsAllowed
      <3> QED
        BY <3>1, <3>2, <1>3, <1>d, TaskKept
    <2>3. CASE DialGivenUp \/ ConnectToServer \/ HandshakeDone \/ HandshakeTimeout \/ StartHeartbeat
      <3>1. UNCHANGED <<thread, sock, genOk, ioq>>
        BY <2>3 DEF DialGivenUp, ConnectToServer, HandshakeDone, HandshakeTimeout, StartHeartbeat,
           transport
      <3> QED
        BY <3>1, <1>3, <1>d, TaskKept
    <2> QED
      BY <1>3, <1>c, <2>1, <2>2, <2>3 DEF ConnectThread
  <1>4. ASSUME ~Restart, ~DialOk, NEW t \in {"H", "B"}, Post(t) PROVE TaskInv'
    <2>1. /\ UNCHANGED <<thread, sock, genOk>>
          /\ ioq' = ioq \/ (ioq' = Append(ioq, post[t]) /\ (post[t].do = "encrypt" \/ open))
      BY <1>4 DEF Post, transport
    <2>2. post[t] \in {Task("encrypt", NoFrame), NoTask}
      BY DEF TransportType, PostType, Posts
    <2>3. /\ Task("encrypt", NoFrame) \in Tasks /\ Task("encrypt", NoFrame).do = "encrypt"
          /\ NoTask \in Tasks /\ NoTask.do = "send"
      BY TaskTypes DEF Task, NoTask
    <2>4. post[t].do = "encrypt" \/ open => PostsAllowed(post[t])
      BY <2>2, <2>3 DEF PostsAllowed
    <2> QED
      BY <2>1, <2>4, <1>4, <1>d, TaskKept
  <1>5. ASSUME ~Restart, ~DialOk,
               HeartbeatRound \/ Check("H") \/ Check("B") \/ ProgramSends
               \/ Disconnect \/ HeartbeatJoined \/ Silence
        PROVE TaskInv'
    <2>1. UNCHANGED <<thread, sock, genOk, ioq>>
      BY <1>5 DEF HeartbeatRound, Check, ProgramSends, Disconnect, HeartbeatJoined, Silence, transport
    <2> QED
      BY <2>1, <1>5, <1>d, TaskKept
  <1>6. ASSUME ~Restart, ~DialOk, IoThread PROVE TaskInv'
    <2>1. CASE TaskDial
      <3>1. /\ thread = "on" /\ ioq # <<>> /\ Head(ioq).do = "dial" /\ ioq' = Tail(ioq)
            /\ UNCHANGED <<genOk, thread, pc>>
        BY <2>1 DEF TaskDial, NextTask, Running, client
      <3>2. Without(ioq', "dial") /\ OneDial(ioq')
        BY <3>1, <1>t, OneDialKept DEF TaskInv
      <3>3. pc["C"] = "dial" => Without(ioq', "send")
        BY <3>1, <1>t, WithoutKept DEF TaskInv
      <3>4. genOk => DrainsFirst(ioq')
        BY <3>1, <1>t, DrainsFirstKept DEF TaskInv
      <3> QED
        BY <3>1, <3>2, <3>3, <3>4 DEF TaskInv
    <2>2. CASE DialFail \/ Seal \/ ReadEnd
      <3>1. UNCHANGED <<ioq, thread, genOk>> /\ (sock' = "none" \/ sock' = sock)
        BY <2>2 DEF DialFail, Seal, ReadEnd, transport
      <3> QED
        BY <3>1, <1>6, <1>d, TaskKept
    <2>3. CASE TaskDrain \/ TaskSend \/ TaskEncrypt
      <3>1. /\ UNCHANGED <<thread, genOk>> /\ (sock' = "none" \/ sock' = sock)
            /\ ioq # <<>> /\ ioq' = Tail(ioq) /\ Head(ioq).do \in {"drain", "send", "encrypt"}
        BY <2>3 DEF TaskDrain, TaskSend, TaskEncrypt, NextTask, transport
      <3>2. Head(ioq).do # "dial"
        BY <3>1
      <3> QED
        BY <3>1, <3>2, <1>6, <1>d, TaskKept
    <2>4. CASE Number
      <3>1. /\ UNCHANGED <<thread, sock, genOk>>
            /\ \/ ioq' = ioq
               \/ open /\ ioq' = Append(ioq, Task("send", Frame("sealed", chan.key, chan.snd + 1)))
        BY <2>4 DEF Number, transport
      <3>2. open => PostsAllowed(Task("send", Frame("sealed", chan.key, chan.snd + 1)))
        BY <1>s, <1>f DEF PostsAllowed
      <3> QED
        BY <3>1, <3>2, <1>6, <1>d, TaskKept
    <2>5. CASE ReadServerHello
      <3>1. /\ UNCHANGED <<thread, sock>> /\ s2c # <<>>
            /\ \/ UNCHANGED genOk /\ ioq' = ioq
               \/ UNCHANGED genOk /\ open /\ ioq' = Append(ioq, Task("send", Frame("finished", Head(s2c).key, 0)))
               \/ CloseOnIo
        BY <2>5 DEF ReadServerHello, CanRead
      <3>2. open => PostsAllowed(Task("send", Frame("finished", Head(s2c).key, 0)))
        BY <1>s, <1>f, <3>1 DEF PostsAllowed
      <3> QED
        BY <3>1, <3>2, <1>6, <1>d, <1>k, TaskKept
    <2>6. CASE ReadServerFinished \/ ReadSealed \/ DisconnectOnIo \/ HeartbeatJoinedOnIo
      <3>1. /\ UNCHANGED <<thread, sock>>
            /\ UNCHANGED <<genOk, ioq>> \/ CloseOnIo
        BY <2>6 DEF ReadServerFinished, ReadSealed, DisconnectOnIo, HeartbeatJoinedOnIo
      <3> QED
        BY <3>1, <1>6, <1>d, <1>k, TaskKept
    <2>7. CASE IoExit
      <3>1. ioq = <<>> /\ sock = "none" /\ UNCHANGED <<ioq, sock>> /\ thread' = "ended"
        BY <2>7 DEF IoExit
      <3>2. DOMAIN ioq' = {}
        BY <3>1, EmptySeq
      <3> QED
        BY <3>1, <3>2 DEF TaskInv, Without, OneDial, DrainsFirst
    <2> QED
      BY <1>6, <2>1, <2>2, <2>3, <2>4, <2>5, <2>6, <2>7 DEF IoThread
  <1>7. ASSUME ~Restart, ~DialOk, SessionRead \/ SessionDeliver \/ SessionCloses \/ Cut PROVE TaskInv'
    <2>1. UNCHANGED <<thread, sock, genOk, ioq>>
      BY <1>7 DEF SessionRead, SessionDeliver, SessionCloses, Cut, transport
    <2> QED
      BY <2>1, <1>7, <1>d, TaskKept
  <1>8. ASSUME ~Restart, ~DialOk, UNCHANGED connectionVars PROVE TaskInv'
    <2>1. UNCHANGED <<thread, sock, genOk, ioq>>
      BY <1>8 DEF connectionVars, transport
    <2> QED
      BY <2>1, <1>8, <1>d, TaskKept
  <1> QED
    BY <1>1, <1>2, <1>3, <1>4, <1>5, <1>6, <1>7, <1>8, <1>c
       DEF ConnectionNext, HeartbeatThread, ProgramThread, DisconnectThread

-----------------------------------------------------------------------------
(* Who changes what.  Only Restart begins another connection.              *)
LEMMA ConnFrame ==
  ASSUME [ConnectionNext]_connectionVars PROVE UNCHANGED conn \/ Restart
  <1>1. CASE ConnectThread
    BY <1>1 DEF ConnectThread, ConnectToServer, DialGivenUp, DialTimeout, Hello,
       HandshakeDone, HandshakeTimeout, StartHeartbeat, Close, CloseStart, JoinBegin, JoinEnd,
       CloseEnd
  <1>2. CASE HeartbeatThread \/ ProgramSends \/ ProgramThread \/ Disconnect \/ DisconnectThread
            \/ Silence
    BY <1>2 DEF HeartbeatThread, HeartbeatRound, Check, Post, ProgramSends, ProgramThread, Disconnect,
       DisconnectThread, HeartbeatJoined, Silence,
       Close, CloseStart, JoinBegin, JoinEnd, CloseEnd
  <1>3. CASE IoThread
    BY <1>3 DEF IoThread, TaskDial, DialOk, DialFail, TaskDrain, TaskSend, TaskEncrypt, Seal, Number,
       ReadServerHello, ReadServerFinished, ReadSealed, ReadEnd, DisconnectOnIo, HeartbeatJoinedOnIo,
       IoExit
  <1>4. CASE SessionRead \/ SessionDeliver \/ SessionCloses \/ Cut
    BY <1>4 DEF SessionRead, SessionDeliver, SessionCloses, Cut
  <1>5. CASE UNCHANGED connectionVars
    BY <1>5 DEF connectionVars
  <1> QED
    BY <1>1, <1>2, <1>3, <1>4, <1>5 DEF ConnectionNext

(* Only Restart, Hello and the send of a task change what is remembered of *)
(* intrusions.                                                             *)
LEMMA PastFrame ==
  ASSUME PastType, [ConnectionNext]_connectionVars
  PROVE  past'.intruded = past.intruded \/ Restart \/ Hello \/ TaskSend
  <1>1. CASE ConnectThread
    <2>1. CASE StartHeartbeat
      BY <2>1 DEF StartHeartbeat, PastType
    <2>2. CASE ~StartHeartbeat
      BY <1>1, <2>2
         DEF ConnectThread, ConnectToServer, DialGivenUp, DialTimeout,
         HandshakeDone, HandshakeTimeout, Close, CloseStart, JoinBegin, JoinEnd, CloseEnd
    <2> QED
      BY <2>1, <2>2
  <1>2. CASE HeartbeatThread \/ ProgramSends \/ ProgramThread \/ Disconnect \/ DisconnectThread
            \/ Silence
    BY <1>2 DEF HeartbeatThread, HeartbeatRound, Check, Post, ProgramSends, ProgramThread, Disconnect,
       DisconnectThread, HeartbeatJoined, Silence,
       Close, CloseStart, JoinBegin, JoinEnd, CloseEnd
  <1>3. CASE IoThread
    <2>1. CASE DisconnectOnIo
      BY <2>1 DEF DisconnectOnIo, PastType
    <2>2. CASE ~DisconnectOnIo
      BY <1>3, <2>2
         DEF IoThread, TaskDial, DialOk, DialFail, TaskDrain, TaskEncrypt, Seal, Number,
         ReadServerHello, ReadServerFinished, ReadSealed, ReadEnd, HeartbeatJoinedOnIo, IoExit
    <2> QED
      BY <2>1, <2>2
  <1>4. CASE SessionRead \/ SessionDeliver \/ SessionCloses \/ Cut
    BY <1>4 DEF SessionRead, SessionDeliver, SessionCloses, Cut
  <1>5. CASE UNCHANGED connectionVars
    BY <1>5 DEF connectionVars
  <1> QED
    BY <1>1, <1>2, <1>3, <1>4, <1>5 DEF ConnectionNext

(* Only performAppHandshake, the encryption on the I/O thread and the      *)
(* reads touch the channel.                                                *)
LEMMA ChanFrame ==
  ASSUME [ConnectionNext]_connectionVars
  PROVE  \/ UNCHANGED chan \/ Hello \/ Seal \/ Number
         \/ ReadServerHello \/ ReadServerFinished \/ ReadSealed
  <1>1. CASE ConnectThread
    BY <1>1 DEF ConnectThread, ConnectToServer, Restart, DialGivenUp, DialTimeout,
       HandshakeDone, HandshakeTimeout, StartHeartbeat, Close, CloseStart, JoinBegin, JoinEnd,
       CloseEnd, channel
  <1>2. CASE HeartbeatThread \/ ProgramSends \/ ProgramThread \/ Disconnect \/ DisconnectThread
            \/ Silence
    BY <1>2 DEF HeartbeatThread, HeartbeatRound, Check, Post, ProgramSends, ProgramThread, Disconnect,
       DisconnectThread, HeartbeatJoined, Silence,
       Close, CloseStart, JoinBegin, JoinEnd, CloseEnd, channel
  <1>3. CASE IoThread
    BY <1>3 DEF IoThread, TaskDial, DialOk, DialFail, TaskDrain, TaskSend, TaskEncrypt, ReadEnd,
       DisconnectOnIo, HeartbeatJoinedOnIo, IoExit, channel
  <1>4. CASE SessionRead \/ SessionDeliver \/ SessionCloses \/ Cut
    BY <1>4 DEF SessionRead, SessionDeliver, SessionCloses, Cut, channel
  <1>5. CASE UNCHANGED connectionVars
    BY <1>5 DEF connectionVars, channel
  <1> QED
    BY <1>1, <1>2, <1>3, <1>4, <1>5 DEF ConnectionNext

(* Who touches the wire.                                                   *)
LEMMA WireFrame ==
  ASSUME [ConnectionNext]_connectionVars
  PROVE  \/ UNCHANGED network \/ LinkDown \/ DialOk \/ TaskSend
         \/ /\ ReadServerHello \/ ReadServerFinished \/ ReadSealed
            /\ UNCHANGED <<link, srv, c2s>>
         \/ SessionRead \/ SessionDeliver \/ SessionCloses \/ Cut
  <1>1. CASE ConnectThread
    BY <1>1 DEF ConnectThread, ConnectToServer, Restart, DialGivenUp, DialTimeout, Hello,
       HandshakeDone, HandshakeTimeout, StartHeartbeat, Close, CloseStart, JoinBegin, JoinEnd,
       CloseEnd
  <1>2. CASE HeartbeatThread \/ ProgramSends \/ ProgramThread \/ Disconnect \/ DisconnectThread
            \/ Silence
    BY <1>2 DEF HeartbeatThread, HeartbeatRound, Check, Post, ProgramSends, ProgramThread, Disconnect,
       DisconnectThread, HeartbeatJoined, Silence,
       Close, CloseStart, JoinBegin, JoinEnd, CloseEnd
  <1>3. CASE IoThread
    <2>1. CASE ReadServerHello \/ ReadServerFinished \/ ReadSealed
      BY <2>1 DEF ReadServerHello, ReadServerFinished, ReadSealed
    <2>2. CASE ~(ReadServerHello \/ ReadServerFinished \/ ReadSealed)
      BY <1>3, <2>2
         DEF IoThread, TaskDial, DialFail, TaskDrain, TaskEncrypt, Seal, Number, ReadEnd,
         DisconnectOnIo, HeartbeatJoinedOnIo, IoExit
    <2> QED
      BY <2>1, <2>2
  <1>4. CASE SessionRead \/ SessionDeliver \/ SessionCloses \/ Cut
    BY <1>4
  <1>5. CASE UNCHANGED connectionVars
    BY <1>5 DEF connectionVars
  <1> QED
    BY <1>1, <1>2, <1>3, <1>4, <1>5 DEF ConnectionNext

(* The I/O thread enters an encryption through its task and its seal.      *)
LEMMA IoFrame ==
  ASSUME [ConnectionNext]_connectionVars
  PROVE  io' \in {"sealing", "numbering"} => io' = io \/ TaskEncrypt \/ Seal
  <1>1. CASE ConnectThread
    BY <1>1 DEF ConnectThread, ConnectToServer, Restart, DialGivenUp, DialTimeout, Hello,
       HandshakeDone, HandshakeTimeout, StartHeartbeat, Close, CloseStart, JoinBegin, JoinEnd,
       CloseEnd, Terminate
  <1>2. CASE HeartbeatThread \/ ProgramSends \/ ProgramThread \/ Disconnect \/ DisconnectThread
            \/ Silence
    BY <1>2 DEF HeartbeatThread, HeartbeatRound, Check, Post, ProgramSends, ProgramThread, Disconnect,
       DisconnectThread, HeartbeatJoined, Silence,
       Close, CloseStart, JoinBegin, JoinEnd, CloseEnd, Terminate
  <1>3. CASE IoThread
    <2>1. CASE TaskDial \/ DialOk \/ DialFail \/ TaskDrain \/ TaskSend \/ Number \/ ReadEnd \/ IoExit
               \/ ReadServerHello \/ ReadServerFinished
      BY <2>1 DEF TaskDial, DialOk, DialFail, TaskDrain, TaskSend, Number, ReadEnd, IoExit,
         ReadServerHello, ReadServerFinished
    <2>2. CASE ReadSealed \/ DisconnectOnIo \/ HeartbeatJoinedOnIo
      BY <2>2 DEF ReadSealed, DisconnectOnIo, HeartbeatJoinedOnIo
    <2> QED
      BY <1>3, <2>1, <2>2 DEF IoThread
  <1>4. CASE SessionRead \/ SessionDeliver \/ SessionCloses \/ Cut
    BY <1>4 DEF SessionRead, SessionDeliver, SessionCloses, Cut
  <1>5. CASE UNCHANGED connectionVars
    BY <1>5 DEF connectionVars
  <1> QED
    BY <1>1, <1>2, <1>3, <1>4, <1>5 DEF ConnectionNext

(* Hello, Seal, Number and the reads, field by field.                      *)
LEMMA ChanSteps ==
  ASSUME ChanType, PastType, CountType
  PROVE  /\ Hello => /\ chan'.st = "HelloSent" /\ chan'.hello = conn /\ chan'.key = 0
                     /\ chan'.snd = 0 /\ chan'.rcv = 0 /\ UNCHANGED conn
                     /\ past'.intruded <=> past.intruded \/ io \in {"sealing", "numbering"}
         /\ Seal => /\ Established => UNCHANGED chan
                    /\ chan'.hello = chan.hello /\ chan'.key = chan.key
         /\ Number => /\ chan'.st = chan.st /\ chan'.hello = chan.hello /\ chan'.key = chan.key
                      /\ chan'.rcv = chan.rcv /\ chan'.snd = chan.snd + 1
         /\ ReadServerHello =>
              /\ chan'.hello = chan.hello
              /\ chan'.key \in {chan.key, chan.hello}
              /\ chan.st = "HelloSent" /\ Head(s2c).key = chan.hello
                   => /\ chan'.st = "FinishedSent" /\ chan'.key = chan.hello
                      /\ chan'.snd = chan.snd /\ chan'.rcv = chan.rcv
         /\ ReadServerFinished =>
              /\ chan'.hello = chan.hello /\ chan'.key = chan.key
              /\ chan.st = "FinishedSent" /\ Head(s2c).key = chan.key
                   => chan'.st = "Established" /\ chan'.snd = chan.snd /\ chan'.rcv = chan.rcv
         /\ ReadSealed =>
              /\ chan'.hello = chan.hello /\ chan'.key = chan.key
              /\ Established /\ Head(s2c).key = chan.key /\ Head(s2c).seq = chan.rcv + 1
                   => chan'.st = chan.st /\ chan'.snd = chan.snd /\ chan'.rcv = chan.rcv + 1
  <1> USE DEF ChanType
  <1>1. ASSUME Hello
        PROVE  /\ chan'.st = "HelloSent" /\ chan'.hello = conn /\ chan'.key = 0
               /\ chan'.snd = 0 /\ chan'.rcv = 0 /\ UNCHANGED conn
               /\ past'.intruded <=> past.intruded \/ io \in {"sealing", "numbering"}
    <2>1. /\ chan' = [Fresh EXCEPT !.st = "HelloSent", !.hello = conn]
          /\ past' = [past EXCEPT !.intruded = @ \/ io \in {"sealing", "numbering"}]
          /\ UNCHANGED conn
      BY <1>1 DEF Hello, Reset
    <2>2. Fresh.key = 0 /\ Fresh.snd = 0 /\ Fresh.rcv = 0
      BY DEF Fresh
    <2>3. /\ chan'.st = "HelloSent" /\ chan'.hello = conn /\ chan'.key = 0
          /\ chan'.snd = 0 /\ chan'.rcv = 0
      BY <2>1, <2>2, FreshType DEF Channels
    <2>4. past'.intruded <=> past.intruded \/ io \in {"sealing", "numbering"}
      BY <2>1 DEF PastType
    <2> QED
      BY <2>1, <2>3, <2>4
  <1>2. ASSUME Seal
        PROVE  /\ Established => UNCHANGED chan
               /\ chan'.hello = chan.hello /\ chan'.key = chan.key
    BY <1>2 DEF Seal, Channels
  <1>3. ASSUME Number
        PROVE  /\ chan'.st = chan.st /\ chan'.hello = chan.hello /\ chan'.key = chan.key
               /\ chan'.rcv = chan.rcv /\ chan'.snd = chan.snd + 1
    BY <1>3 DEF Number, Channels
  <1>4. ASSUME ReadServerHello
        PROVE  /\ chan'.hello = chan.hello
               /\ chan'.key \in {chan.key, chan.hello}
               /\ chan.st = "HelloSent" /\ Head(s2c).key = chan.hello
                    => /\ chan'.st = "FinishedSent" /\ chan'.key = chan.hello
                       /\ chan'.snd = chan.snd /\ chan'.rcv = chan.rcv
    <2>1. IF chan.st = "HelloSent" /\ Head(s2c).key = chan.hello
          THEN chan' = [chan EXCEPT !.st = "FinishedSent", !.key = Head(s2c).key]
          ELSE chan' = [chan EXCEPT !.st = "Failed"]
      BY <1>4 DEF ReadServerHello
    <2> QED
      BY <2>1 DEF Channels
  <1>5. ASSUME ReadServerFinished
        PROVE  /\ chan'.hello = chan.hello /\ chan'.key = chan.key
               /\ chan.st = "FinishedSent" /\ Head(s2c).key = chan.key
                    => chan'.st = "Established" /\ chan'.snd = chan.snd /\ chan'.rcv = chan.rcv
    <2>1. chan' = [chan EXCEPT !.st = IF chan.st = "FinishedSent" /\ Head(s2c).key = chan.key
                                      THEN "Established" ELSE "Failed"]
      BY <1>5 DEF ReadServerFinished
    <2> QED
      BY <2>1 DEF Channels
  <1>6. ASSUME ReadSealed
        PROVE  /\ chan'.hello = chan.hello /\ chan'.key = chan.key
               /\ Established /\ Head(s2c).key = chan.key /\ Head(s2c).seq = chan.rcv + 1
                    => chan'.st = chan.st /\ chan'.snd = chan.snd /\ chan'.rcv = chan.rcv + 1
    <2>1. IF Established /\ Head(s2c).key = chan.key /\ Head(s2c).seq = chan.rcv + 1
          THEN chan' = [chan EXCEPT !.rcv = Head(s2c).seq]
          ELSE chan' = [chan EXCEPT !.st = IF Established THEN "Failed" ELSE @]
      BY <1>6 DEF ReadSealed
    <2> QED
      BY <2>1 DEF Channels
  <1> QED
    BY <1>1, <1>2, <1>3, <1>4, <1>5, <1>6

(* The channel belongs to this connection or to an earlier one, and to an  *)
(* earlier one as long as C has not sent its hello.                        *)
LEMMA HelloStep ==
  ASSUME TransportType, OpenInv, HelloInv, [ConnectionNext]_connectionVars PROVE HelloInv'
  <1>1. ChanType /\ PastType /\ CountType /\ PlaceType
    BY DEF TransportType
  <1>2. conn \in Nat /\ chan.hello \in Nat
    BY <1>1 DEF CountType, ChanType, Channels
  <1>3. CASE Hello
    <2>1. chan'.hello = conn /\ chan'.key = 0 /\ conn' = conn
      BY <1>1, <1>3, ChanSteps
    <2>2. pc'["C"] \notin {"dial", "hello"}
      <3>1. Goto("C", "await")
        BY <1>3 DEF Hello
      <3> QED
        BY <1>1, <3>1, Moves
    <2> QED
      BY <1>2, <2>1, <2>2 DEF HelloInv
  <1>4. CASE ~Hello
    <2>1. chan'.hello = chan.hello /\ chan'.key \in {chan.key, chan.hello}
      BY <1>1, <1>4, ChanSteps, ChanFrame
    <2>2. CASE Restart
      <3>1. conn' = conn + 1
        BY <2>2 DEF Restart
      <3> QED
        BY <1>2, <2>1, <3>1 DEF HelloInv
    <2>3. CASE ~Restart
      <3>1. conn' = conn
        BY <2>3, ConnFrame
      <3>2. pc'["C"] \in {"dial", "hello"} => pc["C"] \in {"dial", "hello"}
        <4>1. DialOk => pc["C"] = "dial"
          BY DEF DialOk
        <4> QED
          BY <1>1, <2>3, <4>1, DialPlaces
      <3> QED
        BY <2>1, <3>1, <3>2 DEF HelloInv
    <2> QED
      BY <2>2, <2>3
  <1> QED
    BY <1>3, <1>4

(* A frame that comes in finds the handshake where it belongs.             *)
LEMMA ReadsAgree ==
  ASSUME TransportType, OpenInv, WireInv, ClientInv, ~past.intruded, NEW kind, CanRead(kind)
  PROVE  /\ open /\ link = "up" /\ s2c # <<>>
         /\ kind = "serverHello" =>
              HelloGone /\ s2c = <<Frame("serverHello", conn, 0)>> /\ Head(s2c).key = conn
         /\ kind = "serverFinished" =>
              FinishedGone /\ s2c = <<Frame("serverFinished", conn, 0)>> /\ Head(s2c).key = conn
         /\ kind = "sealed" =>
              Secured /\ Head(s2c).key = conn /\ Head(s2c).seq = chan.rcv + 1
  <1>1. open /\ link = "up" /\ s2c # <<>> /\ Head(s2c).kind = kind
    BY DEF CanRead, OpenInv, WireInv
  <1>2. HelloGone \/ FinishedGone \/ Secured
    BY <1>1 DEF ClientInv, BeforeHello, HelloQueued, FinishedQueued
  <1>3. Head(s2c) = s2c[1] /\ 1 \in DOMAIN s2c
    BY <1>1, Popped DEF TransportType, QueueType
  <1>4. CASE HelloGone
    <2>1. s2c = <<Frame("serverHello", conn, 0)>>
      BY <1>1, <1>4 DEF HelloGone
    <2>2. Head(s2c) = Frame("serverHello", conn, 0)
      BY <2>1, <1>3
    <2>3. kind = "serverHello" /\ Head(s2c).key = conn
      BY <1>1, <2>2 DEF Frame
    <2> QED
      BY <1>1, <1>4, <2>1, <2>3
  <1>5. CASE FinishedGone
    <2>1. s2c = <<Frame("serverFinished", conn, 0)>>
      BY <1>1, <1>5 DEF FinishedGone
    <2>2. Head(s2c) = Frame("serverFinished", conn, 0)
      BY <2>1, <1>3
    <2>3. kind = "serverFinished" /\ Head(s2c).key = conn
      BY <1>1, <2>2 DEF Frame
    <2> QED
      BY <1>1, <1>5, <2>1, <2>3
  <1>6. CASE Secured
    <2>1. Head(s2c) = Frame("sealed", conn, chan.rcv + 1)
      BY <1>3, <1>6 DEF Secured
    <2>2. kind = "sealed" /\ Head(s2c).key = conn /\ Head(s2c).seq = chan.rcv + 1
      BY <1>1, <2>1 DEF Frame
    <2> QED
      BY <1>1, <1>6, <2>2
  <1> QED
    BY <1>2, <1>4, <1>5, <1>6

(* The channel of this connection fails only after an intrusion.           *)
LEMMA SpoilStep ==
  ASSUME TransportType, OpenInv, WireInv, HelloInv, SpoilInv, ClientInv, [ConnectionNext]_connectionVars
  PROVE  SpoilInv'
  <1>1. ChanType /\ PastType /\ CountType
    BY DEF TransportType
  <1>2. conn \in Nat /\ chan.hello \in Nat
    BY <1>1 DEF CountType, ChanType, Channels
  <1>3. CASE Restart
    <2>1. conn' = conn + 1
      BY <1>3 DEF Restart
    <2>2. UNCHANGED chan
      BY <1>3 DEF Restart, channel
    <2> QED
      BY <1>2, <2>1, <2>2 DEF HelloInv, SpoilInv
  <1>4. CASE Hello
    <2>1. chan'.st = "HelloSent" /\ (past'.intruded <=> past.intruded \/ io \in {"sealing", "numbering"})
      BY <1>1, <1>4, ChanSteps
    <2>2. io' = io
      BY <1>4 DEF Hello
    <2> QED
      BY <2>1, <2>2 DEF SpoilInv
  <1>5. CASE ~Restart /\ ~Hello
    <2>1. conn' = conn
      BY <1>5, ConnFrame
    <2>2. ~past'.intruded => ~past.intruded
      <3>1. TaskSend => (~past'.intruded => ~past.intruded)
        <4>1. TaskSend => past' = [past EXCEPT !.intruded =
                 @ \/ (open /\ (Head(ioq).frame.kind = "plain" \/ Head(ioq).frame.key # conn))]
          BY DEF TaskSend
        <4> QED
          BY <4>1, <1>1 DEF PastType
      <3> QED
        BY <1>1, <1>5, <3>1, PastFrame
    <2>3. chan'.hello = chan.hello
      BY <1>1, <1>5, ChanSteps, ChanFrame
    <2> SUFFICES ASSUME ~past'.intruded, chan'.hello = conn'
                 PROVE  chan'.st # "Failed" /\ (io' \in {"sealing", "numbering"} => Established')
      BY DEF SpoilInv
    <2>4. /\ ~past.intruded /\ chan.hello = conn /\ chan.st # "Failed"
          /\ io \in {"sealing", "numbering"} => Established
      BY <2>1, <2>2, <2>3 DEF SpoilInv
    <2>5. CASE Seal
      <3>1. Established /\ UNCHANGED chan
        BY <1>1, <2>4, <2>5, ChanSteps DEF Seal
      <3> QED
        BY <3>1, <2>4 DEF Established
    <2>6. CASE Number
      BY <1>1, <2>4, <2>6, ChanSteps DEF Number
    <2>7. CASE ReadServerHello
      <3>1. CanRead("serverHello") /\ io' = io /\ io = "idle"
        BY <2>7 DEF ReadServerHello, CanRead, Running
      <3>2. HelloGone /\ Head(s2c).key = conn
        BY <2>4, <3>1, ReadsAgree
      <3>3. chan'.st = "FinishedSent"
        BY <1>1, <2>4, <2>7, <3>2, ChanSteps DEF HelloGone
      <3> QED
        BY <3>1, <3>3
    <2>8. CASE ReadServerFinished
      <3>1. CanRead("serverFinished") /\ io' = io /\ io = "idle"
        BY <2>8 DEF ReadServerFinished, CanRead, Running
      <3>2. FinishedGone /\ Head(s2c).key = conn
        BY <2>4, <3>1, ReadsAgree
      <3>3. chan'.st = "Established"
        BY <1>1, <2>4, <2>8, <3>2, ChanSteps DEF FinishedGone
      <3> QED
        BY <3>1, <3>3
    <2>9. CASE ReadSealed
      <3>1. CanRead("sealed") /\ io = "idle" /\ io' \notin {"sealing", "numbering"}
        BY <2>9 DEF ReadSealed, CanRead, Running
      <3>2. Secured /\ Head(s2c).key = conn /\ Head(s2c).seq = chan.rcv + 1
        BY <2>4, <3>1, ReadsAgree
      <3>3. chan'.st = "Established"
        BY <1>1, <2>4, <2>9, <3>2, ChanSteps DEF Secured, Established
      <3> QED
        BY <3>1, <3>3
    <2>10. CASE TaskEncrypt
      <3>1. UNCHANGED chan /\ (io' \in {"sealing", "numbering"} => Established)
        BY <2>10 DEF TaskEncrypt, channel
      <3> QED
        BY <2>4, <3>1 DEF Established
    <2>11. CASE UNCHANGED chan /\ ~TaskEncrypt /\ ~Seal
      BY <2>4, <2>11, IoFrame DEF Established
    <2> QED
      BY <1>5, <2>5, <2>6, <2>7, <2>8, <2>9, <2>10, <2>11, ChanFrame
  <1> QED
    BY <1>3, <1>4, <1>5

(* An intrusion is forgotten by Restart only.                              *)
LEMMA Intrusion ==
  ASSUME PastType, [ConnectionNext]_connectionVars
  PROVE  /\ ~Restart /\ ~past'.intruded => ~past.intruded
         /\ TaskSend /\ open /\ ~past'.intruded => ~Alien(Head(ioq).frame)
  <1>1. TaskSend => past' = [past EXCEPT !.intruded =
             @ \/ (open /\ (Head(ioq).frame.kind = "plain" \/ Head(ioq).frame.key # conn))]
    BY DEF TaskSend
  <1>2. TaskSend /\ ~past'.intruded => ~past.intruded /\ (open => ~Alien(Head(ioq).frame))
    BY <1>1 DEF PastType, Alien
  <1>3. Hello => past' = [past EXCEPT !.intruded = @ \/ io \in {"sealing", "numbering"}]
    BY DEF Hello
  <1>4. Hello /\ ~past'.intruded => ~past.intruded
    BY <1>3 DEF PastType
  <1> QED
    BY <1>2, <1>4, PastFrame

(* What a task that is run sends, while nobody intrudes.                   *)
LEMMA SentFrame ==
  ASSUME TransportType, ClientInv, [ConnectionNext]_connectionVars, TaskSend, open, link = "up", ~past'.intruded
  PROVE  /\ ~past.intruded /\ ioq # <<>> /\ ioq' = Tail(ioq)
         /\ c2s' = Append(c2s, Head(ioq).frame)
         /\ \/ HelloQueued /\ Head(ioq).frame = Frame("hello", conn, 0) /\ PlainOnly(Tail(ioq))
            \/ FinishedQueued /\ Head(ioq).frame = Frame("finished", conn, 0) /\ PlainOnly(Tail(ioq))
            \/ /\ Secured
               /\ srv.st = "Established" =>
                    /\ Head(ioq).frame = Frame("sealed", conn, srv.rcv + Len(c2s) + 1)
                    /\ Chain(Tail(ioq), srv.rcv + Len(c2s) + 1, chan.snd, conn)
  <1>0. /\ ioq \in Seq(Tasks) /\ ioq # <<>> /\ ioq' = Tail(ioq) /\ c2s' = Append(c2s, Head(ioq).frame)
        /\ ~Restart
    BY DEF TransportType, QueueType, TaskSend, NextTask, Running, Restart, OpenInv, transport
  <1>1. ~past.intruded /\ ~Alien(Head(ioq).frame)
    BY <1>0, Intrusion DEF TransportType
  <1>n. /\ conn \in Nat /\ chan.snd \in Nat /\ srv.rcv \in Nat /\ Len(c2s) \in Nat
        /\ srv.rcv + Len(c2s) \in Nat
    <2>1. conn \in Nat /\ chan.snd \in Nat /\ srv.rcv \in Nat
      BY DEF TransportType, CountType, ChanType, SrvType, Channels, Sessions
    <2>2. Len(c2s) \in Nat
      BY LenProperties DEF TransportType, QueueType
    <2> QED
      BY <2>1, <2>2
  <1>2. ~PlainTask(Head(ioq))
    BY <1>1 DEF Alien, PlainTask
  <1>3. ~BeforeHello /\ ~HelloGone /\ ~FinishedGone
    BY <1>0, <1>1, <1>2, AlienKept DEF BeforeHello, HelloGone, FinishedGone
  <1>f. ASSUME NEW k \in Kinds, k # "plain", Queued(ioq, Frame(k, conn, 0))
        PROVE  Head(ioq).frame = Frame(k, conn, 0) /\ PlainOnly(Tail(ioq))
    <2> DEFINE f == Frame(k, conn, 0)
    <2>1. f \in Frames /\ f.kind # "plain" /\ f.key = conn
      BY <1>f, <1>n, TaskTypes DEF Frame
    <2>2. Queued(ioq, f)
      BY <1>f
    <2> HIDE DEF f
    <2>3. Head(ioq) = Task("send", f) /\ PlainOnly(Tail(ioq))
      BY <2>1, <2>2, <1>0, <1>1, QueuedKept
    <2>4. Task("send", f).frame = f
      BY DEF Task
    <2> QED
      BY <2>3, <2>4 DEF f
  <1>4. CASE HelloQueued
    BY <1>0, <1>1, <1>4, <1>f DEF HelloQueued, Kinds
  <1>5. CASE FinishedQueued
    BY <1>0, <1>1, <1>5, <1>f DEF FinishedQueued, Kinds
  <1>6. CASE Secured
    <2>1. ASSUME srv.st = "Established"
          PROVE  /\ Head(ioq).frame = Frame("sealed", conn, srv.rcv + Len(c2s) + 1)
                 /\ Chain(Tail(ioq), srv.rcv + Len(c2s) + 1, chan.snd, conn)
      <3>1. Chain(ioq, srv.rcv + Len(c2s), chan.snd, conn)
        BY <2>1, <1>6 DEF Secured
      <3> QED
        BY <3>1, <1>0, <1>2, <1>n, ChainKept
    <2> QED
      BY <1>0, <1>1, <1>6, <2>1
  <1> QED
    BY <1>1, <1>3, <1>4, <1>5, <1>6 DEF ClientInv

(* The session refuses nothing that the connection's own handshake and its *)
(* own seals send.                                                         *)
LEMMA ServerStep ==
  ASSUME TransportType, OpenInv, WireInv, ServerInv, ClientInv, [ConnectionNext]_connectionVars
  PROVE  ServerInv'
  <1>1. PastType /\ SrvType
    BY DEF TransportType
  <1>2. srv.rcv \in Nat /\ srv.snd \in Nat /\ c2s \in Seq(Frames)
    BY DEF TransportType, SrvType, Sessions, QueueType
  <1>3. CASE LinkDown
    <2>1. link' = "none" /\ ~srv'.refused
      BY <1>3, FreshType DEF LinkDown, NoSession, NewSession
    <2> QED
      BY <2>1 DEF ServerInv
  <1>4. CASE ~LinkDown
    <2>1. ~Restart
      BY <1>4 DEF Restart
    <2>2. UNCHANGED conn /\ (~past'.intruded => ~past.intruded)
      BY <1>1, <2>1, ConnFrame, Intrusion
    <2>3. CASE UNCHANGED <<link, srv, c2s>>
      BY <2>2, <2>3 DEF ServerInv
    <2>4. CASE DialOk
      <3>1. srv' = NewSession /\ c2s' = c2s /\ pc["C"] = "dial"
        BY <2>4 DEF DialOk
      <3>2. c2s' = <<>>
        BY <3>1 DEF OpenInv, WireInv
      <3>3. ~srv'.refused /\ srv'.rcv = 0 /\ srv'.snd = 0 /\ srv'.st = "WaitClientHello"
        BY <3>1 DEF NewSession
      <3> QED
        BY <3>2, <3>3 DEF ServerInv
    <2>5. CASE TaskSend
      <3>1. UNCHANGED <<link, srv>> /\ (c2s' = c2s \/ (open /\ link = "up"))
        BY <2>5 DEF TaskSend
      <3>2. CASE c2s' = c2s
        BY <2>2, <3>1, <3>2 DEF ServerInv
      <3>3. CASE open /\ link = "up" /\ ~past'.intruded
        <4>1. c2s' = Append(c2s, Head(ioq).frame)
          BY <2>5, <3>3, SentFrame
        <4>2. CASE HelloQueued /\ Head(ioq).frame = Frame("hello", conn, 0)
          <5>1. c2s' = <<Frame("hello", conn, 0)>>
            BY <4>1, <4>2, Single DEF HelloQueued
          <5> QED
            BY <5>1, <2>2, <3>1, <4>2 DEF ServerInv, HelloQueued
        <4>3. CASE FinishedQueued /\ Head(ioq).frame = Frame("finished", conn, 0)
          <5>1. srv.st = "Closed" \/ (srv.st = "WaitClientFinished" /\ c2s' = <<Frame("finished", conn, 0)>>)
            BY <4>1, <4>3, Single DEF FinishedQueued
          <5> QED
            BY <5>1, <2>2, <3>1 DEF ServerInv
        <4>4. CASE /\ Secured
                   /\ srv.st = "Established" => Head(ioq).frame = Frame("sealed", conn, srv.rcv + Len(c2s) + 1)
          <5>1. CASE srv.st = "Closed"
            BY <5>1, <2>2, <3>1 DEF ServerInv
          <5>2. CASE srv.st = "Established"
            <6> DEFINE f == Frame("sealed", conn, srv.rcv + Len(c2s) + 1)
            <6>1. Head(ioq).frame = f
              BY <4>4, <5>2
            <6>2. f \in Frames
              <7>1. ioq \in Seq(Tasks) /\ ioq # <<>>
                BY <2>5, <3>3, SentFrame DEF TransportType, QueueType
              <7>2. Head(ioq) \in Tasks
                BY <7>1, Popped
              <7> QED
                BY <6>1, <7>2 DEF Tasks
            <6> HIDE DEF f
            <6>3. /\ DOMAIN Append(c2s, f) = 1..(Len(c2s) + 1) /\ Len(c2s) \in Nat /\ DOMAIN c2s = 1..Len(c2s)
                  /\ \A i \in DOMAIN c2s : Append(c2s, f)[i] = c2s[i]
                  /\ Append(c2s, f)[Len(c2s) + 1] = f
              BY <1>2, <6>2, Appended
            <6>4. \A i \in DOMAIN c2s : c2s[i] = Frame("sealed", conn, srv.rcv + i)
              BY <2>2, <3>3, <5>2 DEF ServerInv
            <6>5. f = Frame("sealed", conn, srv.rcv + (Len(c2s) + 1))
              <7>1. srv.rcv + Len(c2s) + 1 = srv.rcv + (Len(c2s) + 1)
                BY <1>2, <6>3
              <7> QED
                BY <7>1 DEF f
            <6>6. \A i \in DOMAIN c2s' : c2s'[i] = Frame("sealed", conn, srv.rcv + i)
              <7> SUFFICES ASSUME NEW i \in 1..(Len(c2s) + 1)
                           PROVE  Append(c2s, f)[i] = Frame("sealed", conn, srv.rcv + i)
                BY <4>1, <6>1, <6>3
              <7>1. CASE i = Len(c2s) + 1
                BY <7>1, <6>3, <6>5
              <7>2. CASE i # Len(c2s) + 1
                <8>1. i \in DOMAIN c2s
                  BY <7>2, <6>3
                <8> QED
                  BY <8>1, <6>3, <6>4
              <7> QED
                BY <7>1, <7>2
            <6> QED
              BY <5>2, <6>6, <2>2, <3>1 DEF ServerInv
          <5> QED
            BY <4>4, <5>1, <5>2 DEF Secured
        <4> QED
          BY <2>5, <3>3, <4>2, <4>3, <4>4, SentFrame
      <3> QED
        BY <3>1, <3>2, <3>3 DEF ServerInv
    <2>6. ASSUME SessionRead, ~past.intruded PROVE ServerInv'
      <3>1. /\ link = "up" /\ link' = link /\ c2s # <<>> /\ c2s' = Tail(c2s)
            /\ srv.st \in {"WaitClientHello", "WaitClientFinished", "Established"}
        <4>1. /\ link = "up" /\ link' = link /\ c2s # <<>> /\ c2s' = Tail(c2s) /\ srv.st # "Closed"
          BY <2>6 DEF SessionRead, SessionOpen
        <4> QED
          BY <4>1, <1>1 DEF SrvType, Sessions, Stages
      <3>p. /\ Head(c2s) = c2s[1] /\ 1 \in DOMAIN c2s /\ DOMAIN c2s = 1..Len(c2s) /\ Len(c2s) \in Nat
            /\ DOMAIN Tail(c2s) = 1..(Len(c2s) - 1)
            /\ \A i \in DOMAIN Tail(c2s) : Tail(c2s)[i] = c2s[i + 1]
        BY <1>2, <3>1, Popped
      <3>q. /\ ~srv.refused
            /\ srv.st \in {"WaitClientHello", "WaitClientFinished"} => srv.rcv = 0 /\ srv.snd = 0
            /\ srv.st \in {"WaitClientFinished", "Established"} => srv.key = conn
            /\ srv.st = "WaitClientHello" => c2s = <<Frame("hello", conn, 0)>>
            /\ srv.st = "WaitClientFinished" => c2s = <<Frame("finished", conn, 0)>>
            /\ srv.st = "Established" => \A i \in DOMAIN c2s : c2s[i] = Frame("sealed", conn, srv.rcv + i)
        BY <2>6, <3>1 DEF ServerInv
      <3>2. CASE srv.st = "WaitClientHello"
        <4>1. Head(c2s) = Frame("hello", conn, 0) /\ c2s' = <<>>
          BY <3>1, <3>2, <3>q, Single
        <4>2. Head(c2s).kind = "hello" /\ Head(c2s).key = conn
          BY <4>1 DEF Frame
        <4>3. srv' = [srv EXCEPT !.st = "WaitClientFinished", !.key = Head(c2s).key]
          BY <2>6, <3>2, <4>2 DEF SessionRead
        <4>4. /\ srv'.st = "WaitClientFinished" /\ srv'.key = conn /\ srv'.rcv = 0 /\ srv'.snd = 0
              /\ ~srv'.refused
          BY <4>2, <4>3, <3>2, <3>q, <1>1 DEF SrvType, Sessions
        <4> QED
          BY <2>2, <4>1, <4>4 DEF ServerInv
      <3>3. CASE srv.st = "WaitClientFinished"
        <4>1. Head(c2s) = Frame("finished", conn, 0) /\ c2s' = <<>>
          BY <3>1, <3>3, <3>q, Single
        <4>2. Head(c2s).kind = "finished" /\ Head(c2s).key = srv.key
          BY <4>1, <3>3, <3>q DEF Frame
        <4>3. srv' = [srv EXCEPT !.st = "Established"]
          BY <2>6, <3>3, <4>2 DEF SessionRead
        <4>4. srv'.st = "Established" /\ srv'.key = conn /\ ~srv'.refused
          BY <4>3, <3>3, <3>q, <1>1 DEF SrvType, Sessions
        <4>5. DOMAIN c2s' = {}
          BY <4>1
        <4> QED
          BY <2>2, <4>4, <4>5 DEF ServerInv
      <3>4. CASE srv.st = "Established"
        <4>1. Head(c2s) = Frame("sealed", conn, srv.rcv + 1)
          BY <3>4, <3>p, <3>q
        <4>2. Head(c2s).kind = "sealed" /\ Head(c2s).key = srv.key /\ Head(c2s).seq = srv.rcv + 1
          BY <4>1, <3>4, <3>q DEF Frame
        <4>3. srv' = [srv EXCEPT !.rcv = Head(c2s).seq]
          BY <2>6, <3>4, <4>2 DEF SessionRead
        <4>4. srv'.st = "Established" /\ srv'.key = conn /\ ~srv'.refused /\ srv'.rcv = srv.rcv + 1
          BY <4>2, <4>3, <3>4, <3>q, <1>1 DEF SrvType, Sessions
        <4>5. \A i \in DOMAIN c2s' : c2s'[i] = Frame("sealed", conn, (srv.rcv + 1) + i)
          <5> SUFFICES ASSUME NEW i \in DOMAIN Tail(c2s)
                       PROVE  Tail(c2s)[i] = Frame("sealed", conn, (srv.rcv + 1) + i)
            BY <3>1
          <5>0. i \in Nat /\ i + 1 \in DOMAIN c2s
            BY <3>p
          <5>1. i + 1 \in DOMAIN c2s /\ srv.rcv + (i + 1) = (srv.rcv + 1) + i
            BY <5>0, <1>2
          <5> QED
            BY <5>1, <3>p, <3>q, <3>4
        <4> QED
          BY <2>2, <4>4, <4>5 DEF ServerInv
      <3> QED
        BY <3>1, <3>2, <3>3, <3>4
    <2>7. ASSUME SessionDeliver, ~past.intruded PROVE ServerInv'
      <3>1. srv' = [srv EXCEPT !.snd = @ + 1] /\ srv.st = "Established" /\ UNCHANGED <<link, c2s>>
        BY <2>7 DEF SessionDeliver
      <3>2. srv'.st = "Established" /\ srv'.key = srv.key /\ srv'.refused = srv.refused /\ srv'.rcv = srv.rcv
        BY <3>1, <1>1 DEF SrvType, Sessions
      <3> QED
        BY <2>2, <2>7, <3>1, <3>2 DEF ServerInv
    <2>8. ASSUME SessionCloses, ~past.intruded PROVE ServerInv'
      <3>1. srv' = [srv EXCEPT !.st = "Closed"]
        BY <2>8 DEF SessionCloses
      <3>2. srv'.st = "Closed" /\ srv'.refused = srv.refused
        BY <3>1, <1>1 DEF SrvType, Sessions
      <3> QED
        BY <2>8, <3>2 DEF ServerInv
    <2>9. CASE Cut
      <3>1. link' = "cut" /\ UNCHANGED srv
        BY <2>9 DEF Cut
      <3> QED
        BY <2>2, <3>1 DEF ServerInv
    <2> QED
      BY <1>4, <2>2, <2>3, <2>4, <2>5, <2>6, <2>7, <2>8, <2>9, WireFrame DEF ServerInv, network
  <1> QED
    BY <1>3, <1>4

-----------------------------------------------------------------------------
(* A step that leaves both ends alone, and posts or takes only what is no  *)
(* frame of this connection.                                               *)
PlainQueue ==
    \/ ioq' = ioq
    \/ \E x \in Tasks : PlainTask(x) /\ ioq' = Append(ioq, x)
    \/ ioq # <<>> /\ PlainTask(Head(ioq)) /\ ioq' = Tail(ioq)

LEMMA PhaseKept ==
  ASSUME TransportType, PlainQueue, UNCHANGED <<conn, chan, srv, c2s, s2c>>
  PROVE  /\ BeforeHello => BeforeHello'
         /\ HelloQueued => HelloQueued'
         /\ HelloGone => HelloGone'
         /\ FinishedQueued => FinishedQueued'
         /\ FinishedGone => FinishedGone'
         /\ Secured => Secured'
  <1>1. ioq \in Seq(Tasks)
    BY DEF TransportType, QueueType
  <1>2. conn \in Nat /\ chan.snd \in Nat /\ srv.rcv + Len(c2s) \in Nat
    <2>1. conn \in Nat /\ chan.snd \in Nat /\ srv.rcv \in Nat
      BY DEF TransportType, CountType, ChanType, SrvType, Channels, Sessions
    <2>2. Len(c2s) \in Nat
      BY LenProperties DEF TransportType, QueueType
    <2> QED
      BY <2>1, <2>2
  <1>3. /\ AllAlien(ioq) => AllAlien(ioq')
        /\ PlainOnly(ioq) => PlainOnly(ioq')
    <2>1. \A x \in Tasks : PlainTask(x) => Alien(x.frame)
      BY DEF PlainTask, Alien
    <2> QED
      BY <1>1, <2>1, AlienKept DEF PlainQueue
  <1>4. \A f \in Frames : f.kind # "plain" /\ f.key = conn /\ Queued(ioq, f) => Queued(ioq', f)
    <2>1. \A x : PlainTask(x) => Alien(x.frame)
      BY DEF PlainTask, Alien
    <2> QED
      BY <1>1, <2>1, QueuedKept DEF PlainQueue
  <1>5. \A a, b, k \in Nat : Chain(ioq, a, b, k) => Chain(ioq', a, b, k)
    BY <1>1, ChainKept DEF PlainQueue
  <1>6. \A k \in {"hello", "finished"} :
           /\ Frame(k, conn, 0) \in Frames /\ Frame(k, conn, 0).kind # "plain"
           /\ Frame(k, conn, 0).key = conn
    BY <1>2, TaskTypes DEF Frame, Kinds
  <1>7. \A k \in {"hello", "finished"} : Queued(ioq, Frame(k, conn, 0)) => Queued(ioq', Frame(k, conn, 0))
    BY <1>4, <1>6
  <1>8. BeforeHello => BeforeHello'
    BY <1>3 DEF BeforeHello, AllAlien, Alien
  <1>9. HelloQueued => HelloQueued'
    <2>1. Queued(ioq', Frame("hello", conn, 0)) => Queued(ioq, Frame("hello", conn, 0))'
      BY DEF Queued, Alien
    <2> QED
      BY <2>1, <1>7 DEF HelloQueued, Unsent
  <1>10. HelloGone => HelloGone'
    BY <1>3 DEF HelloGone, Unsent, PlainOnly
  <1>11. FinishedQueued => FinishedQueued'
    <2>1. Queued(ioq', Frame("finished", conn, 0)) => Queued(ioq, Frame("finished", conn, 0))'
      BY DEF Queued, Alien
    <2> QED
      BY <2>1, <1>7 DEF FinishedQueued, Unsent
  <1>12. FinishedGone => FinishedGone'
    BY <1>3 DEF FinishedGone, Unsent, PlainOnly
  <1>13. Secured => Secured'
    BY <1>2, <1>5 DEF Secured
  <1> QED
    BY <1>8, <1>9, <1>10, <1>11, <1>12, <1>13

Phase == BeforeHello \/ HelloQueued \/ HelloGone \/ FinishedQueued \/ FinishedGone \/ Secured

(* The connection passes through its six phases in order, or is lost.      *)
LEMMA ClientStep ==
  ASSUME TransportType, OpenInv, WireInv, TaskInv, HelloInv, SpoilInv, ServerInv, ClientInv, [ConnectionNext]_connectionVars
  PROVE  ClientInv'
  <1> SUFFICES ASSUME open', link' = "up", ~past'.intruded PROVE Phase'
    BY DEF ClientInv, Phase
  <1>1. /\ PastType /\ ChanType /\ CountType /\ SrvType /\ PlaceType
        /\ ioq \in Seq(Tasks) /\ c2s \in Seq(Frames) /\ s2c \in Seq(Frames)
    BY DEF TransportType, QueueType
  <1>2. /\ conn \in Nat /\ chan.hello \in Nat /\ chan.snd \in Nat /\ chan.rcv \in Nat
        /\ srv.rcv \in Nat /\ srv.snd \in Nat /\ Len(c2s) \in Nat /\ Len(s2c) \in Nat
    BY <1>1, LenProperties DEF CountType, ChanType, SrvType, Channels, Sessions
  <1>3. ~LinkDown /\ ~Restart /\ ~CloseOnIo
    BY DEF LinkDown, Restart, CloseOnIo
  <1>4. conn' = conn /\ ~past.intruded
    BY <1>1, <1>3, ConnFrame, Intrusion
  <1>f. \A k \in Kinds : /\ Frame(k, conn, 0) \in Frames /\ Frame(k, conn, 0).kind = k
                         /\ Frame(k, conn, 0).key = conn
    <2>1. \A k \in Kinds : Frame(k, conn, 0) \in Frames
      BY <1>2, TaskTypes
    <2>2. \A k \in Kinds : Frame(k, conn, 0).kind = k /\ Frame(k, conn, 0).key = conn
      BY DEF Frame
    <2> QED
      BY <2>1, <2>2
  <1>k. open /\ link = "up" => Phase
    BY <1>4 DEF ClientInv, Phase
  <1>s. ASSUME UNCHANGED open, UNCHANGED chan, UNCHANGED network, PlainQueue PROVE Phase'
    <2>1. open /\ link = "up" /\ UNCHANGED <<srv, c2s, s2c>>
      BY <1>s DEF network
    <2> QED
      BY <1>s, <2>1, <1>4, <1>k, PhaseKept DEF Phase
  (* The threads of the program. *)
  <1>5. CASE DialOk
    <2>1. srv' = NewSession /\ UNCHANGED <<ioq, chan, c2s, s2c>> /\ pc["C"] = "dial"
      BY <1>5 DEF DialOk, channel
    <2>2. Without(ioq, "send") /\ c2s = <<>> /\ s2c = <<>> /\ chan.hello < conn
      BY <2>1 DEF OpenInv, WireInv, TaskInv, HelloInv
    <2>3. \A x \in Tasks : x.do # "send" => Alien(x.frame)
      BY DEF Tasks, NoFrame, Frame, Alien
    <2>4. AllAlien(ioq)
      BY <1>1, <2>2, <2>3, ElementOfSeq, LenProperties DEF AllAlien, Without
    <2>5. AllAlien(ioq)'
      BY <1>4, <2>1, <2>4 DEF AllAlien, Alien
    <2>6. srv'.st = "WaitClientHello"
      BY <2>1 DEF NewSession
    <2> QED
      BY <1>4, <2>1, <2>2, <2>5, <2>6 DEF Phase, BeforeHello
  <1>6. CASE Hello
    <2>1. /\ pc["C"] = "hello" /\ UNCHANGED open /\ UNCHANGED <<link, srv, c2s, s2c>>
          /\ open => ioq' = Append(ioq, Task("send", Frame("hello", conn, 0)))
      BY <1>6 DEF Hello, transport, network
    <2>2. BeforeHello
      <3>1. chan.hello < conn
        BY <2>1 DEF HelloInv
      <3> QED
        BY <1>2, <1>k, <2>1, <3>1
           DEF Phase, HelloQueued, HelloGone, FinishedQueued, FinishedGone, Secured
    <2>3. chan'.st = "HelloSent" /\ chan'.hello = conn /\ chan'.snd = 0 /\ chan'.rcv = 0
      BY <1>1, <1>6, ChanSteps
    <2>4. Queued(ioq', Frame("hello", conn, 0))
      BY <1>1, <1>f, <2>1, <2>2, QueuedKept DEF BeforeHello, Kinds
    <2>5. Queued(ioq, Frame("hello", conn, 0))'
      BY <1>4, <2>4 DEF Queued, Alien
    <2>6. HelloQueued'
      BY <1>4, <2>1, <2>2, <2>3, <2>5 DEF HelloQueued, BeforeHello, Unsent
    <2> QED
      BY <2>6 DEF Phase
  <1>7. CASE ConnectThread /\ ~Hello
    <2>1. CASE DialGivenUp \/ DialTimeout
      BY <2>1 DEF DialGivenUp, DialTimeout
    <2>2. CASE ConnectToServer \/ HandshakeDone \/ HandshakeTimeout \/ StartHeartbeat
      <3>1. UNCHANGED open /\ UNCHANGED chan /\ UNCHANGED network /\ ioq' = ioq
        BY <2>2 DEF ConnectToServer, HandshakeDone, HandshakeTimeout, StartHeartbeat, transport,
           channel
      <3> QED
        BY <3>1, <1>s DEF PlainQueue
    <2>3. CASE Close("C")
      <3>1. UNCHANGED open /\ UNCHANGED chan /\ UNCHANGED network /\ ioq' = ioq
        BY <2>3 DEF Close, CloseStart, JoinBegin, JoinEnd, CloseEnd, transport, channel
      <3> QED
        BY <3>1, <1>s DEF PlainQueue
    <2> QED
      BY <1>3, <1>7, <2>1, <2>2, <2>3 DEF ConnectThread
  <1>8. CASE HeartbeatThread \/ ProgramSends \/ ProgramThread \/ Disconnect \/ DisconnectThread
            \/ Silence
    <2>1. CASE Close("H") \/ Close("U")
      <3>1. UNCHANGED open /\ UNCHANGED chan /\ UNCHANGED network /\ ioq' = ioq
        BY <2>1 DEF Close, CloseStart, JoinBegin, JoinEnd, CloseEnd, transport, channel
      <3> QED
        BY <3>1, <1>s DEF PlainQueue
    <2>2. CASE HeartbeatRound \/ Check("H") \/ Check("B") \/ ProgramSends \/ Disconnect
               \/ HeartbeatJoined \/ Silence
      <3>1. UNCHANGED open /\ UNCHANGED chan /\ UNCHANGED network /\ ioq' = ioq
        BY <2>2 DEF HeartbeatRound, Check, ProgramSends, Disconnect, HeartbeatJoined, Silence,
           transport, channel
      <3> QED
        BY <3>1, <1>s DEF PlainQueue
    <2>3. ASSUME NEW t \in {"H", "B"}, Post(t) PROVE Phase'
      <3>1. /\ UNCHANGED open /\ UNCHANGED chan /\ UNCHANGED network
            /\ ioq' = ioq \/ ioq' = Append(ioq, post[t])
        BY <2>3 DEF Post, transport, channel
      <3>2. post[t] \in Posts
        BY DEF TransportType, PostType
      <3>3. \A x \in Posts : x \in Tasks /\ PlainTask(x)
        <4>1. \A x \in Posts : PlainTask(x)
          BY DEF Posts, NoTask, Task, NoFrame, Frame, PlainTask
        <4> QED
          BY <4>1, TaskTypes
      <3> QED
        BY <3>1, <3>2, <3>3, <1>s DEF PlainQueue
    <2> QED
      BY <1>8, <2>1, <2>2, <2>3 DEF HeartbeatThread, ProgramThread, DisconnectThread
  (* The tasks of the I/O thread. *)
  <1>9. CASE TaskDial \/ TaskEncrypt
    <2>1. /\ UNCHANGED open /\ UNCHANGED chan /\ UNCHANGED network
          /\ ioq # <<>> /\ ioq' = Tail(ioq) /\ Head(ioq).do \in {"dial", "encrypt"}
      BY <1>9 DEF TaskDial, TaskEncrypt, NextTask, transport, channel
    <2>2. Head(ioq) \in Tasks
      BY <1>1, <2>1, Popped
    <2>3. PlainTask(Head(ioq))
      BY <2>1, <2>2 DEF Tasks, PlainTask, NoFrame, Frame
    <2> QED
      BY <2>1, <2>3, <1>s DEF PlainQueue
  <1>10. CASE DialFail \/ DisconnectOnIo \/ IoExit
    <2>1. UNCHANGED open /\ UNCHANGED chan /\ UNCHANGED network /\ ioq' = ioq
      BY <1>3, <1>10 DEF DialFail, DisconnectOnIo, IoExit, transport, channel
    <2> QED
      BY <2>1, <1>s DEF PlainQueue
  <1>11. CASE TaskDrain \/ ReadEnd \/ HeartbeatJoinedOnIo
    BY <1>3, <1>11 DEF TaskDrain, ReadEnd, HeartbeatJoinedOnIo
  <1>12. CASE TaskSend
    <2>1. UNCHANGED open /\ UNCHANGED chan /\ UNCHANGED <<link, srv, s2c>>
      BY <1>12 DEF TaskSend, transport, channel
    <2>2. ioq' = Tail(ioq) /\ c2s' = Append(c2s, Head(ioq).frame) /\ ioq # <<>>
      BY <1>12, <2>1, SentFrame
    <2>3. CASE HelloQueued /\ PlainOnly(Tail(ioq))
      <3>1. PlainOnly(ioq)'
        BY <2>2, <2>3 DEF PlainOnly
      <3>2. HelloGone'
        BY <1>4, <2>1, <2>3, <3>1 DEF HelloQueued, HelloGone, Unsent
      <3> QED
        BY <3>2 DEF Phase
    <2>4. CASE FinishedQueued /\ PlainOnly(Tail(ioq))
      <3>1. PlainOnly(ioq)'
        BY <2>2, <2>4 DEF PlainOnly
      <3>2. FinishedGone'
        BY <1>4, <2>1, <2>4, <3>1 DEF FinishedQueued, FinishedGone, Unsent
      <3> QED
        BY <3>2 DEF Phase
    <2>5. CASE /\ Secured
               /\ srv.st = "Established" => Chain(Tail(ioq), srv.rcv + Len(c2s) + 1, chan.snd, conn)
      <3>1. Len(c2s') = Len(c2s) + 1
        <4>1. Head(ioq) \in Tasks
          BY <1>1, <2>2, Popped
        <4>2. Head(ioq).frame \in Frames
          BY <4>1 DEF Tasks
        <4> QED
          BY <1>1, <2>2, <4>2, Appended
      <3>2. srv.rcv + Len(c2s') = srv.rcv + Len(c2s) + 1
        <4>1. srv.rcv \in Nat /\ Len(c2s) \in Nat
          BY <1>2
        <4> QED
          BY <3>1, <4>1
      <3>3. Secured'
        BY <1>4, <2>1, <2>2, <2>5, <3>2 DEF Secured
      <3> QED
        BY <3>3 DEF Phase
    <2> QED
      BY <1>12, <2>1, <2>3, <2>4, <2>5, SentFrame
  <1>13. CASE Seal
    <2>1. UNCHANGED open /\ UNCHANGED network /\ ioq' = ioq /\ io = "sealing" /\ UNCHANGED <<link, srv, c2s, s2c>>
      BY <1>13 DEF Seal, transport, network
    <2>2. CASE Established
      BY <1>1, <1>13, <2>1, <2>2, <1>s, ChanSteps DEF PlainQueue
    <2>3. CASE ~Established
      <3>1. chan.hello # conn
        BY <1>4, <2>1, <2>3 DEF SpoilInv
      <3>2. BeforeHello
        BY <1>k, <2>1, <3>1
           DEF Phase, HelloQueued, HelloGone, FinishedQueued, FinishedGone, Secured
      <3>3. chan'.hello = chan.hello
        BY <1>1, <1>13, ChanSteps
      <3>4. AllAlien(ioq)'
        BY <1>4, <2>1, <3>2 DEF BeforeHello, AllAlien, Alien
      <3>5. BeforeHello'
        BY <1>4, <2>1, <3>2, <3>3, <3>4 DEF BeforeHello
      <3> QED
        BY <3>5 DEF Phase
    <2> QED
      BY <2>2, <2>3
  <1>14. CASE Number
    <2>1. /\ UNCHANGED open /\ UNCHANGED <<link, srv, c2s, s2c>> /\ io = "numbering"
          /\ ioq' = Append(ioq, Task("send", Frame("sealed", chan.key, chan.snd + 1)))
      BY <1>14 DEF Number, transport, network
    <2>2. /\ chan'.st = chan.st /\ chan'.hello = chan.hello /\ chan'.key = chan.key
          /\ chan'.rcv = chan.rcv /\ chan'.snd = chan.snd + 1
      BY <1>1, <1>14, ChanSteps
    <2>3. CASE BeforeHello
      <3> DEFINE x == Task("send", Frame("sealed", chan.key, chan.snd + 1))
      <3>1. chan.key # conn
        BY <1>2, <2>3 DEF BeforeHello, HelloInv
      <3>2. x \in Tasks /\ Alien(x.frame)
        <4>1. Frame("sealed", chan.key, chan.snd + 1) \in Frames
          <5>1. chan.key \in Nat /\ chan.snd + 1 \in Nat
            BY <1>1, <1>2 DEF ChanType, Channels
          <5> QED
            BY <5>1, TaskTypes DEF Kinds
        <4>2. x.frame = Frame("sealed", chan.key, chan.snd + 1)
          BY DEF Task
        <4>3. Frame("sealed", chan.key, chan.snd + 1).key = chan.key
          BY DEF Frame
        <4> HIDE DEF x
        <4>4. Alien(x.frame)
          BY <3>1, <4>2, <4>3 DEF Alien
        <4>5. x \in Tasks
          BY <4>1, TaskTypes DEF x
        <4> QED
          BY <4>4, <4>5
      <3> HIDE DEF x
      <3>3. AllAlien(Append(ioq, x))
        BY <1>1, <2>3, <3>2, AlienKept DEF BeforeHello
      <3>4. AllAlien(ioq)'
        BY <1>4, <2>1, <3>3 DEF AllAlien, Alien, x
      <3>5. BeforeHello'
        BY <1>4, <2>1, <2>2, <2>3, <3>4 DEF BeforeHello
      <3> QED
        BY <3>5 DEF Phase
    <2>4. CASE ~BeforeHello
      <3>1. Phase /\ Established
        <4>1. Phase
          BY <2>1, <1>k
        <4>2. chan.hello = conn
          BY <4>1, <2>4 DEF Phase, HelloQueued, HelloGone, FinishedQueued, FinishedGone, Secured
        <4> QED
          BY <4>1, <4>2, <1>4, <2>1 DEF SpoilInv
      <3>2. Secured
        BY <3>1, <2>4 DEF Phase, HelloQueued, HelloGone, FinishedQueued, FinishedGone, Established
      <3>3. srv.st = "Established" => Chain(ioq', srv.rcv + Len(c2s), chan.snd + 1, conn)
        <4>1. srv.rcv + Len(c2s) \in Nat /\ chan.key = conn
          BY <1>2, <3>2 DEF Secured
        <4> QED
          BY <1>1, <1>2, <2>1, <3>2, <4>1, ChainKept DEF Secured
      <3>4. Secured'
        BY <1>4, <2>1, <2>2, <3>2, <3>3 DEF Secured
      <3> QED
        BY <3>4 DEF Phase
    <2> QED
      BY <2>3, <2>4
  (* What the I/O thread reads. *)
  <1>15. CASE ReadServerHello
    <2>1. /\ CanRead("serverHello") /\ s2c' = Tail(s2c) /\ UNCHANGED <<link, srv, c2s>>
      BY <1>15 DEF ReadServerHello
    <2>2. /\ open /\ HelloGone /\ s2c = <<Frame("serverHello", conn, 0)>> /\ Head(s2c).key = conn
      BY <1>4, <2>1, ReadsAgree
    <2>3. /\ chan'.hello = conn /\ chan'.st = "FinishedSent" /\ chan'.key = conn
          /\ chan'.snd = 0 /\ chan'.rcv = 0
      BY <1>1, <1>15, <2>2, ChanSteps DEF HelloGone, Unsent
    <2>4. ioq' = Append(ioq, Task("send", Frame("finished", conn, 0)))
      BY <1>15, <2>2 DEF ReadServerHello, HelloGone
    <2>5. Queued(ioq', Frame("finished", conn, 0))
      <3>1. AllAlien(ioq)
        BY <2>2 DEF HelloGone, PlainOnly, AllAlien, Alien
      <3> QED
        BY <1>1, <1>f, <2>4, <3>1, QueuedKept DEF Kinds
    <2>6. Queued(ioq, Frame("finished", conn, 0))'
      BY <1>4, <2>5 DEF Queued, Alien
    <2>7. s2c' = <<>> /\ s2c # <<>>
      BY <2>1, <2>2, <1>f, Single DEF Kinds
    <2>8. (srv.st = "WaitClientFinished" /\ c2s = <<>>) \/ srv.st = "Closed"
      BY <2>2, <2>7 DEF HelloGone
    <2>9. FinishedQueued'
      BY <1>4, <2>1, <2>3, <2>6, <2>7, <2>8 DEF FinishedQueued, Unsent
    <2> QED
      BY <2>9 DEF Phase
  <1>16. CASE ReadServerFinished
    <2>1. /\ CanRead("serverFinished") /\ s2c' = Tail(s2c) /\ UNCHANGED <<link, srv, c2s>>
      BY <1>16 DEF ReadServerFinished
    <2>2. /\ open /\ FinishedGone /\ s2c = <<Frame("serverFinished", conn, 0)>> /\ Head(s2c).key = conn
      BY <1>4, <2>1, ReadsAgree
    <2>3. /\ chan'.hello = conn /\ chan'.st = "Established" /\ chan'.key = conn
          /\ chan'.snd = 0 /\ chan'.rcv = 0
      BY <1>1, <1>16, <2>2, ChanSteps DEF FinishedGone, Unsent
    <2>4. ioq' = ioq
      BY <1>16, <2>2 DEF ReadServerFinished, FinishedGone
    <2>5. s2c' = <<>> /\ s2c # <<>>
      BY <2>1, <2>2, <1>f, Single DEF Kinds
    <2>6. srv.st = "Closed" \/ (srv.st = "Established" /\ srv.rcv = 0 /\ srv.snd = 0 /\ c2s = <<>>)
      BY <2>2, <2>5 DEF FinishedGone
    <2>7. Chain(ioq, 0, 0, conn)
      BY <1>1, <2>2, PlainChain DEF FinishedGone
    <2>8. Len(<<>>) = 0 /\ DOMAIN <<>> = {}
      BY EmptySeq
    <2>9. srv.st = "Established" =>
             srv.snd = 0 + Len(s2c') /\ Chain(ioq, srv.rcv + Len(c2s), 0, conn)
      BY <2>5, <2>6, <2>7, <2>8
    <2>10. Secured'
      BY <1>4, <2>1, <2>3, <2>4, <2>5, <2>6, <2>8, <2>9 DEF Secured
    <2> QED
      BY <2>10 DEF Phase
  <1>17. CASE ReadSealed
    <2>1. /\ CanRead("sealed") /\ s2c' = Tail(s2c) /\ UNCHANGED <<link, srv, c2s>>
      BY <1>17 DEF ReadSealed
    <2>2. /\ open /\ Secured /\ s2c # <<>> /\ Head(s2c).key = conn /\ Head(s2c).seq = chan.rcv + 1
      BY <1>4, <2>1, ReadsAgree
    <2>3. /\ chan'.hello = conn /\ chan'.st = "Established" /\ chan'.key = conn
          /\ chan'.snd = chan.snd /\ chan'.rcv = chan.rcv + 1
      BY <1>1, <1>17, <2>2, ChanSteps DEF Secured, Established
    <2>4. ioq' = ioq
      BY <1>17, <2>2 DEF ReadSealed, Secured, Established
    <2>5. /\ DOMAIN s2c = 1..Len(s2c) /\ Len(Tail(s2c)) = Len(s2c) - 1
          /\ DOMAIN Tail(s2c) = 1..(Len(s2c) - 1)
          /\ \A i \in DOMAIN Tail(s2c) : Tail(s2c)[i] = s2c[i + 1]
      BY <1>1, <2>2, Popped
    <2>6. \A i \in DOMAIN s2c' : s2c'[i] = Frame("sealed", conn, (chan.rcv + 1) + i)
      <3> SUFFICES ASSUME NEW i \in DOMAIN Tail(s2c)
                   PROVE  Tail(s2c)[i] = Frame("sealed", conn, (chan.rcv + 1) + i)
        BY <2>1
      <3>0. i \in Nat /\ i + 1 \in DOMAIN s2c
        <4>1. Len(s2c) \in Nat
          BY <1>2
        <4> QED
          BY <2>5, <4>1
      <3>1. chan.rcv + (i + 1) = (chan.rcv + 1) + i
        <4>1. chan.rcv \in Nat /\ i \in Nat
          BY <3>0, <1>2
        <4> QED
          BY <4>1
      <3> QED
        BY <3>0, <3>1, <2>2, <2>5 DEF Secured
    <2>7. chan.rcv + Len(s2c) = (chan.rcv + 1) + Len(s2c')
      <3>1. chan.rcv \in Nat /\ Len(s2c) \in Nat /\ Len(s2c') = Len(s2c) - 1
        BY <1>2, <2>1, <2>5
      <3> QED
        BY <3>1
    <2>8. Secured'
      BY <1>4, <2>1, <2>2, <2>3, <2>4, <2>6, <2>7 DEF Secured
    <2> QED
      BY <2>8 DEF Phase
  (* The server. *)
  <1>18. CASE SessionRead
    <2>1. /\ UNCHANGED <<open, ioq, chan>> /\ link = "up" /\ c2s # <<>> /\ c2s' = Tail(c2s) /\ srv.st # "Closed"
      BY <1>18 DEF SessionRead, SessionOpen, transport, channel
    <2>2. Phase
      BY <2>1, <1>k
    <2>3. CASE HelloGone
      <3>1. srv.st = "WaitClientHello" /\ s2c = <<>>
        BY <2>1, <2>3 DEF HelloGone
      <3>2. c2s = <<Frame("hello", conn, 0)>>
        BY <1>4, <2>1, <3>1 DEF ServerInv
      <3>3. Head(c2s) = Frame("hello", conn, 0) /\ c2s' = <<>>
        BY <2>1, <3>2, <1>f, Single DEF Kinds
      <3>4. Head(c2s).kind = "hello" /\ Head(c2s).key = conn
        BY <3>3 DEF Frame
      <3>5. /\ srv' = [srv EXCEPT !.st = "WaitClientFinished", !.key = Head(c2s).key]
            /\ s2c' = Append(s2c, Frame("serverHello", Head(c2s).key, 0))
        BY <1>18, <3>1, <3>4 DEF SessionRead
      <3>6. srv'.st = "WaitClientFinished" /\ s2c' = <<Frame("serverHello", conn, 0)>>
        <4>1. srv'.st = "WaitClientFinished"
          BY <1>1, <3>5 DEF SrvType, Sessions
        <4>2. s2c' = <<Frame("serverHello", conn, 0)>>
          BY <3>1, <3>4, <3>5, <1>f, Single DEF Kinds
        <4> QED
          BY <4>1, <4>2
      <3>7. HelloGone'
        BY <1>4, <2>1, <2>3, <3>3, <3>6 DEF HelloGone, Unsent, PlainOnly
      <3> QED
        BY <3>7 DEF Phase
    <2>4. CASE FinishedGone
      <3>1. srv.st = "WaitClientFinished" /\ s2c = <<>>
        BY <2>1, <2>4 DEF FinishedGone
      <3>2. c2s = <<Frame("finished", conn, 0)>> /\ srv.key = conn /\ srv.rcv = 0 /\ srv.snd = 0
        BY <1>4, <2>1, <3>1 DEF ServerInv
      <3>3. Head(c2s) = Frame("finished", conn, 0) /\ c2s' = <<>>
        BY <2>1, <3>2, <1>f, Single DEF Kinds
      <3>4. Head(c2s).kind = "finished" /\ Head(c2s).key = conn
        BY <3>3 DEF Frame
      <3>5. /\ srv' = [srv EXCEPT !.st = "Established"]
            /\ s2c' = Append(s2c, Frame("serverFinished", Head(c2s).key, 0))
        BY <1>18, <3>1, <3>2, <3>4 DEF SessionRead
      <3>6. /\ srv'.st = "Established" /\ srv'.rcv = 0 /\ srv'.snd = 0
            /\ s2c' = <<Frame("serverFinished", conn, 0)>>
        <4>1. srv'.st = "Established" /\ srv'.rcv = 0 /\ srv'.snd = 0
          BY <1>1, <3>2, <3>5 DEF SrvType, Sessions
        <4>2. s2c' = <<Frame("serverFinished", conn, 0)>>
          BY <3>1, <3>4, <3>5, <1>f, Single DEF Kinds
        <4> QED
          BY <4>1, <4>2
      <3>7. FinishedGone'
        BY <1>4, <2>1, <2>4, <3>3, <3>6 DEF FinishedGone, Unsent, PlainOnly
      <3> QED
        BY <3>7 DEF Phase
    <2>5. CASE Secured
      <3>1. srv.st = "Established"
        BY <2>1, <2>5 DEF Secured
      <3>2. srv.key = conn /\ \A i \in DOMAIN c2s : c2s[i] = Frame("sealed", conn, srv.rcv + i)
        BY <1>4, <2>1, <3>1 DEF ServerInv
      <3>3. Head(c2s) = c2s[1] /\ 1 \in DOMAIN c2s /\ Len(Tail(c2s)) = Len(c2s) - 1
        BY <1>1, <2>1, Popped
      <3>4. Head(c2s).kind = "sealed" /\ Head(c2s).key = conn /\ Head(c2s).seq = srv.rcv + 1
        BY <3>2, <3>3 DEF Frame
      <3>5. srv' = [srv EXCEPT !.rcv = Head(c2s).seq] /\ s2c' = s2c
        BY <1>18, <3>1, <3>2, <3>4 DEF SessionRead
      <3>6. srv'.st = "Established" /\ srv'.rcv = srv.rcv + 1 /\ srv'.snd = srv.snd
        BY <1>1, <3>1, <3>4, <3>5 DEF SrvType, Sessions
      <3>7. srv'.rcv + Len(c2s') = srv.rcv + Len(c2s)
        BY <1>2, <2>1, <3>3, <3>6
      <3>8. Secured'
        BY <1>4, <2>1, <2>5, <3>1, <3>5, <3>6, <3>7 DEF Secured
      <3> QED
        BY <3>8 DEF Phase
    <2> QED
      BY <2>1, <2>2, <2>3, <2>4, <2>5 DEF Phase, BeforeHello, HelloQueued, FinishedQueued
  <1>19. CASE SessionDeliver
    <2>1. /\ UNCHANGED <<open, ioq, chan, c2s>> /\ link = "up" /\ srv.st = "Established" /\ srv.rcv > 0
          /\ srv' = [srv EXCEPT !.snd = @ + 1]
          /\ s2c' = Append(s2c, Frame("sealed", srv.key, srv.snd + 1))
      BY <1>19 DEF SessionDeliver, SessionOpen, transport, channel
    <2>2. Secured
      BY <1>2, <1>k, <2>1 DEF Phase, BeforeHello, HelloQueued, HelloGone, FinishedQueued, FinishedGone
    <2>3. srv.key = conn
      BY <1>4, <2>1 DEF ServerInv
    <2>4. srv'.st = "Established" /\ srv'.rcv = srv.rcv /\ srv'.snd = srv.snd + 1
      BY <1>1, <2>1 DEF SrvType, Sessions
    <2> DEFINE f == Frame("sealed", conn, srv.snd + 1)
    <2>5. f \in Frames
      BY <1>2, TaskTypes DEF Kinds
    <2>6. s2c' = Append(s2c, f)
      BY <2>1, <2>3
    <2>7. f = Frame("sealed", conn, chan.rcv + (Len(s2c) + 1))
      <3>1. srv.snd + 1 = chan.rcv + (Len(s2c) + 1)
        <4>1. srv.snd = chan.rcv + Len(s2c) /\ chan.rcv \in Nat /\ Len(s2c) \in Nat
          BY <1>2, <2>1, <2>2 DEF Secured
        <4> QED
          BY <4>1
      <3> QED
        BY <3>1
    <2> HIDE DEF f
    <2>8. /\ DOMAIN s2c' = 1..(Len(s2c) + 1) /\ DOMAIN s2c = 1..Len(s2c) /\ Len(s2c') = Len(s2c) + 1
          /\ \A i \in DOMAIN s2c : s2c'[i] = s2c[i]
          /\ s2c'[Len(s2c) + 1] = f
      BY <1>1, <2>5, <2>6, Appended
    <2>9. \A i \in DOMAIN s2c' : s2c'[i] = Frame("sealed", conn, chan.rcv + i)
      <3> SUFFICES ASSUME NEW i \in 1..(Len(s2c) + 1) PROVE s2c'[i] = Frame("sealed", conn, chan.rcv + i)
        BY <2>8
      <3>1. CASE i = Len(s2c) + 1
        BY <3>1, <2>7, <2>8
      <3>2. CASE i # Len(s2c) + 1
        <4>1. i \in DOMAIN s2c
          BY <3>2, <1>2, <2>8
        <4> QED
          BY <4>1, <2>2, <2>8 DEF Secured
      <3> QED
        BY <3>1, <3>2
    <2>10. srv'.snd = chan.rcv + Len(s2c')
      <3>1. /\ srv.snd = chan.rcv + Len(s2c) /\ chan.rcv \in Nat /\ Len(s2c) \in Nat
            /\ Len(s2c') = Len(s2c) + 1 /\ srv'.snd = srv.snd + 1
        BY <1>2, <2>1, <2>2, <2>4, <2>8 DEF Secured
      <3> QED
        BY <3>1
    <2>11. Secured'
      BY <1>4, <2>1, <2>2, <2>4, <2>9, <2>10 DEF Secured
    <2> QED
      BY <2>11 DEF Phase
  <1>20. CASE SessionCloses
    <2>1. /\ UNCHANGED <<open, ioq, chan, c2s, link>> /\ srv.st # "Closed"
          /\ srv' = [srv EXCEPT !.st = "Closed"] /\ s2c' \in {s2c, <<>>}
      BY <1>20 DEF SessionCloses, SessionOpen, transport, channel
    <2>2. srv'.st = "Closed"
      BY <1>1, <2>1 DEF SrvType, Sessions
    <2>3. Phase
      BY <2>1, <1>k
    <2>4. BeforeHello => BeforeHello'
      BY <1>4, <2>1, <2>2 DEF BeforeHello, AllAlien, Alien
    <2>5. HelloQueued => HelloQueued'
      BY <1>4, <2>1, <2>2 DEF HelloQueued, Queued, Alien, Unsent
    <2>6. HelloGone => HelloGone'
      BY <1>4, <2>1, <2>2 DEF HelloGone, Unsent, PlainOnly
    <2>7. FinishedQueued => FinishedQueued'
      BY <1>4, <2>1, <2>2 DEF FinishedQueued, Queued, Alien, Unsent
    <2>8. FinishedGone => FinishedGone'
      BY <1>4, <2>1, <2>2 DEF FinishedGone, Unsent, PlainOnly
    <2>9. Secured => Secured'
      <3>1. DOMAIN <<>> = {}
        BY EmptySeq
      <3> QED
        BY <1>4, <2>1, <2>2, <3>1 DEF Secured
    <2> QED
      BY <2>3, <2>4, <2>5, <2>6, <2>7, <2>8, <2>9 DEF Phase
  <1>21. CASE Cut
    BY <1>21 DEF Cut
  <1>22. CASE UNCHANGED connectionVars
    <2>1. UNCHANGED open /\ UNCHANGED chan /\ UNCHANGED network /\ ioq' = ioq
      BY <1>22 DEF connectionVars, transport, channel
    <2> QED
      BY <2>1, <1>s DEF PlainQueue
  <1> QED
    BY <1>5, <1>6, <1>7, <1>8, <1>9, <1>10, <1>11, <1>12, <1>13, <1>14, <1>15, <1>16, <1>17,
       <1>18, <1>19, <1>20, <1>21, <1>22 DEF ConnectionNext, IoThread

-----------------------------------------------------------------------------
(* The inductive invariant.                                                *)
LEMMA Start_ConnectionInv ==
  ASSUME ConnectionInit PROVE ConnectionInv
  <1>1. TransportType
    BY TransportTypeInit
  <1>2. /\ ~open /\ thread = "none" /\ sock = "none" /\ pc["C"] = "idle" /\ link = "none"
        /\ c2s = <<>> /\ s2c = <<>> /\ ioq = <<>> /\ conn = 0 /\ io = "idle"
        /\ chan = Fresh /\ srv = NoSession /\ ~genOk
    BY DEF ConnectionInit
  <1>3. DOMAIN ioq = {}
    BY <1>2, EmptySeq
  <1>4. chan.st = "NotStarted" /\ chan.hello = 0 /\ chan.key = 0
    BY <1>2 DEF Fresh
  <1>5. ~srv.refused
    BY <1>2, FreshType DEF NoSession, NewSession
  <1>6. OpenInv /\ WireInv
    BY <1>2 DEF OpenInv, WireInv, Opening
  <1>7. TaskInv
    BY <1>2, <1>3 DEF TaskInv, Without, OneDial, DrainsFirst
  <1>8. HelloInv /\ SpoilInv
    BY <1>2, <1>4 DEF HelloInv, SpoilInv
  <1>9. ServerInv
    BY <1>2, <1>5 DEF ServerInv
  <1>10. ClientInv
    BY <1>2 DEF ClientInv
  <1> QED
    BY <1>1, <1>6, <1>7, <1>8, <1>9, <1>10 DEF ConnectionInv

LEMMA Step_ConnectionInv ==
  ASSUME ConnectionInv, [ConnectionNext]_connectionVars PROVE ConnectionInv'
  <1> USE DEF ConnectionInv
  <1>1. TransportType'
    BY TransportTypeStep
  <1>2. OpenInv' /\ WireInv'
    BY OpenStep, WireStep
  <1>3. TaskInv'
    BY TaskStep
  <1>4. HelloInv' /\ SpoilInv'
    BY HelloStep, SpoilStep
  <1>5. ServerInv'
    BY ServerStep
  <1>6. ClientInv'
    BY ClientStep
  <1> QED
    BY <1>1, <1>2, <1>3, <1>4, <1>5, <1>6

LEMMA Always_ConnectionInv ==
  ConnectionSpec => []ConnectionInv
  <1>1. ConnectionInit => ConnectionInv
    BY Start_ConnectionInv
  <1>2. ConnectionInv /\ [ConnectionNext]_connectionVars => ConnectionInv'
    BY Step_ConnectionInv
  <1> QED
    BY <1>1, <1>2, PTL DEF ConnectionSpec

LEMMA ImpliesTypeOK ==
  ASSUME ConnectionInv PROVE ConnectionTypeOK
  <1>1. /\ CountType /\ FlagType /\ StageType /\ PlaceType /\ OpenInv
        /\ ioq \in Seq(Tasks) /\ c2s \in Seq(Frames) /\ s2c \in Seq(Frames)
        /\ \A i \in DOMAIN s2c : s2c[i].kind # "plain"
    BY DEF ConnectionInv, TransportType, QueueType
  <1>2. /\ conn \in 0..MaxConns /\ told \in 0..MaxConns
        /\ {open, genOk, notified, hbRunning, stale} \subseteq BOOLEAN
    BY <1>1 DEF CountType, FlagType
  <1>3. \A i \in DOMAIN ioq : ioq[i].do \in {"dial", "drain", "send", "encrypt"}
    <2>1. \A i \in DOMAIN ioq : ioq[i] \in Tasks
      BY <1>1, ElementOfSeq, LenProperties
    <2> QED
      BY <2>1 DEF Tasks
  <1>4. /\ \A i \in DOMAIN c2s : c2s[i] \in Frames
        /\ \A i \in DOMAIN s2c : s2c[i] \in Frames
    BY <1>1, ElementOfSeq, LenProperties
  <1>5. /\ \A i \in DOMAIN c2s : c2s[i].kind \in Kinds
        /\ \A i \in DOMAIN s2c : s2c[i].kind \in Kinds \ {"plain"}
    BY <1>1, <1>4 DEF Frames
  <1>6. open /\ ~Dead => thread = "on" /\ sock = "open" /\ genOk
    BY <1>1 DEF OpenInv
  <1> QED
    BY <1>1, <1>2, <1>3, <1>5, <1>6 DEF ConnectionTypeOK, StageType, PlaceType

LEMMA ImpliesRefused ==
  ASSUME ConnectionInv PROVE RefusedOnlyIfIntruded
  BY DEF ConnectionInv, ServerInv, SpoilInv, RefusedOnlyIfIntruded

(* In the last phase, the frames on the wire continue with those still     *)
(* queued for the I/O thread: what lies between them is in the clear.      *)
LEMMA ImpliesInStep ==
  ASSUME ConnectionInv PROVE InStep
  <1> SUFFICES ASSUME open, link = "up", Established, srv.st = "Established", chan.hello = conn,
                      ~past.intruded
               PROVE  /\ chan.key = srv.key
                      /\ SealedNumberedFrom(c2s \o Posted, srv.rcv, chan.snd, srv.key)
                      /\ NumberedFrom(s2c, chan.rcv, srv.snd, srv.key)
    BY DEF InStep
  <1>1. Secured
    <2>1. conn \in Nat
      BY DEF ConnectionInv, TransportType, CountType
    <2> QED
      BY <2>1 DEF ConnectionInv, ClientInv, BeforeHello, HelloQueued, HelloGone, FinishedQueued,
         FinishedGone,
         Established
  <1>2. /\ chan.key = conn /\ srv.key = conn
        /\ \A i \in DOMAIN s2c : s2c[i] = Frame("sealed", conn, chan.rcv + i)
        /\ srv.snd = chan.rcv + Len(s2c)
        /\ Chain(ioq, srv.rcv + Len(c2s), chan.snd, conn)
        /\ \A i \in DOMAIN c2s : c2s[i] = Frame("sealed", conn, srv.rcv + i)
    BY <1>1 DEF Secured, ConnectionInv, ServerInv
  <1>3. ioq \in Seq(Tasks) /\ c2s \in Seq(Frames) /\ s2c \in Seq(Frames)
    BY DEF ConnectionInv, TransportType, QueueType
  <1>4. conn \in Nat /\ chan.rcv \in Nat /\ chan.snd \in Nat /\ srv.rcv \in Nat
    BY DEF ConnectionInv, TransportType, CountType, ChanType, SrvType, Channels, Sessions
  <1>5. NumberedFrom(s2c, chan.rcv, srv.snd, srv.key)
    <2>1. Len(s2c) \in Nat /\ s2c \in [1..Len(s2c) -> Frames] /\ DOMAIN s2c = 1..Len(s2c)
      BY <1>3, LenProperties
    <2>2. srv.snd - chan.rcv = Len(s2c)
      <3>1. srv.snd = chan.rcv + Len(s2c) /\ chan.rcv \in Nat /\ Len(s2c) \in Nat
        BY <1>2, <1>4, <2>1
      <3> QED
        BY <3>1
    <2>3. s2c = [i \in 1..Len(s2c) |-> Frame("sealed", conn, chan.rcv + i)]
      BY <1>2, <2>1
    <2> QED
      BY <1>2, <2>2, <2>3 DEF NumberedFrom
  <1> DEFINE m == Len(c2s)
             n == Len(ioq)
             r == c2s \o Posted
  <1>6. m \in Nat /\ n \in Nat /\ DOMAIN c2s = 1..m /\ DOMAIN ioq = 1..n
    BY <1>3, LenProperties
  <1>7. /\ Posted \in Seq(Frames) /\ Len(Posted) = n
        /\ \A i \in 1..n : Posted[i] = ioq[i].frame
    <2>1. \A i \in 1..n : ioq[i] \in Tasks
      BY <1>3, ElementOfSeq
    <2>2. \A i \in 1..n : ioq[i].frame \in Frames
      BY <2>1 DEF Tasks
    <2>3. /\ DOMAIN Posted = 1..n /\ Posted \in [1..n -> Frames]
          /\ \A i \in 1..n : Posted[i] = ioq[i].frame
      BY <1>6, <2>2 DEF Posted
    <2>4. Posted \in Seq(Frames)
      BY <1>6, <2>3, SeqDef
    <2>5. Len(Posted) \in Nat /\ DOMAIN Posted = 1..Len(Posted)
      BY <2>4, LenProperties
    <2>6. \A a, b \in Nat : 1..a = 1..b => a = b
      <3> SUFFICES ASSUME NEW a \in Nat, NEW b \in Nat, 1..a = 1..b PROVE a = b
        OBVIOUS
      <3>1. \A i \in Int : i \in 1..a <=> i \in 1..b
        OBVIOUS
      <3>2. (a = 0 \/ a \in 1..a) /\ (b = 0 \/ b \in 1..b)
        OBVIOUS
      <3> QED
        BY <3>1, <3>2
    <2> QED
      BY <1>6, <2>3, <2>4, <2>5, <2>6
  <1>8. /\ Len(r) = m + n /\ DOMAIN r = 1..(m + n)
        /\ \A i \in 1..m : r[i] = c2s[i]
        /\ \A i \in 1..n : r[m + i] = ioq[i].frame
    <2>1. /\ r \in Seq(Frames) /\ Len(r) = m + n
          /\ \A i \in 1..(m + n) : r[i] = IF i <= m THEN c2s[i] ELSE Posted[i - m]
      <3>0. c2s \in Seq(Frames) /\ Posted \in Seq(Frames)
        BY <1>3, <1>7
      <3>1. /\ c2s \o Posted \in Seq(Frames) /\ Len(c2s \o Posted) = Len(c2s) + Len(Posted)
            /\ \A i \in 1..(Len(c2s) + Len(Posted)) :
                  (c2s \o Posted)[i] = IF i <= Len(c2s) THEN c2s[i] ELSE Posted[i - Len(c2s)]
        BY <3>0, ConcatProperties
      <3>2. Len(Posted) = n
        BY <1>7
      <3> QED
        BY <3>1, <3>2
    <2>2. DOMAIN r = 1..(m + n)
      BY <2>1, LenProperties
    <2> HIDE DEF m, n, r
    <2>3. \A i \in 1..m : i \in 1..(m + n) /\ i <= m
      BY <1>6
    <2>4. \A i \in 1..n : m + i \in 1..(m + n) /\ ~(m + i <= m) /\ (m + i) - m = i
      BY <1>6
    <2>5. \A i \in 1..n : r[m + i] = Posted[i]
      BY <2>1, <2>4
    <2> QED
      BY <1>7, <2>1, <2>2, <2>3, <2>5
  <1> HIDE DEF m, n, r
  <1> DEFINE a == srv.rcv
             b == chan.snd
  <1>9. a \in Nat /\ b \in Nat
    BY <1>4
  <1>10. Chain(ioq, a + m, b, conn) /\ \A i \in 1..m : r[i] = Frame("sealed", conn, a + i)
    BY <1>2, <1>6, <1>8 DEF m
  <1> HIDE DEF a, b
  <1>11. /\ a + m <= b
         /\ \A i \in 1..n : Seals(ioq, i) => ioq[i].frame.key = conn /\ ioq[i].frame.seq \in (a + m + 1)..b
         /\ \A k \in (a + m + 1)..b : \E i \in 1..n : Seals(ioq, i) /\ ioq[i].frame.seq = k
         /\ \A i, j \in 1..n : Seals(ioq, i) /\ Seals(ioq, j) /\ i < j => ioq[i].frame.seq < ioq[j].frame.seq
    BY <1>6, <1>10 DEF Chain
  <1>12. \A i \in 1..m : r[i].kind = "sealed" /\ r[i].key = conn /\ r[i].seq = a + i
    <2> SUFFICES ASSUME NEW i \in 1..m PROVE r[i].kind = "sealed" /\ r[i].key = conn /\ r[i].seq = a + i
      OBVIOUS
    <2>1. r[i] = Frame("sealed", conn, a + i)
      BY <1>10
    <2> QED
      BY <2>1 DEF Frame
  <1>13. \A i \in SealedIn(r) : i \in 1..m \/ \E j \in 1..n : i = m + j /\ Seals(ioq, j)
    <2> SUFFICES ASSUME NEW i \in 1..(m + n), r[i].kind = "sealed", i \notin 1..m
                 PROVE  \E j \in 1..n : i = m + j /\ Seals(ioq, j)
      BY <1>8 DEF SealedIn
    <2>1. i - m \in 1..n /\ i = m + (i - m)
      BY <1>6
    <2>2. r[i] = ioq[i - m].frame
      BY <1>8, <2>1
    <2> QED
      BY <2>1, <2>2 DEF Seals
  <1>14. /\ \A i \in 1..m : i \in SealedIn(r)
         /\ \A j \in 1..n : Seals(ioq, j) => m + j \in SealedIn(r)
    <2>1. /\ \A i \in 1..m : i \in 1..(m + n)
          /\ \A j \in 1..n : m + j \in 1..(m + n)
      BY <1>6
    <2> QED
      BY <2>1, <1>8, <1>12 DEF SealedIn, Seals
  <1>15. \A i \in SealedIn(r) : r[i].key = conn /\ r[i].seq \in (a + 1)..b
    <2> SUFFICES ASSUME NEW i \in SealedIn(r) PROVE r[i].key = conn /\ r[i].seq \in (a + 1)..b
      OBVIOUS
    <2>1. CASE i \in 1..m
      <3>1. r[i].key = conn /\ r[i].seq = a + i
        BY <2>1, <1>12
      <3>2. a + i \in (a + 1)..b
        BY <2>1, <1>6, <1>9, <1>11
      <3> QED
        BY <3>1, <3>2
    <2>2. ASSUME NEW j \in 1..n, i = m + j, Seals(ioq, j)
          PROVE  r[i].key = conn /\ r[i].seq \in (a + 1)..b
      <3>1. r[i] = ioq[j].frame /\ ioq[j].frame.key = conn /\ ioq[j].frame.seq \in (a + m + 1)..b
        BY <2>2, <1>8, <1>11
      <3>2. (a + m + 1)..b \subseteq (a + 1)..b
        BY <1>6, <1>9
      <3> QED
        BY <3>1, <3>2
    <2> QED
      BY <1>13, <2>1, <2>2
  <1>16. \A k \in (a + 1)..b : \E i \in SealedIn(r) : r[i].seq = k
    <2> SUFFICES ASSUME NEW k \in (a + 1)..b PROVE \E i \in SealedIn(r) : r[i].seq = k
      OBVIOUS
    <2>1. CASE k <= a + m
      <3>1. k - a \in 1..m /\ a + (k - a) = k
        BY <2>1, <1>6, <1>9
      <3> QED
        BY <3>1, <1>12, <1>14
    <2>2. CASE ~(k <= a + m)
      <3>1. k \in (a + m + 1)..b
        BY <2>2, <1>6, <1>9
      <3>2. PICK j \in 1..n : Seals(ioq, j) /\ ioq[j].frame.seq = k
        BY <3>1, <1>11
      <3> QED
        BY <3>2, <1>8, <1>14
    <2> QED
      BY <2>1, <2>2
  <1>17. \A i, j \in SealedIn(r) : i < j => r[i].seq < r[j].seq
    <2> SUFFICES ASSUME NEW i \in SealedIn(r), NEW j \in SealedIn(r), i < j PROVE r[i].seq < r[j].seq
      OBVIOUS
    <2>1. CASE j \in 1..m
      <3>1. i \in 1..m
        <4>1. i \in 1..(m + n)
          BY <1>8 DEF SealedIn
        <4> QED
          BY <4>1, <2>1, <1>6
      <3>2. r[i].seq = a + i /\ r[j].seq = a + j
        BY <2>1, <3>1, <1>12
      <3> QED
        BY <2>1, <3>1, <3>2, <1>9
    <2>2. ASSUME NEW v \in 1..n, j = m + v, Seals(ioq, v) PROVE r[i].seq < r[j].seq
      <3>1. r[j].seq = ioq[v].frame.seq /\ ioq[v].frame.seq \in (a + m + 1)..b
        BY <2>2, <1>8, <1>11
      <3>2. CASE i \in 1..m
        <4>1. r[i].seq = a + i
          BY <3>2, <1>12
        <4> QED
          BY <3>1, <3>2, <4>1, <1>6, <1>9
      <3>3. ASSUME NEW u \in 1..n, i = m + u, Seals(ioq, u) PROVE r[i].seq < r[j].seq
        <4>1. u < v
          BY <2>2, <3>3, <1>6
        <4>2. r[i].seq = ioq[u].frame.seq
          BY <3>3, <1>8
        <4> QED
          BY <2>2, <3>1, <3>3, <4>1, <4>2, <1>11
      <3> QED
        BY <3>2, <3>3, <1>13
    <2> QED
      BY <2>1, <2>2, <1>13
  <1>18. SealedNumberedFrom(r, a, b, conn)
    <2>1. {r[i].seq : i \in SealedIn(r)} = (a + 1)..b
      BY <1>15, <1>16
    <2> QED
      BY <2>1, <1>15, <1>17 DEF SealedNumberedFrom
  <1> QED
    BY <1>2, <1>5, <1>18 DEF r, a, b

-----------------------------------------------------------------------------
(* Whatever tasks, threads and frames interleave, a connection is open     *)
(* only with its own socket and its own I/O thread, unless the process has *)
(* ended (TcpTransport.cpp, ClientCore.cpp).                               *)
THEOREM ConnectionTypeCorrect ==
  ConnectionSpec => []ConnectionTypeOK
  BY Always_ConnectionInv, ImpliesTypeOK, PTL

(* For any number of connections, packets and faults: both ends of an      *)
(* established connection into whose handshake nobody sent have the same   *)
(* keys, and the frames one has numbered and the other not read follow     *)
(* each other without a gap (ClientSecureChannel.cpp, Session.cpp).        *)
THEOREM EndsInStep ==
  ConnectionSpec => []InStep
  BY Always_ConnectionInv, ImpliesInStep, PTL

(* A connection is refused by the server, or spoiled for the client, only  *)
(* when another thread sent in the clear or across a reset: never because  *)
(* of a late task of the connection before it (failApplicationHandshake).  *)
THEOREM RefusalsExplained ==
  ConnectionSpec => []RefusedOnlyIfIntruded
  BY Always_ConnectionInv, ImpliesRefused, PTL

=============================================================================
