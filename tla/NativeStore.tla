----------------------------- MODULE NativeStore -----------------------------
(***************************************************************************)
(* The client's database file: NativeDatabase objects with the writer      *)
(* thread of DbCommandQueue, the connections of ReadPool and the lock file *)
(* of ProcessLock.  Several objects for one file may exist, one after the  *)
(* other or at once, and another process may hold the lock.  A command is  *)
(* one submitSync (one transaction), a reader one withRead at a time.      *)
(*                                                                         *)
(* Opening is one action: the object is private to its opener until it is  *)
(* Ready.  Cancel tokens are left out: no caller sets one.                 *)
(***************************************************************************)
EXTENDS Integers, Sequences, FiniteSets

CONSTANTS
    Cmds,       \* commands, by number; each is submitted once
    Readers,    \* threads that read
    MaxDbs,     \* bound: NativeDatabase objects created
    QueueCap,   \* capacity of the command queue
    PoolSize,   \* read connections
    MaxFaults   \* bound: failed transactions and openings, waits timed out,
                \* openings by another process

ASSUME StoreAssumption ==
    /\ Cmds \subseteq Nat \ {0}
    /\ MaxDbs \in Nat /\ QueueCap \in Nat /\ PoolSize \in Nat \ {0} /\ MaxFaults \in Nat

Dbs == 1..MaxDbs
NoDb == 0
Free == 0                \* nobody holds the lock file
Rival == -1              \* another process holds it
Waits == 0               \* the writer thread waits for a command
Exited == -1            \* the writer thread has returned

Results == {"Ok", "SqlFailed", "Cancelled", "NotOpen", "QueueFull", "Unknown"}
ClosingSteps == <<"stop", "pool", "leases", "connection", "unlock">>

VARIABLES
    status,     \* m_status of each object, "new" before it is opened
    closing,    \* the step of closeInternal, 0 when not closing
    lock,       \* who holds the lock file
    running,    \* DbCommandQueue::m_running
    queue,      \* DbCommandQueue::m_queue
    writer,     \* Waits, the command in its transaction, or Exited
    writeOpen,  \* the write connection is open
    pool,       \* ReadPool::m_open
    readOpen,   \* the read connections are open
    leased,     \* readers inside their callback
    waiting,    \* readers waiting for a connection
    call,       \* where a command's submitSync stands, and with which object
    answer,     \* its result, "none" before
    done,       \* completion executor: callbacks not yet run
    committed,  \* commands whose transaction was committed
    reader,     \* where a reader stands, and with which object
    faults      \* faults so far

life == <<status, closing, lock, writeOpen, readOpen>>
writing == <<running, queue, writer, done, committed>>
calls == <<call, answer>>
reading == <<pool, leased, waiting, reader>>
storeVars == <<life, writing, calls, reading, faults>>

Out == [at |-> "out", db |-> NoDb]

StoreInit ==
    /\ status = [d \in Dbs |-> "new"] /\ closing = [d \in Dbs |-> 0]
    /\ lock = Free
    /\ running = [d \in Dbs |-> FALSE] /\ queue = [d \in Dbs |-> <<>>]
    /\ writer = [d \in Dbs |-> Exited]
    /\ writeOpen = [d \in Dbs |-> FALSE] /\ readOpen = [d \in Dbs |-> FALSE]
    /\ pool = [d \in Dbs |-> FALSE]
    /\ leased = [d \in Dbs |-> {}] /\ waiting = [d \in Dbs |-> {}]
    /\ call = [c \in Cmds |-> Out] /\ answer = [c \in Cmds |-> "none"]
    /\ done = <<>> /\ committed = {}
    /\ reader = [r \in Readers |-> Out]
    /\ faults = 0

Fault == faults < MaxFaults /\ faults' = faults + 1

-----------------------------------------------------------------------------
(* Opening and the lock file                                               *)

(* Mutant: a lock that a process does not hold against itself. *)
LockNotRival == lock # Rival

(* flock(LOCK_EX|LOCK_NB): granted only when no open file holds it, of     *)
(* this process or another.                                                *)
LockFree == lock = Free

Open(d) ==
    /\ status[d] = "new" /\ LockFree
    /\ status' = [status EXCEPT ![d] = "Ready"]
    /\ lock' = d
    /\ running' = [running EXCEPT ![d] = TRUE]
    /\ writer' = [writer EXCEPT ![d] = Waits]
    /\ pool' = [pool EXCEPT ![d] = TRUE]
    /\ writeOpen' = [writeOpen EXCEPT ![d] = TRUE]
    /\ readOpen' = [readOpen EXCEPT ![d] = TRUE]
    /\ UNCHANGED <<closing, queue, done, committed, calls, leased, waiting, reader, faults>>

(* The lock is taken, or the key, the file, the schema or the pool fails:  *)
(* nothing stays open and the lock is given back.                          *)
OpenRefused(d) ==
    /\ status[d] = "new"
    /\ (LockFree /\ Fault) \/ (~LockFree /\ UNCHANGED faults)
    /\ status' = [status EXCEPT ![d] = "Locked"]
    /\ UNCHANGED <<closing, lock, writeOpen, readOpen, writing, calls, reading>>

RivalLocks ==
    /\ LockFree /\ lock' = Rival /\ Fault
    /\ UNCHANGED <<status, closing, writeOpen, readOpen, writing, calls, reading>>

RivalLeaves ==
    /\ lock = Rival /\ lock' = Free
    /\ UNCHANGED <<status, closing, writeOpen, readOpen, writing, calls, reading, faults>>

-----------------------------------------------------------------------------
(* closeInternal: the steps in their order                                 *)

At(d, step) == closing[d] > 0 /\ ClosingSteps[closing[d]] = step
NextStep(d) == closing' = [closing EXCEPT ![d] = @ + 1]

(* m_status = Closing: no new command and no new read gets in. *)
CloseBegin(d) ==
    /\ status[d] = "Ready"
    /\ status' = [status EXCEPT ![d] = "Closing"]
    /\ closing' = [closing EXCEPT ![d] = 1]
    /\ UNCHANGED <<lock, writeOpen, readOpen, writing, calls, reading, faults>>

(* DbCommandQueue::close: m_running = false, the writer is woken. *)
QueueStops(d) ==
    /\ At(d, "stop") /\ NextStep(d)
    /\ running' = [running EXCEPT ![d] = FALSE]
    /\ UNCHANGED <<status, lock, writeOpen, readOpen, queue, writer, done, committed,
                   calls, reading, faults>>

(* The writer is joined; ReadPool::close: m_open = false, the waiting     *)
(* readers are woken.                                                      *)
PoolStops(d) ==
    /\ At(d, "pool") /\ writer[d] = Exited /\ NextStep(d)
    /\ pool' = [pool EXCEPT ![d] = FALSE]
    /\ UNCHANGED <<status, lock, writeOpen, readOpen, writing, calls, leased, waiting,
                   reader, faults>>

(* Mutant: the pool waits for its waiters only. *)
LeasesIgnored(d) ==
    /\ At(d, "leases") /\ waiting[d] = {} /\ NextStep(d)
    /\ readOpen' = [readOpen EXCEPT ![d] = FALSE]
    /\ UNCHANGED <<status, lock, writeOpen, writing, calls, reading, faults>>

(* m_active = 0 and m_waiters = 0 *)
LeasesReturned(d) ==
    /\ At(d, "leases") /\ leased[d] = {} /\ waiting[d] = {} /\ NextStep(d)
    /\ readOpen' = [readOpen EXCEPT ![d] = FALSE]
    /\ UNCHANGED <<status, lock, writeOpen, writing, calls, reading, faults>>

ConnectionCloses(d) ==
    /\ At(d, "connection") /\ NextStep(d)
    /\ writeOpen' = [writeOpen EXCEPT ![d] = FALSE]
    /\ UNCHANGED <<status, lock, readOpen, writing, calls, reading, faults>>

Unlock(d) ==
    /\ At(d, "unlock")
    /\ closing' = [closing EXCEPT ![d] = 0]
    /\ status' = [status EXCEPT ![d] = "Closed"]
    /\ lock' = Free
    /\ UNCHANGED <<writeOpen, readOpen, writing, calls, reading, faults>>

CloseStep(d) ==
    \/ QueueStops(d) \/ PoolStops(d) \/ LeasesReturned(d)
    \/ ConnectionCloses(d) \/ Unlock(d)

-----------------------------------------------------------------------------
(* submitSync                                                              *)

Goes(c, to) == call' = [call EXCEPT ![c].at = to]
Answered(c, res) == answer' = [answer EXCEPT ![c] = res]

(* The queue object is fetched while the status is Ready. *)
Fetch(c, d) ==
    /\ call[c].at = "out"
    /\ IF status[d] = "Ready"
       THEN call' = [call EXCEPT ![c] = [at |-> "fetched", db |-> d]] /\ UNCHANGED answer
       ELSE call' = [call EXCEPT ![c] = [at |-> "back", db |-> d]] /\ Answered(c, "NotOpen")
    /\ UNCHANGED <<life, writing, reading, faults>>

(* DbCommandQueue::submit: the answer of the queue. *)
Accept(c, d) ==
    IF ~running[d] THEN "NotOpen"
    ELSE IF Len(queue[d]) >= QueueCap THEN "QueueFull" ELSE "Ok"

Submit(c) ==
    LET d == call[c].db IN
    /\ call[c].at = "fetched"
    /\ IF Accept(c, d) = "Ok"
       THEN Goes(c, "queued") /\ queue' = [queue EXCEPT ![d] = Append(@, c)] /\ UNCHANGED answer
       ELSE Goes(c, "back") /\ Answered(c, Accept(c, d)) /\ UNCHANGED queue
    /\ UNCHANGED <<life, running, writer, done, committed, reading, faults>>

(* The wait times out: the command may still run. *)
GiveUp(c) ==
    /\ call[c].at = "queued" /\ Fault
    /\ Goes(c, "back") /\ Answered(c, "Unknown")
    /\ UNCHANGED <<life, writing, reading>>

-----------------------------------------------------------------------------
(* writerLoop and the completion executor                                  *)

WriterTakes(d) ==
    /\ writer[d] = Waits /\ queue[d] # <<>>
    /\ writer' = [writer EXCEPT ![d] = Head(queue[d])]
    /\ queue' = [queue EXCEPT ![d] = Tail(queue[d])]
    /\ UNCHANGED <<life, running, done, committed, calls, reading, faults>>

Finish(d, res) ==
    /\ done' = Append(done, [cmd |-> writer[d], res |-> res])
    /\ writer' = [writer EXCEPT ![d] = Waits]
    /\ UNCHANGED <<life, running, queue, calls, reading>>

Commit(d) ==
    /\ writer[d] \in Cmds
    /\ committed' = committed \cup {writer[d]}
    /\ Finish(d, "Ok") /\ UNCHANGED faults

(* Mutant: the result of COMMIT is not looked at. *)
RollbackIgnored(d) ==
    /\ writer[d] \in Cmds /\ Fault
    /\ Finish(d, "Ok") /\ UNCHANGED committed

(* BEGIN, the command or COMMIT fails. *)
Rollback(d) ==
    /\ writer[d] \in Cmds /\ Fault
    /\ Finish(d, "SqlFailed") /\ UNCHANGED committed

(* Closed and the queue is empty. *)
WriterExits(d) ==
    /\ writer[d] = Waits /\ queue[d] = <<>> /\ ~running[d]
    /\ writer' = [writer EXCEPT ![d] = Exited]
    /\ UNCHANGED <<life, running, queue, done, committed, calls, reading, faults>>

(* onDone: a caller that gave up is not there to hear it. *)
Tell ==
    /\ done # <<>> /\ done' = Tail(done)
    /\ LET c == Head(done).cmd IN
       IF call[c].at = "queued"
       THEN Goes(c, "back") /\ Answered(c, Head(done).res)
       ELSE UNCHANGED calls
    /\ UNCHANGED <<life, running, queue, writer, committed, reading, faults>>

WriterStep(d) == WriterTakes(d) \/ Commit(d) \/ Rollback(d) \/ WriterExits(d)

-----------------------------------------------------------------------------
(* ReadPool::withRead                                                      *)

Idle(d) == Cardinality(leased[d]) < PoolSize
Leaves(r) == reader' = [reader EXCEPT ![r].at = "back"]

Fetches(r, d) ==
    /\ reader[r].at \in {"out", "back"}
    /\ reader' = [reader EXCEPT ![r] =
                      [at |-> IF status[d] = "Ready" THEN "fetched" ELSE "back", db |-> d]]
    /\ UNCHANGED <<life, writing, calls, pool, leased, waiting, faults>>

Leases(r) ==
    LET d == reader[r].db IN
    /\ reader[r].at \in {"fetched", "waiting"}
    /\ pool[d] /\ Idle(d)
    /\ leased' = [leased EXCEPT ![d] = @ \cup {r}]
    /\ waiting' = [waiting EXCEPT ![d] = @ \ {r}]
    /\ reader' = [reader EXCEPT ![r].at = "reading"]
    /\ UNCHANGED <<life, writing, calls, pool, faults>>

Queues(r) ==
    LET d == reader[r].db IN
    /\ reader[r].at = "fetched" /\ pool[d] /\ ~Idle(d)
    /\ waiting' = [waiting EXCEPT ![d] = @ \cup {r}]
    /\ reader' = [reader EXCEPT ![r].at = "waiting"]
    /\ UNCHANGED <<life, writing, calls, pool, leased, faults>>

(* Closing, or the deadline has passed with every connection in use. *)
Refused(r) ==
    LET d == reader[r].db IN
    /\ reader[r].at \in {"fetched", "waiting"}
    /\ ~pool[d] \/ (reader[r].at = "waiting" /\ ~Idle(d))
    /\ waiting' = [waiting EXCEPT ![d] = @ \ {r}]
    /\ Leaves(r)
    /\ UNCHANGED <<life, writing, calls, pool, leased, faults>>

Returns(r) ==
    LET d == reader[r].db IN
    /\ reader[r].at = "reading"
    /\ leased' = [leased EXCEPT ![d] = @ \ {r}]
    /\ Leaves(r)
    /\ UNCHANGED <<life, writing, calls, pool, waiting, faults>>

-----------------------------------------------------------------------------
StoreTypeOK ==
    /\ status \in [Dbs -> {"new", "Ready", "Closing", "Closed", "Locked"}]
    /\ closing \in [Dbs -> 0..Len(ClosingSteps)]
    /\ lock \in Dbs \cup {Free, Rival}
    /\ running \in [Dbs -> BOOLEAN] /\ pool \in [Dbs -> BOOLEAN]
    /\ writeOpen \in [Dbs -> BOOLEAN] /\ readOpen \in [Dbs -> BOOLEAN]
    /\ queue \in [Dbs -> Seq(Cmds)]
    /\ writer \in [Dbs -> Cmds \cup {Waits, Exited}]
    /\ leased \in [Dbs -> SUBSET Readers] /\ waiting \in [Dbs -> SUBSET Readers]
    /\ call \in [Cmds -> [at : {"out", "fetched", "queued", "back"}, db : Dbs \cup {NoDb}]]
    /\ answer \in [Cmds -> Results \cup {"none"}]
    /\ done \in Seq([cmd : Cmds, res : {"Ok", "SqlFailed"}])
    /\ committed \subseteq Cmds
    /\ reader \in [Readers -> [at : {"out", "fetched", "waiting", "reading", "back"},
                               db : Dbs \cup {NoDb}]]
    /\ faults \in 0..MaxFaults

(* A transaction and a read use connections that are open: closing ends    *)
(* the writer and the leases before the connections (closeInternal).       *)
UseWhileOpen ==
    \A d \in Dbs :
        /\ writer[d] \in Cmds => writeOpen[d]
        /\ leased[d] # {} => readOpen[d]

(* Whoever has the file open for writing holds its lock, so that two       *)
(* objects or two processes never write it at once (ProcessLock.h).        *)
OneWriter == \A d \in Dbs : writeOpen[d] => lock = d

(* Commands that may still be committed. *)
Underway == {c \in Cmds : call[c].at = "fetched"}
            \cup (UNION {{queue[d][i] : i \in DOMAIN queue[d]} : d \in Dbs})
            \cup ({writer[d] : d \in Dbs} \cap Cmds)

(* A command answered Ok has been committed; one answered otherwise is not *)
(* and will not be, unless its caller gave up waiting.                     *)
TruthfulAnswer ==
    \A c \in Cmds :
        /\ answer[c] = "Ok" => c \in committed
        /\ answer[c] \in {"SqlFailed", "Cancelled", "NotOpen", "QueueFull"} =>
               c \notin committed \cup Underway
=============================================================================
