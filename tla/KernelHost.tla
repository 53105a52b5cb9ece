------------------------------ MODULE KernelHost ------------------------------
(***************************************************************************)
(* The account's kernel as the Android host drives it: NativeKernelHost    *)
(* with JitongSdk opens the account's database (NativeStore), creates and  *)
(* starts a ClientRuntime and tears both down; markRead commands run       *)
(* through the runtime and are registered in CompletionRegistry; their     *)
(* invalidations pass InvalidationBus to the list of conversations that    *)
(* NativeMessageController shows.                                          *)
(*                                                                         *)
(* The host's methods are @Synchronized, so one of them runs at a time.    *)
(* A runtime and its database are one instance, named by the database.     *)
(* The other commands of a runtime are in module Outbox.                   *)
(*                                                                         *)
(* consumeOperation, the only call that makes room for more operations,    *)
(* has no caller in the app and is no action here.                         *)
(***************************************************************************)
EXTENDS NativeStore

CONSTANTS
    Capacity,   \* completionCapacity
    Page        \* the reader that loads the list of conversations

ASSUME HostAssumption == Capacity \in Nat /\ Page \in Readers /\ IsFiniteSet(Cmds)

VARIABLES
    phase,      \* NativeKernelHost.Phase
    host,       \* the step of the host method that runs, "idle" if none
    after,      \* the phase in which the teardown under way ends
    db,         \* the handle's database
    runtime,    \* m_state of the runtime, "none" when there is none
    op,         \* where a markRead command stands
    inst,       \* the instance that admitted it
    record,     \* its terminal record in CompletionRegistry
    version,    \* m_dbVersion
    mine,       \* the version a command drew
    bus,        \* InvalidationBus::m_current
    shown,      \* JitongSdk._dataVersions
    strays,     \* history: invalidations of an earlier runtime taken for this one's
    loaded,     \* the version of the list's last reload
    seen,       \* commands whose effect the list shows
    blank       \* the list is empty: its last read was refused

hostVars == <<phase, host, after, db, runtime>>
opVars == <<op, inst, record>>
busVars == <<version, mine, bus>>
pageVars == <<shown, strays, loaded, seen, blank>>
vars == <<storeVars, hostVars, opVars, busVars, pageVars>>

Init ==
    /\ StoreInit
    /\ phase = "AccountReady" /\ host = "idle" /\ after = "AccountReady"
    /\ db = NoDb /\ runtime = "none"
    /\ op = [c \in Cmds |-> "new"] /\ inst = [c \in Cmds |-> NoDb]
    /\ record = [c \in Cmds |-> "none"]
    /\ version = 0 /\ mine = [c \in Cmds |-> 0] /\ bus = 0
    /\ shown = 0 /\ strays = "none" /\ loaded = 0 /\ seen = {} /\ blank = FALSE

-----------------------------------------------------------------------------
(* NativeKernelHost                                                        *)

Used == {d \in Dbs : status[d] # "new"}

(* LoginSucceeded: of a login, or of the login by token that follows every *)
(* reconnection.  activate opens the account's database again.             *)
Login(d) ==
    /\ host = "idle" /\ phase \in {"AccountReady", "Ready"}
    /\ d = Cardinality(Used) + 1
    /\ phase' = "Activating"
    /\ \/ Open(d) /\ host' = "opened"
       \/ OpenRefused(d) /\ host' = "failed"
    /\ UNCHANGED <<after, db, runtime, opVars, busVars, pageVars>>

(* Mutant: the bus outlives its runtime. *)
ReadyKeepsBus(d) ==
    /\ host = "opened" /\ d = Cardinality(Used)
    /\ phase' = "Ready" /\ host' = "idle" /\ db' = d /\ runtime' = "Running"
    /\ version' = 0
    /\ shown' = 0 /\ strays' = "none" /\ loaded' = -1 /\ seen' = {} /\ blank' = FALSE
    /\ UNCHANGED <<storeVars, after, opVars, mine, bus>>

(* The database is attached, the runtime created and started; a new        *)
(* NativeMessageController starts to collect versions and loads its list.  *)
Ready(d) ==
    /\ host = "opened" /\ d = Cardinality(Used)
    /\ phase' = "Ready" /\ host' = "idle" /\ db' = d /\ runtime' = "Running"
    /\ version' = 0 /\ bus' = 0
    /\ shown' = 0 /\ strays' = "none" /\ loaded' = -1 /\ seen' = {} /\ blank' = FALSE
    /\ UNCHANGED <<storeVars, after, opVars, mine>>

TearDown(next) ==
    /\ after' = next
    /\ host' = IF runtime = "Running" THEN "destroy" ELSE "gone"

(* activate gives up: sdk.stop() destroys the handle with all it holds. *)
ActivateFails ==
    /\ host = "failed" /\ TearDown("Failed")
    /\ UNCHANGED <<storeVars, phase, db, runtime, opVars, busVars, pageVars>>

(* Kicked or LoggedOut: teardownBusiness. *)
LeavesAccount ==
    /\ host = "idle" /\ phase = "Ready"
    /\ TearDown("AccountReady")
    /\ UNCHANGED <<storeVars, phase, db, runtime, opVars, busVars, pageVars>>

Admitted == {c \in Cmds : inst[c] = db /\ db # NoDb}
Recorded == {c \in Cmds : inst[c] = db /\ db # NoDb /\ record[c] # "none"}

(* Mutant: pending operations are forgotten, not ended. *)
CancelNone == UNCHANGED record

(* Every operation without a record gets Cancelled. *)
CancelAll ==
    record' = [c \in Cmds |-> IF c \in Admitted /\ record[c] = "none" THEN "Cancelled"
                              ELSE record[c]]

(* ClientRuntime::destroy up to the database *)
Destroy ==
    /\ host = "destroy" /\ runtime' = "Destroying" /\ host' = "close"
    /\ CancelAll
    /\ CloseBegin(db)
    /\ UNCHANGED <<phase, after, db, op, inst, busVars, pageVars>>

CloseOn ==
    /\ host = "close" /\ CloseStep(db)
    /\ host' = IF At(db, "unlock") THEN "gone" ELSE "close"
    /\ UNCHANGED <<phase, after, db, runtime, opVars, busVars, pageVars>>

Gone ==
    /\ host = "gone"
    /\ runtime' = "none" /\ db' = NoDb /\ host' = "idle" /\ phase' = after
    /\ UNCHANGED <<storeVars, after, opVars, busVars, pageVars>>

-----------------------------------------------------------------------------
(* markRead, on a thread of its own for each command                       *)

Step(c, to) == op' = [op EXCEPT ![c] = to]
Current(c) == inst[c] = db /\ runtime = "Running"

(* nextOperationId: the operation is admitted, or refused for room.        *)
(* Commands are numbered in the order they begin.                          *)
Begin(c) ==
    /\ op[c] = "new" /\ \A e \in Cmds : e < c => op[e] # "new"
    /\ runtime = "Running"
    /\ IF Cardinality(Admitted) < Capacity
       THEN Step(c, "admitted") /\ inst' = [inst EXCEPT ![c] = db]
       ELSE Step(c, "refused") /\ UNCHANGED inst
    /\ UNCHANGED <<storeVars, hostVars, record, busVars, pageVars>>

(* NativeRepository::runTx, of the instance's own database *)
Write(c) ==
    /\ op[c] = "admitted" /\ Fetch(c, inst[c])
    /\ Step(c, "writing")
    /\ UNCHANGED <<hostVars, inst, record, busVars, pageVars>>

Submits(c) == Submit(c) /\ UNCHANGED <<hostVars, opVars, busVars, pageVars>>
TimesOut(c) == GiveUp(c) /\ UNCHANGED <<hostVars, opVars, busVars, pageVars>>

(* Mutant: the version is read, and not incremented. *)
ReadVersion(c) == UNCHANGED version /\ mine' = [mine EXCEPT ![c] = version + 1]

(* ++m_dbVersion *)
DrawVersion(c) ==
    IF inst[c] = db THEN version' = version + 1 /\ mine' = [mine EXCEPT ![c] = version + 1]
                    ELSE UNCHANGED <<version, mine>>

Written(c) ==
    /\ op[c] = "writing" /\ call[c].at = "back"
    /\ IF answer[c] = "Ok" THEN Step(c, "publish") /\ DrawVersion(c)
                           ELSE Step(c, "complete") /\ UNCHANGED <<version, mine>>
    /\ UNCHANGED <<storeVars, hostVars, inst, record, bus, pageVars>>

(* publishInvalidation: refused unless the version is a new one. *)
Publish(c) ==
    /\ op[c] = "publish"
    /\ IF Current(c) /\ mine[c] > bus
       THEN bus' = mine[c] /\ Step(c, "notify")
       ELSE Step(c, "complete") /\ UNCHANGED bus
    /\ UNCHANGED <<storeVars, hostVars, inst, record, version, mine, pageVars>>

(* onInvalidated, after the lock is given up.  The SDK compares the        *)
(* generation, which is 1 in every runtime: it cannot tell a runtime from  *)
(* the one before it.  `strays` follows what that does: once such an event *)
(* was taken, whether the last one of anybody left the number as it was    *)
(* when the list was loaded, so that the collector has nothing to do.      *)
Notify(c) ==
    /\ op[c] = "notify" /\ Step(c, "complete")
    /\ IF phase = "Ready"
       THEN /\ shown' = mine[c]
            /\ strays' = IF inst[c] = db /\ strays = "none" THEN "none"
                         ELSE IF mine[c] = loaded THEN "swallowed" ELSE "taken"
       ELSE UNCHANGED <<shown, strays>>
    /\ UNCHANGED <<storeVars, hostVars, inst, record, busVars, loaded, seen, blank>>

(* CompletionRegistry::record refuses when it is full. *)
Room == Cardinality(Recorded) < Capacity

(* completeOperation: only while running, and once. *)
Complete(c) ==
    /\ op[c] = "complete" /\ Step(c, "done")
    /\ mine' = [mine EXCEPT ![c] = 0]
    /\ record' = IF Current(c) /\ c \in Admitted /\ record[c] = "none" /\ Room
                 THEN [record EXCEPT ![c] = IF answer[c] = "Ok" THEN "Ok" ELSE "Failed"]
                 ELSE record
    /\ UNCHANGED <<storeVars, hostVars, inst, version, bus, pageVars>>

OpStep(c) ==
    \/ Write(c) \/ Submits(c) \/ Written(c) \/ Publish(c)
    \/ Notify(c) \/ Complete(c)

-----------------------------------------------------------------------------
(* The list of conversations                                               *)

(* The collector of dataVersions: it sees the latest version only.  What   *)
(* cannot be read is shown as an empty list, without an error and without  *)
(* another attempt (orEmpty).                                              *)
Reload ==
    /\ phase = "Ready" /\ loaded # shown
    /\ Fetches(Page, db)
    /\ loaded' = shown
    /\ IF status[db] = "Ready" THEN UNCHANGED <<seen, blank>> ELSE seen' = {} /\ blank' = TRUE
    /\ UNCHANGED <<hostVars, opVars, busVars, shown, strays>>

(* Another thread reads (search, the outbox).  Bound: each reads once,     *)
(* and begins when no command is under way any more.                       *)
ReadElsewhere(r) ==
    /\ r # Page /\ reader[r] = Out /\ phase = "Ready" /\ Fetches(r, db)
    /\ \A c \in Cmds : op[c] \in {"refused", "done"}
    /\ UNCHANGED <<hostVars, opVars, busVars, pageVars>>

(* The list shows what was committed when its read began, or nothing when  *)
(* the read is refused.  A list of an earlier opening is shown no more.    *)
PageReads ==
    /\ Leases(Page)
    /\ IF reader[Page].db = db THEN seen' = committed /\ blank' = FALSE ELSE UNCHANGED <<seen, blank>>

PageFails ==
    /\ Refused(Page)
    /\ IF reader[Page].db = db THEN seen' = {} /\ blank' = TRUE ELSE UNCHANGED <<seen, blank>>

Reads(r) ==
    /\ \/ r = Page /\ (PageReads \/ PageFails)
       \/ r # Page /\ (Leases(r) \/ Refused(r)) /\ UNCHANGED <<seen, blank>>
       \/ (Queues(r) \/ Returns(r)) /\ UNCHANGED <<seen, blank>>
    /\ UNCHANGED <<hostVars, opVars, busVars, shown, strays, loaded>>

-----------------------------------------------------------------------------
OtherProcess == (RivalLocks \/ RivalLeaves) /\ UNCHANGED <<hostVars, opVars, busVars, pageVars>>
Writes(d) == WriterStep(d) /\ UNCHANGED <<hostVars, opVars, busVars, pageVars>>
Executor == Tell /\ UNCHANGED <<hostVars, opVars, busVars, pageVars>>

HostStep ==
    \/ \E d \in Dbs : Ready(d)
    \/ ActivateFails \/ Destroy \/ CloseOn \/ Gone

(* What a thread does by itself once it has begun. *)
ThreadStep ==
    \/ HostStep \/ Executor \/ Reload
    \/ \E d \in Dbs : Writes(d)
    \/ \E c \in Cmds : OpStep(c)
    \/ \E r \in Readers : Reads(r)

Next ==
    \/ ThreadStep
    \/ \E d \in Dbs : Login(d)
    \/ LeavesAccount \/ OtherProcess
    \/ \E c \in Cmds : Begin(c) \/ TimesOut(c)
    \/ \E r \in Readers : ReadElsewhere(r)

Spec == Init /\ [][Next]_vars

(* Threads go on with what they have begun.  No thread can go on for ever, *)
(* so that it is enough that some thread runs whenever one can.  Nobody    *)
(* has to log in, leave, send a command or read, and no wait has to time   *)
(* out.                                                                    *)
FairSpec == Spec /\ WF_vars(ThreadStep)

-----------------------------------------------------------------------------
TypeOK ==
    /\ StoreTypeOK
    /\ phase \in {"AccountReady", "Activating", "Ready", "Failed"}
    /\ host \in {"idle", "opened", "failed", "destroy", "close", "gone"}
    /\ after \in {"AccountReady", "Failed"}
    /\ db \in Dbs \cup {NoDb}
    /\ runtime \in {"none", "Running", "Destroying"}
    /\ op \in [Cmds -> {"new", "refused", "admitted", "writing", "publish",
                        "notify", "complete", "done"}]
    /\ inst \in [Cmds -> Dbs \cup {NoDb}]
    /\ record \in [Cmds -> {"none", "Ok", "Failed", "Cancelled"}]
    /\ version \in 0..Cardinality(Cmds) /\ bus \in 0..version
    /\ mine \in [Cmds -> 0..Cardinality(Cmds)]
    /\ shown \in 0..Cardinality(Cmds) /\ loaded \in -1..Cardinality(Cmds)
    /\ strays \in {"none", "taken", "swallowed"}
    /\ seen \subseteq Cmds /\ blank \in BOOLEAN

(* The host's method has returned, every command has ended and every       *)
(* operation has its record.                                               *)
Quiet ==
    /\ host = "idle"
    /\ \A c \in Cmds : op[c] \in {"new", "refused", "done"}
    /\ \A c \in Cmds : op[c] = "done" => record[c] # "none"

(* Nothing hangs: commands end with a record and the host's methods        *)
(* return, also when the account is left or an activation fails in the     *)
(* midst of them (ClientRuntime::destroy, closeInternal).                  *)
NothingHangs == []<>Quiet

(* The list does not show a command that was committed and published.      *)
Behind(c) ==
    /\ op[c] \in {"publish", "notify", "complete", "done"} /\ answer[c] = "Ok"
    /\ phase = "Ready" /\ inst[c] = db
    /\ c \notin seen /\ ~blank

(* The list of conversations does not stay behind: what a command          *)
(* committed and answered Ok is shown in the end, whatever order the       *)
(* threads draw and publish their versions in and whenever the collector   *)
(* runs (InvalidationBus, dataVersions).  Not so while the list is empty   *)
(* because its last read was refused, nor when the last event left the     *)
(* collector nothing to do because one of an earlier runtime had carried   *)
(* the same number.                                                        *)
PageCatchesUp == []<>((\A c \in Cmds : ~Behind(c)) \/ strays = "swallowed")

(* The same with events of earlier openings about ("Invalidates the        *)
(* events of an old generation under way", JitongSdk.kt:549).              *)
OldEventsStayOut == []<>(\A c \in Cmds : ~Behind(c))

(* "The UI need not poll consumeOperation" (JitongSdk.kt:36): when every   *)
(* operation has ended, another one is admitted.                           *)
RoomForCommands ==
    (runtime = "Running" /\ \A c \in Admitted : record[c] # "none") =>
        Cardinality(Admitted) < Capacity

(* A login event that finds the account's kernel at work, as after each    *)
(* reconnection, leaves it at work (NativeKernelHost.activate).            *)
ReconnectKeepsKernel == [][phase' = "Failed" /\ phase # "Failed" => db = NoDb]_vars
=============================================================================
