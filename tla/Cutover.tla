------------------------------- MODULE Cutover -------------------------------
(***************************************************************************)
(* The cutover of one account from the old store (Room) to the native      *)
(* store: the decision a starting process makes from the journal in the    *)
(* native database and its mirror in the preferences (JitongApplication,   *)
(* CutoverRecoverySelector), the request that makes the next process       *)
(* migrate (ColdStartCutoverRequest, MainViewModel), the migration itself  *)
(* (CutoverMigrationCoordinator, MigrationImporter, NativeDatabase), the   *)
(* triggers of Room, and the mark the first native write leaves.           *)
(*                                                                         *)
(* Every store is durable and every call is a step of its own, so the      *)
(* process can be killed between any two, and a call can fail: a write of  *)
(* the native database then may still have been done (its wait timed out). *)
(*                                                                         *)
(* A row is a message or a conversation; its content is the number of the  *)
(* change that wrote it, 0 when there is no row (Room never deletes one).  *)
(* The import derives conversations from messages: a conversation that     *)
(* holds the number of a message's change shows that message, and not what *)
(* Room has.  The full text index is left out, and so are the parts of the *)
(* evidence that always agree when state and high water do (epoch, key,    *)
(* summary, time of writing).  Pages hold one row.  A damaged mirror and a *)
(* change of account are not modelled.                                     *)
(*                                                                         *)
(* The caller is fixed at the start.  Not online, it is the application:   *)
(* the migration runs in a process that never starts the old client.       *)
(* Online it is the coordinator's own contract: the old client of the      *)
(* process goes on writing until stopAndDrain, and the process, or a later *)
(* one, may try again.                                                     *)
(***************************************************************************)
EXTENDS Integers, FiniteSets, FiniteSetsExt

CONSTANTS NumMsgs,      \* messages are the rows 1 .. NumMsgs
          NumConvs,     \* the conversations come after them
          ConvOf,       \* the conversation of each message
          MaxChanges,   \* bound on the writes to either store
          MaxFaults     \* bound on calls that fail and processes killed at work

ASSUME CutoverAssumption ==
  /\ NumMsgs \in Nat /\ NumConvs \in Nat /\ MaxChanges \in Nat /\ MaxFaults \in Nat
  /\ ConvOf \in [1 .. NumMsgs -> (NumMsgs + 1) .. (NumMsgs + NumConvs)]

VARIABLES
  room,        \* Room: the content of every row
  log,         \* Room: legacy_change_log, the changes [seq, row] not yet trimmed
  lastSeq,     \* the number of the last change
  fence,       \* Room: legacy_cutover_control.state = 1
  pending,     \* preferences: a cutover is requested
  mirror,      \* preferences: the authenticated copy of the journal
  journal,     \* native database: cutover_journal
  rows,        \* native database: the content of every row
  native,      \* native database: the file, the state of the import, ...
  startup,     \* the process: what it was started as
  pc,          \* the process: what it does next
  cursor,      \* the migration: the last row of the snapshot
  base,        \* the migration: the high water it works with
  quiet,       \* the process: the old client's writers have been stopped
  faults,      \* faults so far
  disturbed,   \* this process, or its end, met a fault
  online       \* who calls the coordinator: see above

roomVars    == <<room, log, fence>>
nativeVars  == <<journal, rows, native>>
prefVars    == <<pending, mirror>>
workVars    == <<cursor, base, quiet>>
vars == <<roomVars, lastSeq, prefVars, nativeVars, startup, pc, workVars, faults, disturbed, online>>

Rows == 1 .. (NumMsgs + NumConvs)
IsMessage(r) == r <= NumMsgs
Contents == 0 .. MaxChanges

LEGACY   == 0
PREPARED == 1
NO_WRITE == 2
DIRTY    == 3

Evidence == [state : -1 .. 3, high : Contents]
NoEvidence == [state |-> -1, high |-> 0]

(* mutant: MAX of an empty log is not replaced by 0 *)
HighWaterNoRows == IF log = {} THEN -1 ELSE Max({c.seq : c \in log})

HighWater == IF log = {} THEN 0 ELSE Max({c.seq : c \in log})

(* how many messages and how many conversations a store holds *)
Summary(store) ==
  [message |-> Cardinality({r \in Rows : IsMessage(r) /\ store[r] # 0}),
   conversation |-> Cardinality({r \in Rows : ~IsMessage(r) /\ store[r] # 0})]

Init ==
  /\ room = [r \in Rows |-> 0] /\ log = {} /\ fence = FALSE /\ lastSeq = 0
  /\ pending = FALSE /\ mirror = NoEvidence
  /\ journal = NoEvidence /\ rows = [r \in Rows |-> 0]
  /\ native = [exists |-> FALSE, import |-> "disabled", checkpoint |-> -1, streams |-> {}]
  /\ startup = "Down" /\ pc = "idle"
  /\ cursor = 0 /\ base = 0 /\ quiet = FALSE
  /\ faults = 0 /\ disturbed = FALSE /\ online \in BOOLEAN

-----------------------------------------------------------------------------
(* How a call ends. *)

Calm == UNCHANGED <<faults, disturbed, online>>

Fault ==
  /\ faults < MaxFaults
  /\ faults' = faults + 1
  /\ disturbed' = TRUE /\ UNCHANGED online

(* the end of a migration that did not commit *)
GiveUp(kind) ==
  /\ startup' = IF online /\ kind = "Retryable" THEN "Legacy" ELSE "Repair"
  /\ pc' = "idle"

Fenced == {"finalCatchUp", "finalTrim", "finalLevel", "finish", "prepare"}

(* from the fence to PREPARED a failure goes through the finally block *)
Fail(kind) ==
  IF pc \in Fenced
  THEN /\ pc' = IF kind = "Retryable" THEN "unfence" ELSE "unfenceRepair"
       /\ UNCHANGED startup
  ELSE GiveUp(kind)

Proceed(next) == pc' = next /\ Calm /\ UNCHANGED startup

(* a write of the native database: it may be done although the call fails *)
NativeWrite(next, kind, done, undone) ==
  \/ done /\ Proceed(next)
  \/ (done \/ undone) /\ Fault /\ Fail(kind)

(* a write of Room or of the mirror: done or not *)
OtherWrite(next, kind, done, undone) ==
  \/ done /\ Proceed(next)
  \/ undone /\ Fault /\ Fail(kind)

-----------------------------------------------------------------------------
(* The process starts and decides which store it uses. *)

Start ==
  /\ startup = "Down"
  /\ startup' = "Starting" /\ pc' = "decide" /\ disturbed' = FALSE
  /\ UNCHANGED <<roomVars, lastSeq, prefVars, nativeVars, workVars, faults, online>>

(* CutoverRecoverySelector.resolve; opened and tested: the database could be *)
Resolve(opened, tested) ==
  CASE ~native.exists -> IF mirror = NoEvidence THEN "Legacy" ELSE "Repair"
    [] native.exists /\ (~opened \/ journal = NoEvidence \/ journal # mirror) -> "Repair"
    [] native.exists /\ opened /\ journal = mirror /\ journal.state \in {LEGACY, PREPARED} -> "Legacy"
    [] OTHER -> IF tested THEN "Native" ELSE "Repair"

(* mutant: the request is cleared when the migration starts *)
LaunchClearing(decision) ==
  LET outcome == IF startup = "Migrating" /\ decision # "Native" THEN "Repair"
                 ELSE IF decision = "Legacy" /\ pending THEN "Migrating"
                 ELSE decision
  IN  /\ startup' = outcome
      /\ pc' = IF outcome = "Migrating" THEN "open" ELSE "idle"
      /\ pending' = (pending /\ outcome \notin {"Native", "Migrating"})

(* onCreate, and the second decision of the process that migrated *)
Launch(decision) ==
  LET outcome == IF startup = "Migrating" /\ decision # "Native" THEN "Repair"
                 ELSE IF decision = "Legacy" /\ pending THEN "Migrating"
                 ELSE decision
  IN  /\ startup' = outcome
      /\ pc' = IF outcome = "Migrating" THEN "open" ELSE "idle"
      /\ pending' = (pending /\ outcome # "Native")

(* mutant: PREPARED is treated like LEGACY *)
DecideLegacy ==
  /\ pc = "decide"
  /\ \/ Calm /\ Launch(Resolve(TRUE, TRUE))
     \/ /\ native.exists /\ Fault
        /\ \E opened \in BOOLEAN : Launch(Resolve(opened, FALSE))
  /\ UNCHANGED <<roomVars, lastSeq, mirror, nativeVars, workVars>>

Decide ==
  /\ pc = "decide"
  /\ \/ /\ Calm
        /\ IF Resolve(TRUE, TRUE) = "Legacy" /\ journal.state = PREPARED
           THEN pc' = "promote" /\ UNCHANGED <<startup, pending>>
           ELSE Launch(Resolve(TRUE, TRUE))
     \/ /\ native.exists /\ Fault
        /\ \E opened \in BOOLEAN : Launch(Resolve(opened, FALSE))
  /\ UNCHANGED <<roomVars, lastSeq, mirror, nativeVars, workVars>>

(* both stores say PREPARED: complete the commitment *)
Promote ==
  /\ pc = "promote"
  /\ \/ /\ journal' = [journal EXCEPT !.state = NO_WRITE]
        /\ Proceed("promoteMirror") /\ UNCHANGED pending
     \/ /\ journal' \in {journal, [journal EXCEPT !.state = NO_WRITE]}
        /\ Fault /\ Launch("Repair")
  /\ UNCHANGED <<roomVars, lastSeq, mirror, rows, native, workVars>>

PromoteMirror ==
  /\ pc = "promoteMirror"
  /\ \/ mirror' = journal /\ Calm /\ Launch("Native")
     \/ UNCHANGED mirror /\ Fault /\ Launch("Repair")
  /\ UNCHANGED <<roomVars, lastSeq, nativeVars, workVars>>

-----------------------------------------------------------------------------
(* The old client, and the request for the cutover. *)

(* the triggers: a write is refused behind the fence, and logged otherwise; *)
(* a message's row gets the next id                                         *)
LegacyWrite(r) ==
  /\ startup = "Legacy" /\ ~quiet /\ ~fence /\ lastSeq < MaxChanges
  /\ IsMessage(r) => \A n \in 1 .. (r - 1) : room[n] # 0
  /\ lastSeq' = lastSeq + 1
  /\ room' = [room EXCEPT ![r] = lastSeq + 1]
  /\ log' = log \cup {[seq |-> lastSeq + 1, row |-> r]}
  /\ UNCHANGED <<fence, prefVars, nativeVars, startup, pc, workVars, faults, disturbed, online>>

(* prepareColdStartCutover: stop the old client; when it does not drain in *)
(* time nothing is requested and the client stays stopped                  *)
StopLegacy ==
  /\ ~online /\ startup = "Legacy" /\ pc = "idle" /\ ~quiet
  /\ quiet' = TRUE
  /\ pc' \in {"schedule", "idle"}
  /\ UNCHANGED <<roomVars, lastSeq, prefVars, nativeVars, startup, cursor, base, faults, disturbed, online>>

Schedule ==
  /\ pc = "schedule"
  /\ \/ /\ ~pending /\ ~native.exists
        /\ pending' = TRUE /\ pc' = "exit" /\ Calm
     \/ pc' = "idle" /\ Fault /\ UNCHANGED pending
  /\ UNCHANGED <<roomVars, lastSeq, mirror, nativeVars, startup, workVars>>

(* the process ends itself, is ended while idle, or is killed at work *)
Down ==
  /\ startup' = "Down" /\ pc' = "idle"
  /\ cursor' = 0 /\ base' = 0 /\ quiet' = FALSE
  /\ UNCHANGED <<roomVars, lastSeq, prefVars, nativeVars>>

Exit == pc = "exit" /\ Down /\ Calm
Quit == startup # "Down" /\ pc = "idle" /\ Down /\ Calm
Kill == pc # "idle" /\ Down /\ Fault

-----------------------------------------------------------------------------
(* The migration. *)

(* a caller of the coordinator whose old client runs *)
Attempt ==
  /\ online /\ startup = "Legacy" /\ pc = "idle"
  /\ pc' = "open"
  /\ UNCHANGED <<roomVars, lastSeq, prefVars, nativeVars, startup, workVars, faults, disturbed, online>>

Open ==
  /\ pc = "open"
  /\ NativeWrite("journal", "Retryable", native' = [native EXCEPT !.exists = TRUE], UNCHANGED native)
  /\ UNCHANGED <<roomVars, lastSeq, prefVars, journal, rows, workVars>>

(* a first attempt takes the high water as its baseline, a later one keeps *)
(* the baseline of the journal, which must agree with the mirror           *)
ReadJournal ==
  /\ pc = "journal"
  /\ \/ /\ journal = NoEvidence
        /\ base' = HighWater /\ Proceed("record")
     \/ /\ journal.state = LEGACY /\ mirror = journal
        /\ base' = journal.high /\ Proceed("begin")
     \/ /\ journal # NoEvidence /\ ~(journal.state = LEGACY /\ mirror = journal)
        /\ Fail("RepairRequired") /\ Calm /\ UNCHANGED base
     \/ Fail("RepairRequired") /\ Fault /\ UNCHANGED base
  /\ cursor' = 0
  /\ UNCHANGED <<roomVars, lastSeq, prefVars, nativeVars, quiet>>

RecordLegacy ==
  /\ pc = "record"
  /\ NativeWrite("recordMirror", "RepairRequired",
                 journal' = [state |-> LEGACY, high |-> base], UNCHANGED journal)
  /\ UNCHANGED <<roomVars, lastSeq, prefVars, rows, native, workVars>>

MirrorLegacy ==
  /\ pc = "recordMirror"
  /\ OtherWrite("begin", "RepairRequired", mirror' = journal, UNCHANGED mirror)
  /\ UNCHANGED <<roomVars, lastSeq, pending, nativeVars, workVars>>

(* beginImport refuses once an import has been verified *)
BeginMigration ==
  /\ pc = "begin"
  /\ IF native.import = "verified"
     THEN Fail("Retryable") /\ Calm /\ UNCHANGED native
     ELSE NativeWrite("seed", "Retryable",
                      native' = [native EXCEPT !.import = "shadow", !.streams = {}],
                      UNCHANGED native)
  /\ UNCHANGED <<roomVars, lastSeq, prefVars, journal, rows, workVars>>

SeedCheckpoint ==
  /\ pc = "seed"
  /\ IF native.checkpoint \notin {-1, base}
     THEN Fail("Retryable") /\ Calm /\ UNCHANGED native
     ELSE NativeWrite("snapshot", "Retryable",
                      native' = [native EXCEPT !.checkpoint = base], UNCHANGED native)
  /\ UNCHANGED <<roomVars, lastSeq, prefVars, journal, rows, workVars>>

(* a message that was not there, or that changed, comes with a row of its  *)
(* conversation: made from the message when there is none, and rewritten   *)
(* with it when the message is not older than what the row shows           *)
PutMessage(m, change) ==
  \E shown \in {change, rows[ConvOf[m]]} \ {0} :
    rows' = [rows EXCEPT ![m] = change, ![ConvOf[m]] = shown]

(* a message that is already there must be the same, and is left alone; a  *)
(* conversation is overwritten                                             *)
ImportRow(r) ==
  /\ IF IsMessage(r) /\ rows[r] = 0
     THEN PutMessage(r, room[r])
     ELSE rows' = [rows EXCEPT ![r] = room[r]]
  /\ native' = [native EXCEPT !.streams = @ \cup {IF IsMessage(r) THEN "message" ELSE "conversation"}]

Snapshot ==
  /\ pc = "snapshot"
  /\ LET left == {r \in Rows : r > cursor /\ room[r] # 0}
     IN  IF left = {}
         THEN Proceed("catchUp") /\ UNCHANGED <<rows, native, cursor>>
         ELSE LET r == Min(left)
              IN  IF IsMessage(r) /\ rows[r] \notin {0, room[r]}
                  THEN Fail("Retryable") /\ Calm /\ UNCHANGED <<rows, native, cursor>>
                  ELSE /\ NativeWrite("snapshot", "Retryable", ImportRow(r), UNCHANGED <<rows, native>>)
                       /\ cursor' = r
  /\ UNCHANGED <<roomVars, lastSeq, prefVars, journal, base, quiet>>

(* applyLegacyDeltaBatch: the next change and the checkpoint together *)
ApplyChange(c) ==
  /\ IF IsMessage(c.row)
     THEN PutMessage(c.row, c.seq)
     ELSE rows' = [rows EXCEPT ![c.row] = c.seq]
  /\ native' = [native EXCEPT !.checkpoint = c.seq]

CatchUp ==
  /\ pc \in {"catchUp", "finalCatchUp"}
  /\ LET new == {c \in log : c.seq > native.checkpoint}
         final == pc = "finalCatchUp"
     IN  IF new = {}
         THEN Proceed(IF final THEN "finalLevel" ELSE "level") /\ UNCHANGED <<rows, native>>
         ELSE NativeWrite(IF final THEN "finalTrim" ELSE "trim", "Retryable",
                          ApplyChange(CHOOSE c \in new : \A d \in new : c.seq <= d.seq),
                          UNCHANGED <<rows, native>>)
  /\ UNCHANGED <<roomVars, lastSeq, prefVars, journal, workVars>>

TrimLog ==
  /\ pc \in {"trim", "finalTrim"}
  /\ OtherWrite(IF pc = "trim" THEN "catchUp" ELSE "finalCatchUp", "Retryable",
                log' = {c \in log : c.seq > native.checkpoint}, UNCHANGED log)
  /\ UNCHANGED <<room, fence, lastSeq, prefVars, nativeVars, workVars>>

(* the high water is read after the page was found empty *)
IsLevel ==
  /\ pc \in {"level", "finalLevel"}
  /\ IF HighWater <= native.checkpoint
     THEN Proceed(IF pc = "level" THEN "quiesce" ELSE "finish")
     ELSE Fail("Retryable") /\ Calm
  /\ UNCHANGED <<roomVars, lastSeq, prefVars, nativeVars, workVars>>

(* stopAndDrain; the application's answer is always true *)
Quiesce ==
  /\ pc = "quiesce"
  /\ \/ quiet' = TRUE /\ Proceed("fence")
     \/ online /\ quiet' \in {quiet, TRUE} /\ Fail("Retryable") /\ Calm
  /\ UNCHANGED <<roomVars, lastSeq, prefVars, nativeVars, cursor, base>>

(* mutant: the last catching up happens before the fence only *)
FenceLast ==
  /\ pc = "fence"
  /\ OtherWrite("finish", "Retryable", fence' = TRUE, UNCHANGED fence)
  /\ UNCHANGED <<room, log, lastSeq, prefVars, nativeVars, workVars>>

Fence ==
  /\ pc = "fence"
  /\ OtherWrite("finalCatchUp", "Retryable", fence' = TRUE, UNCHANGED fence)
  /\ UNCHANGED <<room, log, lastSeq, prefVars, nativeVars, workVars>>

(* the two stores are compared by their counts, derived conversations      *)
(* included, and by each stream having been imported                       *)
Reconciled ==
  /\ Summary(room) = Summary(rows)
  /\ \A s \in {"message", "conversation"} : Summary(room)[s] > 0 => s \in native.streams

FinishMigration ==
  /\ pc = "finish"
  /\ IF Reconciled
     THEN /\ NativeWrite("prepare", "Retryable",
                         native' = [native EXCEPT !.import = "verified"], UNCHANGED native)
          /\ base' = HighWater
     ELSE Fail("Retryable") /\ Calm /\ UNCHANGED <<native, base>>
  /\ UNCHANGED <<roomVars, lastSeq, prefVars, journal, rows, cursor, quiet>>

Prepare ==
  /\ pc = "prepare"
  /\ NativeWrite("prepareMirror", "RepairRequired",
                 journal' = [state |-> PREPARED, high |-> base], UNCHANGED journal)
  /\ UNCHANGED <<roomVars, lastSeq, prefVars, rows, native, workVars>>

MirrorPrepared ==
  /\ pc = "prepareMirror"
  /\ OtherWrite("commit", "RepairRequired", mirror' = journal, UNCHANGED mirror)
  /\ UNCHANGED <<roomVars, lastSeq, pending, nativeVars, workVars>>

Commit ==
  /\ pc = "commit"
  /\ NativeWrite("commitMirror", "RepairRequired",
                 journal' = [journal EXCEPT !.state = NO_WRITE], UNCHANGED journal)
  /\ UNCHANGED <<roomVars, lastSeq, prefVars, rows, native, workVars>>

(* committed: the runner's process decides again, any other is restarted *)
MirrorCommitted ==
  /\ pc = "commitMirror"
  /\ OtherWrite(IF online THEN "exit" ELSE "decide", "RepairRequired",
                mirror' = journal, UNCHANGED mirror)
  /\ UNCHANGED <<roomVars, lastSeq, pending, nativeVars, workVars>>

(* the finally block; its failure is ignored *)
Unfence ==
  /\ pc \in {"unfence", "unfenceRepair"}
  /\ \/ fence' = FALSE /\ Calm
     \/ UNCHANGED fence /\ Fault
  /\ GiveUp(IF pc = "unfence" THEN "Retryable" ELSE "RepairRequired")
  /\ UNCHANGED <<room, log, lastSeq, prefVars, nativeVars, workVars>>

-----------------------------------------------------------------------------
(* The native client. *)

(* submitBusinessSync: the write and NO_WRITE -> DIRTY are one transaction; *)
(* a caller whose wait timed out does not tell the mirror                   *)
BusinessWrite(r) ==
  /\ startup = "Native" /\ journal.state \in {NO_WRITE, DIRTY} /\ lastSeq < MaxChanges
  /\ lastSeq' = lastSeq + 1
  /\ rows' = [rows EXCEPT ![r] = lastSeq + 1]
  /\ journal' = [journal EXCEPT !.state = DIRTY]
  /\ \/ pc' = (IF journal.state = NO_WRITE THEN "notify" ELSE pc) /\ Calm
     \/ journal.state = NO_WRITE /\ UNCHANGED pc /\ Fault
  /\ UNCHANGED <<roomVars, prefVars, native, startup, workVars>>

(* the listener; a mirror that cannot be written is only logged *)
MirrorDirty ==
  /\ pc = "notify"
  /\ pc' = "idle"
  /\ \/ mirror' = journal /\ Calm
     \/ UNCHANGED mirror /\ Fault
  /\ UNCHANGED <<roomVars, lastSeq, pending, nativeVars, startup, workVars>>

-----------------------------------------------------------------------------
ProcessStep ==
  \/ Start \/ Decide \/ Promote \/ PromoteMirror \/ Schedule \/ Exit
  \/ Open \/ ReadJournal \/ RecordLegacy \/ MirrorLegacy
  \/ BeginMigration \/ SeedCheckpoint \/ Snapshot \/ CatchUp \/ TrimLog \/ IsLevel
  \/ Quiesce \/ Fence \/ FinishMigration \/ Prepare \/ MirrorPrepared
  \/ Commit \/ MirrorCommitted \/ Unfence \/ MirrorDirty

Next ==
  \/ ProcessStep
  \/ StopLegacy \/ Attempt \/ Quit \/ Kill
  \/ \E r \in Rows : LegacyWrite(r) \/ BusinessWrite(r)

Spec == Init /\ [][Next]_vars

(* A process that has something to do goes on, and an application that was *)
(* ended is started again; nothing is assumed of the user's other actions. *)
FairSpec == Spec /\ WF_vars(ProcessStep)

-----------------------------------------------------------------------------
(* Every variable keeps its type. *)
TypeOK ==
  /\ room \in [Rows -> Contents] /\ rows \in [Rows -> Contents]
  /\ log \subseteq [seq : 1 .. MaxChanges, row : Rows]
  /\ lastSeq \in Contents /\ base \in Contents /\ cursor \in 0 .. (NumMsgs + NumConvs)
  /\ fence \in BOOLEAN /\ pending \in BOOLEAN /\ quiet \in BOOLEAN /\ disturbed \in BOOLEAN
  /\ mirror \in Evidence /\ journal \in Evidence
  /\ native \in [exists : BOOLEAN, import : {"disabled", "shadow", "verified"},
                 checkpoint : -1 .. MaxChanges, streams : SUBSET {"message", "conversation"}]
  /\ startup \in {"Down", "Starting", "Legacy", "Migrating", "Native", "Repair"}
  /\ pc \in Fenced \cup
       {"idle", "decide", "promote", "promoteMirror", "schedule", "exit", "open", "journal",
        "record", "recordMirror", "begin", "seed", "snapshot", "catchUp", "trim", "level",
        "quiesce", "fence", "prepareMirror", "commit", "commitMirror",
        "unfence", "unfenceRepair", "notify"}
  /\ faults \in 0 .. MaxFaults /\ online \in BOOLEAN

(* The cutover implements OneSource: Room owns the account until the       *)
(* native journal says NO_WRITE, nobody may write while the fence stands   *)
(* before that, the fence stands for good after it, and at the step to     *)
(* NO_WRITE the native store holds exactly Room's messages, and exactly    *)
(* its conversations.  What a conversation shows is not promised: a change *)
(* of a message that comes after the last one of its conversation, its     *)
(* status for instance, rewrites the row of the conversation.              *)
Committed == journal.state >= NO_WRITE

(* what both stores must agree on: of a conversation, that it exists *)
Account(store) ==
  [r \in Rows |-> IF IsMessage(r) \/ store[r] = 0 THEN store[r] ELSE 1]

Source == INSTANCE OneSource
  WITH owner <- CASE ~fence -> IF Committed THEN "both" ELSE "room"
                  [] fence  -> IF Committed THEN "native" ELSE "nobody",
       data  <- IF Committed THEN Account(rows) ELSE Account(room)

OneSourceSpec == Source!Spec

(* The application never runs the old client on a fenced Room, where all   *)
(* its writes would be refused: a process killed between the fence and     *)
(* PREPARED is followed by one that migrates again.                        *)
LegacyCanWrite == startup = "Legacy" /\ ~online => ~fence

(* A migration that starts from nothing, and one that both stores call     *)
(* PREPARED, reaches NO_WRITE unless a fault meets the process at work on  *)
(* it; after the fault the same holds of the next process.  A migration    *)
(* from nothing needs a conversation for every message: an account with a  *)
(* message saved alone (history does that, ChatStore.kt:45) gets one       *)
(* conversation too many in the native store, and is refused every time.   *)
NoLoneMessage == \A m \in 1 .. NumMsgs : room[m] # 0 => room[ConvOf[m]] # 0

Completable ==
  \/ startup = "Migrating" /\ ~native.exists /\ NoLoneMessage
  \/ journal.state = PREPARED /\ mirror = journal

UndisturbedCompletes == Completable ~> (journal.state >= NO_WRITE \/ disturbed)

(* CutoverMigrationCoordinator.kt:44 says that what fails before PREPARED  *)
(* can be tried again: while both stores say LEGACY, a process that meets  *)
(* no fault itself is not refused.                                         *)
RetryableBeforePrepared ==
  startup = "Repair" /\ journal.state = LEGACY /\ mirror = journal => disturbed
=============================================================================
