---------------------------- MODULE CutoverProofs ----------------------------
(***************************************************************************)
(* What holds of the cutover for every number of rows, of changes and of   *)
(* faults: its types, that it implements OneSource (one store at a time    *)
(* accepts writes, and the step to the native store changes no message and *)
(* neither adds nor drops a conversation), and that the application never  *)
(* runs the old client on a fenced Room.                                   *)
(***************************************************************************)
EXTENDS Cutover, FiniteSetTheorems, WellFoundedInduction, NaturalsInduction, TLAPS

-----------------------------------------------------------------------------
(* The inductive invariant.  Its parts say, in the order of the migration: *)
(* what the change log still holds, how far the native rows are a copy,    *)
(* where the fence stands, what the journal and the mirror say at each     *)
(* step, and that a request outlives everything but the commitment.        *)

Before   == {"record", "recordMirror", "begin", "seed"}
Copying  == {"snapshot", "catchUp", "trim", "level", "quiesce", "fence"} \cup Fenced
Copied   == {"catchUp", "trim", "level", "quiesce", "fence",
             "finalCatchUp", "finalTrim", "finalLevel"}
Equal    == {"prepare", "prepareMirror", "commit", "promote"}
AtLegacy == (Before \ {"record"}) \cup {"unfence"} \cup Copying
Working  == {"open", "journal", "record", "prepareMirror", "commit", "unfenceRepair"}
              \cup AtLegacy

(* Before the commitment every change that the checkpoint has not passed   *)
(* is in the log, and the log, unless it is empty, ends with the last one. *)
LogInv ==
  ~Committed =>
    /\ \A c \in log : c.seq <= room[c.row] /\ c.seq <= lastSeq
    /\ \A c, d \in log : c.seq = d.seq => c = d
    /\ log = {} \/ \E c \in log : c.seq = lastSeq
    /\ \A r \in Rows : room[r] <= lastSeq
    /\ \A r \in Rows : room[r] # 0 /\ room[r] > native.checkpoint
                         => [seq |-> room[r], row |-> r] \in log
    /\ native.checkpoint <= lastSeq /\ base <= lastSeq /\ journal.high <= lastSeq

(* A message of Room is in the native store as it is; of a conversation no *)
(* more can be said than that it is there, since messages rewrite it.      *)
Held(r) == IF IsMessage(r) THEN rows[r] = room[r] ELSE room[r] # 0 => rows[r] # 0

Same(r) == room[r] <= native.checkpoint => Held(r)

Alike ==
  \A r \in Rows : IF IsMessage(r) THEN rows[r] = room[r] ELSE rows[r] = 0 <=> room[r] = 0

(* The native messages are never ahead of Room, and what the migration has *)
(* been over is held up to the checkpoint.  A conversation that Room does  *)
(* not have may be there until the counts are compared.                    *)
RowsInv ==
  /\ ~Committed => \A r \in Rows : IsMessage(r) => rows[r] <= room[r]
  /\ pc \in Before => cursor = 0
  /\ pc \in Copying => native.checkpoint >= 0
  /\ pc = "snapshot" => \A r \in Rows : r <= cursor => Same(r)
  /\ pc \in Copied => \A r \in Rows : Same(r)
  /\ pc = "finish" => \A r \in Rows : Held(r)
  /\ pc \in Equal => Alike

FenceInv ==
  /\ Committed => fence
  /\ pc \in Fenced \cup Equal => fence

(* Evidence of PREPARED in the mirror is evidence of equal, fenced stores. *)
EvidenceInv ==
  /\ journal # NoEvidence => journal.state >= LEGACY /\ native.exists
  /\ mirror.state >= PREPARED => journal.state >= PREPARED
  /\ mirror.state >= PREPARED /\ ~Committed => fence /\ Alike

StepInv ==
  /\ pc = "record" => journal = NoEvidence
  /\ pc \in Working \ {"open"} => native.exists
  /\ pc \in AtLegacy => journal.state = LEGACY
  /\ pc \in Working \ {"commit", "open", "journal"} => mirror.state < PREPARED
  /\ pc \in Working => ~Committed
  /\ pc \in {"prepareMirror", "commit", "promote"} => journal.state = PREPARED
  /\ pc = "promote" => mirror = journal /\ startup = "Starting"
  /\ pc \in {"promoteMirror", "commitMirror", "notify"} => Committed
  /\ pc = "promoteMirror" => startup = "Starting"
  /\ pc = "decide" => startup = "Starting" \/ Committed
  /\ startup = "Legacy" /\ (~online \/ pc \notin {"commitMirror", "exit"}) => ~Committed

PendingInv ==
  ~online =>
    /\ pc \in Working => startup = "Migrating" /\ pending
    /\ fence /\ ~Committed => pending
    /\ startup = "Legacy" => ~fence

IInv == TypeOK /\ LogInv /\ RowsInv /\ FenceInv /\ EvidenceInv /\ StepInv /\ PendingInv

(* The parts of TypeOK, each preserved by itself. *)
StoreType ==
  /\ room \in [Rows -> Contents] /\ rows \in [Rows -> Contents]
  /\ log \subseteq [seq : 1 .. MaxChanges, row : Rows]
  /\ lastSeq \in Contents /\ base \in Contents /\ cursor \in 0 .. (NumMsgs + NumConvs)

FlagType ==
  /\ fence \in BOOLEAN /\ pending \in BOOLEAN /\ quiet \in BOOLEAN
  /\ disturbed \in BOOLEAN /\ online \in BOOLEAN

EvidenceType == mirror \in Evidence /\ journal \in Evidence

NativeType ==
  native \in [exists : BOOLEAN, import : {"disabled", "shadow", "verified"},
              checkpoint : -1 .. MaxChanges, streams : SUBSET {"message", "conversation"}]

ProcessType ==
  /\ startup \in {"Down", "Starting", "Legacy", "Migrating", "Native", "Repair"}
  /\ pc \in Working \cup Equal \cup
       {"idle", "decide", "promoteMirror", "schedule", "exit", "commitMirror", "notify"}

FaultType == faults \in 0 .. MaxFaults

LEMMA TypeParts ==
  TypeOK <=> /\ StoreType /\ FlagType /\ EvidenceType
             /\ NativeType /\ ProcessType /\ FaultType
  <1>1. Fenced \cup {"idle", "decide", "promote", "promoteMirror", "schedule", "exit", "open", "journal",
        "record", "recordMirror", "begin", "seed", "snapshot", "catchUp", "trim", "level",
        "quiesce", "fence", "prepareMirror", "commit", "commitMirror",
        "unfence", "unfenceRepair", "notify"} = Working \cup Equal \cup
       {"idle", "decide", "promoteMirror", "schedule", "exit", "commitMirror", "notify"}
    BY DEF Working, AtLegacy, Before, Copying, Fenced, Equal
  <1> QED
    BY <1>1 DEF TypeOK, StoreType, FlagType, EvidenceType, NativeType, ProcessType, FaultType

-----------------------------------------------------------------------------
(* The helpers.                                                            *)

(* The log has a last change, the greatest of its numbers. *)
LEMMA HighWaterIs ==
  ASSUME StoreType, LogInv, ~Committed
  PROVE  HighWater = (IF log = {} THEN 0 ELSE lastSeq)
  <1> DEFINE S == {c.seq : c \in log}
  <1>1. CASE log # {}
    <2>1. PICK c \in log : c.seq = lastSeq
      BY <1>1 DEF LogInv
    <2>2. lastSeq \in S /\ \A s \in S : s \in Nat /\ s <= lastSeq
      BY <2>1 DEF LogInv, StoreType, Contents
    <2>3. Max(S) = lastSeq
      BY <2>2 DEF Max
    <2> QED
      BY <1>1, <2>3 DEF HighWater
  <1> QED
    BY <1>1 DEF HighWater

(* A set of naturals that is not empty has a least element. *)
LEMMA HasLeast ==
  ASSUME NEW S \in SUBSET Nat, S # {}
  PROVE  \E least \in S : \A s \in S : least <= s
  <1>1. PICK least \in S : \A s \in S : ~ <<s, least>> \in OpToRel(<, Nat)
    BY NatLessThanWellFounded, WFMin
  <1>2. \A s \in S : ~(s < least)
    BY <1>1 DEF OpToRel
  <1> QED
    BY <1>2

LEMMA LeastLeft ==
  ASSUME NEW left \in SUBSET Rows, left # {}
  PROVE  Min(left) \in left /\ \A r \in left : Min(left) <= r
  <1>1. left \in SUBSET Nat
    BY CutoverAssumption DEF Rows
  <1>2. PICK least \in left : \A r \in left : least <= r
    BY <1>1, HasLeast
  <1> QED
    BY <1>2 DEF Min

LEMMA LeastNew ==
  ASSUME StoreType, NEW new \in SUBSET log, new # {}
  PROVE  LET c == CHOOSE c \in new : \A d \in new : c.seq <= d.seq
         IN  c \in new /\ \A d \in new : c.seq <= d.seq
  <1> DEFINE S == {c.seq : c \in new}
  <1>1. S \in SUBSET Nat /\ S # {}
    BY DEF StoreType
  <1>2. PICK least \in S : \A s \in S : least <= s
    BY <1>1, HasLeast
  <1>3. \E c \in new : \A d \in new : c.seq <= d.seq
    BY <1>2
  <1> QED
    BY <1>3

(* The step of the snapshot, and of the catching up. *)
LEMMA SnapshotDoes ==
  ASSUME Snapshot
  PROVE  \/ /\ UNCHANGED <<rows, native, cursor>>
            /\ pc' = "catchUp" => \A r \in Rows : r > cursor => room[r] = 0
            /\ pc' # "snapshot"
         \/ \E r \in Rows :
              /\ room[r] # 0 /\ cursor' = r
              /\ \A q \in Rows : cursor < q /\ q < r => room[q] = 0
              /\ ImportRow(r) \/ (UNCHANGED <<rows, native>> /\ pc' = "idle")
              /\ pc' \in {"snapshot", "idle"}
  <1> DEFINE left == {r \in Rows : r > cursor /\ room[r] # 0}
             next == Min(left)
  <1>1. CASE left = {}
    BY <1>1 DEF Snapshot, Proceed
  <1>2. CASE left # {}
    <2>1. next \in left /\ \A r \in left : next <= r
      BY <1>2, LeastLeft
    <2>2. \/ UNCHANGED <<rows, native, cursor>> /\ pc' = "idle"
          \/ /\ cursor' = next
             /\ \/ ImportRow(next) /\ pc' \in {"snapshot", "idle"}
                \/ UNCHANGED <<rows, native>> /\ pc' = "idle"
      BY <1>2 DEF Snapshot, NativeWrite, Proceed, Fail, Fenced, GiveUp
    <2> HIDE DEF next
    <2>3. \A q \in Rows : cursor < q /\ q < next => room[q] = 0
      BY <2>1, CutoverAssumption DEF Rows
    <2> QED
      BY <2>1, <2>2, <2>3
  <1> QED
    BY <1>1, <1>2

LEMMA CatchUpDoes ==
  ASSUME StoreType, CatchUp
  PROVE  \/ UNCHANGED <<rows, native>>
         \/ \E c \in log :
              /\ c.seq > native.checkpoint
              /\ \A d \in log : d.seq > native.checkpoint => c.seq <= d.seq
              /\ ApplyChange(c)
  <1> DEFINE new == {c \in log : c.seq > native.checkpoint}
             least == CHOOSE c \in new : \A d \in new : c.seq <= d.seq
  <1>1. CASE new = {}
    BY <1>1 DEF CatchUp
  <1>2. CASE new # {}
    <2>1. least \in new /\ \A d \in new : least.seq <= d.seq
      BY <1>2, LeastNew
    <2>2. UNCHANGED <<rows, native>> \/ ApplyChange(least)
      BY <1>2 DEF CatchUp, NativeWrite
    <2> QED
      BY <2>1, <2>2
  <1> QED
    BY <1>1, <1>2

(* What an import or a change does to the rows: the one row gets its       *)
(* content, no other message changes, and no conversation goes.            *)
Puts(r, change) ==
  /\ rows' \in [Rows -> Contents]
  /\ \A q \in Rows : IsMessage(q) => rows'[q] = IF q = r THEN change ELSE rows[q]
  /\ \A q \in Rows : ~IsMessage(q) /\ (q = r \/ rows[q] # 0) => rows'[q] # 0

LEMMA PutMessageDoes ==
  ASSUME StoreType, NEW m \in Rows, IsMessage(m), NEW change \in Contents \ {0},
         PutMessage(m, change)
  PROVE  Puts(m, change)
  <1>1. PICK shown \in {change, rows[ConvOf[m]]} \ {0} :
          rows' = [rows EXCEPT ![m] = change, ![ConvOf[m]] = shown]
    BY DEF PutMessage
  <1>2. m \in 1 .. NumMsgs
    BY CutoverAssumption DEF Rows, IsMessage
  <1>3. /\ ConvOf[m] \in (NumMsgs + 1) .. (NumMsgs + NumConvs)
        /\ ConvOf[m] \in Rows /\ ~IsMessage(ConvOf[m]) /\ ConvOf[m] # m
    BY <1>2, CutoverAssumption DEF Rows, IsMessage
  <1>4. shown \in Contents \ {0}
    BY <1>1, <1>3 DEF StoreType
  <1>5. rows' \in [Rows -> Contents]
    BY <1>1, <1>4 DEF StoreType
  <1>6. \A q \in Rows : rows'[q] = IF q = ConvOf[m] THEN shown ELSE IF q = m THEN change ELSE rows[q]
    BY <1>1, <1>3 DEF StoreType
  <1> QED
    BY <1>3, <1>4, <1>5, <1>6 DEF Puts

LEMMA PutRowDoes ==
  ASSUME StoreType, NEW r \in Rows, NEW change \in Contents,
         change # 0, rows' = [rows EXCEPT ![r] = change]
  PROVE  Puts(r, change)
  BY DEF Puts, StoreType

LEMMA ImportDoes ==
  ASSUME StoreType, NEW r \in Rows, room[r] # 0, ImportRow(r)
  PROVE  Puts(r, room[r])
  <1>1. room[r] \in Contents \ {0}
    BY DEF StoreType
  <1> QED
    BY <1>1, PutMessageDoes, PutRowDoes DEF ImportRow

LEMMA ApplyDoes ==
  ASSUME StoreType, NEW c \in log, ApplyChange(c)
  PROVE  Puts(c.row, c.seq)
  <1>1. c.row \in Rows /\ c.seq \in Contents \ {0}
    BY CutoverAssumption DEF StoreType, Contents
  <1> QED
    BY <1>1, PutMessageDoes, PutRowDoes DEF ApplyChange

(* Equal counts, when Room's conversations are all there, leave room for   *)
(* no other one.                                                           *)
LEMMA CountsAgree ==
  ASSUME StoreType, Reconciled, \A r \in Rows : Held(r)
  PROVE  Alike
  <1> DEFINE Old == {r \in Rows : ~IsMessage(r) /\ room[r] # 0}
             New == {r \in Rows : ~IsMessage(r) /\ rows[r] # 0}
  <1>1. Old \subseteq New
    BY DEF Held
  <1>2. IsFiniteSet(New)
    <2>1. IsFiniteSet(Rows)
      BY FS_Interval, CutoverAssumption DEF Rows
    <2> QED
      BY <2>1, FS_Subset
  <1>3. Cardinality(Old) = Cardinality(New)
    BY DEF Reconciled, Summary
  <1>4. Old = New
    BY <1>1, <1>2, <1>3, FS_Subset
  <1>5. ASSUME NEW r \in Rows, ~IsMessage(r)
        PROVE  rows[r] = 0 <=> room[r] = 0
    BY <1>4, <1>5
  <1> QED
    BY <1>5 DEF Alike, Held

(* Stores that are alike are the same account. *)
LEMMA AlikeIs ==
  ASSUME Alike
  PROVE  Account(rows) = Account(room)
  BY DEF Alike, Account

LEMMA JournalMoves ==
  ASSUME EvidenceType, NEW s \in -1 .. 3
  PROVE  [journal EXCEPT !.state = s] = [state |-> s, high |-> journal.high]
  BY DEF EvidenceType, Evidence

LEMMA Resolved ==
  ASSUME EvidenceType, EvidenceInv, NEW opened \in BOOLEAN, NEW tested \in BOOLEAN
  PROVE  \/ /\ Resolve(opened, tested) = "Legacy"
            /\ ~Committed
            /\ native.exists => journal = mirror /\ journal.state \in {LEGACY, PREPARED}
         \/ Resolve(opened, tested) = "Native" /\ Committed
         \/ Resolve(opened, tested) = "Repair"
  <1> USE DEF Resolve, EvidenceType, Evidence, LEGACY, PREPARED, NO_WRITE, Committed, NoEvidence
  <1>1. CASE ~native.exists
    BY <1>1 DEF EvidenceInv
  <1>2. CASE native.exists /\ (~opened \/ journal = NoEvidence \/ journal # mirror)
    BY <1>2
  <1>3. CASE native.exists /\ opened /\ journal = mirror /\ journal # NoEvidence
    <2>1. journal.state \in 0 .. 3
      BY <1>3 DEF EvidenceInv
    <2>2. CASE journal.state \in {LEGACY, PREPARED}
      BY <1>3, <2>2
    <2>3. CASE journal.state \notin {LEGACY, PREPARED}
      <3>1. Resolve(opened, tested) = IF tested THEN "Native" ELSE "Repair"
        BY <1>3, <2>3
      <3> QED
        BY <2>1, <2>3, <3>1
    <2> QED
      BY <2>2, <2>3
  <1> QED
    BY <1>1, <1>2, <1>3

(* What both stores call PREPARED is complete. *)
LEMMA DecidePromotes ==
  ASSUME EvidenceType, EvidenceInv, Decide, pc' = "promote"
  PROVE  /\ mirror = journal /\ journal.state = PREPARED
         /\ Alike /\ fence /\ UNCHANGED <<startup, pending>>
  <1>1. /\ Resolve(TRUE, TRUE) = "Legacy" /\ journal.state = PREPARED
        /\ UNCHANGED <<startup, pending>>
    BY DEF Decide, Launch
  <1>2. native.exists
    BY <1>1 DEF EvidenceInv, NoEvidence, PREPARED
  <1>3. mirror = journal
    BY <1>1, <1>2, Resolved, TRUE \in BOOLEAN
  <1> QED
    BY <1>1, <1>3 DEF EvidenceInv, Committed, PREPARED, NO_WRITE

LEMMA LaunchDoes ==
  ASSUME FlagType, NEW decision \in {"Legacy", "Repair"}, Launch(decision)
  PROVE  /\ UNCHANGED pending
         /\ \/ startup' = "Migrating" /\ pc' = "open" /\ decision = "Legacy" /\ pending
            \/ startup' \in {decision, "Repair"} /\ pc' = "idle"
         /\ startup' = "Legacy" => decision = "Legacy" /\ ~pending
  <1> DEFINE outcome == IF startup = "Migrating" /\ decision # "Native" THEN "Repair"
                        ELSE IF decision = "Legacy" /\ pending THEN "Migrating"
                        ELSE decision
  <1>1. /\ startup' = outcome /\ pending' = (pending /\ outcome # "Native")
        /\ pc' = IF outcome = "Migrating" THEN "open" ELSE "idle"
    BY DEF Launch
  <1>2. outcome # "Native"
    OBVIOUS
  <1>3. UNCHANGED pending
    <2>1. pending' = (pending /\ TRUE)
      BY <1>1, <1>2
    <2> QED
      BY <2>1 DEF FlagType
  <1> QED
    BY <1>1, <1>3

LEMMA DecideDoes ==
  ASSUME FlagType, EvidenceType, EvidenceInv, Decide, pc' # "promote"
  PROVE  /\ UNCHANGED <<roomVars, lastSeq, mirror, nativeVars, workVars, online>>
         /\ \/ Committed /\ startup' = "Native" /\ pc' = "idle"
            \/ \E decision \in {"Legacy", "Repair"} :
                 Launch(decision) /\ (decision = "Legacy" => ~Committed)
  <1>1. \E opened, tested \in BOOLEAN : Launch(Resolve(opened, tested))
    BY DEF Decide
  <1>2. PICK opened \in BOOLEAN, tested \in BOOLEAN : Launch(Resolve(opened, tested))
    BY <1>1
  <1>3. Launch("Native") => startup' = "Native" /\ pc' = "idle"
    BY DEF Launch
  <1>4. UNCHANGED <<roomVars, lastSeq, mirror, nativeVars, workVars, online>>
    BY DEF Decide, Calm, Fault
  <1> QED
    BY <1>2, <1>3, <1>4, Resolved
-----------------------------------------------------------------------------
(* The types.                                                              *)

LEMMA StoreTypeStep ==
  ASSUME StoreType, NativeType, EvidenceType, StepInv, LogInv, [Next]_vars
  PROVE  StoreType'
  <1> USE DEF StoreType, Contents, Rows
  <1>1. CASE \/ Start \/ Decide \/ Promote \/ PromoteMirror \/ MirrorDirty
    BY <1>1 DEF Start, roomVars, prefVars, nativeVars, workVars, Decide,
       Calm, PREPARED, Launch, Fault, Promote, NO_WRITE, Proceed,
       PromoteMirror, MirrorDirty
  <1>2. CASE \/ Schedule \/ Exit \/ StopLegacy \/ Attempt \/ Quit \/ Kill
    BY <1>2, CutoverAssumption DEF Schedule, Calm, Fault, roomVars,
       nativeVars, workVars, Exit, Down, prefVars, StopLegacy, Attempt,
       Quit, Kill
  <1>3. CASE \/ Open \/ RecordLegacy \/ MirrorLegacy \/ BeginMigration
             \/ SeedCheckpoint
    BY <1>3 DEF Open, NativeWrite, roomVars, prefVars, workVars, Proceed,
       Fault, Fail, Fenced, GiveUp, Calm, RecordLegacy, LEGACY,
       MirrorLegacy, OtherWrite, nativeVars, BeginMigration, SeedCheckpoint
  <1>4. CASE ReadJournal
    <2>1. journal = NoEvidence => HighWater \in Contents
      <3>1. journal = NoEvidence => ~Committed
        BY DEF NoEvidence, Committed, NO_WRITE
      <3> QED
        BY <3>1, HighWaterIs, CutoverAssumption
    <2>2. /\ base' \in {base, journal.high} \/ (journal = NoEvidence /\ base' = HighWater)
          /\ journal.high \in Contents
      BY <1>4 DEF ReadJournal, EvidenceType, Evidence
    <2>3. UNCHANGED <<room, rows, log, lastSeq>> /\ cursor' = 0
      BY <1>4 DEF ReadJournal, roomVars, nativeVars
    <2>4. 0 \in 0 .. (NumMsgs + NumConvs)
      BY CutoverAssumption
    <2> QED
      BY <2>1, <2>2, <2>3, <2>4
  <1>5. CASE Snapshot
    <2>1. CASE UNCHANGED <<rows, cursor>>
      BY <1>5, <2>1 DEF Snapshot, roomVars
    <2>2. ASSUME NEW r \in Rows, room[r] # 0, cursor' = r,
                 UNCHANGED rows \/ ImportRow(r)
          PROVE  StoreType'
      <3>1. r \in 0 .. (NumMsgs + NumConvs)
        BY CutoverAssumption
      <3>2. rows' \in [Rows -> Contents]
        BY <2>2, ImportDoes DEF Puts
      <3> QED
        BY <1>5, <2>2, <3>1, <3>2 DEF Snapshot, roomVars
    <2> QED
      BY <1>5, <2>1, <2>2, SnapshotDoes
  <1>6. CASE CatchUp
    <2>1. CASE UNCHANGED rows
      BY <1>6, <2>1 DEF CatchUp, roomVars, workVars
    <2>2. ASSUME NEW c \in log, ApplyChange(c)
          PROVE  StoreType'
      <3>1. rows' \in [Rows -> Contents]
        BY <2>2, ApplyDoes DEF Puts
      <3> QED
        BY <1>6, <3>1 DEF CatchUp, roomVars, workVars
    <2> QED
      BY <1>6, <2>1, <2>2, CatchUpDoes
  <1>7. CASE \/ TrimLog \/ IsLevel \/ Quiesce \/ Fence
    BY <1>7 DEF TrimLog, OtherWrite, prefVars, nativeVars, workVars,
       Proceed, Fault, Fail, Fenced, GiveUp, Calm, IsLevel, roomVars,
       Quiesce, Fence
  <1>8. CASE FinishMigration
    <2>1. HighWater \in Contents
      <3>1. ~Committed
        BY <1>8 DEF FinishMigration, StepInv, Working, AtLegacy, Copying, Fenced
      <3>2. HighWater \in {0, lastSeq}
        BY <3>1, HighWaterIs
      <3> QED
        BY <3>2, CutoverAssumption DEF StoreType, Contents
    <2>2. UNCHANGED <<room, rows, log, lastSeq, cursor>> /\ base' \in {base, HighWater}
      BY <1>8 DEF FinishMigration, roomVars
    <2> QED
      BY <2>1, <2>2
  <1>9. CASE \/ Prepare \/ MirrorPrepared \/ Commit \/ MirrorCommitted
             \/ Unfence
    BY <1>9 DEF Prepare, NativeWrite, PREPARED, roomVars, prefVars,
       workVars, Proceed, Fault, Fail, Fenced, GiveUp, Calm, MirrorPrepared,
       OtherWrite, nativeVars, Commit, NO_WRITE, MirrorCommitted, Unfence
  <1>10. CASE (\E r \in Rows : LegacyWrite(r))
    <2>1. PICK r \in Rows : LegacyWrite(r)
      BY <1>10
    <2>2. lastSeq + 1 \in 1 .. MaxChanges /\ lastSeq + 1 \in Contents
      BY <2>1, CutoverAssumption DEF LegacyWrite
    <2>3. log' \subseteq [seq : 1 .. MaxChanges, row : Rows]
      BY <2>1, <2>2 DEF LegacyWrite
    <2> QED
      BY <2>1, <2>2, <2>3 DEF LegacyWrite, nativeVars, workVars
  <1>11. CASE (\E r \in Rows : BusinessWrite(r))
    <2>1. PICK r \in Rows : BusinessWrite(r)
      BY <1>11
    <2>2. lastSeq + 1 \in Contents
      BY <2>1, CutoverAssumption DEF BusinessWrite
    <2>3. rows' \in [Rows -> Contents]
      BY <2>1, <2>2 DEF BusinessWrite
    <2> QED
      BY <2>1, <2>2, <2>3 DEF BusinessWrite, roomVars, workVars
  <1>12. CASE UNCHANGED vars
    BY <1>12 DEF vars, roomVars, nativeVars, prefVars, workVars
  <1> QED
    BY <1>1, <1>2, <1>3, <1>4, <1>5, <1>6, <1>7, <1>8, <1>9, <1>10, <1>11,
       <1>12 DEF Next, ProcessStep

LEMMA FlagTypeStep ==
  ASSUME FlagType, [Next]_vars
  PROVE  FlagType'
  <1> USE DEF FlagType
  <1>1. CASE \/ Start \/ Decide \/ Promote \/ PromoteMirror
    BY <1>1 DEF Start, roomVars, prefVars, nativeVars, workVars, Decide,
       Calm, PREPARED, Launch, Fault, Promote, NO_WRITE, Proceed,
       PromoteMirror
  <1>2. CASE \/ Schedule \/ Exit \/ StopLegacy \/ Attempt \/ Quit \/ Kill
    BY <1>2 DEF Schedule, Calm, Fault, roomVars, nativeVars, workVars, Exit,
       Down, prefVars, StopLegacy, Attempt, Quit, Kill
  <1>3. CASE \/ Open \/ RecordLegacy \/ MirrorLegacy \/ BeginMigration
             \/ SeedCheckpoint \/ ReadJournal
    BY <1>3 DEF Open, NativeWrite, roomVars, prefVars, workVars, Proceed,
       Fault, Fail, Fenced, GiveUp, Calm, RecordLegacy, LEGACY,
       MirrorLegacy, OtherWrite, nativeVars, BeginMigration, SeedCheckpoint,
       ReadJournal, NoEvidence
  <1>4. CASE \/ Snapshot \/ CatchUp \/ TrimLog \/ IsLevel \/ Quiesce
             \/ Fence
    BY <1>4 DEF Snapshot, Proceed, Fail, Calm, NativeWrite, ImportRow,
       roomVars, prefVars, Fault, Fenced, GiveUp, CatchUp, ApplyChange,
       workVars, TrimLog, OtherWrite, nativeVars, IsLevel, Quiesce, Fence
  <1>5. CASE \/ FinishMigration \/ Prepare \/ MirrorPrepared \/ Commit
             \/ MirrorCommitted \/ Unfence
    BY <1>5 DEF FinishMigration, Reconciled, NativeWrite, Fail, Calm,
       roomVars, prefVars, Fenced, GiveUp, Proceed, Fault, Prepare,
       PREPARED, workVars, MirrorPrepared, OtherWrite, nativeVars, Commit,
       NO_WRITE, MirrorCommitted, Unfence
  <1>6. CASE \/ (\E r \in Rows : LegacyWrite(r))
             \/ (\E r \in Rows : BusinessWrite(r)) \/ MirrorDirty
    BY <1>6 DEF LegacyWrite, prefVars, nativeVars, workVars, BusinessWrite,
       NO_WRITE, DIRTY, Calm, Fault, roomVars, MirrorDirty
  <1>7. CASE UNCHANGED vars
    BY <1>7 DEF vars, roomVars, nativeVars, prefVars, workVars
  <1> QED
    BY <1>1, <1>2, <1>3, <1>4, <1>5, <1>6, <1>7 DEF Next, ProcessStep

LEMMA FaultsCounted ==
  ASSUME [Next]_vars
  PROVE  Fault \/ UNCHANGED faults
  <1>1. CASE \/ Start \/ Decide \/ Promote \/ PromoteMirror
    BY <1>1 DEF Start, roomVars, prefVars, nativeVars, workVars, Decide,
       Calm, PREPARED, Launch, Promote, NO_WRITE, Proceed, PromoteMirror
  <1>2. CASE \/ Schedule \/ Exit \/ StopLegacy \/ Attempt \/ Quit \/ Kill
    BY <1>2 DEF Schedule, Calm, roomVars, nativeVars, workVars, Exit, Down,
       prefVars, StopLegacy, Attempt, Quit, Kill
  <1>3. CASE \/ Open \/ RecordLegacy \/ MirrorLegacy \/ BeginMigration
             \/ SeedCheckpoint \/ ReadJournal
    BY <1>3 DEF Open, NativeWrite, roomVars, prefVars, workVars, Proceed,
       Fail, Fenced, GiveUp, Calm, RecordLegacy, LEGACY, MirrorLegacy,
       OtherWrite, nativeVars, BeginMigration, SeedCheckpoint, ReadJournal,
       NoEvidence
  <1>4. CASE \/ Snapshot \/ CatchUp \/ TrimLog \/ IsLevel \/ Quiesce
             \/ Fence
    BY <1>4 DEF Snapshot, Proceed, Fail, Calm, NativeWrite, ImportRow,
       roomVars, prefVars, Fenced, GiveUp, CatchUp, ApplyChange, workVars,
       TrimLog, OtherWrite, nativeVars, IsLevel, Quiesce, Fence
  <1>5. CASE \/ FinishMigration \/ Prepare \/ MirrorPrepared \/ Commit
             \/ MirrorCommitted \/ Unfence
    BY <1>5 DEF FinishMigration, Reconciled, NativeWrite, Fail, Calm,
       roomVars, prefVars, Fenced, GiveUp, Proceed, Prepare, PREPARED,
       workVars, MirrorPrepared, OtherWrite, nativeVars, Commit, NO_WRITE,
       MirrorCommitted, Unfence
  <1>6. CASE \/ (\E r \in Rows : LegacyWrite(r))
             \/ (\E r \in Rows : BusinessWrite(r)) \/ MirrorDirty
    BY <1>6 DEF LegacyWrite, prefVars, nativeVars, workVars, BusinessWrite,
       NO_WRITE, DIRTY, Calm, roomVars, MirrorDirty
  <1>7. CASE UNCHANGED vars
    BY <1>7 DEF vars, roomVars, nativeVars, prefVars, workVars
  <1> QED
    BY <1>1, <1>2, <1>3, <1>4, <1>5, <1>6, <1>7 DEF Next, ProcessStep

LEMMA EvidenceTypeStep ==
  ASSUME EvidenceType, StoreType, [Next]_vars
  PROVE  EvidenceType'
  <1> USE DEF EvidenceType, Evidence
  <1>1. CASE \/ Start \/ Decide
    BY <1>1 DEF Start, roomVars, prefVars, nativeVars, workVars, Decide,
       Calm, PREPARED, Launch, Fault
  <1>2. CASE \/ Promote \/ PromoteMirror
    BY <1>2 DEF Promote, NO_WRITE, Proceed, Fault, Launch, roomVars,
       workVars, Calm, PromoteMirror, nativeVars
  <1>3. CASE \/ Schedule \/ Exit \/ StopLegacy \/ Attempt \/ Quit \/ Kill
    BY <1>3 DEF Schedule, Calm, Fault, roomVars, nativeVars, workVars, Exit,
       Down, prefVars, StopLegacy, Attempt, Quit, Kill
  <1>4. CASE \/ Open \/ RecordLegacy \/ MirrorLegacy \/ BeginMigration
             \/ SeedCheckpoint \/ ReadJournal
    BY <1>4 DEF Open, NativeWrite, roomVars, prefVars, workVars, Proceed,
       Fault, Fail, Fenced, GiveUp, Calm, RecordLegacy, LEGACY,
       MirrorLegacy, OtherWrite, nativeVars, BeginMigration, SeedCheckpoint,
       ReadJournal, NoEvidence, StoreType
  <1>5. CASE \/ Snapshot \/ CatchUp \/ TrimLog \/ IsLevel \/ Quiesce
             \/ Fence
    BY <1>5 DEF Snapshot, Proceed, Fail, Calm, NativeWrite, ImportRow,
       roomVars, prefVars, Fault, Fenced, GiveUp, CatchUp, ApplyChange,
       workVars, TrimLog, OtherWrite, nativeVars, IsLevel, Quiesce, Fence
  <1>6. CASE \/ FinishMigration \/ Prepare \/ MirrorPrepared \/ Commit
             \/ MirrorCommitted \/ Unfence
    BY <1>6 DEF FinishMigration, Reconciled, NativeWrite, Fail, Calm,
       roomVars, prefVars, Fenced, GiveUp, Proceed, Fault, Prepare,
       PREPARED, workVars, MirrorPrepared, OtherWrite, nativeVars, Commit,
       NO_WRITE, MirrorCommitted, Unfence, StoreType
  <1>7. CASE \/ (\E r \in Rows : LegacyWrite(r))
             \/ (\E r \in Rows : BusinessWrite(r)) \/ MirrorDirty
    BY <1>7 DEF LegacyWrite, prefVars, nativeVars, workVars, BusinessWrite,
       NO_WRITE, DIRTY, Calm, Fault, roomVars, MirrorDirty
  <1>8. CASE UNCHANGED vars
    BY <1>8 DEF vars, roomVars, nativeVars, prefVars, workVars
  <1> QED
    BY <1>1, <1>2, <1>3, <1>4, <1>5, <1>6, <1>7, <1>8 DEF Next, ProcessStep

LEMMA NativeTypeStep ==
  ASSUME NativeType, StoreType, [Next]_vars
  PROVE  NativeType'
  <1> USE DEF NativeType, StoreType, Contents
  <1>1. CASE \/ Start \/ Decide \/ Promote \/ PromoteMirror
    BY <1>1 DEF Start, roomVars, prefVars, nativeVars, workVars, Decide,
       Calm, PREPARED, Launch, Fault, Promote, NO_WRITE, Proceed,
       PromoteMirror
  <1>2. CASE \/ Schedule \/ Exit \/ StopLegacy \/ Attempt \/ Quit \/ Kill
    BY <1>2 DEF Schedule, Calm, Fault, roomVars, nativeVars, workVars, Exit,
       Down, prefVars, StopLegacy, Attempt, Quit, Kill
  <1>3. CASE \/ Open \/ RecordLegacy \/ ReadJournal \/ MirrorLegacy
             \/ BeginMigration
    BY <1>3 DEF Open, NativeWrite, roomVars, prefVars, workVars, Proceed,
       Fault, Fail, Fenced, GiveUp, Calm, RecordLegacy, LEGACY, ReadJournal,
       NoEvidence, nativeVars, MirrorLegacy, OtherWrite, BeginMigration
  <1>4. CASE SeedCheckpoint
    BY <1>4 DEF SeedCheckpoint, Fail, Calm, NativeWrite, roomVars, prefVars,
       workVars, Proceed, Fault, Fenced, GiveUp
  <1>5. CASE Snapshot
    BY <1>5 DEF Snapshot, Proceed, Fail, Calm, NativeWrite, ImportRow,
       roomVars, prefVars, Fault, Fenced, GiveUp
  <1>6. CASE CatchUp
    <2>1. CASE UNCHANGED native
      BY <2>1
    <2>2. ASSUME NEW c \in log, ApplyChange(c)
          PROVE  NativeType'
      <3>1. native' = [native EXCEPT !.checkpoint = c.seq]
        BY <2>2 DEF ApplyChange
      <3>2. c.seq \in -1 .. MaxChanges
        BY CutoverAssumption
      <3> QED
        BY <3>1, <3>2
    <2> QED
      BY <1>6, <2>1, <2>2, CatchUpDoes
  <1>7. CASE \/ TrimLog \/ IsLevel \/ Quiesce \/ Fence
    BY <1>7 DEF TrimLog, OtherWrite, prefVars, nativeVars, workVars,
       Proceed, Fault, Fail, Fenced, GiveUp, Calm, IsLevel, roomVars,
       Quiesce, Fence
  <1>8. CASE \/ FinishMigration \/ Prepare \/ MirrorPrepared \/ Commit
             \/ MirrorCommitted \/ Unfence
    BY <1>8 DEF FinishMigration, Reconciled, NativeWrite, Fail, Calm,
       roomVars, prefVars, Fenced, GiveUp, Proceed, Fault, Prepare,
       PREPARED, workVars, MirrorPrepared, OtherWrite, nativeVars, Commit,
       NO_WRITE, MirrorCommitted, Unfence
  <1>9. CASE \/ (\E r \in Rows : LegacyWrite(r))
             \/ (\E r \in Rows : BusinessWrite(r)) \/ MirrorDirty
    BY <1>9 DEF LegacyWrite, prefVars, nativeVars, workVars, BusinessWrite,
       NO_WRITE, DIRTY, Calm, Fault, roomVars, MirrorDirty
  <1>10. CASE UNCHANGED vars
    BY <1>10 DEF vars, roomVars, nativeVars, prefVars, workVars
  <1> QED
    BY <1>1, <1>2, <1>3, <1>4, <1>5, <1>6, <1>7, <1>8, <1>9, <1>10 DEF Next, ProcessStep

LEMMA ProcessTypeStep ==
  ASSUME ProcessType, EvidenceType, EvidenceInv, [Next]_vars
  PROVE  ProcessType'
  <1> USE DEF ProcessType, Working, AtLegacy, Before, Copying, Equal
  <1>1. CASE \/ Start \/ Promote \/ PromoteMirror
    BY <1>1 DEF Start, roomVars, prefVars, nativeVars, workVars, Promote,
       NO_WRITE, Proceed, Fault, Launch, Calm, PromoteMirror
  <1>2. CASE Decide
    BY <1>2, Resolved DEF Decide, Calm, PREPARED, Launch, Fault, roomVars,
       nativeVars, workVars
  <1>3. CASE \/ Schedule \/ Exit \/ StopLegacy \/ Attempt \/ Quit \/ Kill
    BY <1>3 DEF Schedule, Calm, Fault, roomVars, nativeVars, workVars, Exit,
       Down, prefVars, StopLegacy, Attempt, Quit, Kill
  <1>4. CASE \/ Open \/ RecordLegacy \/ MirrorLegacy \/ BeginMigration
             \/ SeedCheckpoint \/ ReadJournal
    BY <1>4 DEF Open, NativeWrite, roomVars, prefVars, workVars, Proceed,
       Fault, Fail, Fenced, GiveUp, Calm, RecordLegacy, LEGACY,
       MirrorLegacy, OtherWrite, nativeVars, BeginMigration, SeedCheckpoint,
       ReadJournal, NoEvidence
  <1>5. CASE \/ Snapshot \/ CatchUp \/ TrimLog \/ IsLevel \/ Quiesce
             \/ Fence
    BY <1>5 DEF Snapshot, Proceed, Fail, Calm, NativeWrite, ImportRow,
       roomVars, prefVars, Fault, Fenced, GiveUp, CatchUp, ApplyChange,
       workVars, TrimLog, OtherWrite, nativeVars, IsLevel, Quiesce, Fence
  <1>6. CASE \/ FinishMigration \/ Prepare \/ MirrorPrepared \/ Commit
             \/ MirrorCommitted \/ Unfence
    BY <1>6 DEF FinishMigration, Reconciled, NativeWrite, Fail, Calm,
       roomVars, prefVars, Fenced, GiveUp, Proceed, Fault, Prepare,
       PREPARED, workVars, MirrorPrepared, OtherWrite, nativeVars, Commit,
       NO_WRITE, MirrorCommitted, Unfence
  <1>7. CASE \/ (\E r \in Rows : LegacyWrite(r))
             \/ (\E r \in Rows : BusinessWrite(r)) \/ MirrorDirty
    BY <1>7 DEF LegacyWrite, prefVars, nativeVars, workVars, BusinessWrite,
       NO_WRITE, DIRTY, Calm, Fault, roomVars, MirrorDirty
  <1>8. CASE UNCHANGED vars
    BY <1>8 DEF vars, roomVars, nativeVars, prefVars, workVars
  <1> QED
    BY <1>1, <1>2, <1>3, <1>4, <1>5, <1>6, <1>7, <1>8 DEF Next, ProcessStep

-----------------------------------------------------------------------------
(* The parts of the invariant.                                             *)

(* The commitment is for good. *)
LEMMA CommittedStays ==
  ASSUME EvidenceType, StepInv, Committed, [Next]_vars
  PROVE  Committed'
  <1> USE DEF Committed, NO_WRITE
  <1>1. CASE \/ Start \/ Decide \/ PromoteMirror
    BY <1>1 DEF Start, roomVars, prefVars, nativeVars, workVars, Decide,
       Calm, PREPARED, Launch, Fault, PromoteMirror
  <1>2. CASE Promote
    BY <1>2, JournalMoves DEF Promote, Proceed, Fault, Launch, roomVars,
       workVars, Calm, EvidenceType, Evidence
  <1>3. CASE \/ Schedule \/ Exit \/ StopLegacy \/ Attempt \/ Quit \/ Kill
    BY <1>3 DEF Schedule, Calm, Fault, roomVars, nativeVars, workVars, Exit,
       Down, prefVars, StopLegacy, Attempt, Quit, Kill
  <1>4. CASE \/ Open \/ ReadJournal \/ RecordLegacy \/ MirrorLegacy
             \/ BeginMigration \/ SeedCheckpoint
    BY <1>4 DEF Open, NativeWrite, roomVars, prefVars, workVars, Proceed,
       Fault, Fail, Fenced, GiveUp, Calm, ReadJournal, NoEvidence, LEGACY,
       nativeVars, RecordLegacy, MirrorLegacy, OtherWrite, BeginMigration,
       SeedCheckpoint, StepInv, Working, AtLegacy, Before
  <1>5. CASE \/ Snapshot \/ CatchUp \/ TrimLog \/ IsLevel \/ Quiesce
             \/ Fence
    BY <1>5 DEF Snapshot, Proceed, Fail, Calm, NativeWrite, ImportRow,
       roomVars, prefVars, Fault, Fenced, GiveUp, CatchUp, ApplyChange,
       workVars, TrimLog, OtherWrite, nativeVars, IsLevel, Quiesce, Fence
  <1>6. CASE \/ FinishMigration \/ Prepare \/ MirrorPrepared \/ Commit
             \/ MirrorCommitted \/ Unfence
    BY <1>6 DEF FinishMigration, Reconciled, NativeWrite, Fail, Calm,
       roomVars, prefVars, Fenced, GiveUp, Proceed, Fault, Prepare,
       PREPARED, workVars, MirrorPrepared, OtherWrite, nativeVars, Commit,
       MirrorCommitted, Unfence, StepInv, Working, AtLegacy, Before, Copying
  <1>7. CASE \/ (\E r \in Rows : LegacyWrite(r))
             \/ (\E r \in Rows : BusinessWrite(r)) \/ MirrorDirty
    BY <1>7 DEF LegacyWrite, prefVars, nativeVars, workVars, BusinessWrite,
       DIRTY, Calm, Fault, roomVars, MirrorDirty, EvidenceType, Evidence
  <1>8. CASE UNCHANGED vars
    BY <1>8 DEF vars, roomVars, nativeVars, prefVars, workVars
  <1> QED
    BY <1>1, <1>2, <1>3, <1>4, <1>5, <1>6, <1>7, <1>8 DEF Next, ProcessStep

LEMMA LogFrame ==
  ASSUME LogInv, UNCHANGED <<room, log, lastSeq, base>>,
         journal' = journal \/ Committed', native'.checkpoint = native.checkpoint
  PROVE  LogInv'
  BY DEF LogInv, Committed

LEMMA LogStep ==
  ASSUME StoreType, NativeType, EvidenceType, LogInv, StepInv, EvidenceInv,
         [Next]_vars
  PROVE  LogInv'
  <1>1. CASE \/ Start \/ Decide \/ Schedule \/ StopLegacy \/ Attempt
             \/ PromoteMirror \/ MirrorLegacy
    BY <1>1, LogFrame DEF Start, roomVars, prefVars, nativeVars, workVars,
       Decide, Calm, PREPARED, Launch, Fault, Schedule, StopLegacy, Attempt,
       PromoteMirror, MirrorLegacy, OtherWrite, Proceed, Fail, Fenced,
       GiveUp
  <1>2. CASE \/ Promote \/ Commit
    BY <1>2, LogFrame, JournalMoves DEF Promote, NO_WRITE, Proceed, Fault,
       Launch, roomVars, workVars, Calm, Commit, NativeWrite, prefVars,
       Fail, Fenced, GiveUp, Committed
  <1>3. CASE \/ Exit \/ Quit \/ Kill
    BY <1>3, CutoverAssumption DEF Exit, Down, Calm, roomVars, prefVars,
       nativeVars, Quit, Kill, Fault, LogInv, StoreType, Contents, Committed
  <1>4. CASE \/ Open \/ BeginMigration
    BY <1>4, LogFrame DEF Open, NativeWrite, roomVars, prefVars, workVars,
       Proceed, Fault, Fail, Fenced, GiveUp, Calm, BeginMigration,
       NativeType
  <1>5. CASE ReadJournal
    BY <1>5, HighWaterIs DEF ReadJournal, NoEvidence, Proceed, LEGACY, Fail,
       Calm, Fault, roomVars, prefVars, nativeVars, Fenced, GiveUp, LogInv,
       StoreType, NativeType, EvidenceType, Evidence, Contents, Committed
  <1>6. CASE RecordLegacy
    <2>1. UNCHANGED <<room, log, lastSeq, base, native>>
      BY <1>6 DEF RecordLegacy, NativeWrite, roomVars, workVars
    <2>2. journal' = journal \/ journal'.high = base
      BY <1>6 DEF RecordLegacy, NativeWrite
    <2>3. ~Committed
      BY <1>6 DEF RecordLegacy, StepInv, Working, AtLegacy
    <2> QED
      BY <2>1, <2>2, <2>3 DEF LogInv, Committed
  <1>7. CASE SeedCheckpoint
    BY <1>7 DEF SeedCheckpoint, Fail, Calm, NativeWrite, roomVars, prefVars,
       workVars, Proceed, Fault, Fenced, GiveUp, LogInv, StoreType,
       NativeType, EvidenceType, Evidence, Contents, Committed
  <1>8. CASE Snapshot
    BY <1>8, SnapshotDoes, LogFrame DEF Snapshot, Proceed, Fail, Calm,
       NativeWrite, ImportRow, roomVars, prefVars, Fault, Fenced, GiveUp,
       NativeType
  <1>9. CASE CatchUp
    <2>1. CASE UNCHANGED native
      BY <1>9, <2>1, LogFrame DEF CatchUp, roomVars, workVars
    <2>2. ASSUME NEW c \in log, c.seq > native.checkpoint, ApplyChange(c)
          PROVE  LogInv'
      <3>1. native'.checkpoint = c.seq
        BY <2>2 DEF ApplyChange, NativeType
      <3> QED
        BY <1>9, <2>2, <3>1
          DEF LogInv, StoreType, NativeType, Contents, CatchUp, roomVars, workVars, Committed
    <2> QED
      BY <1>9, <2>1, <2>2, CatchUpDoes
  <1>10. CASE TrimLog
    BY <1>10 DEF TrimLog, OtherWrite, prefVars, nativeVars, workVars,
       Proceed, Fault, Fail, Fenced, GiveUp, Calm, LogInv, StoreType,
       NativeType, EvidenceType, Evidence, Contents, Committed
  <1>11. CASE \/ IsLevel \/ Quiesce \/ Fence
    BY <1>11, LogFrame DEF IsLevel, Proceed, Fail, Calm, roomVars, prefVars,
       nativeVars, workVars, Fenced, GiveUp, Quiesce, Fence, OtherWrite,
       Fault
  <1>12. CASE FinishMigration
    BY <1>12, HighWaterIs DEF FinishMigration, Reconciled, NativeWrite,
       Fail, Calm, roomVars, prefVars, Fenced, GiveUp, Proceed, Fault,
       LogInv, StoreType, NativeType, EvidenceType, Evidence, Contents,
       Committed
  <1>13. CASE Prepare
    <2>1. UNCHANGED <<room, log, lastSeq, base, native>>
      BY <1>13 DEF Prepare, NativeWrite, roomVars, workVars
    <2>2. journal' = journal \/ journal'.high = base
      BY <1>13 DEF Prepare, NativeWrite
    <2>3. ~Committed
      BY <1>13 DEF Prepare, StepInv, Working, AtLegacy, Before, Copying, Fenced
    <2> QED
      BY <2>1, <2>2, <2>3 DEF LogInv, Committed
  <1>14. CASE \/ MirrorPrepared \/ MirrorCommitted \/ Unfence
              \/ MirrorDirty
    BY <1>14, LogFrame DEF MirrorPrepared, OtherWrite, roomVars, nativeVars,
       workVars, Proceed, Fault, Fail, Fenced, GiveUp, Calm,
       MirrorCommitted, Unfence, prefVars, MirrorDirty
  <1>15. CASE (\E r \in Rows : LegacyWrite(r))
    BY <1>15 DEF LegacyWrite, prefVars, nativeVars, workVars, LogInv,
       StoreType, NativeType, EvidenceType, Evidence, Contents, Committed
  <1>16. CASE (\E r \in Rows : BusinessWrite(r))
    BY <1>16 DEF BusinessWrite, NO_WRITE, DIRTY, Calm, Fault, roomVars,
       prefVars, workVars, EvidenceType, Evidence, Committed, LogInv
  <1>17. CASE UNCHANGED vars
    BY <1>17, LogFrame DEF vars, roomVars, nativeVars, prefVars, workVars
  <1> QED
    BY <1>1, <1>2, <1>3, <1>4, <1>5, <1>6, <1>7, <1>8, <1>9, <1>10, <1>11,
       <1>12, <1>13, <1>14, <1>15, <1>16, <1>17 DEF Next, ProcessStep

LEMMA RowsFrame ==
  ASSUME RowsInv, UNCHANGED <<room, rows>>, Committed => Committed',
         native'.checkpoint = native.checkpoint,
         pc' \in Copying => pc \in Copying,
         pc' = "snapshot" => pc = "snapshot" /\ cursor' = cursor,
         pc' \in Before => cursor' = 0 \/ (pc \in Before /\ cursor' = cursor),
         pc' \in Copied => pc \in Copied,
         pc' = "finish" => pc = "finish",
         pc' \in Equal => pc \in Equal
  PROVE  RowsInv'
  <1>1. \A r \in Rows : (Same(r) => Same(r)') /\ (Held(r) => Held(r)')
    BY DEF Same, Held
  <1>2. ~Committed' => \A r \in Rows : IsMessage(r) => rows'[r] <= room'[r]
    BY DEF RowsInv
  <1>3. pc' \in Before => cursor' = 0
    BY DEF RowsInv
  <1>4. /\ pc' \in Copying => native'.checkpoint >= 0
        /\ pc' \in Equal => Alike'
    BY DEF RowsInv, Alike
  <1>5. /\ pc' = "snapshot" => \A r \in Rows : r <= cursor' => Same(r)'
        /\ pc' \in Copied => \A r \in Rows : Same(r)'
        /\ pc' = "finish" => \A r \in Rows : Held(r)'
    BY <1>1 DEF RowsInv
  <1> QED
    BY <1>2, <1>3, <1>4, <1>5 DEF RowsInv

LEMMA RowsStep ==
  ASSUME StoreType, NativeType, EvidenceType, LogInv, RowsInv, StepInv, EvidenceInv,
         FenceInv, Committed => Committed', [Next]_vars
  PROVE  RowsInv'
  <1>1. CASE \/ Start \/ PromoteMirror \/ Schedule \/ StopLegacy \/ Attempt
    BY <1>1, RowsFrame DEF Start, roomVars, prefVars, nativeVars, workVars,
       PromoteMirror, Calm, Launch, Fault, Schedule, StopLegacy, Attempt,
       Before, Working, AtLegacy, Copying, Copied, Equal, Fenced
  <1>2. CASE Decide
    <2>1. CASE pc' = "promote"
      BY <1>2, <2>1, DecidePromotes
         DEF Decide, roomVars, nativeVars, RowsInv, Alike, Before, Copying, Copied, Equal, Fenced
    <2>2. CASE pc' # "promote"
      BY <1>2, <2>2, RowsFrame DEF Decide, Launch, Calm, Fault, roomVars, nativeVars,
         Before, Copying, Copied, Equal, Fenced
    <2> QED
      BY <2>1, <2>2
  <1>3. CASE Promote
    BY <1>3, RowsFrame DEF Promote, NO_WRITE, Proceed, Fault, Launch,
       roomVars, workVars, Calm, Before, Working, AtLegacy, Copying, Copied,
       Equal, Fenced, NativeType
  <1>4. CASE \/ Exit \/ Quit \/ Kill
    BY <1>4, RowsFrame DEF Exit, Down, Calm, roomVars, prefVars, nativeVars,
       Quit, Kill, Fault, Before, Working, AtLegacy, Copying, Copied, Equal,
       Fenced
  <1>5. CASE \/ Open \/ BeginMigration
    BY <1>5, RowsFrame DEF Open, NativeWrite, roomVars, prefVars, workVars,
       Proceed, Fault, Fail, Fenced, GiveUp, Calm, BeginMigration, Before,
       Working, AtLegacy, Copying, Copied, Equal, NativeType
  <1>6. CASE \/ ReadJournal \/ RecordLegacy \/ MirrorLegacy
    BY <1>6, RowsFrame DEF ReadJournal, NoEvidence, Proceed, LEGACY, Fail,
       Calm, Fault, roomVars, prefVars, nativeVars, Fenced, GiveUp,
       RecordLegacy, NativeWrite, workVars, MirrorLegacy, OtherWrite,
       Before, Working, AtLegacy, Copying, Copied, Equal
  <1>7. CASE SeedCheckpoint
    <2>1. /\ UNCHANGED <<room, rows, cursor>> /\ cursor = 0
          /\ \/ pc' = "snapshot" /\ native'.checkpoint = base
             \/ pc' = "idle"
      BY <1>7 DEF SeedCheckpoint, NativeWrite, Proceed, Fail, GiveUp, Fenced,
                  roomVars, workVars, RowsInv, NativeType, Before
    <2>2. base >= 0 /\ \A r \in Rows : ~(r <= 0)
      BY CutoverAssumption DEF StoreType, Rows, Contents
    <2> QED
      BY <2>1, <2>2 DEF RowsInv, Before, Copying, Copied, Equal, Fenced
  <1>8. CASE Snapshot
    <2>1. /\ UNCHANGED <<room, journal>> /\ ~Committed
          /\ pc = "snapshot" /\ pc' \notin Equal /\ pc' \in {"snapshot", "catchUp", "idle"}
      BY <1>8 DEF Snapshot, NativeWrite, Proceed, Fail, GiveUp, roomVars, StepInv,
                  Working, AtLegacy, Before, Copying, Equal, Fenced
    <2>2. \A r \in Rows : r <= cursor => Same(r)
      BY <2>1 DEF RowsInv
    <2>3. \A r \in Rows : room[r] = 0 => Held(r)
      BY <2>1 DEF RowsInv, StoreType, Contents, Held
    <2>4. CASE /\ UNCHANGED <<rows, native, cursor>> /\ pc' # "snapshot"
               /\ pc' = "catchUp" => \A r \in Rows : r > cursor => room[r] = 0
      <3>1. \A r \in Rows : (Same(r) => Same(r)') /\ (Held(r) => Held(r)')
        BY <2>1, <2>4 DEF Same, Held
      <3>2. pc' = "catchUp" => \A r \in Rows : Same(r)'
        BY <2>2, <2>3, <2>4, <3>1 DEF Same, StoreType, Rows
      <3>3. ~Committed' => \A r \in Rows : IsMessage(r) => rows'[r] <= room'[r]
        BY <2>1, <2>4 DEF RowsInv
      <3> QED
        BY <2>1, <2>4, <3>2, <3>3 DEF RowsInv, Before, Copying, Copied, Fenced
    <2>5. ASSUME NEW r \in Rows, room[r] # 0, cursor' = r,
                 \A q \in Rows : cursor < q /\ q < r => room[q] = 0,
                 ImportRow(r) \/ (UNCHANGED <<rows, native>> /\ pc' = "idle"),
                 pc' \in {"snapshot", "idle"}
          PROVE  RowsInv'
      <3>1. UNCHANGED rows \/ Puts(r, room[r])
        BY <2>5, ImportDoes
      <3>2. native'.checkpoint = native.checkpoint
        BY <2>5 DEF ImportRow, NativeType
      <3>3. \A q \in Rows : IsMessage(q) => rows'[q] <= room'[q]
        BY <2>1, <3>1 DEF RowsInv, StoreType, Contents, Puts
      <3>4. ASSUME pc' = "snapshot", NEW q \in Rows, q <= r
            PROVE  Same(q)'
        <4>1. Puts(r, room[r])
          BY <2>5, <3>4, ImportDoes
        <4>5. q # r /\ Held(q) => Held(q)'
          BY <2>1, <4>1 DEF Held, Puts
        <4>2. CASE q = r
          BY <2>1, <4>1, <4>2 DEF Same, Held, Puts
        <4>3. CASE q < r /\ cursor < q
          BY <2>3, <2>5, <4>3, <4>5 DEF Same, Rows
        <4>4. CASE q < r /\ q <= cursor
          BY <2>1, <2>2, <3>2, <4>4, <4>5 DEF Same, Rows
        <4> QED
          BY <3>4, <4>2, <4>3, <4>4, CutoverAssumption DEF Rows, StoreType
      <3> QED
        BY <2>1, <2>5, <3>2, <3>3, <3>4 DEF RowsInv, Before, Copying, Copied, Equal, Fenced
    <2> QED
      BY <1>8, <2>4, <2>5, SnapshotDoes
  <1>9. CASE CatchUp
    <2>1. CASE UNCHANGED <<rows, native>>
      BY <1>9, <2>1
         DEF CatchUp, NativeWrite, Proceed, Fault, Fail, GiveUp, roomVars, RowsInv, Same, Held,
             Before, Copying, Copied, Equal, Fenced
    <2>2. ASSUME NEW c \in log, c.seq > native.checkpoint,
                 \A d \in log : d.seq > native.checkpoint => c.seq <= d.seq,
                 ApplyChange(c)
          PROVE  RowsInv'
      <3>1. /\ ~Committed /\ journal' = journal /\ room' = room
            /\ pc \in Copied /\ pc' \notin Equal
            /\ pc' \notin {"snapshot", "finish"} \cup Before \cup {"record"}
        BY <1>9 DEF CatchUp, NativeWrite, Proceed, Fail, GiveUp, roomVars,
                    StepInv, Working, AtLegacy, Before, Copying, Copied, Equal, Fenced
      <3>2. /\ c.row \in Rows /\ c.seq \in Nat /\ c.seq <= room[c.row]
            /\ native'.checkpoint = c.seq /\ Puts(c.row, c.seq)
        BY <2>2, <3>1, ApplyDoes DEF ApplyChange, NativeType, StoreType, LogInv
      <3>3. ASSUME NEW r \in Rows, r # c.row
            PROVE  ~(room[r] > native.checkpoint /\ room[r] <= c.seq)
        <4>1. SUFFICES ASSUME room[r] > native.checkpoint, room[r] <= c.seq
                       PROVE  FALSE
          OBVIOUS
        <4> DEFINE d == [seq |-> room[r], row |-> r]
        <4>2. d \in log
          BY <3>1, <4>1 DEF LogInv, RowsInv, Copied, Before, Copying, Fenced, NativeType, StoreType, Contents
        <4>3. c.seq = d.seq
          BY <2>2, <3>2, <4>1, <4>2 DEF StoreType, Contents
        <4>4. c = d
          BY <3>1, <4>2, <4>3 DEF LogInv
        <4> QED
          BY <3>3, <4>4
      <3>4. ASSUME NEW r \in Rows
            PROVE  Same(r)'
        <4>1. CASE r = c.row
          BY <3>1, <3>2, <4>1 DEF Same, Held, Puts, StoreType, Contents
        <4>2. CASE r # c.row
          <5>1. Held(r) => Held(r)'
            BY <3>1, <3>2, <4>2 DEF Held, Puts
          <5>2. room[r] <= c.seq => room[r] <= native.checkpoint
            BY <3>2, <3>3, <4>2 DEF StoreType, NativeType, Contents
          <5> QED
            BY <3>1, <3>2, <5>1, <5>2 DEF Same, RowsInv
        <4> QED
          BY <4>1, <4>2
      <3>5. \A r \in Rows : IsMessage(r) => rows'[r] <= room'[r]
        BY <3>1, <3>2 DEF RowsInv, StoreType, Puts
      <3>6. native'.checkpoint >= 0
        BY <3>2
      <3> QED
        BY <3>1, <3>4, <3>5, <3>6 DEF RowsInv
    <2> QED
      BY <1>9, <2>1, <2>2, CatchUpDoes
  <1>10. CASE \/ TrimLog \/ Quiesce \/ Fence
    BY <1>10, RowsFrame DEF TrimLog, OtherWrite, prefVars, nativeVars,
       workVars, Proceed, Fault, Fail, Fenced, GiveUp, Calm, Quiesce,
       roomVars, Fence, Before, Working, AtLegacy, Copying, Copied, Equal
  <1>11. CASE IsLevel
    <2>1. HighWater <= native.checkpoint =>
            \A r \in Rows : room[r] <= native.checkpoint
      <3>1. ~Committed /\ HighWater = (IF log = {} THEN 0 ELSE lastSeq)
        BY <1>11, HighWaterIs DEF IsLevel, StepInv, Working, AtLegacy, Before, Copying, Fenced
      <3>2. CASE log = {}
        BY <3>1, <3>2 DEF LogInv, StoreType, Contents, NativeType
      <3>3. CASE log # {}
        BY <3>1, <3>3 DEF LogInv, StoreType, Contents, NativeType
      <3> QED
        BY <3>2, <3>3
    <2>2. pc' = "finish" => \A r \in Rows : Held(r)
      BY <1>11, <2>1 DEF IsLevel, Proceed, Fail, Fenced, GiveUp, RowsInv, Same, Copied, StoreType
    <2>3. UNCHANGED <<room, rows, native, journal, cursor>>
      BY <1>11 DEF IsLevel, roomVars, nativeVars, workVars
    <2>4. \A r \in Rows : (Same(r) => Same(r)') /\ (Held(r) => Held(r)')
      BY <2>3 DEF Same, Held
    <2>5. /\ pc \in Copied /\ pc \in Copying
          /\ pc' \in {"quiesce", "finish", "idle", "unfence"}
      BY <1>11 DEF IsLevel, Proceed, Fail, GiveUp, Copying, Copied, Fenced
    <2>6. ~Committed' => ~Committed
      BY <2>3 DEF Committed
    <2> QED
      BY <2>2, <2>3, <2>4, <2>5, <2>6 DEF RowsInv, Before, Copying, Copied, Equal, Fenced
  <1>12. CASE FinishMigration
    <2>1. /\ UNCHANGED <<room, rows, journal, cursor>> /\ pc = "finish"
          /\ native'.checkpoint = native.checkpoint
          /\ pc' \in {"prepare", "unfence"}
          /\ pc' = "prepare" => Reconciled
      BY <1>12 DEF FinishMigration, NativeWrite, Fail, roomVars, Fenced, Proceed, NativeType
    <2>2. CASE pc' = "prepare"
      <3>1. Alike
        BY <2>1, <2>2, CountsAgree DEF RowsInv
      <3>2. Alike'
        BY <2>1, <3>1 DEF Alike
      <3> QED
        BY <2>1, <2>2, <3>2 DEF RowsInv, Before, Copying, Copied, Equal, Fenced, Committed
    <2>3. CASE pc' = "unfence"
      BY <2>1, <2>3, RowsFrame DEF Before, Copying, Copied, Equal, Fenced
    <2> QED
      BY <2>1, <2>2, <2>3
  <1>13. CASE \/ Prepare \/ MirrorPrepared
    BY <1>13, RowsFrame DEF Prepare, NativeWrite, PREPARED, roomVars,
       prefVars, workVars, Proceed, Fault, Fail, Fenced, GiveUp, Calm,
       MirrorPrepared, OtherWrite, nativeVars, Before, Working, AtLegacy,
       Copying, Copied, Equal
  <1>14. CASE \/ Commit \/ MirrorCommitted
    BY <1>14, RowsFrame DEF Commit, NativeWrite, NO_WRITE, roomVars,
       prefVars, workVars, Proceed, Fault, Fail, Fenced, GiveUp, Calm,
       MirrorCommitted, OtherWrite, nativeVars, Before, Working, AtLegacy,
       Copying, Copied, Equal
  <1>15. CASE \/ Unfence \/ MirrorDirty
    BY <1>15, RowsFrame DEF Unfence, Calm, Fault, GiveUp, prefVars,
       nativeVars, workVars, MirrorDirty, roomVars, Before, Working,
       AtLegacy, Copying, Copied, Equal, Fenced
  <1>16. CASE (\E r \in Rows : LegacyWrite(r))
    <2>1. PICK r \in Rows : LegacyWrite(r)
      BY <1>16
    <2>2. /\ UNCHANGED <<rows, native, journal, pc, cursor>>
          /\ room' = [room EXCEPT ![r] = lastSeq + 1] /\ ~Committed
          /\ room[r] <= lastSeq /\ native.checkpoint <= lastSeq
      BY <2>1 DEF LegacyWrite, nativeVars, workVars, LogInv, FenceInv
    <2>3. pc \notin Equal /\ pc # "finish"
      BY <2>1 DEF LegacyWrite, FenceInv, Fenced
    <2>4. \A q \in Rows : (IsMessage(q) => rows'[q] <= room'[q]) \/ Committed'
      BY <2>2 DEF RowsInv, StoreType, Contents, Committed
    <2>5. \A q \in Rows : Same(q) => Same(q)'
      BY <2>2 DEF Same, Held, StoreType, Contents, NativeType
    <2> QED
      BY <2>2, <2>3, <2>4, <2>5 DEF RowsInv
  <1>17. CASE (\E r \in Rows : BusinessWrite(r))
    BY <1>17 DEF BusinessWrite, NO_WRITE, DIRTY, Calm, Fault, roomVars,
       prefVars, workVars, RowsInv, Same, Held, Before, StepInv, Working,
       AtLegacy, Copying, Copied, Equal, Fenced, Committed
  <1>18. CASE UNCHANGED vars
    BY <1>18, RowsFrame DEF vars, roomVars, nativeVars, prefVars, workVars
  <1> QED
    BY <1>1, <1>2, <1>3, <1>4, <1>5, <1>6, <1>7, <1>8, <1>9, <1>10, <1>11,
       <1>12, <1>13, <1>14, <1>15, <1>16, <1>17, <1>18 DEF Next, ProcessStep

LEMMA FenceStep ==
  ASSUME EvidenceType, FenceInv, StepInv, EvidenceInv,
         [Next]_vars
  PROVE  FenceInv'
  <1>1. CASE \/ Start \/ PromoteMirror \/ Schedule \/ StopLegacy \/ Attempt
             \/ Exit \/ Quit \/ Kill
    BY <1>1 DEF Start, roomVars, prefVars, nativeVars, workVars,
       PromoteMirror, Calm, Launch, Fault, Schedule, StopLegacy, Attempt,
       Exit, Down, Quit, Kill, FenceInv, Committed, NO_WRITE, Before,
       Working, AtLegacy, Copying, Equal, Fenced
  <1>2. CASE Decide
    <2>1. CASE pc' = "promote"
      BY <1>2, <2>1, DecidePromotes
         DEF Decide, roomVars, nativeVars, FenceInv, Committed, Before, Working, AtLegacy, Copying, Equal, Fenced
    <2>2. CASE pc' # "promote"
      BY <1>2, <2>2, Resolved DEF Decide, Launch, Calm, Fault, roomVars, nativeVars,
         FenceInv, Committed, Before, Working, AtLegacy, Copying, Equal, Fenced
    <2> QED
      BY <2>1, <2>2
  <1>3. CASE Promote
    BY <1>3 DEF Promote, NO_WRITE, Proceed, Fault, Launch, roomVars,
       workVars, Calm, FenceInv, Committed, Before, Working, AtLegacy,
       Copying, Equal, Fenced
  <1>4. CASE \/ Open \/ ReadJournal
    BY <1>4 DEF Open, NativeWrite, roomVars, prefVars, workVars, Proceed,
       Fault, Fail, Fenced, GiveUp, Calm, ReadJournal, NoEvidence, LEGACY,
       nativeVars, FenceInv, Committed, NO_WRITE, Before, Working, AtLegacy,
       Copying, Equal
  <1>5. CASE \/ RecordLegacy \/ MirrorLegacy
    BY <1>5 DEF RecordLegacy, NativeWrite, LEGACY, roomVars, prefVars,
       workVars, Proceed, Fault, Fail, Fenced, GiveUp, Calm, MirrorLegacy,
       OtherWrite, nativeVars, FenceInv, Committed, NO_WRITE, Before,
       Working, AtLegacy, Copying, Equal, StepInv
  <1>6. CASE \/ BeginMigration \/ SeedCheckpoint
    BY <1>6 DEF BeginMigration, Fail, Calm, NativeWrite, roomVars, prefVars,
       workVars, Proceed, Fault, Fenced, GiveUp, SeedCheckpoint, FenceInv,
       Committed, NO_WRITE, Before, Working, AtLegacy, Copying, Equal
  <1>7. CASE \/ Snapshot \/ CatchUp
    BY <1>7 DEF Snapshot, Proceed, Fail, Calm, NativeWrite, ImportRow,
       roomVars, prefVars, Fault, Fenced, GiveUp, CatchUp, ApplyChange,
       workVars, FenceInv, Committed, NO_WRITE, Before, Working, AtLegacy,
       Copying, Equal
  <1>8. CASE \/ TrimLog \/ IsLevel \/ Quiesce \/ Fence \/ FinishMigration
    BY <1>8 DEF TrimLog, OtherWrite, prefVars, nativeVars, workVars,
       Proceed, Fault, Fail, Fenced, GiveUp, Calm, IsLevel, roomVars,
       Quiesce, Fence, FinishMigration, Reconciled, NativeWrite, FenceInv,
       Committed, NO_WRITE, Before, Working, AtLegacy, Copying, Equal
  <1>9. CASE \/ Prepare \/ MirrorPrepared \/ Commit \/ MirrorCommitted
    BY <1>9 DEF Prepare, NativeWrite, PREPARED, roomVars, prefVars,
       workVars, Proceed, Fault, Fail, Fenced, GiveUp, Calm, MirrorPrepared,
       OtherWrite, nativeVars, Commit, NO_WRITE, MirrorCommitted, FenceInv,
       Committed, Before, Working, AtLegacy, Copying, Equal
  <1>10. CASE \/ Unfence \/ MirrorDirty
    BY <1>10 DEF Unfence, Calm, Fault, GiveUp, prefVars, nativeVars,
       workVars, MirrorDirty, roomVars, FenceInv, Committed, NO_WRITE,
       Before, Working, AtLegacy, Copying, Equal, Fenced, StepInv
  <1>11. CASE (\E r \in Rows : LegacyWrite(r))
    BY <1>11 DEF LegacyWrite, prefVars, nativeVars, workVars, FenceInv,
       Committed, NO_WRITE, Before, Working, AtLegacy, Copying, Equal,
       Fenced
  <1>12. CASE (\E r \in Rows : BusinessWrite(r))
    BY <1>12 DEF BusinessWrite, NO_WRITE, DIRTY, Calm, Fault, roomVars,
       prefVars, workVars, FenceInv, Committed, Before, Working, AtLegacy,
       Copying, Equal, Fenced
  <1>13. CASE UNCHANGED vars
    BY <1>13 DEF vars, roomVars, nativeVars, prefVars, workVars,
       FenceInv, Committed
  <1> QED
    BY <1>1, <1>2, <1>3, <1>4, <1>5, <1>6, <1>7, <1>8, <1>9, <1>10, <1>11,
       <1>12, <1>13 DEF Next, ProcessStep

LEMMA EvidenceStep ==
  ASSUME StoreType, EvidenceType, NativeType, RowsInv, FenceInv, StepInv, EvidenceInv,
         [Next]_vars
  PROVE  EvidenceInv'
  <1> USE DEF Alike
  <1>1. CASE \/ Start \/ Schedule \/ StopLegacy \/ Attempt \/ Exit \/ Quit
             \/ Kill \/ Decide
    BY <1>1 DEF Start, roomVars, prefVars, nativeVars, workVars, Schedule,
       Calm, Fault, StopLegacy, Attempt, Exit, Down, Quit, Kill, Decide,
       PREPARED, Launch, EvidenceInv, Committed, NO_WRITE, LEGACY,
       NoEvidence, EvidenceType, Evidence
  <1>2. CASE PromoteMirror
    BY <1>2 DEF PromoteMirror, Calm, Launch, Fault, roomVars, nativeVars,
       workVars, EvidenceInv, Committed, NO_WRITE, PREPARED, LEGACY,
       NoEvidence, EvidenceType, Evidence, StepInv
  <1>3. CASE Promote
    BY <1>3, JournalMoves DEF Promote, NO_WRITE, Proceed, Fault, Launch,
       roomVars, workVars, Calm, EvidenceInv, Committed, PREPARED, LEGACY,
       NoEvidence, EvidenceType, Evidence, StepInv
  <1>4. CASE \/ Open \/ BeginMigration \/ SeedCheckpoint
    BY <1>4 DEF Open, NativeWrite, roomVars, prefVars, workVars, Proceed,
       Fault, Fail, Fenced, GiveUp, Calm, BeginMigration, SeedCheckpoint,
       EvidenceInv, Committed, NO_WRITE, PREPARED, LEGACY, NoEvidence,
       EvidenceType, Evidence, NativeType
  <1>5. CASE ReadJournal
    BY <1>5 DEF ReadJournal, NoEvidence, Proceed, LEGACY, Fail, Calm, Fault,
       roomVars, prefVars, nativeVars, Fenced, GiveUp, EvidenceInv,
       Committed, NO_WRITE, PREPARED, EvidenceType, Evidence
  <1>6. CASE RecordLegacy
    BY <1>6 DEF RecordLegacy, NativeWrite, LEGACY, roomVars, prefVars,
       workVars, Proceed, Fault, Fail, Fenced, GiveUp, Calm, EvidenceInv,
       Committed, NO_WRITE, PREPARED, NoEvidence, EvidenceType, Evidence,
       StepInv, Before, Working, AtLegacy, Copying, Equal
  <1>7. CASE MirrorLegacy
    BY <1>7 DEF MirrorLegacy, OtherWrite, roomVars, nativeVars, workVars,
       Proceed, Fault, Fail, Fenced, GiveUp, Calm, EvidenceInv, Committed,
       NO_WRITE, PREPARED, LEGACY, NoEvidence, EvidenceType, Evidence,
       StepInv, Before, Working, AtLegacy, Copying, Equal
  <1>8. CASE Snapshot
    BY <1>8, SnapshotDoes DEF Snapshot, Proceed, Fail, Calm, NativeWrite,
       ImportRow, roomVars, prefVars, Fault, Fenced, GiveUp, EvidenceInv,
       Committed, NO_WRITE, PREPARED, LEGACY, NoEvidence, EvidenceType,
       Evidence, StepInv, Before, Working, AtLegacy, Copying, Equal,
       NativeType
  <1>9. CASE CatchUp
    <2>1. UNCHANGED <<mirror, journal>> /\ native'.exists = native.exists
      <3>1. native' = native \/ \E c \in log : native' = [native EXCEPT !.checkpoint = c.seq]
        BY <1>9, CatchUpDoes DEF ApplyChange
      <3> QED
        BY <1>9, <3>1 DEF CatchUp, prefVars, NativeType
    <2>2. mirror.state < PREPARED /\ native.exists
      BY <1>9 DEF CatchUp, StepInv, Working, AtLegacy, Copying, Fenced
    <2> QED
      BY <2>1, <2>2, CutoverAssumption DEF EvidenceInv, PREPARED, EvidenceType, Evidence
  <1>10. CASE \/ TrimLog \/ IsLevel \/ Quiesce \/ Fence
    BY <1>10 DEF TrimLog, OtherWrite, prefVars, nativeVars, workVars,
       Proceed, Fault, Fail, Fenced, GiveUp, Calm, IsLevel, roomVars,
       Quiesce, Fence, EvidenceInv, Committed, NO_WRITE, PREPARED, LEGACY,
       NoEvidence, EvidenceType, Evidence
  <1>11. CASE FinishMigration
    BY <1>11 DEF FinishMigration, Reconciled, NativeWrite, Fail, Calm,
       roomVars, prefVars, Fenced, GiveUp, Proceed, Fault, EvidenceInv,
       Committed, NO_WRITE, PREPARED, LEGACY, NoEvidence, EvidenceType,
       Evidence, NativeType
  <1>12. CASE Prepare
    BY <1>12 DEF Prepare, NativeWrite, PREPARED, roomVars, prefVars,
       workVars, Proceed, Fault, Fail, Fenced, GiveUp, Calm, EvidenceInv,
       Committed, NO_WRITE, LEGACY, NoEvidence, EvidenceType, Evidence,
       StepInv, Before, Working, AtLegacy, Copying, Equal
  <1>13. CASE MirrorPrepared
    BY <1>13 DEF MirrorPrepared, OtherWrite, roomVars, nativeVars, workVars,
       Proceed, Fault, Fail, Fenced, GiveUp, Calm, EvidenceInv, Committed,
       NO_WRITE, PREPARED, LEGACY, NoEvidence, EvidenceType, Evidence,
       StepInv, Before, Working, AtLegacy, Copying, Equal, RowsInv, FenceInv
  <1>14. CASE Commit
    BY <1>14, JournalMoves DEF Commit, NativeWrite, NO_WRITE, roomVars,
       prefVars, workVars, Proceed, Fault, Fail, Fenced, GiveUp, Calm,
       EvidenceInv, Committed, PREPARED, LEGACY, NoEvidence, EvidenceType,
       Evidence, StepInv, Before, Working, AtLegacy, Copying, Equal
  <1>15. CASE MirrorCommitted
    BY <1>15 DEF MirrorCommitted, OtherWrite, roomVars, nativeVars,
       workVars, Proceed, Fault, Fail, Fenced, GiveUp, Calm, EvidenceInv,
       Committed, NO_WRITE, PREPARED, LEGACY, NoEvidence, EvidenceType,
       Evidence, StepInv
  <1>16. CASE Unfence
    BY <1>16 DEF Unfence, Calm, Fault, GiveUp, prefVars, nativeVars,
       workVars, EvidenceInv, Committed, NO_WRITE, PREPARED, LEGACY,
       NoEvidence, EvidenceType, Evidence, StepInv, Before, Working,
       AtLegacy, Copying, Equal, Fenced
  <1>17. CASE MirrorDirty
    BY <1>17 DEF MirrorDirty, Calm, Fault, roomVars, nativeVars, workVars,
       EvidenceInv, Committed, NO_WRITE, PREPARED, LEGACY, NoEvidence,
       EvidenceType, Evidence, StepInv
  <1>18. CASE (\E r \in Rows : LegacyWrite(r))
    BY <1>18 DEF LegacyWrite, prefVars, nativeVars, workVars, EvidenceInv,
       Committed, NO_WRITE, PREPARED, LEGACY, NoEvidence, EvidenceType,
       Evidence
  <1>19. CASE (\E r \in Rows : BusinessWrite(r))
    BY <1>19 DEF BusinessWrite, NO_WRITE, DIRTY, Calm, Fault, roomVars,
       prefVars, workVars, EvidenceInv, Committed, PREPARED, LEGACY,
       NoEvidence, EvidenceType, Evidence
  <1>20. CASE UNCHANGED vars
    BY <1>20 DEF vars, roomVars, nativeVars, prefVars, workVars,
       EvidenceInv, Committed
  <1> QED
    BY <1>1, <1>2, <1>3, <1>4, <1>5, <1>6, <1>7, <1>8, <1>9, <1>10, <1>11,
       <1>12, <1>13, <1>14, <1>15, <1>16, <1>17, <1>18, <1>19, <1>20 DEF Next, ProcessStep

LEMMA StepStep ==
  ASSUME EvidenceType, NativeType, FenceInv, StepInv, EvidenceInv,
         PendingInv, [Next]_vars
  PROVE  StepInv'
  <1>1. CASE \/ Start \/ Schedule
    BY <1>1 DEF Start, roomVars, prefVars, nativeVars, workVars, Schedule,
       Calm, Fault, StepInv, Committed, NO_WRITE, PREPARED, LEGACY,
       NoEvidence, EvidenceType, Evidence, Before, Working, AtLegacy,
       Copying, Equal, Fenced
  <1>2. CASE \/ StopLegacy \/ Attempt
    BY <1>2 DEF StopLegacy, roomVars, prefVars, nativeVars, Attempt,
       workVars, StepInv, Committed, NO_WRITE, PREPARED, LEGACY, NoEvidence,
       EvidenceType, Evidence, Before, Working, AtLegacy, Copying, Equal,
       Fenced
  <1>3. CASE \/ Exit \/ Quit \/ Kill
    BY <1>3 DEF Exit, Down, Calm, roomVars, prefVars, nativeVars, Quit,
       Kill, Fault, StepInv, Committed, NO_WRITE, PREPARED, LEGACY,
       NoEvidence, EvidenceType, Evidence, Before, Working, AtLegacy,
       Copying, Equal, Fenced
  <1>4. CASE Decide
    <2>1. CASE pc' = "promote"
      <3>1. /\ journal' = journal /\ mirror' = mirror
            /\ journal.state = PREPARED /\ mirror = journal /\ startup' = startup
        BY <1>4, <2>1, DecidePromotes DEF Decide, nativeVars
      <3>2. startup = "Starting"
        BY <1>4, <3>1 DEF Decide, StepInv, Committed, NO_WRITE, PREPARED
      <3>3. pc' \notin Working
        BY <2>1 DEF Before, Working, AtLegacy, Copying, Fenced
      <3> QED
        BY <2>1, <3>1, <3>2, <3>3 DEF StepInv, Working, AtLegacy
    <2>2. CASE pc' # "promote"
      BY <1>4, <2>2, Resolved DEF Decide, Launch, Calm, Fault, roomVars, nativeVars,
         StepInv, Committed, NO_WRITE, PREPARED, Before, Working, AtLegacy, Copying, Equal, Fenced
    <2> QED
      BY <2>1, <2>2
  <1>5. CASE PromoteMirror
    BY <1>5 DEF PromoteMirror, Calm, Launch, Fault, roomVars, nativeVars,
       workVars, StepInv, Committed, NO_WRITE, PREPARED, LEGACY, NoEvidence,
       EvidenceType, Evidence, Before, Working, AtLegacy, Copying, Equal,
       Fenced
  <1>6. CASE Promote
    BY <1>6, JournalMoves DEF Promote, NO_WRITE, Proceed, Fault, Launch,
       roomVars, workVars, Calm, StepInv, Committed, PREPARED, LEGACY,
       NoEvidence, EvidenceType, Evidence, Before, Working, AtLegacy,
       Copying, Equal, Fenced
  <1>7. CASE Open
    BY <1>7 DEF Open, NativeWrite, roomVars, prefVars, workVars, Proceed,
       Fault, Fail, Fenced, GiveUp, Calm, StepInv, Committed, NO_WRITE,
       PREPARED, LEGACY, NoEvidence, EvidenceType, Evidence, Before,
       Working, AtLegacy, Copying, Equal, NativeType
  <1>8. CASE \/ BeginMigration \/ SeedCheckpoint
    BY <1>8 DEF BeginMigration, Fail, Calm, NativeWrite, roomVars, prefVars,
       workVars, Proceed, Fault, Fenced, GiveUp, SeedCheckpoint, StepInv,
       Committed, NO_WRITE, PREPARED, LEGACY, NoEvidence, EvidenceType,
       Evidence, Before, Working, AtLegacy, Copying, Equal, NativeType
  <1>9. CASE ReadJournal
    BY <1>9 DEF ReadJournal, NoEvidence, Proceed, LEGACY, Fail, Calm, Fault,
       roomVars, prefVars, nativeVars, Fenced, GiveUp, StepInv, Committed,
       NO_WRITE, PREPARED, EvidenceType, Evidence, Before, Working,
       AtLegacy, Copying, Equal, EvidenceInv
  <1>10. CASE RecordLegacy
    BY <1>10 DEF RecordLegacy, NativeWrite, LEGACY, roomVars, prefVars,
       workVars, Proceed, Fault, Fail, Fenced, GiveUp, Calm, StepInv,
       Committed, NO_WRITE, PREPARED, NoEvidence, EvidenceType, Evidence,
       Before, Working, AtLegacy, Copying, Equal, EvidenceInv
  <1>11. CASE MirrorLegacy
    BY <1>11 DEF MirrorLegacy, OtherWrite, roomVars, nativeVars, workVars,
       Proceed, Fault, Fail, Fenced, GiveUp, Calm, StepInv, Committed,
       NO_WRITE, PREPARED, LEGACY, NoEvidence, EvidenceType, Evidence,
       Before, Working, AtLegacy, Copying, Equal
  <1>12. CASE Snapshot
    BY <1>12 DEF Snapshot, Proceed, Fail, Calm, NativeWrite, ImportRow,
       roomVars, prefVars, Fault, Fenced, GiveUp, StepInv, Committed,
       NO_WRITE, PREPARED, LEGACY, NoEvidence, EvidenceType, Evidence,
       Before, Working, AtLegacy, Copying, Equal, NativeType
  <1>13. CASE CatchUp
    BY <1>13 DEF CatchUp, Proceed, NativeWrite, ApplyChange, roomVars,
       prefVars, workVars, Fault, Fail, Fenced, GiveUp, Calm, StepInv,
       Committed, NO_WRITE, PREPARED, LEGACY, NoEvidence, EvidenceType,
       Evidence, Before, Working, AtLegacy, Copying, Equal, NativeType
  <1>14. CASE \/ TrimLog \/ IsLevel \/ Quiesce \/ Fence
    BY <1>14 DEF TrimLog, OtherWrite, prefVars, nativeVars, workVars,
       Proceed, Fault, Fail, Fenced, GiveUp, Calm, IsLevel, roomVars,
       Quiesce, Fence, StepInv, Committed, NO_WRITE, PREPARED, LEGACY,
       NoEvidence, EvidenceType, Evidence, Before, Working, AtLegacy,
       Copying, Equal
  <1>15. CASE FinishMigration
    BY <1>15 DEF FinishMigration, Reconciled, NativeWrite, Fail, Calm,
       roomVars, prefVars, Fenced, GiveUp, Proceed, Fault, StepInv,
       Committed, NO_WRITE, PREPARED, LEGACY, NoEvidence, EvidenceType,
       Evidence, Before, Working, AtLegacy, Copying, Equal, NativeType
  <1>16. CASE Prepare
    BY <1>16 DEF Prepare, NativeWrite, PREPARED, roomVars, prefVars,
       workVars, Proceed, Fault, Fail, Fenced, GiveUp, Calm, StepInv,
       Committed, NO_WRITE, LEGACY, NoEvidence, EvidenceType, Evidence,
       Before, Working, AtLegacy, Copying, Equal
  <1>17. CASE MirrorPrepared
    BY <1>17 DEF MirrorPrepared, OtherWrite, roomVars, nativeVars, workVars,
       Proceed, Fault, Fail, Fenced, GiveUp, Calm, StepInv, Committed,
       NO_WRITE, PREPARED, LEGACY, NoEvidence, EvidenceType, Evidence,
       Before, Working, AtLegacy, Copying, Equal
  <1>18. CASE Commit
    <2>1. /\ journal' = [state |-> NO_WRITE, high |-> journal.high] \/ journal' = journal
          /\ pc' = "commitMirror" => journal'.state = NO_WRITE
      BY <1>18, JournalMoves DEF Commit, NativeWrite, NO_WRITE, Proceed, Fail, Fenced, GiveUp
    <2>2. pc' = "commitMirror" \/ (pc' = "idle" /\ startup' = "Repair")
      BY <1>18 DEF Commit, NativeWrite, Proceed, Fail, Fenced, GiveUp
    <2>3. startup' # "Legacy" \/ (startup = "Legacy" /\ online /\ online' = online)
      BY <1>18, <2>2
         DEF Commit, NativeWrite, Proceed, Calm, Fault, Fail, GiveUp, Fenced, PendingInv, Working
    <2> QED
      BY <2>1, <2>2, <2>3 DEF StepInv, Committed, NO_WRITE, Before, Working, AtLegacy, Copying, Fenced
  <1>19. CASE MirrorCommitted
    BY <1>19 DEF MirrorCommitted, OtherWrite, roomVars, nativeVars,
       workVars, Proceed, Fault, Fail, Fenced, GiveUp, Calm, StepInv,
       Committed, NO_WRITE, PREPARED, LEGACY, NoEvidence, EvidenceType,
       Evidence, Before, Working, AtLegacy, Copying, Equal
  <1>20. CASE Unfence
    BY <1>20 DEF Unfence, Calm, Fault, GiveUp, prefVars, nativeVars,
       workVars, StepInv, Committed, NO_WRITE, PREPARED, LEGACY, NoEvidence,
       EvidenceType, Evidence, Before, Working, AtLegacy, Copying, Equal,
       Fenced
  <1>21. CASE MirrorDirty
    BY <1>21 DEF MirrorDirty, Calm, Fault, roomVars, nativeVars, workVars,
       StepInv, Committed, NO_WRITE, PREPARED, LEGACY, NoEvidence,
       EvidenceType, Evidence, Before, Working, AtLegacy, Copying, Equal,
       Fenced
  <1>22. CASE (\E r \in Rows : LegacyWrite(r))
    BY <1>22 DEF LegacyWrite, prefVars, nativeVars, workVars, StepInv,
       Committed, NO_WRITE, PREPARED, LEGACY, NoEvidence, EvidenceType,
       Evidence, Before, Working, AtLegacy, Copying, Equal, Fenced
  <1>23. CASE (\E r \in Rows : BusinessWrite(r))
    BY <1>23, JournalMoves DEF BusinessWrite, NO_WRITE, DIRTY, Calm, Fault,
       roomVars, prefVars, workVars, StepInv, Committed, PREPARED, LEGACY,
       NoEvidence, EvidenceType, Evidence, Before, Working, AtLegacy,
       Copying, Equal, Fenced
  <1>24. CASE UNCHANGED vars
    BY <1>24 DEF vars, roomVars, nativeVars, prefVars, workVars,
       StepInv, Committed
  <1> QED
    BY <1>1, <1>2, <1>3, <1>4, <1>5, <1>6, <1>7, <1>8, <1>9, <1>10, <1>11,
       <1>12, <1>13, <1>14, <1>15, <1>16, <1>17, <1>18, <1>19, <1>20, <1>21,
       <1>22, <1>23, <1>24 DEF Next, ProcessStep

LEMMA PendingStep ==
  ASSUME FlagType, EvidenceType, FenceInv, StepInv, EvidenceInv, PendingInv,
         [Next]_vars
  PROVE  PendingInv'
  <1>1. CASE \/ Start \/ Schedule
    BY <1>1 DEF Start, roomVars, prefVars, nativeVars, workVars, Schedule,
       Calm, Fault, PendingInv, Committed, NO_WRITE, Before, Working,
       AtLegacy, Copying, Equal, Fenced
  <1>2. CASE \/ StopLegacy \/ Attempt
    BY <1>2 DEF StopLegacy, roomVars, prefVars, nativeVars, Attempt,
       workVars, PendingInv, Committed, NO_WRITE, Before, Working, AtLegacy,
       Copying, Equal, Fenced
  <1>3. CASE \/ Exit \/ Quit \/ Kill
    BY <1>3 DEF Exit, Down, Calm, roomVars, prefVars, nativeVars, Quit,
       Kill, Fault, PendingInv, Committed, NO_WRITE, Before, Working,
       AtLegacy, Copying, Equal, Fenced
  <1>4. CASE Decide
    <2>1. CASE pc' = "promote"
      <3>1. UNCHANGED <<startup, pending, online, journal>> /\ pc' \notin Working /\ fence' = fence
        BY <1>4, <2>1, DecidePromotes
           DEF Decide, Calm, Fault, roomVars, nativeVars, Before, Working, AtLegacy, Copying, Fenced
      <3> QED
        BY <3>1 DEF PendingInv, Committed
    <2>2. CASE pc' # "promote" /\ Committed /\ startup' = "Native" /\ pc' = "idle"
      BY <1>4, <2>2, DecideDoes
         DEF PendingInv, Committed, nativeVars, Before, Working, AtLegacy, Copying, Fenced
    <2>3. ASSUME pc' # "promote", NEW decision \in {"Legacy", "Repair"},
                 Launch(decision), decision = "Legacy" => ~Committed
          PROVE  PendingInv'
      <3>1. UNCHANGED <<fence, journal, online>>
        BY <1>4, <2>3, DecideDoes DEF roomVars, nativeVars
      <3> QED
        BY <2>3, <3>1, LaunchDoes
           DEF PendingInv, Committed, Before, Working, AtLegacy, Copying, Fenced
    <2> QED
      BY <1>4, <2>1, <2>2, <2>3, DecideDoes
  <1>5. CASE PromoteMirror
    BY <1>5 DEF PromoteMirror, Calm, Launch, Fault, roomVars, nativeVars,
       workVars, PendingInv, Committed, NO_WRITE, Before, Working, AtLegacy,
       Copying, Equal, Fenced, StepInv
  <1>6. CASE Promote
    <2>1. /\ UNCHANGED <<fence, online>>
          /\ Launch("Repair") \/ (UNCHANGED <<pending, startup>> /\ pc' = "promoteMirror")
      BY <1>6 DEF Promote, Proceed, Calm, Fault, roomVars
    <2>2. UNCHANGED pending /\ startup' # "Legacy" /\ pc' \notin Working
      <3>1. startup = "Starting"
        BY <1>6 DEF Promote, StepInv
      <3>2. CASE Launch("Repair")
        BY <3>2, LaunchDoes DEF Before, Working, AtLegacy, Copying, Fenced
      <3>3. CASE UNCHANGED <<pending, startup>> /\ pc' = "promoteMirror"
        BY <3>1, <3>3 DEF Before, Working, AtLegacy, Copying, Fenced
      <3> QED
        BY <2>1, <3>2, <3>3
    <2>3. ~Committed
      BY <1>6 DEF Promote, StepInv, Committed, PREPARED, NO_WRITE
    <2> QED
      BY <2>1, <2>2, <2>3 DEF PendingInv
  <1>7. CASE \/ Open \/ BeginMigration \/ SeedCheckpoint
    BY <1>7 DEF Open, NativeWrite, roomVars, prefVars, workVars, Proceed,
       Fault, Fail, Fenced, GiveUp, Calm, BeginMigration, SeedCheckpoint,
       PendingInv, Committed, NO_WRITE, Before, Working, AtLegacy, Copying,
       Equal
  <1>8. CASE \/ ReadJournal \/ RecordLegacy \/ MirrorLegacy
    BY <1>8 DEF ReadJournal, NoEvidence, Proceed, LEGACY, Fail, Calm, Fault,
       roomVars, prefVars, nativeVars, Fenced, GiveUp, RecordLegacy,
       NativeWrite, workVars, MirrorLegacy, OtherWrite, PendingInv,
       Committed, NO_WRITE, Before, Working, AtLegacy, Copying, Equal,
       StepInv
  <1>9. CASE Snapshot
    BY <1>9 DEF Snapshot, Proceed, Fail, Calm, NativeWrite, ImportRow,
       roomVars, prefVars, Fault, Fenced, GiveUp, PendingInv, Committed,
       NO_WRITE, Before, Working, AtLegacy, Copying, Equal
  <1>10. CASE \/ CatchUp \/ TrimLog
    BY <1>10 DEF CatchUp, Proceed, NativeWrite, ApplyChange, roomVars,
       prefVars, workVars, Fault, Fail, Fenced, GiveUp, Calm, TrimLog,
       OtherWrite, nativeVars, PendingInv, Committed, NO_WRITE, Before,
       Working, AtLegacy, Copying, Equal
  <1>11. CASE IsLevel \/ Quiesce
    <2>1. UNCHANGED <<pending, journal, online, fence>> /\ pc \in Working
      BY <1>11 DEF IsLevel, Quiesce, Proceed, Calm, prefVars, nativeVars, roomVars,
                   Before, Working, AtLegacy, Copying, Fenced
    <2>2. /\ pc' \in Working => UNCHANGED startup
          /\ startup' = "Legacy" => online \/ UNCHANGED startup
      BY <1>11 DEF IsLevel, Quiesce, Proceed, Fail, GiveUp, Fenced,
                   Before, Working, AtLegacy, Copying
    <2> QED
      BY <2>1, <2>2 DEF PendingInv, Committed
  <1>18. CASE Fence
    <2>1. UNCHANGED <<pending, journal, online>> /\ pc \in Working
      BY <1>18 DEF Fence, OtherWrite, Proceed, Calm, Fault, prefVars, nativeVars,
                   Before, Working, AtLegacy, Copying
    <2>2. /\ pc' \in Working => UNCHANGED startup
          /\ startup' = "Legacy" => online \/ UNCHANGED startup
      BY <1>18 DEF Fence, OtherWrite, Proceed, Fail, GiveUp, Fenced,
                   Before, Working, AtLegacy, Copying
    <2> QED
      BY <2>1, <2>2 DEF PendingInv, Committed
  <1>12. CASE \/ FinishMigration \/ Prepare \/ MirrorPrepared \/ Commit
              \/ MirrorCommitted
    BY <1>12 DEF FinishMigration, Reconciled, NativeWrite, Fail, Calm,
       roomVars, prefVars, Fenced, GiveUp, Proceed, Fault, Prepare,
       PREPARED, workVars, MirrorPrepared, OtherWrite, nativeVars, Commit,
       NO_WRITE, MirrorCommitted, PendingInv, Committed, Before, Working,
       AtLegacy, Copying, Equal
  <1>13. CASE Unfence
    BY <1>13 DEF Unfence, Calm, Fault, GiveUp, prefVars, nativeVars,
       workVars, PendingInv, Committed, NO_WRITE, Before, Working, AtLegacy,
       Copying, Equal, Fenced
  <1>14. CASE MirrorDirty
    BY <1>14 DEF MirrorDirty, Calm, Fault, roomVars, nativeVars, workVars,
       PendingInv, Committed, NO_WRITE, Before, Working, AtLegacy, Copying,
       Equal, Fenced
  <1>15. CASE (\E r \in Rows : LegacyWrite(r))
    BY <1>15 DEF LegacyWrite, prefVars, nativeVars, workVars, PendingInv,
       Committed, NO_WRITE, Before, Working, AtLegacy, Copying, Equal,
       Fenced
  <1>16. CASE (\E r \in Rows : BusinessWrite(r))
    BY <1>16 DEF BusinessWrite, NO_WRITE, DIRTY, Calm, Fault, roomVars,
       prefVars, workVars, PendingInv, Committed, Before, Working, AtLegacy,
       Copying, Equal, Fenced
  <1>17. CASE UNCHANGED vars
    BY <1>17 DEF vars, roomVars, nativeVars, prefVars, workVars,
       PendingInv, Committed
  <1> QED
    BY <1>1, <1>2, <1>3, <1>4, <1>5, <1>6, <1>7, <1>8, <1>9, <1>10, <1>11,
       <1>18, <1>12, <1>13, <1>14, <1>15, <1>16, <1>17 DEF Next, ProcessStep

-----------------------------------------------------------------------------
(* The theorems.                                                           *)

LEMMA Start_IInv == Init => IInv
  <1> SUFFICES ASSUME Init PROVE IInv
    OBVIOUS
  <1>1. TypeOK
    <2>1. StoreType
      BY CutoverAssumption DEF Init, StoreType, Contents, Rows
    <2>2. FlagType /\ ProcessType
      BY DEF Init, FlagType, ProcessType
    <2>3. EvidenceType
      BY CutoverAssumption DEF Init, EvidenceType, Evidence, NoEvidence, Contents
    <2>4. NativeType /\ FaultType
      BY CutoverAssumption DEF Init, NativeType, FaultType
    <2> QED
      BY <2>1, <2>2, <2>3, <2>4, TypeParts
  <1>2. LogInv
    BY DEF Init, LogInv, NoEvidence
  <1>3. RowsInv
    BY DEF Init, RowsInv, Before, Copying, Copied, Equal, Fenced
  <1>4. FenceInv /\ EvidenceInv
    BY DEF Init, FenceInv, EvidenceInv, NoEvidence, Committed, PREPARED, NO_WRITE, Fenced, Equal
  <1>5. StepInv /\ PendingInv
    BY DEF Init, StepInv, PendingInv, NoEvidence, Committed, NO_WRITE, PREPARED,
           Before, Working, AtLegacy, Copying, Fenced
  <1> QED
    BY <1>1, <1>2, <1>3, <1>4, <1>5 DEF IInv

LEMMA Step_IInv == IInv /\ [Next]_vars => IInv'
  <1> SUFFICES ASSUME IInv, [Next]_vars PROVE IInv'
    OBVIOUS
  <1>1. StoreType /\ FlagType /\ EvidenceType /\ NativeType /\ ProcessType /\ FaultType
    BY TypeParts DEF IInv
  <1>2. FaultType'
    <2>1. Fault \/ UNCHANGED faults
      BY FaultsCounted
    <2> QED
      BY <1>1, <2>1, CutoverAssumption DEF FaultType, Fault
  <1>3. TypeOK'
    <2>1. StoreType' /\ NativeType'
      BY <1>1, StoreTypeStep, NativeTypeStep DEF IInv
    <2>2. FlagType' /\ EvidenceType' /\ ProcessType'
      BY <1>1, FlagTypeStep, EvidenceTypeStep, ProcessTypeStep DEF IInv
    <2>3. TypeOK' <=> (StoreType /\ FlagType /\ EvidenceType
                         /\ NativeType /\ ProcessType /\ FaultType)'
      BY TypeParts, PTL
    <2> QED
      BY <1>2, <2>1, <2>2, <2>3
  <1>4. Committed => Committed'
    BY <1>1, CommittedStays DEF IInv
  <1>5. LogInv' /\ RowsInv'
    BY <1>1, <1>4, LogStep, RowsStep DEF IInv
  <1>6. FenceInv' /\ EvidenceInv'
    BY <1>1, FenceStep, EvidenceStep DEF IInv
  <1>7. StepInv' /\ PendingInv'
    BY <1>1, StepStep, PendingStep DEF IInv
  <1> QED
    BY <1>3, <1>5, <1>6, <1>7 DEF IInv

LEMMA Always_IInv == Spec => []IInv
  BY Start_IInv, Step_IInv, PTL DEF Spec

(* Every variable keeps its type, whatever the process, its faults and its *)
(* restarts do.                                                            *)
THEOREM TypeCorrect == Spec => []TypeOK
  <1>1. IInv => TypeOK
    BY DEF IInv
  <1> QED
    BY <1>1, Always_IInv, PTL

(* The application never runs the old client on a fenced Room: a request   *)
(* is cleared only by a commitment, so a process that finds the fence      *)
(* migrates again instead.                                                 *)
THEOREM OldClientCanWrite == Spec => []LegacyCanWrite
  <1>1. IInv => LegacyCanWrite
    BY DEF IInv, PendingInv, LegacyCanWrite
  <1> QED
    BY <1>1, Always_IInv, PTL

-----------------------------------------------------------------------------
(* The refinement of OneSource.                                            *)

Owner == CASE ~fence -> IF Committed THEN "both" ELSE "room"
           [] fence  -> IF Committed THEN "native" ELSE "nobody"

Data == IF Committed THEN Account(rows) ELSE Account(room)

(* Writing a row is writing one row of the account. *)
Shown(r, change) == IF IsMessage(r) THEN change ELSE 1

LEMMA ShownIs ==
  ASSUME NEW r \in Rows, NEW change \in Contents \ {0}
  PROVE  Shown(r, change) \in Contents \ {0}
  BY CutoverAssumption DEF Shown, Contents

LEMMA OwnerIs ==
  ASSUME FlagType, FenceInv
  PROVE  Owner = (IF Committed THEN "native" ELSE IF fence THEN "nobody" ELSE "room")
  BY DEF Owner, FlagType, FenceInv

(* Room is written by the old client only, the rows of a committed native  *)
(* store by the native client only.                                        *)
LEMMA RoomWritten ==
  ASSUME [Next]_vars
  PROVE  UNCHANGED room \/ \E r \in Rows : LegacyWrite(r)
  <1>1. CASE \/ Start \/ Decide \/ Promote \/ PromoteMirror
    BY <1>1 DEF Start, roomVars, prefVars, nativeVars, workVars, Decide,
       Calm, PREPARED, Launch, Fault, Promote, NO_WRITE, Proceed,
       PromoteMirror
  <1>2. CASE \/ Schedule \/ Exit \/ StopLegacy \/ Attempt \/ Quit \/ Kill
    BY <1>2 DEF Schedule, Calm, Fault, roomVars, nativeVars, workVars, Exit,
       Down, prefVars, StopLegacy, Attempt, Quit, Kill
  <1>3. CASE \/ Open \/ RecordLegacy \/ MirrorLegacy \/ BeginMigration
             \/ SeedCheckpoint \/ ReadJournal
    BY <1>3 DEF Open, NativeWrite, roomVars, prefVars, workVars, Proceed,
       Fault, Fail, Fenced, GiveUp, Calm, RecordLegacy, LEGACY,
       MirrorLegacy, OtherWrite, nativeVars, BeginMigration, SeedCheckpoint,
       ReadJournal, NoEvidence
  <1>4. CASE \/ Snapshot \/ CatchUp \/ TrimLog \/ IsLevel \/ Quiesce
             \/ Fence
    BY <1>4 DEF Snapshot, Proceed, Fail, Calm, NativeWrite, ImportRow,
       roomVars, prefVars, Fault, Fenced, GiveUp, CatchUp, ApplyChange,
       workVars, TrimLog, OtherWrite, nativeVars, IsLevel, Quiesce, Fence
  <1>5. CASE \/ FinishMigration \/ Prepare \/ MirrorPrepared \/ Commit
             \/ MirrorCommitted \/ Unfence
    BY <1>5 DEF FinishMigration, Reconciled, NativeWrite, Fail, Calm,
       roomVars, prefVars, Fenced, GiveUp, Proceed, Fault, Prepare,
       PREPARED, workVars, MirrorPrepared, OtherWrite, nativeVars, Commit,
       NO_WRITE, MirrorCommitted, Unfence
  <1>6. CASE \/ (\E r \in Rows : BusinessWrite(r)) \/ MirrorDirty
    BY <1>6 DEF BusinessWrite, NO_WRITE, DIRTY, Calm, Fault, roomVars,
       prefVars, workVars, MirrorDirty, nativeVars
  <1>7. CASE (\E r \in Rows : LegacyWrite(r))
    BY <1>7 DEF LegacyWrite, prefVars, nativeVars, workVars
  <1>8. CASE UNCHANGED vars
    BY <1>8 DEF vars, roomVars, nativeVars, prefVars, workVars
  <1> QED
    BY <1>1, <1>2, <1>3, <1>4, <1>5, <1>6, <1>7, <1>8 DEF Next, ProcessStep

LEMMA RowsWritten ==
  ASSUME StepInv, Committed, [Next]_vars
  PROVE  UNCHANGED rows \/ \E r \in Rows : BusinessWrite(r)
  <1>1. CASE \/ Start \/ Decide \/ Promote \/ PromoteMirror
    BY <1>1 DEF Start, roomVars, prefVars, nativeVars, workVars, Decide,
       Calm, PREPARED, Launch, Fault, Promote, NO_WRITE, Proceed,
       PromoteMirror
  <1>2. CASE \/ Schedule \/ Exit \/ StopLegacy \/ Attempt \/ Quit \/ Kill
    BY <1>2 DEF Schedule, Calm, Fault, roomVars, nativeVars, workVars, Exit,
       Down, prefVars, StopLegacy, Attempt, Quit, Kill
  <1>3. CASE \/ Open \/ RecordLegacy \/ MirrorLegacy \/ BeginMigration
             \/ SeedCheckpoint \/ ReadJournal
    BY <1>3 DEF Open, NativeWrite, roomVars, prefVars, workVars, Proceed,
       Fault, Fail, Fenced, GiveUp, Calm, RecordLegacy, LEGACY,
       MirrorLegacy, OtherWrite, nativeVars, BeginMigration, SeedCheckpoint,
       ReadJournal, NoEvidence
  <1>4. CASE \/ Snapshot \/ CatchUp
    BY <1>4 DEF Snapshot, Proceed, Fail, Calm, NativeWrite, ImportRow,
       roomVars, prefVars, Fault, Fenced, GiveUp, CatchUp, ApplyChange,
       workVars, StepInv, Before, Working, AtLegacy, Copying, Equal
  <1>5. CASE \/ TrimLog \/ IsLevel \/ Quiesce \/ Fence
    BY <1>5 DEF TrimLog, OtherWrite, prefVars, nativeVars, workVars,
       Proceed, Fault, Fail, Fenced, GiveUp, Calm, IsLevel, roomVars,
       Quiesce, Fence
  <1>6. CASE \/ FinishMigration \/ Prepare \/ MirrorPrepared \/ Commit
             \/ MirrorCommitted \/ Unfence
    BY <1>6 DEF FinishMigration, Reconciled, NativeWrite, Fail, Calm,
       roomVars, prefVars, Fenced, GiveUp, Proceed, Fault, Prepare,
       PREPARED, workVars, MirrorPrepared, OtherWrite, nativeVars, Commit,
       NO_WRITE, MirrorCommitted, Unfence
  <1>7. CASE (\E r \in Rows : BusinessWrite(r))
    BY <1>7 DEF BusinessWrite, NO_WRITE, DIRTY, Calm, Fault, roomVars,
       prefVars, workVars
  <1>8. CASE \/ (\E r \in Rows : LegacyWrite(r)) \/ MirrorDirty
    BY <1>8 DEF LegacyWrite, prefVars, nativeVars, workVars, MirrorDirty,
       Calm, Fault, roomVars
  <1>9. CASE UNCHANGED vars
    BY <1>9 DEF vars, roomVars, nativeVars, prefVars, workVars
  <1> QED
    BY <1>1, <1>2, <1>3, <1>4, <1>5, <1>6, <1>7, <1>8, <1>9 DEF Next, ProcessStep

(* The step to NO_WRITE finds the stores alike, and Room fenced. *)
LEMMA Commits ==
  ASSUME EvidenceType, StepInv, FenceInv, RowsInv, ~Committed, Committed', [Next]_vars
  PROVE  fence /\ Alike /\ UNCHANGED <<fence, rows>>
  <1>1. CASE \/ Start \/ Decide \/ PromoteMirror
    BY <1>1 DEF Start, roomVars, prefVars, nativeVars, workVars, Decide,
       Calm, PREPARED, Launch, Fault, PromoteMirror, Committed
  <1>2. CASE Promote
    BY <1>2 DEF Promote, NO_WRITE, Proceed, Fault, Launch, roomVars,
       workVars, Calm, FenceInv, RowsInv, Equal
  <1>3. CASE \/ Schedule \/ Exit \/ StopLegacy \/ Attempt \/ Quit \/ Kill
    BY <1>3 DEF Schedule, Calm, Fault, roomVars, nativeVars, workVars, Exit,
       Down, prefVars, StopLegacy, Attempt, Quit, Kill, Committed
  <1>4. CASE \/ Open \/ RecordLegacy \/ MirrorLegacy \/ BeginMigration
             \/ SeedCheckpoint \/ ReadJournal
    BY <1>4 DEF Open, NativeWrite, roomVars, prefVars, workVars, Proceed,
       Fault, Fail, Fenced, GiveUp, Calm, RecordLegacy, LEGACY,
       MirrorLegacy, OtherWrite, nativeVars, BeginMigration, SeedCheckpoint,
       ReadJournal, NoEvidence, Committed, NO_WRITE, PREPARED
  <1>5. CASE \/ Snapshot \/ CatchUp \/ TrimLog \/ IsLevel \/ Quiesce
             \/ Fence
    BY <1>5 DEF Snapshot, Proceed, Fail, Calm, NativeWrite, ImportRow,
       roomVars, prefVars, Fault, Fenced, GiveUp, CatchUp, ApplyChange,
       workVars, TrimLog, OtherWrite, nativeVars, IsLevel, Quiesce, Fence,
       Committed
  <1>6. CASE \/ FinishMigration \/ MirrorPrepared \/ MirrorCommitted
             \/ Unfence
    BY <1>6 DEF FinishMigration, Reconciled, NativeWrite, Fail, Calm,
       roomVars, prefVars, Fenced, GiveUp, Proceed, Fault, MirrorPrepared,
       OtherWrite, nativeVars, workVars, MirrorCommitted, Unfence, Committed
  <1>7. CASE Prepare
    BY <1>7 DEF Prepare, NativeWrite, PREPARED, roomVars, prefVars,
       workVars, Proceed, Fault, Fail, Fenced, GiveUp, Calm, Committed,
       NO_WRITE, LEGACY
  <1>8. CASE Commit
    BY <1>8 DEF Commit, NativeWrite, NO_WRITE, roomVars, prefVars, workVars,
       Proceed, Fault, Fail, Fenced, GiveUp, Calm, FenceInv, RowsInv, Equal
  <1>9. CASE \/ (\E r \in Rows : LegacyWrite(r)) \/ MirrorDirty
    BY <1>9 DEF LegacyWrite, prefVars, nativeVars, workVars, MirrorDirty,
       Calm, Fault, roomVars, Committed
  <1>10. CASE (\E r \in Rows : BusinessWrite(r))
    BY <1>10 DEF BusinessWrite, NO_WRITE, DIRTY, Calm, Fault, roomVars,
       prefVars, workVars, Committed, LEGACY, PREPARED
  <1>11. CASE UNCHANGED vars
    BY <1>11 DEF vars, roomVars, nativeVars, prefVars, workVars, Committed
  <1> QED
    BY <1>1, <1>2, <1>3, <1>4, <1>5, <1>6, <1>7, <1>8, <1>9, <1>10, <1>11 DEF Next, ProcessStep

LEMMA Refines ==
  ASSUME IInv, IInv', [Next]_vars
  PROVE  [Source!Next]_(Source!vars)
  <1> DEFINE Written(d, e) == \E r \in Rows, c \in Contents \ {0} : e = [d EXCEPT ![r] = c]
  <1>1. FlagType /\ FlagType' /\ StoreType /\ EvidenceType
    BY DEF IInv, TypeOK, FlagType, StoreType, EvidenceType
  <1>2. Owner = (IF Committed THEN "native" ELSE IF fence THEN "nobody" ELSE "room")
    BY <1>1, OwnerIs DEF IInv
  <1>3. Owner' = (IF Committed' THEN "native" ELSE IF fence' THEN "nobody" ELSE "room")
    BY <1>1 DEF Owner, FlagType, FenceInv, IInv
  <1>4. Committed => Committed'
    BY <1>1, CommittedStays DEF IInv
  <1>5. CASE Committed
    <2>1. Owner = "native" /\ Owner' = "native" /\ Data = Account(rows) /\ Data' = Account(rows')
      BY <1>2, <1>3, <1>4, <1>5 DEF Data
    <2>2. UNCHANGED rows \/ Written(Account(rows), Account(rows'))
      <3>1. CASE UNCHANGED rows
        BY <3>1
      <3>2. ASSUME NEW r \in Rows, BusinessWrite(r)
            PROVE  Written(Account(rows), Account(rows'))
        <4>1. lastSeq + 1 \in Contents \ {0} /\ rows' = [rows EXCEPT ![r] = lastSeq + 1]
          BY <1>1, <3>2, CutoverAssumption DEF BusinessWrite, StoreType, Contents
        <4>2. rows \in [Rows -> Contents]
          BY <1>1 DEF StoreType
        <4>3. Account(rows') = [Account(rows) EXCEPT ![r] = Shown(r, lastSeq + 1)]
          BY <4>1, <4>2 DEF Account, Shown
        <4> QED
          BY <4>1, <4>3, ShownIs
      <3> QED
        BY <1>5, <3>1, <3>2, RowsWritten DEF IInv
    <2>3. UNCHANGED <<Owner, Data>> \/ (Owner = "native" /\ UNCHANGED Owner /\ Written(Data, Data'))
      BY <2>1, <2>2
    <2> QED
      BY <2>3 DEF Source!Next, Source!Write, Source!vars, Owner, Data
  <1>6. CASE ~Committed /\ ~Committed'
    <2>1. Data = Account(room) /\ Data' = Account(room')
      BY <1>6 DEF Data
    <2>2. CASE UNCHANGED room
      <3>1. UNCHANGED Data /\ Owner \in {"nobody", "room"} /\ Owner' \in {"nobody", "room"}
        BY <1>2, <1>3, <1>6, <2>1, <2>2
      <3>2. \/ UNCHANGED <<Owner, Data>>
            \/ Owner = "room" /\ Owner' = "nobody" /\ UNCHANGED Data
            \/ Owner = "nobody" /\ Owner' = "room" /\ UNCHANGED Data
        BY <3>1
      <3> QED
        BY <3>2 DEF Source!Next, Source!Suspend, Source!Resume, Source!vars, Owner, Data
    <2>3. ASSUME NEW r \in Rows, LegacyWrite(r)
          PROVE  [Source!Next]_(Source!vars)
      <3>1. lastSeq + 1 \in Contents \ {0} /\ room' = [room EXCEPT ![r] = lastSeq + 1]
        BY <1>1, <2>3, CutoverAssumption DEF LegacyWrite, StoreType, Contents
      <3>2. Owner = "room" /\ UNCHANGED Owner
        BY <1>2, <1>3, <1>6, <2>3 DEF LegacyWrite
      <3>3. Owner = "room" /\ UNCHANGED Owner /\ Written(Data, Data')
        <4>1. room \in [Rows -> Contents]
          BY <1>1 DEF StoreType
        <4>2. Account(room') = [Account(room) EXCEPT ![r] = Shown(r, lastSeq + 1)]
          BY <3>1, <4>1 DEF Account, Shown
        <4>3. Written(Data, Data')
          BY <2>1, <3>1, <4>2, ShownIs
        <4> QED
          BY <3>2, <4>3
      <3> QED
        BY <3>3 DEF Source!Next, Source!Write, Owner, Data
    <2> QED
      BY <2>2, <2>3, RoomWritten
  <1>7. CASE ~Committed /\ Committed'
    <2>1. fence /\ Alike /\ UNCHANGED rows
      BY <1>1, <1>7, Commits DEF IInv
    <2>2. Owner = "nobody" /\ Owner' = "native" /\ UNCHANGED Data
      BY <1>2, <1>3, <1>7, <2>1, AlikeIs DEF Data
    <2> QED
      BY <2>2 DEF Source!Next, Source!Switch, Owner, Data
  <1> QED
    BY <1>4, <1>5, <1>6, <1>7

(* The cutover implements OneSource: one store at a time accepts writes,   *)
(* the fence suspends writing before the commitment and stands for good    *)
(* after it, and the step that commits changes no message, and neither     *)
(* adds nor drops a conversation.                                          *)
THEOREM ImplementsOneSource == Spec => OneSourceSpec
  <1>1. Init => Source!Init
    BY DEF Init, Source!Init, Committed, Account, NO_WRITE, NoEvidence
  <1>2. IInv /\ IInv' /\ [Next]_vars => [Source!Next]_(Source!vars)
    BY Refines
  <1> QED
    BY <1>1, <1>2, Always_IInv, PTL DEF Spec, OneSourceSpec, Source!Spec
=============================================================================
