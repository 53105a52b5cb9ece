---------------------------- MODULE UploadServer ----------------------------
(***************************************************************************)
(* Uploads on the server: sessions and their chunks in the database        *)
(* (db/Database.cpp), partial and finished files on disk, and the upload   *)
(* records, challenges and collector of media/HttpFileServer.cpp, for the  *)
(* bytes of one file.  Each HTTP request is handled by a thread of its     *)
(* own; a thread's steps are the calls that take a lock, run a             *)
(* transaction or touch the disk.                                          *)
(*                                                                         *)
(* A finished file is an ordinary one, stored under its file id, or an     *)
(* image, stored under the digest of its bytes and shared by everyone who  *)
(* sends it.  The file id of session s is s, that of the n-th challenge is *)
(* MaxSessions + n; Foreign is the upload of another device.               *)
(*                                                                         *)
(* Left out: authentication, the friendship test and the checks of sizes   *)
(* and digests in a request, which an honest client passes.                *)
(***************************************************************************)
EXTENDS Integers, FiniteSets

CONSTANTS
    ChunkCount,     \* chunks of the file
    MaxSessions,    \* bound: upload sessions
    MaxChallenges,  \* bound: instant-upload challenges
    IsImage,        \* stored by content, not by file id
    Threads,        \* bound: requests handled at one time
    Callers,        \* whoever waits for an answer
    Nobody          \* no caller: gave up, or ignores the answer

ASSUME UploadAssumption ==
    /\ ChunkCount \in Nat \ {0}
    /\ MaxSessions \in Nat /\ MaxChallenges \in Nat
    /\ IsImage \in BOOLEAN
    /\ Nobody \notin Callers

Chunks == 1..ChunkCount
Sids == 1..MaxSessions
Challenges == 1..MaxChallenges
Foreign == MaxSessions + MaxChallenges + 1
Fids == 1..Foreign
Content == 0                    \* the path named by the digest
Paths == {Content} \cup Fids
NoPath == -1

VARIABLES
    sess,       \* upload_sessions.state; "none" before, "deleted" after
    rows,       \* upload_chunks
    old,        \* sessions whose expires_at has passed
    part,       \* sessions whose .part file exists
    partHas,    \* the chunks whose bytes are in the .part file
    whole,      \* paths of finished files that exist
    wholeHas,   \* the chunks whose bytes are in a finished file
    index,      \* media_objects.path
    record,     \* m_uploads: the path of a file id
    aged,       \* records older than a day
    challenge,  \* m_challenges: the path a challenge is about
    granted,    \* challenges that were answered
    stored,     \* messages.media_path by file id, written by onChat
    job,        \* the request a thread handles
    reply,      \* the answer on its way to a caller
    gc,         \* gcLoop: files and sessions still to be removed
    removed,    \* history: finished files the collector removed
    spoiled,    \* history: paths that a failed copy was to make
    claim       \* the path onChat has found for a file id

db == <<sess, rows, old, index, stored>>
disk == <<part, partHas, whole, wholeHas, removed, spoiled>>
memory == <<record, aged, challenge, granted, claim>>
serverVars == <<db, disk, memory, job, reply, gc>>

NoJob == [op |-> "free", arg |-> 0, chunk |-> 0, path |-> NoPath, fd |-> FALSE,
          caller |-> Nobody]
NoReply == [kind |-> "none", arg |-> 0, has |-> {}]

ServerInit ==
    /\ sess = [s \in Sids |-> "none"]
    /\ rows = [s \in Sids |-> {}]
    /\ old = {}
    /\ part = {} /\ partHas = [s \in Sids |-> {}]
    /\ whole = {} /\ wholeHas = [p \in Paths |-> {}] /\ removed = {} /\ spoiled = {}
    /\ index = NoPath
    /\ record = [f \in Fids |-> NoPath] /\ aged = {}
    /\ challenge = [n \in Challenges |-> NoPath] /\ granted = {}
    /\ stored = [f \in Fids |-> NoPath] /\ claim = [f \in Fids |-> NoPath]
    /\ job = [t \in Threads |-> NoJob]
    /\ reply = [c \in Callers |-> NoReply]
    /\ gc = [step |-> "sleep", files |-> {}, sids |-> {}]

PathOf(f) == IF IsImage THEN Content ELSE f

(* A request arrives: a free thread takes it. *)
Submit(c, op, arg, chunk) ==
    \E t \in Threads :
        /\ job[t] = NoJob
        /\ job' = [job EXCEPT ![t] = [NoJob EXCEPT !.op = op, !.arg = arg, !.chunk = chunk,
                                                   !.caller = c]]

(* The handler answers and its thread is free again. *)
Answer(t, kind, arg, has) ==
    /\ job' = [job EXCEPT ![t] = NoJob]
    /\ reply' = IF job[t].caller = Nobody THEN reply
                ELSE [reply EXCEPT ![job[t].caller] = [kind |-> kind, arg |-> arg, has |-> has]]

Goto(t, op) == job' = [job EXCEPT ![t].op = op] /\ UNCHANGED reply

Status(t, kind) == Answer(t, kind, 0, {}) /\ UNCHANGED <<db, disk, memory, gc>>

(* remove or rename of a .part file: open streams keep the old file.       *)
DropPart(s) ==
    /\ part' = part \ {s}
    /\ partHas' = [partHas EXCEPT ![s] = {}]

Detached(s, j) == [t \in Threads |-> IF j[t].arg = s THEN [j[t] EXCEPT !.fd = FALSE] ELSE j[t]]

-----------------------------------------------------------------------------
(* handleCreateUpload and issueInstantChallenge                            *)

(* findMediaObject: the indexed file, else that of some message (LIMIT 1), *)
(* if it still exists.                                                     *)
Known == {p \in {index} \cup {stored[f] : f \in Fids} : p \in whole}

Proving(u, n) == job[u].op \in {"prove", "compare", "grant"} /\ job[u].arg = n

(* issueInstantChallenge.  The number of a challenge that has lapsed is    *)
(* used again: a new one for the same bytes is no different.               *)
CreateInstant(t) ==
    /\ job[t].op = "create"
    /\ \E p \in Known, n \in Challenges \ granted :
        /\ index \in whole => p = index
        /\ challenge[n] = NoPath /\ \A u \in Threads : ~Proving(u, n)
        /\ challenge' = [challenge EXCEPT ![n] = p]
        /\ Answer(t, "instant", n, {})
    /\ UNCHANGED <<db, disk, record, aged, granted, claim, gc>>

(* findOpenUploadSession takes the newest, expired or not. *)
CreateReuses(t) ==
    /\ job[t].op = "create" /\ Known = {}
    /\ \E s \in Sids :
        /\ sess[s] = "open" /\ \A r \in Sids : r > s => sess[r] # "open"
        /\ Answer(t, "session", s, rows[s])
    /\ UNCHANGED <<db, disk, memory, gc>>

(* Bound: a session number is left for each request that will insert one.  *)
CreateMisses(t) ==
    /\ job[t].op = "create" /\ Known = {}
    /\ \A s \in Sids : sess[s] # "open"
    /\ Cardinality({u \in Threads : job[u].op = "insert"})
         < Cardinality({s \in Sids : sess[s] = "none"})
    /\ Goto(t, "insert")
    /\ UNCHANGED <<db, disk, memory, gc>>

CreateSession(t) ==
    /\ job[t].op = "insert"
    /\ \E s \in Sids :
        /\ sess[s] = "none" /\ \A r \in Sids : r < s => sess[r] # "none"
        /\ sess' = [sess EXCEPT ![s] = "open"]
        /\ Answer(t, "session", s, {})
    /\ UNCHANGED <<rows, old, index, stored, disk, memory, gc>>

-----------------------------------------------------------------------------
(* handleUploadChunk                                                       *)

Gone(s) == sess[s] \in {"none", "deleted"}

ChunkRefusal(s) ==
    IF Gone(s) THEN "404"
    ELSE IF sess[s] = "cancelled" THEN "410"
    ELSE IF sess[s] # "open" THEN "409"
    ELSE IF s \in old THEN "410" ELSE "none"

ChunkRefused(t) ==
    /\ job[t].op = "chunk" /\ ChunkRefusal(job[t].arg) # "none"
    /\ Status(t, ChunkRefusal(job[t].arg))

ChunkAccepted(t) ==
    /\ job[t].op = "chunk" /\ ChunkRefusal(job[t].arg) = "none"
    /\ Goto(t, "store")
    /\ UNCHANGED <<db, disk, memory, gc>>

(* storeUploadChunk, one transaction: Rejected, Duplicate or Stored. *)
StoreRejected(t) ==
    /\ job[t].op = "store"
    /\ sess[job[t].arg] # "open" \/ job[t].arg \in old
    /\ Status(t, "409")

StoreDuplicate(t) ==
    /\ job[t].op = "store"
    /\ sess[job[t].arg] = "open" /\ job[t].arg \notin old
    /\ job[t].chunk \in rows[job[t].arg]
    /\ Status(t, "ok")

StoreChunk(t) ==
    LET s == job[t].arg IN
    /\ job[t].op = "store"
    /\ sess[s] = "open" /\ s \notin old /\ job[t].chunk \notin rows[s]
    /\ rows' = [rows EXCEPT ![s] = @ \cup {job[t].chunk}]
    /\ Goto(t, "open")
    /\ UNCHANGED <<sess, old, index, stored, disk, memory, gc>>

(* fstream in|out: succeeds only if the file exists ... *)
OpenPart(t) ==
    LET there == job[t].arg \in part IN
    /\ job[t].op = "open"
    /\ job' = [job EXCEPT ![t].op = IF there THEN "write" ELSE "truncate", ![t].fd = there]
    /\ UNCHANGED <<db, disk, memory, reply, gc>>

(* ... otherwise it is opened for writing, which empties a file that has   *)
(* appeared in the meantime.                                               *)
TruncatePart(t) ==
    LET s == job[t].arg IN
    /\ job[t].op = "truncate"
    /\ part' = part \cup {s}
    /\ partHas' = [partHas EXCEPT ![s] = {}]
    /\ job' = [job EXCEPT ![t].op = "write", ![t].fd = TRUE]
    /\ UNCHANGED <<db, whole, wholeHas, removed, spoiled, memory, reply, gc>>

WriteChunk(t) ==
    LET s == job[t].arg IN
    /\ job[t].op = "write"
    /\ partHas' = IF job[t].fd THEN [partHas EXCEPT ![s] = @ \cup {job[t].chunk}] ELSE partHas
    /\ Answer(t, "ok", 0, {})
    /\ UNCHANGED <<db, part, whole, wholeHas, removed, spoiled, memory, gc>>

(* The disk is full or fails: the row stays. *)
WriteFails(t) ==
    /\ job[t].op \in {"open", "truncate", "write"}
    /\ Status(t, "500")

-----------------------------------------------------------------------------
(* handleGetUpload                                                         *)

QueryMissing(t) == job[t].op = "query" /\ Gone(job[t].arg) /\ Status(t, "404")

Query(t) ==
    LET s == job[t].arg IN
    /\ job[t].op = "query" /\ ~Gone(s)
    /\ Answer(t, sess[s], s, rows[s])
    /\ UNCHANGED <<db, disk, memory, gc>>

-----------------------------------------------------------------------------
(* handleFinalizeUpload                                                    *)

FinalizeRefusal(s) ==
    IF Gone(s) THEN "404"
    ELSE IF sess[s] = "cancelled" THEN "410"
    ELSE IF sess[s] = "open" /\ rows[s] # Chunks THEN "409" ELSE "none"

FinalizeRefused(t) ==
    /\ job[t].op = "finalize" /\ FinalizeRefusal(job[t].arg) # "none"
    /\ Status(t, FinalizeRefusal(job[t].arg))

(* A repeated request gets the file id of the first. *)
FinalizeAgain(t) ==
    /\ job[t].op = "finalize" /\ sess[job[t].arg] = "finalized"
    /\ Answer(t, "file", job[t].arg, {})
    /\ UNCHANGED <<db, disk, memory, gc>>

FinalizeStart(t) ==
    /\ job[t].op = "finalize" /\ sess[job[t].arg] = "open"
    /\ FinalizeRefusal(job[t].arg) = "none"
    /\ Goto(t, "verify")
    /\ UNCHANGED <<db, disk, memory, gc>>

(* Mutant: the sizes are compared, the digest is not. *)
CompleteBySize(s) == s \in part /\ ChunkCount \in partHas[s]

(* Size and SHA-256 of the whole file. *)
Complete(s) == s \in part /\ partHas[s] = Chunks

VerifyFails(t) ==
    /\ job[t].op = "verify" /\ ~Complete(job[t].arg)
    /\ Status(t, "409")

Verify(t) ==
    /\ job[t].op = "verify" /\ Complete(job[t].arg)
    /\ Goto(t, "rename")
    /\ UNCHANGED <<db, disk, memory, gc>>

(* There is a .part file to move, and no image already in its place. *)
Movable(s) == s \in part /\ ~(IsImage /\ PathOf(s) \in whole)

(* An image that is there already takes the place of the new file.  When   *)
(* the .part file has gone, rename and copy fail and the error is dropped. *)
RenamePart(t) ==
    LET s == job[t].arg
        p == PathOf(s) IN
    /\ job[t].op = "rename"
    /\ whole' = IF Movable(s) THEN whole \cup {p} ELSE whole
    /\ wholeHas' = IF Movable(s) THEN [wholeHas EXCEPT ![p] = partHas[s]] ELSE wholeHas
    /\ DropPart(s)
    /\ job' = Detached(s, [job EXCEPT ![t].op = "record"])
    /\ UNCHANGED <<db, removed, spoiled, memory, reply, gc>>

(* What a copy leaves that failed, at any point, as its error is dropped.  *)
Spoil(p) ==
    /\ \/ UNCHANGED <<whole, wholeHas>>
       \/ \E has \in SUBSET Chunks \ {Chunks} :
            /\ whole' = whole \cup {p}
            /\ wholeHas' = [wholeHas EXCEPT ![p] = has]
    /\ spoiled' = spoiled \cup {p}

(* The disk refuses the rename and then fails the copy: the .part file is  *)
(* removed all the same, and the session goes on to be finalized.          *)
CopyFails(t) ==
    LET s == job[t].arg IN
    /\ job[t].op = "rename" /\ Movable(s)
    /\ Spoil(PathOf(s))
    /\ DropPart(s)
    /\ job' = Detached(s, [job EXCEPT ![t].op = "record"])
    /\ UNCHANGED <<db, removed, memory, reply, gc>>

(* finalizeUploadSession, one transaction *)
RecordRefused(t) ==
    /\ job[t].op = "record" /\ sess[job[t].arg] \notin {"open", "finalized"}
    /\ Status(t, "409")

RecordExisting(t) ==
    /\ job[t].op = "record" /\ sess[job[t].arg] = "finalized"
    /\ Answer(t, "file", job[t].arg, {})
    /\ UNCHANGED <<db, disk, memory, gc>>

(* Mutant: the update does not ask for the state "open". *)
RecordFinalAlways(t) ==
    /\ job[t].op = "record"
    /\ sess' = [sess EXCEPT ![job[t].arg] = "finalized"]
    /\ Goto(t, "register")
    /\ UNCHANGED <<rows, old, index, stored, disk, memory, gc>>

RecordFinal(t) ==
    /\ job[t].op = "record" /\ sess[job[t].arg] = "open"
    /\ sess' = [sess EXCEPT ![job[t].arg] = "finalized"]
    /\ Goto(t, "register")
    /\ UNCHANGED <<rows, old, index, stored, disk, memory, gc>>

(* registerMediaObject: INSERT OR IGNORE *)
Register(t) ==
    /\ job[t].op = "register"
    /\ index' = IF index = NoPath THEN PathOf(job[t].arg) ELSE index
    /\ Goto(t, "keep")
    /\ UNCHANGED <<sess, rows, old, stored, disk, memory, gc>>

KeepRecord(t) ==
    LET s == job[t].arg IN
    /\ job[t].op = "keep"
    /\ record' = [record EXCEPT ![s] = PathOf(s)]
    /\ Answer(t, "file", s, {})
    /\ UNCHANGED <<db, disk, aged, challenge, granted, claim, gc>>

-----------------------------------------------------------------------------
(* handleProof                                                             *)

ProveUnknown(t) ==
    /\ job[t].op = "prove" /\ challenge[job[t].arg] = NoPath
    /\ Status(t, "404")

(* The challenge is taken out: it serves once. *)
TakeChallenge(t) ==
    LET n == job[t].arg IN
    /\ job[t].op = "prove" /\ challenge[n] # NoPath
    /\ challenge' = [challenge EXCEPT ![n] = NoPath]
    /\ job' = [job EXCEPT ![t].op = "compare", ![t].path = challenge[n]]
    /\ UNCHANGED <<db, disk, record, aged, granted, claim, reply, gc>>

(* The bytes the client sends are read from the file: of one that a failed *)
(* copy cut short they may or may not be there.                            *)
CompareFails(t) ==
    /\ job[t].op = "compare"
    /\ job[t].path \notin whole \/ wholeHas[job[t].path] # Chunks
    /\ Status(t, "409")

Compare(t) ==
    /\ job[t].op = "compare" /\ job[t].path \in whole
    /\ Goto(t, "grant")
    /\ UNCHANGED <<db, disk, memory, gc>>

Grant(t) ==
    LET f == MaxSessions + job[t].arg IN
    /\ job[t].op = "grant"
    /\ record' = [record EXCEPT ![f] = job[t].path]
    /\ granted' = granted \cup {job[t].arg}
    /\ Answer(t, "file", f, {})
    /\ UNCHANGED <<db, disk, aged, challenge, claim, gc>>

-----------------------------------------------------------------------------
(* handleCancelUpload                                                      *)

CancelRefused(t) ==
    /\ job[t].op = "cancel"
    /\ Gone(job[t].arg) \/ sess[job[t].arg] = "finalized"
    /\ Status(t, IF Gone(job[t].arg) THEN "404" ELSE "409")

CancelChecked(t) ==
    /\ job[t].op = "cancel" /\ sess[job[t].arg] \in {"open", "cancelled"}
    /\ Goto(t, "close")
    /\ UNCHANGED <<db, disk, memory, gc>>

(* cancelUploadSession, one transaction *)
CancelLate(t) ==
    /\ job[t].op = "close" /\ sess[job[t].arg] \notin {"open", "cancelled"}
    /\ Status(t, "409")

CancelSession(t) ==
    /\ job[t].op = "close" /\ sess[job[t].arg] \in {"open", "cancelled"}
    /\ sess' = [sess EXCEPT ![job[t].arg] = "cancelled"]
    /\ Goto(t, "unlink")
    /\ UNCHANGED <<rows, old, index, stored, disk, memory, gc>>

CancelUnlink(t) ==
    LET s == job[t].arg IN
    /\ job[t].op = "unlink"
    /\ DropPart(s)
    /\ job' = Detached(s, [job EXCEPT ![t] = NoJob])
    /\ reply' = IF job[t].caller = Nobody THEN reply
                ELSE [reply EXCEPT ![job[t].caller] = [NoReply EXCEPT !.kind = "ok"]]
    /\ UNCHANGED <<db, whole, wholeHas, removed, spoiled, memory, gc>>

-----------------------------------------------------------------------------
(* gcLoop                                                                  *)

(* Under the lock: expired records are erased and their files noted. *)
CollectRecords ==
    LET expired == {f \in aged : record[f] # NoPath} IN
    /\ gc.step = "sleep"
    /\ expired # {} \/ \E s \in old : sess[s] \in {"open", "cancelled"}
    /\ record' = [f \in Fids |-> IF f \in expired THEN NoPath ELSE record[f]]
    /\ gc' = [step |-> "files", files |-> {record[f] : f \in expired}, sids |-> {}]
    /\ UNCHANGED <<db, disk, aged, challenge, granted, claim, job, reply>>

(* The five minutes of a challenge are over. *)
ChallengeLapses(n) ==
    /\ challenge[n] # NoPath
    /\ challenge' = [challenge EXCEPT ![n] = NoPath]
    /\ UNCHANGED <<db, disk, record, aged, granted, claim, job, reply, gc>>

CollectFile(p) ==
    /\ gc.step = "files" /\ p \in gc.files
    /\ whole' = whole \ {p} /\ wholeHas' = [wholeHas EXCEPT ![p] = {}]
    /\ removed' = removed \cup {p}
    /\ gc' = [gc EXCEPT !.files = @ \ {p}]
    /\ UNCHANGED <<db, part, partHas, spoiled, memory, job, reply>>

(* listExpiredUploadSessions *)
ListExpired ==
    /\ gc.step = "files" /\ gc.files = {}
    /\ gc' = [step |-> "unlink", files |-> {},
              sids |-> {s \in old : sess[s] \in {"open", "cancelled"}}]
    /\ UNCHANGED <<db, disk, memory, job, reply>>

UnlinkExpired(s) ==
    /\ gc.step = "unlink" /\ s \in gc.sids
    /\ DropPart(s)
    /\ job' = Detached(s, job)
    /\ gc' = [gc EXCEPT !.step = "delete", !.files = {s}]
    /\ UNCHANGED <<db, whole, wholeHas, removed, spoiled, memory, reply>>

(* deleteUploadSession, whatever state the row is in by now. *)
DeleteExpired(s) ==
    /\ gc.step = "delete" /\ s \in gc.files
    /\ sess' = [sess EXCEPT ![s] = "deleted"]
    /\ rows' = [rows EXCEPT ![s] = {}]
    /\ gc' = [step |-> "unlink", files |-> {}, sids |-> gc.sids \ {s}]
    /\ UNCHANGED <<old, index, stored, disk, memory, job, reply>>

CollectDone ==
    /\ gc.step = "unlink" /\ gc.sids = {}
    /\ gc' = [gc EXCEPT !.step = "sleep"]
    /\ UNCHANGED <<db, disk, memory, job, reply>>

Collect ==
    \/ CollectRecords \/ ListExpired \/ CollectDone
    \/ \E p \in Paths : CollectFile(p)
    \/ \E s \in Sids : UnlinkExpired(s) \/ DeleteExpired(s)

-----------------------------------------------------------------------------
(* Time, other users, and the end of the process                           *)

SessionExpires(s) ==
    /\ sess[s] # "none" /\ s \notin old
    /\ old' = old \cup {s}
    /\ UNCHANGED <<sess, rows, index, stored, disk, memory, job, reply, gc>>

RecordAges(f) ==
    /\ record[f] # NoPath /\ f \notin aged
    /\ aged' = aged \cup {f}
    /\ UNCHANGED <<db, disk, record, challenge, granted, claim, job, reply, gc>>

(* Another device sends the same bytes in one piece (handleUpload).        *)
ForeignRecord ==
    /\ record[Foreign] = NoPath /\ stored[Foreign] = NoPath /\ Foreign \notin aged
    /\ claim[Foreign] = NoPath
    /\ record' = [record EXCEPT ![Foreign] = PathOf(Foreign)]
    /\ UNCHANGED <<db, part, partHas, removed, aged, challenge, granted, claim, job, reply, gc>>

ForeignUpload ==
    LET p == PathOf(Foreign) IN
    /\ ForeignRecord
    /\ whole' = whole \cup {p}
    /\ wholeHas' = IF p \in whole THEN wholeHas ELSE [wholeHas EXCEPT ![p] = Chunks]
    /\ UNCHANGED spoiled

(* The rename falls back on a copy there as well. *)
ForeignCopyFails == ForeignRecord /\ PathOf(Foreign) \notin whole /\ Spoil(PathOf(Foreign))

(* onChat with a file id: the record is looked up, the path goes into the  *)
(* saved message, and the record is erased.                                *)
FindRecord(f) ==
    /\ record[f] # NoPath /\ claim[f] = NoPath
    /\ claim' = [claim EXCEPT ![f] = record[f]]
    /\ UNCHANGED <<db, disk, record, aged, challenge, granted, job, reply, gc>>

SaveMedia(f) ==
    /\ claim[f] # NoPath /\ stored[f] = NoPath
    /\ stored' = [stored EXCEPT ![f] = claim[f]]
    /\ UNCHANGED <<sess, rows, old, index, disk, memory, job, reply, gc>>

(* saveMessage fails: the record stays, and the card will be sent again.   *)
SaveFails(f) ==
    /\ claim[f] # NoPath /\ stored[f] = NoPath
    /\ claim' = [claim EXCEPT ![f] = NoPath]
    /\ UNCHANGED <<db, disk, record, aged, challenge, granted, job, reply, gc>>

EraseRecord(f) ==
    /\ claim[f] # NoPath /\ stored[f] # NoPath
    /\ record' = [record EXCEPT ![f] = NoPath]
    /\ claim' = [claim EXCEPT ![f] = NoPath]
    /\ UNCHANGED <<db, disk, aged, challenge, granted, job, reply, gc>>

(* The database and the files survive. *)
ServerRestarts ==
    /\ record' = [f \in Fids |-> NoPath]
    /\ challenge' = [n \in Challenges |-> NoPath]
    /\ claim' = [f \in Fids |-> NoPath]
    /\ job' = [t \in Threads |-> NoJob]
    /\ reply' = [c \in Callers |-> IF \E t \in Threads : job[t] # NoJob /\ job[t].caller = c
                                   THEN [NoReply EXCEPT !.kind = "lost"] ELSE reply[c]]
    /\ gc' = [step |-> "sleep", files |-> {}, sids |-> {}]
    /\ UNCHANGED <<db, disk, aged, granted>>

Handle(t) ==
    \/ CreateInstant(t) \/ CreateReuses(t) \/ CreateMisses(t) \/ CreateSession(t)
    \/ ChunkRefused(t) \/ ChunkAccepted(t) \/ StoreRejected(t) \/ StoreDuplicate(t)
    \/ StoreChunk(t) \/ OpenPart(t) \/ TruncatePart(t) \/ WriteChunk(t)
    \/ QueryMissing(t) \/ Query(t)
    \/ FinalizeRefused(t) \/ FinalizeAgain(t) \/ FinalizeStart(t) \/ VerifyFails(t)
    \/ Verify(t) \/ RenamePart(t) \/ RecordRefused(t) \/ RecordExisting(t)
    \/ RecordFinal(t) \/ Register(t) \/ KeepRecord(t)
    \/ ProveUnknown(t) \/ TakeChallenge(t) \/ CompareFails(t) \/ Compare(t) \/ Grant(t)
    \/ CancelRefused(t) \/ CancelChecked(t) \/ CancelLate(t) \/ CancelSession(t)
    \/ CancelUnlink(t)
=============================================================================
