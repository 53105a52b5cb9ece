--------------------------- MODULE MediaUploadProofs ---------------------------
(***************************************************************************)
(* What holds of uploads for every number of chunks, sessions, challenges, *)
(* threads, pumps and faults, and for images as for ordinary files.        *)
(***************************************************************************)
EXTENDS MediaUpload, WellFoundedInduction, TLAPS

-----------------------------------------------------------------------------
(* The inductive invariant.                                                *)

(* What a request of a thread is about. *)
WriteOps == {"open", "truncate", "write"}
ChunkOps == {"chunk", "store"} \cup WriteOps
FinalOps == {"verify", "rename", "record", "register", "keep"}
CancelOps == {"cancel", "close", "unlink"}
SidOps == ChunkOps \cup FinalOps \cup CancelOps \cup {"query", "finalize"}
ProofOps == {"prove", "compare", "grant"}
Ops == {"free", "create", "insert"} \cup SidOps \cup ProofOps

Jobs == [op : Ops, arg : Nat, chunk : Nat, path : Paths \cup {NoPath}, fd : BOOLEAN,
         caller : Callers \cup {Nobody}]

GoodJob(j) ==
  /\ j \in Jobs
  /\ j.op \in SidOps => j.arg \in Sids
  /\ j.op \in ChunkOps => j.chunk \in Chunks
  /\ j.op \in ProofOps => j.arg \in Challenges
  /\ j.op = "grant" \/ j.op = "compare" => j.path # NoPath

GoodReply(r) ==
  /\ r \in [kind : Kinds, arg : Int, has : SUBSET Chunks]
  /\ r.kind = "session" \/ r.kind = "finalized" => r.arg \in Sids
  /\ r.kind = "instant" => r.arg \in Challenges
  /\ r.kind = "file" => r.arg \in Fids

JobType == job \in [Threads -> Jobs] /\ \A t \in Threads : GoodJob(job[t])

ReplyType ==
  /\ reply \in [Callers -> [kind : Kinds, arg : Int, has : SUBSET Chunks]]
  /\ \A c \in Callers : GoodReply(reply[c])

SessType ==
  /\ sess \in [Sids -> {"none", "open", "cancelled", "finalized", "deleted"}]
  /\ rows \in [Sids -> SUBSET Chunks] /\ old \subseteq Sids

PartType == part \subseteq Sids /\ partHas \in [Sids -> SUBSET Chunks]

WholeType ==
  /\ whole \subseteq Paths /\ wholeHas \in [Paths -> SUBSET Chunks]
  /\ removed \subseteq Paths /\ spoiled \subseteq Paths

RecordType ==
  /\ index \in Paths \cup {NoPath}
  /\ record \in [Fids -> Paths \cup {NoPath}] /\ aged \subseteq Fids
  /\ challenge \in [Challenges -> Paths \cup {NoPath}] /\ granted \subseteq Challenges
  /\ stored \in [Fids -> Paths \cup {NoPath}] /\ claim \in [Fids -> Paths \cup {NoPath}]

GcType ==
  gc \in [step : {"sleep", "files", "unlink", "delete"}, files : SUBSET Paths, sids : SUBSET Sids]

Places == {"idle", "creating", "merging", "proving", "asking", "renewing", "resume", "next",
           "sending", "finish", "finalizing", "reread", "card", "mark"}

DraftType == draft \in Draft /\ cur \in [Pumps -> Draft] /\ pump \in [Pumps -> Places]

UserType ==
  /\ cancel \in [step : {"no", "set", "done"}, up : Sids \cup {NoSid}]
  /\ card \in Fids \cup {NoFid} /\ sent \in {"no", "stored", "refused"}
  /\ faults \in 0 .. MaxFaults

HistoryType == quiet \subseteq Pumps

Types ==
  /\ JobType /\ ReplyType /\ SessType /\ PartType /\ WholeType /\ RecordType /\ GcType
  /\ DraftType /\ UserType /\ HistoryType

(* A pump that asks about a session, or sends to it, knows its number, and *)
(* the draft has one, too.                                                 *)
Asking == {"asking", "renewing", "resume", "next", "sending", "finish", "finalizing"}

PlaceInv ==
  \A c \in Pumps :
    /\ pump[c] \in Asking \cup {"merging"} => draft.up # NoSid
    /\ pump[c] \in Asking => cur[c].up # NoSid
    /\ pump[c] = "sending" => Missing(c) # {}

(* A chunk that a thread is about to write has its row and is not in the   *)
(* file, and nobody else writes it.                                        *)
Writes(t, s) == job[t].op \in WriteOps /\ job[t].arg = s

WriterInv ==
  \A t \in Threads : job[t].op \in WriteOps =>
    /\ job[t].chunk \notin partHas[job[t].arg]
    /\ sess[job[t].arg] = "deleted" \/ job[t].chunk \in rows[job[t].arg]
    /\ \A u \in Threads : Writes(u, job[t].arg) /\ job[u].chunk = job[t].chunk => u = t

(* What is in a .part file has its row, and a session that is not there    *)
(* has no rows.                                                            *)
PartInv ==
  \A s \in Sids :
    /\ sess[s] # "deleted" => partHas[s] \subseteq rows[s]
    /\ sess[s] \in {"none", "deleted"} => rows[s] = {}

(* Whoever finalizes has all the rows; between verification and rename     *)
(* nobody writes, so what was verified is what is renamed.                 *)
VerifiedInv ==
  \A t \in Threads :
    /\ job[t].op \in FinalOps =>
         sess[job[t].arg] # "none" /\ (sess[job[t].arg] = "deleted" \/ rows[job[t].arg] = Chunks)
    /\ job[t].op = "rename" =>
         /\ job[t].arg \in part => partHas[job[t].arg] = Chunks
         /\ \A u \in Threads : ~Writes(u, job[t].arg)

(* The file of an open session is not lost before it is recorded. *)
Kept(p) == p \in whole \cup removed \cup spoiled

RenamedInv ==
  \A t \in Threads :
    job[t].op \in {"rename", "record"} /\ sess[job[t].arg] = "open" /\ job[t].arg \notin old =>
      \/ Kept(PathOf(job[t].arg))
      \/ job[t].op = "rename" /\ job[t].arg \in part

(* A .part file is removed for a session that is over. *)
DroppedInv ==
  /\ \A t \in Threads : job[t].op = "unlink" => sess[job[t].arg] \in {"cancelled", "deleted"}
  /\ \A s \in gc.sids : s \in old /\ sess[s] \notin {"none", "deleted"}

(* A pump that sends the card has a file id for it, or there is a card. *)
CardInv ==
  /\ \A c \in Pumps :
       /\ pump[c] = "card" => cur[c].fid # NoFid \/ card # NoFid
       /\ pump[c] = "mark" => card # NoFid
  /\ draft.state = "Sent" => card # NoFid
  /\ draft.state = "Finalized" => draft.fid # NoFid

(* A single pump that has its file goes back to no upload. *)
Over == {"Finalized", "Sent", "Cancelled"}
Late == {"idle", "reread", "card", "mark"}

AloneInv ==
  Alone =>
    /\ card # NoFid => card = draft.fid /\ draft.state \in Over
    /\ \A c \in Pumps :
         /\ pump[c] \in {"card", "mark"} => draft.state \in Over /\ cur[c].fid = draft.fid
         /\ draft.state \in {"Finalized", "Sent"} \/ card # NoFid => pump[c] \in Late

IInv ==
  /\ Types /\ PlaceInv /\ WriterInv /\ PartInv /\ VerifiedInv /\ RenamedInv /\ DroppedInv
  /\ WholeFiles /\ FinalizedHasFile /\ CardInv /\ AloneInv

-----------------------------------------------------------------------------
(* Constants.                                                              *)

LEMMA Numbers ==
  /\ Sids \subseteq Nat /\ Sids \subseteq Fids /\ Fids \subseteq Paths /\ Challenges \subseteq Nat
  /\ NoSid \notin Sids /\ NoFid \notin Fids /\ NoPath \notin Paths /\ Content \in Paths
  /\ Foreign \in Fids /\ Chunks \subseteq Nat /\ Paths \subseteq Int /\ Foreign \notin Sids
  /\ \A n \in Challenges : MaxSessions + n \in Fids
  BY UploadAssumption DEF Sids, Fids, Foreign, Paths, Content, Challenges, NoSid, NoFid,
     NoPath,
     Chunks

LEMMA PathOfFile ==
  ASSUME NEW f \in Fids
  PROVE  PathOf(f) \in Paths
  BY Numbers DEF PathOf

(* The chunk a pump sends next is one of the file. *)
LEMMA NextMissingIsChunk ==
  ASSUME NEW c \in Pumps, Missing(c) # {}
  PROVE  NextMissing(c) \in Missing(c) /\ NextMissing(c) \in Chunks
  <1>1. Missing(c) \subseteq Chunks /\ Chunks \subseteq Nat
    BY Numbers DEF Missing
  <1>2. PICK less : /\ less = {ss \in Nat \X Nat : ss[1] < ss[2]}
                    /\ IsWellFoundedOn(less, Nat)
    BY NatLessThanWellFounded, Zenon DEF OpToRel
  <1>3. PICK i \in Missing(c) : \A j \in Missing(c) : <<j, i>> \notin less
    BY <1>1, <1>2, WFMin
  <1>4. ASSUME NEW j \in Missing(c)
        PROVE  i <= j
    <2>1. <<j, i>> \in Nat \X Nat /\ i \in Nat /\ j \in Nat
      BY <1>1
    <2>2. ~(j < i)
      BY <1>2, <1>3, <2>1
    <2> QED
      BY <2>1, <2>2
  <1> QED
    BY <1>1, <1>4 DEF NextMissing

-----------------------------------------------------------------------------
(* What the helpers of the server do to requests and answers.              *)

(* A thread's request stays what it is; the stream it has open may not. *)
Same(t) == job'[t].op = job[t].op /\ job'[t].arg = job[t].arg /\ job'[t].chunk = job[t].chunk

LEMMA SubmitDoes ==
  ASSUME JobType, NEW c \in Callers \cup {Nobody}, NEW op \in First \cup {"cancel"},
         NEW arg \in Nat, NEW chunk \in Nat, Submit(c, op, arg, chunk),
         op \in SidOps => arg \in Sids, op = "chunk" => chunk \in Chunks,
         op = "prove" => arg \in Challenges
  PROVE  JobType' /\ \A u \in Threads : Same(u) \/ job'[u].op \in First \cup {"cancel"}
  <1>1. PICK t \in Threads :
          job' = [job EXCEPT ![t] = [NoJob EXCEPT !.op = op, !.arg = arg, !.chunk = chunk,
                                                  !.caller = c]]
    BY DEF Submit
  <1>2. GoodJob(job'[t]) /\ job'[t].op = op
    <2>1. job'[t] = [NoJob EXCEPT !.op = op, !.arg = arg, !.chunk = chunk, !.caller = c]
      BY <1>1 DEF JobType
    <2>2. job'[t] = [op |-> op, arg |-> arg, chunk |-> chunk, path |-> NoPath, fd |-> FALSE,
                     caller |-> c]
      BY <2>1 DEF NoJob
    <2>3. op \in Ops
      BY DEF Ops, First, SidOps, ChunkOps, FinalOps, CancelOps, ProofOps
    <2>4. job'[t] \in Jobs
      BY <2>2, <2>3 DEF Jobs
    <2>5. /\ job'[t].op = op /\ job'[t].arg = arg /\ job'[t].chunk = chunk
          /\ op \in ChunkOps => op = "chunk"
          /\ op \in ProofOps => op = "prove"
          /\ op # "grant" /\ op # "compare"
      BY <2>2 DEF First, ChunkOps, WriteOps, ProofOps
    <2>6. /\ op \in SidOps => arg \in Sids
          /\ op \in ChunkOps => chunk \in Chunks
          /\ op \in ProofOps => arg \in Challenges
      BY <2>5
    <2> QED
      BY <2>4, <2>5, <2>6 DEF GoodJob
  <1>3. \A u \in Threads : u # t => job'[u] = job[u]
    BY <1>1 DEF JobType
  <1> QED
    BY <1>1, <1>2, <1>3 DEF JobType, Same, GoodJob

LEMMA FreeJob == GoodJob(NoJob) /\ NoJob.op = "free"
  BY Numbers DEF GoodJob, Jobs, NoJob, Ops, SidOps, ChunkOps, WriteOps, ProofOps, CancelOps,
     FinalOps

LEMMA AnswerDoes ==
  ASSUME JobType, ReplyType, NEW t \in Threads, NEW kind, NEW arg, NEW has,
         GoodReply([kind |-> kind, arg |-> arg, has |-> has]), Answer(t, kind, arg, has)
  PROVE  /\ JobType' /\ ReplyType'
         /\ job'[t].op = "free" /\ \A u \in Threads : u # t => Same(u)
  <1>1. job' = [job EXCEPT ![t] = NoJob]
    BY DEF Answer
  <1>2. job'[t] = NoJob /\ \A u \in Threads : u # t => job'[u] = job[u]
    BY <1>1 DEF JobType
  <1>3. JobType'
    BY <1>1, <1>2, FreeJob DEF JobType, GoodJob
  <1>4. job[t].caller \in Callers \cup {Nobody}
    BY DEF JobType, Jobs
  <1>5. ReplyType'
    <2>1. CASE job[t].caller = Nobody
      BY <2>1 DEF Answer, ReplyType
    <2>2. CASE job[t].caller # Nobody
      <3>1. reply' = [reply EXCEPT ![job[t].caller] = [kind |-> kind, arg |-> arg, has |-> has]]
        BY <2>2 DEF Answer
      <3>2. [kind |-> kind, arg |-> arg, has |-> has] \in [kind : Kinds, arg : Int, has : SUBSET Chunks]
        BY DEF GoodReply
      <3> QED
        BY <1>4, <2>2, <3>1, <3>2 DEF ReplyType
    <2> QED
      BY <2>1, <2>2
  <1> QED
    BY <1>2, <1>3, <1>5, FreeJob DEF Same

LEMMA GotoDoes ==
  ASSUME JobType, ReplyType, NEW t \in Threads, NEW op \in Ops, Goto(t, op),
         op \in SidOps => job[t].op \in SidOps, op \in ChunkOps => job[t].op \in ChunkOps,
         op \notin ProofOps \/ (op = "grant" /\ job[t].op = "compare")
  PROVE  /\ JobType' /\ ReplyType'
         /\ job'[t].op = op /\ job'[t].arg = job[t].arg /\ job'[t].chunk = job[t].chunk
         /\ \A u \in Threads : u # t => Same(u)
  <1>1. job' = [job EXCEPT ![t].op = op] /\ UNCHANGED reply
    BY DEF Goto
  <1>2. job'[t] = [job[t] EXCEPT !.op = op] /\ \A u \in Threads : u # t => job'[u] = job[u]
    BY <1>1 DEF JobType
  <1>3. job[t] \in Jobs /\ GoodJob(job[t])
    BY DEF JobType
  <1>4. /\ job'[t].op = op /\ job'[t].arg = job[t].arg /\ job'[t].chunk = job[t].chunk
        /\ job'[t].path = job[t].path /\ job'[t] \in Jobs
    BY <1>2, <1>3 DEF Jobs
  <1>5. GoodJob(job'[t])
    BY <1>3, <1>4 DEF GoodJob, ProofOps
  <1>6. JobType'
    BY <1>1, <1>2, <1>4, <1>5 DEF JobType
  <1> QED
    BY <1>1, <1>2, <1>4, <1>6 DEF Same, ReplyType

LEMMA StatusDoes ==
  ASSUME JobType, ReplyType, NEW t \in Threads,
         NEW kind \in {"ok", "404", "409", "410", "500"}, Status(t, kind)
  PROVE  /\ JobType' /\ ReplyType' /\ UNCHANGED <<db, disk, memory, gc>>
         /\ job'[t].op = "free" /\ \A u \in Threads : u # t => Same(u)
  <1>1. GoodReply([kind |-> kind, arg |-> 0, has |-> {}])
    BY DEF GoodReply, Kinds
  <1> QED
    BY <1>1, AnswerDoes DEF Status

-----------------------------------------------------------------------------
(* What a step does to sessions and files.                                 *)

Ends(t) == job'[t].op = "free" /\ \A u \in Threads : u # t => Same(u)

Moves(t, op) ==
  /\ job'[t].op = op /\ job'[t].arg = job[t].arg /\ job'[t].chunk = job[t].chunk
  /\ \A u \in Threads : u # t => Same(u)

Still == \A t \in Threads : Same(t)

(* Nothing happens to sessions and files, and whoever starts something new *)
(* neither writes, nor finalizes, nor unlinks.                             *)
Idle == \A t \in Threads : Same(t) \/ job'[t].op \notin WriteOps \cup FinalOps \cup {"unlink"}

uploads == <<sess, rows, old, disk>>

Dull == UNCHANGED uploads /\ gc'.sids \subseteq gc.sids /\ Idle

(* The .part file goes, whatever comes of it under the final name. *)
Renames(t) == RenamePart(t) \/ CopyFails(t)

(* The steps of a handler that are not dull. *)
Works(t) ==
  \/ CreateSession(t) /\ Idle /\ Ends(t)
  \/ StoreChunk(t) /\ Moves(t, "open")
  \/ OpenPart(t) /\ (Moves(t, "write") \/ Moves(t, "truncate"))
  \/ TruncatePart(t) /\ Moves(t, "write")
  \/ WriteChunk(t) /\ Ends(t)
  \/ FinalizeStart(t) /\ Moves(t, "verify")
  \/ Verify(t) /\ Moves(t, "rename")
  \/ Renames(t) /\ Moves(t, "record")
  \/ RecordFinal(t) /\ Moves(t, "register")
  \/ Register(t) /\ Moves(t, "keep")
  \/ CancelSession(t) /\ Moves(t, "unlink")
  \/ CancelUnlink(t) /\ Ends(t)

(* Streams of a removed file keep the old one; requests stay as they are. *)
Like(j, k) == j.op = k.op /\ j.arg = k.arg /\ j.chunk = k.chunk

LEMMA LikeGood ==
  ASSUME NEW j \in Jobs, NEW k \in Jobs, GoodJob(k), Like(j, k), j.path = k.path
  PROVE  GoodJob(j)
  BY DEF GoodJob, Like

LEMMA DetachedDoes ==
  ASSUME NEW s, NEW jobs \in [Threads -> Jobs], \A u \in Threads : GoodJob(jobs[u])
  PROVE  /\ Detached(s, jobs) \in [Threads -> Jobs]
         /\ \A u \in Threads : GoodJob(Detached(s, jobs)[u]) /\ Like(Detached(s, jobs)[u], jobs[u])
  <1>1. ASSUME NEW u \in Threads
        PROVE  /\ Detached(s, jobs)[u] \in Jobs /\ GoodJob(Detached(s, jobs)[u])
               /\ Like(Detached(s, jobs)[u], jobs[u])
    <2>1. jobs[u] \in Jobs /\ GoodJob(jobs[u])
      OBVIOUS
    <2>2. Detached(s, jobs)[u] \in {jobs[u], [jobs[u] EXCEPT !.fd = FALSE]}
      BY DEF Detached
    <2>3. ASSUME NEW k \in Jobs, GoodJob(k)
          PROVE  /\ [k EXCEPT !.fd = FALSE] \in Jobs /\ GoodJob([k EXCEPT !.fd = FALSE])
                 /\ Like([k EXCEPT !.fd = FALSE], k)
      <3>1. PICK j : j = [k EXCEPT !.fd = FALSE]
        OBVIOUS
      <3>2. j \in Jobs /\ j.op = k.op /\ j.arg = k.arg /\ j.chunk = k.chunk /\ j.path = k.path
        BY <3>1 DEF Jobs
      <3>3. Like(j, k)
        BY <3>2 DEF Like
      <3>4. GoodJob(j)
        BY <2>3, <3>2, <3>3, LikeGood
      <3> QED
        BY <3>1, <3>2, <3>3, <3>4
    <2> QED
      BY <2>1, <2>2, <2>3 DEF Like
  <1> QED
    BY <1>1 DEF Detached

LEMMA SetReply ==
  ASSUME ReplyType, NEW c \in Callers, NEW r, GoodReply(r), reply' = [reply EXCEPT ![c] = r]
  PROVE  ReplyType'
  BY DEF ReplyType, GoodReply

LEMMA HandlerDoes ==
  ASSUME Types, NEW t \in Threads, Handle(t) \/ CopyFails(t)
  PROVE  JobType' /\ ReplyType' /\ (Dull \/ Works(t))
  <1>1. CASE \/ ChunkRefused(t) \/ StoreRejected(t) \/ StoreDuplicate(t)
             \/ QueryMissing(t) \/ FinalizeRefused(t) \/ VerifyFails(t)
             \/ RecordRefused(t) \/ ProveUnknown(t) \/ CompareFails(t)
             \/ CancelRefused(t) \/ CancelLate(t)
    <2>1. \E kind \in {"ok", "404", "409", "410", "500"} : Status(t, kind)
      BY <1>1 DEF ChunkRefused, StoreRejected, StoreDuplicate, QueryMissing,
         FinalizeRefused,
         VerifyFails, RecordRefused, ProveUnknown, CompareFails, CancelRefused, CancelLate,
         ChunkRefusal, FinalizeRefusal
    <2> QED
      BY <2>1, StatusDoes DEF Types, Dull, Idle, uploads, db, disk, WriteOps, FinalOps
  <1>2. CASE CreateInstant(t)
    <2>1. PICK n \in Challenges : Answer(t, "instant", n, {})
      BY <1>2 DEF CreateInstant
    <2>2. GoodReply([kind |-> "instant", arg |-> n, has |-> {}])
      BY <2>1, Numbers DEF GoodReply, Kinds
    <2>3. Answer(t, "instant", n, {}) /\ UNCHANGED uploads /\ UNCHANGED gc
      BY <1>2, <2>1 DEF CreateInstant, uploads, db, disk
    <2>4. JobType' /\ ReplyType' /\ Ends(t)
      BY <2>2, <2>3, AnswerDoes DEF Ends, Types
    <2> QED
      BY <2>3, <2>4 DEF Dull, Idle, uploads, db, disk, Ends, WriteOps, FinalOps
  <1>3. CASE CreateReuses(t)
    <2>1. PICK s \in Sids : Answer(t, "session", s, rows[s])
      BY <1>3 DEF CreateReuses
    <2>2. GoodReply([kind |-> "session", arg |-> s, has |-> rows[s]])
      BY <2>1, Numbers DEF GoodReply, Kinds, SessType, Types
    <2>3. Answer(t, "session", s, rows[s]) /\ UNCHANGED uploads /\ UNCHANGED gc
      BY <1>3, <2>1 DEF CreateReuses, uploads, db, disk
    <2>4. JobType' /\ ReplyType' /\ Ends(t)
      BY <2>2, <2>3, AnswerDoes DEF Ends, Types
    <2> QED
      BY <2>3, <2>4 DEF Dull, Idle, uploads, db, disk, Ends, WriteOps, FinalOps
  <1>4. CASE CreateMisses(t)
    <2>1. Goto(t, "insert") /\ job[t].op = "create" /\ UNCHANGED uploads /\ UNCHANGED gc
      BY <1>4 DEF CreateMisses, uploads, db, disk
    <2>2. JobType' /\ ReplyType' /\ Moves(t, "insert")
      BY <2>1, GotoDoes DEF Moves, Types, Ops, SidOps, ChunkOps, WriteOps, FinalOps,
         CancelOps, ProofOps
    <2> QED
      BY <2>1, <2>2 DEF Dull, Idle, Moves, WriteOps, FinalOps
  <1>5. CASE CreateSession(t)
    <2>1. PICK s \in Sids : Answer(t, "session", s, {})
      BY <1>5 DEF CreateSession
    <2>2. GoodReply([kind |-> "session", arg |-> s, has |-> {}])
      BY <2>1, Numbers DEF GoodReply, Kinds
    <2>3. Answer(t, "session", s, {}) /\ TRUE
      BY <1>5, <2>1 DEF CreateSession, uploads, db, disk
    <2>4. JobType' /\ ReplyType' /\ Ends(t)
      BY <2>2, <2>3, AnswerDoes DEF Ends, Types
    <2> QED
      BY <1>5, <2>4 DEF Works, Idle, Ends, WriteOps, FinalOps
  <1>6. CASE ChunkAccepted(t)
    <2>1. Goto(t, "store") /\ job[t].op = "chunk" /\ UNCHANGED uploads /\ UNCHANGED gc
      BY <1>6 DEF ChunkAccepted, uploads, db, disk
    <2>2. JobType' /\ ReplyType' /\ Moves(t, "store")
      BY <2>1, GotoDoes DEF Moves, Types, Ops, SidOps, ChunkOps, WriteOps, FinalOps,
         CancelOps, ProofOps
    <2> QED
      BY <2>1, <2>2 DEF Dull, Idle, Moves, WriteOps, FinalOps
  <1>7. CASE StoreChunk(t)
    <2>1. Goto(t, "open") /\ job[t].op = "store"
      BY <1>7 DEF StoreChunk
    <2>2. JobType' /\ ReplyType' /\ Moves(t, "open")
      BY <2>1, GotoDoes DEF Moves, Types, Ops, SidOps, ChunkOps, WriteOps, FinalOps,
         CancelOps, ProofOps
    <2> QED
      BY <1>7, <2>2 DEF Works
  <1>8. CASE OpenPart(t)
    <2>1. LET there == job[t].arg \in part IN
          /\ job' = [job EXCEPT ![t].op = IF there THEN "write" ELSE "truncate", ![t].fd = there]
          /\ job[t].op = "open" /\ UNCHANGED reply
      BY <1>8 DEF OpenPart
    <2>2. GoodJob(job[t]) /\ job[t] \in Jobs /\ (job[t].arg \in part) \in BOOLEAN
      BY DEF JobType, Types
    <2>3. /\ job'[t] = [job[t] EXCEPT !.op = IF job[t].arg \in part THEN "write" ELSE "truncate",
                                      !.fd = job[t].arg \in part]
          /\ \A u \in Threads : u # t => job'[u] = job[u]
      BY <2>1 DEF JobType, Types
    <2>4. /\ job'[t].op \in {"write", "truncate"} /\ job'[t].arg = job[t].arg
          /\ job'[t].chunk = job[t].chunk /\ job'[t] \in Jobs
      BY <2>2, <2>3 DEF Jobs, Ops, SidOps, ChunkOps, WriteOps
    <2>5. GoodJob(job'[t])
      BY <2>1, <2>2, <2>4 DEF GoodJob, SidOps, ChunkOps, WriteOps, ProofOps
    <2>6. JobType' /\ ReplyType'
      BY <2>1, <2>3, <2>4, <2>5 DEF JobType, ReplyType, Types
    <2>7. Moves(t, "write") \/ Moves(t, "truncate")
      BY <2>3, <2>4 DEF Moves, Same
    <2> QED
      BY <1>8, <2>6, <2>7 DEF Works
  <1>9. CASE TruncatePart(t)
    <2>1. /\ job' = [job EXCEPT ![t].op = "write", ![t].fd = TRUE]
          /\ job[t].op = "truncate" /\ UNCHANGED reply
      BY <1>9 DEF TruncatePart
    <2>2. GoodJob(job[t]) /\ job[t] \in Jobs
      BY DEF JobType, Types
    <2>3. /\ job'[t] = [job[t] EXCEPT !.op = "write", !.fd = TRUE]
          /\ \A u \in Threads : u # t => job'[u] = job[u]
      BY <2>1 DEF JobType, Types
    <2>4. /\ job'[t].op = "write" /\ job'[t].arg = job[t].arg
          /\ job'[t].chunk = job[t].chunk /\ job'[t] \in Jobs
      BY <2>2, <2>3 DEF Jobs, Ops, SidOps, ChunkOps, WriteOps
    <2>5. GoodJob(job'[t])
      BY <2>1, <2>2, <2>4 DEF GoodJob, SidOps, ChunkOps, WriteOps, ProofOps
    <2>6. JobType' /\ ReplyType'
      BY <2>1, <2>3, <2>4, <2>5 DEF JobType, ReplyType, Types
    <2>7. Moves(t, "write")
      BY <2>3, <2>4 DEF Moves, Same
    <2> QED
      BY <1>9, <2>6, <2>7 DEF Works
  <1>10. CASE WriteChunk(t)
    <2>1. GoodReply([kind |-> "ok", arg |-> 0, has |-> {}])
      BY DEF GoodReply, Kinds
    <2>2. Answer(t, "ok", 0, {}) /\ TRUE
      BY <1>10 DEF WriteChunk, uploads, db, disk
    <2>3. JobType' /\ ReplyType' /\ Ends(t)
      BY <2>1, <2>2, AnswerDoes DEF Ends, Types
    <2> QED
      BY <1>10, <2>3 DEF Works, Idle, Ends, WriteOps, FinalOps
  <1>11. CASE Query(t)
    <2>1. job[t].arg \in Sids /\ sess[job[t].arg] \in {"open", "cancelled", "finalized"}
      BY <1>11 DEF Query, Gone, Types, SessType, GoodJob, JobType, SidOps
    <2>2. GoodReply([kind |-> sess[job[t].arg], arg |-> job[t].arg, has |-> rows[job[t].arg]])
      BY <2>1, Numbers DEF GoodReply, Kinds, Types, SessType
    <2>3. /\ Answer(t, sess[job[t].arg], job[t].arg, rows[job[t].arg])
          /\ UNCHANGED uploads /\ UNCHANGED gc
      BY <1>11 DEF Query, uploads, db, disk
    <2>4. JobType' /\ ReplyType' /\ Ends(t)
      BY <2>2, <2>3, AnswerDoes DEF Ends, Types
    <2> QED
      BY <2>3, <2>4 DEF Dull, Idle, uploads, db, disk, Ends, WriteOps, FinalOps
  <1>12. CASE FinalizeAgain(t)
    <2>1. job[t].arg \in Sids
      BY <1>12 DEF FinalizeAgain, Types, GoodJob, JobType, SidOps, FinalOps
    <2>2. GoodReply([kind |-> "file", arg |-> job[t].arg, has |-> {}])
      BY <2>1, Numbers DEF GoodReply, Kinds
    <2>3. Answer(t, "file", job[t].arg, {}) /\ UNCHANGED uploads /\ UNCHANGED gc
      BY <1>12 DEF FinalizeAgain, uploads, db, disk
    <2>4. JobType' /\ ReplyType' /\ Ends(t)
      BY <2>2, <2>3, AnswerDoes DEF Ends, Types
    <2> QED
      BY <2>3, <2>4 DEF Dull, Idle, uploads, db, disk, Ends, WriteOps, FinalOps
  <1>13. CASE FinalizeStart(t)
    <2>1. Goto(t, "verify") /\ job[t].op = "finalize"
      BY <1>13 DEF FinalizeStart
    <2>2. JobType' /\ ReplyType' /\ Moves(t, "verify")
      BY <2>1, GotoDoes DEF Moves, Types, Ops, SidOps, ChunkOps, WriteOps, FinalOps,
         CancelOps, ProofOps
    <2> QED
      BY <1>13, <2>2 DEF Works
  <1>14. CASE Verify(t)
    <2>1. Goto(t, "rename") /\ job[t].op = "verify"
      BY <1>14 DEF Verify
    <2>2. JobType' /\ ReplyType' /\ Moves(t, "rename")
      BY <2>1, GotoDoes DEF Moves, Types, Ops, SidOps, ChunkOps, WriteOps, FinalOps,
         CancelOps, ProofOps
    <2> QED
      BY <1>14, <2>2 DEF Works
  <1>15. CASE Renames(t)
    <2>1. /\ job' = Detached(job[t].arg, [job EXCEPT ![t].op = "record"])
          /\ job[t].op = "rename" /\ UNCHANGED reply
      BY <1>15 DEF Renames, RenamePart, CopyFails, Movable, Spoil
    <2>2. /\ [job EXCEPT ![t].op = "record"][t] = [job[t] EXCEPT !.op = "record"]
          /\ \A u \in Threads : u # t => [job EXCEPT ![t].op = "record"][u] = job[u]
      BY DEF JobType, Types
    <2>3. [job EXCEPT ![t].op = "record"] \in [Threads -> Jobs]
      BY <2>2 DEF JobType, Types, Jobs, Ops, SidOps, FinalOps
    <2>4. \A u \in Threads : GoodJob([job EXCEPT ![t].op = "record"][u])
      BY <2>1, <2>2, <2>3 DEF JobType, Types, Jobs, GoodJob, SidOps, ChunkOps, WriteOps,
         FinalOps,
         ProofOps
    <2>5. JobType' /\ \A u \in Threads : Like(job'[u], [job EXCEPT ![t].op = "record"][u])
      BY <2>1, <2>3, <2>4, DetachedDoes DEF JobType
    <2>6. Moves(t, "record")
      BY <2>2, <2>5 DEF Moves, Same, Like, JobType, Types, Jobs
    <2> QED
      BY <1>15, <2>1, <2>5, <2>6 DEF Works, ReplyType, Types
  <1>16. CASE RecordExisting(t)
    <2>1. job[t].arg \in Sids
      BY <1>16 DEF RecordExisting, Types, GoodJob, JobType, SidOps, FinalOps
    <2>2. GoodReply([kind |-> "file", arg |-> job[t].arg, has |-> {}])
      BY <2>1, Numbers DEF GoodReply, Kinds
    <2>3. Answer(t, "file", job[t].arg, {}) /\ UNCHANGED uploads /\ UNCHANGED gc
      BY <1>16 DEF RecordExisting, uploads, db, disk
    <2>4. JobType' /\ ReplyType' /\ Ends(t)
      BY <2>2, <2>3, AnswerDoes DEF Ends, Types
    <2> QED
      BY <2>3, <2>4 DEF Dull, Idle, uploads, db, disk, Ends, WriteOps, FinalOps
  <1>17. CASE RecordFinal(t)
    <2>1. Goto(t, "register") /\ job[t].op = "record"
      BY <1>17 DEF RecordFinal
    <2>2. JobType' /\ ReplyType' /\ Moves(t, "register")
      BY <2>1, GotoDoes DEF Moves, Types, Ops, SidOps, ChunkOps, WriteOps, FinalOps,
         CancelOps, ProofOps
    <2> QED
      BY <1>17, <2>2 DEF Works
  <1>18. CASE Register(t)
    <2>1. Goto(t, "keep") /\ job[t].op = "register"
      BY <1>18 DEF Register
    <2>2. JobType' /\ ReplyType' /\ Moves(t, "keep")
      BY <2>1, GotoDoes DEF Moves, Types, Ops, SidOps, ChunkOps, WriteOps, FinalOps,
         CancelOps, ProofOps
    <2> QED
      BY <1>18, <2>2 DEF Works
  <1>19. CASE KeepRecord(t)
    <2>1. job[t].arg \in Sids
      BY <1>19 DEF KeepRecord, Types, GoodJob, JobType, SidOps, FinalOps
    <2>2. GoodReply([kind |-> "file", arg |-> job[t].arg, has |-> {}])
      BY <2>1, Numbers DEF GoodReply, Kinds
    <2>3. Answer(t, "file", job[t].arg, {}) /\ UNCHANGED uploads /\ UNCHANGED gc
      BY <1>19 DEF KeepRecord, uploads, db, disk
    <2>4. JobType' /\ ReplyType' /\ Ends(t)
      BY <2>2, <2>3, AnswerDoes DEF Ends, Types
    <2> QED
      BY <2>3, <2>4 DEF Dull, Idle, uploads, db, disk, Ends, WriteOps, FinalOps
  <1>20. CASE TakeChallenge(t)
    <2>1. /\ job' = [job EXCEPT ![t].op = "compare", ![t].path = challenge[job[t].arg]]
          /\ job[t].op = "prove" /\ challenge[job[t].arg] # NoPath /\ UNCHANGED reply
          /\ UNCHANGED uploads /\ UNCHANGED gc
      BY <1>20 DEF TakeChallenge, uploads, db, disk
    <2>2. GoodJob(job[t]) /\ job[t] \in Jobs
      BY DEF JobType, Types
    <2>3. /\ job'[t] = [job[t] EXCEPT !.op = "compare", !.path = challenge[job[t].arg]]
          /\ \A u \in Threads : u # t => job'[u] = job[u]
      BY <2>1 DEF JobType, Types
    <2>4. job[t].arg \in Challenges /\ challenge[job[t].arg] \in Paths \cup {NoPath}
      BY <2>1, <2>2 DEF GoodJob, ProofOps, Types, RecordType
    <2>5. /\ job'[t].op = "compare" /\ job'[t].arg = job[t].arg
          /\ job'[t].path # NoPath /\ job'[t].chunk = job[t].chunk /\ job'[t] \in Jobs
      <3>1. "compare" \in Ops
        BY DEF Ops, ProofOps
      <3>2. PICK p \in Paths : p = challenge[job[t].arg]
        BY <2>1, <2>4
      <3>3. PICK j \in Jobs : j = job[t]
        BY <2>2
      <3>4. job'[t] = [j EXCEPT !.op = "compare", !.path = p]
        BY <2>3, <3>2, <3>3
      <3>5. job'[t].path = p /\ p # NoPath
        BY <2>1, <3>2, <3>3, <3>4 DEF Jobs
      <3> QED
        BY <3>1, <3>3, <3>4, <3>5 DEF Jobs
    <2>6. GoodJob(job'[t])
      BY <2>4, <2>5 DEF GoodJob, SidOps, ChunkOps, WriteOps, FinalOps, CancelOps
    <2>7. JobType' /\ ReplyType'
      BY <2>1, <2>3, <2>5, <2>6 DEF JobType, ReplyType, Types
    <2> QED
      BY <2>1, <2>3, <2>5, <2>7 DEF Dull, Idle, Same, WriteOps, FinalOps
  <1>21. CASE Compare(t)
    <2>1. Goto(t, "grant") /\ job[t].op = "compare" /\ UNCHANGED uploads /\ UNCHANGED gc
      BY <1>21 DEF Compare, uploads, db, disk
    <2>2. JobType' /\ ReplyType' /\ Moves(t, "grant")
      BY <2>1, GotoDoes DEF Moves, Types, Ops, SidOps, ChunkOps, WriteOps, FinalOps,
         CancelOps, ProofOps
    <2> QED
      BY <2>1, <2>2 DEF Dull, Idle, Moves, WriteOps, FinalOps
  <1>22. CASE Grant(t)
    <2>1. job[t].arg \in Challenges
      BY <1>22 DEF Grant, Types, GoodJob, JobType, ProofOps
    <2>2. GoodReply([kind |-> "file", arg |-> MaxSessions + job[t].arg, has |-> {}])
      BY <2>1, Numbers DEF GoodReply, Kinds
    <2>3. Answer(t, "file", MaxSessions + job[t].arg, {}) /\ UNCHANGED uploads /\ UNCHANGED gc
      BY <1>22 DEF Grant, uploads, db, disk
    <2>4. JobType' /\ ReplyType' /\ Ends(t)
      BY <2>2, <2>3, AnswerDoes DEF Ends, Types
    <2> QED
      BY <2>3, <2>4 DEF Dull, Idle, uploads, db, disk, Ends, WriteOps, FinalOps
  <1>23. CASE CancelChecked(t)
    <2>1. Goto(t, "close") /\ job[t].op = "cancel" /\ UNCHANGED uploads /\ UNCHANGED gc
      BY <1>23 DEF CancelChecked, uploads, db, disk
    <2>2. JobType' /\ ReplyType' /\ Moves(t, "close")
      BY <2>1, GotoDoes DEF Moves, Types, Ops, SidOps, ChunkOps, WriteOps, FinalOps,
         CancelOps, ProofOps
    <2> QED
      BY <2>1, <2>2 DEF Dull, Idle, Moves, WriteOps, FinalOps
  <1>24. CASE CancelSession(t)
    <2>1. Goto(t, "unlink") /\ job[t].op = "close"
      BY <1>24 DEF CancelSession
    <2>2. JobType' /\ ReplyType' /\ Moves(t, "unlink")
      BY <2>1, GotoDoes DEF Moves, Types, Ops, SidOps, ChunkOps, WriteOps, FinalOps,
         CancelOps, ProofOps
    <2> QED
      BY <1>24, <2>2 DEF Works
  <1>25. CASE CancelUnlink(t)
    <2>1. /\ job' = Detached(job[t].arg, [job EXCEPT ![t] = NoJob])
          /\ reply' = IF job[t].caller = Nobody THEN reply
                      ELSE [reply EXCEPT ![job[t].caller] = [NoReply EXCEPT !.kind = "ok"]]
      BY <1>25 DEF CancelUnlink
    <2>2. /\ [job EXCEPT ![t] = NoJob][t] = NoJob
          /\ \A u \in Threads : u # t => [job EXCEPT ![t] = NoJob][u] = job[u]
      BY DEF JobType, Types
    <2>3. [job EXCEPT ![t] = NoJob] \in [Threads -> Jobs]
      BY <2>2, FreeJob DEF JobType, Types, GoodJob
    <2>4. \A u \in Threads : GoodJob([job EXCEPT ![t] = NoJob][u])
      BY <2>2, FreeJob DEF JobType, Types
    <2>5. JobType' /\ \A u \in Threads : Like(job'[u], [job EXCEPT ![t] = NoJob][u])
      BY <2>1, <2>3, <2>4, DetachedDoes DEF JobType
    <2>6. Ends(t)
      BY <2>2, <2>5, FreeJob DEF Ends, Same, Like
    <2>7. ReplyType'
      <3>1. GoodReply([NoReply EXCEPT !.kind = "ok"])
        BY DEF GoodReply, NoReply, Kinds
      <3>2. job[t].caller \in Callers \cup {Nobody}
        BY DEF JobType, Types, Jobs
      <3> QED
        BY <2>1, <3>1, <3>2, SetReply DEF Types, ReplyType
    <2> QED
      BY <1>25, <2>5, <2>6, <2>7 DEF Works
  <1> QED
    BY <1>1, <1>2, <1>3, <1>4, <1>5, <1>6, <1>7, <1>8, <1>9, <1>10, <1>11,
       <1>12, <1>13, <1>14, <1>15, <1>16, <1>17, <1>18, <1>19, <1>20, <1>21,
       <1>22, <1>23, <1>24, <1>25 DEF Handle, Renames

-----------------------------------------------------------------------------
(* What a step of a pump does.                                             *)

Pumped(c) == Begin(c) \/ BeginFinalized(c) \/ PumpStep(c)

(* The server sees a request at most. *)
Aside == UNCHANGED <<db, disk, memory, gc, cancel, sent, faults>>

LEMMA ConsumesDoes ==
  ASSUME ReplyType, NEW c \in Callers, Consumes(c) \/ UNCHANGED reply
  PROVE  ReplyType'
  <1>1. GoodReply(NoReply)
    BY DEF GoodReply, NoReply, Kinds
  <1>2. CASE Consumes(c)
    BY <1>1, <1>2, SetReply DEF Consumes
  <1>3. CASE UNCHANGED reply
    BY <1>3 DEF ReplyType
  <1> QED
    BY <1>2, <1>3

LEMMA PumpAsks ==
  ASSUME Types, PlaceInv, NEW c \in Pumps, Pumped(c)
  PROVE  JobType' /\ ReplyType' /\ Idle /\ Aside
  <1>1. CASE \/ BeginFinalized(c) \/ CreateFails(c) \/ Attach(c)
             \/ ProveFails(c) \/ GotFile(c) \/ AskFinalized(c) \/ AskOpen(c)
             \/ AskFails(c) \/ RenewFails(c) \/ Renew(c) \/ Resume(c)
             \/ EndOfChunks(c) \/ ChunkFails(c) \/ ChunkDone(c)
             \/ FinishWithout(c) \/ FinalizeFails(c) \/ Reread(c)
             \/ SendCard(c) \/ MarkSent(c)
    <2>1. UNCHANGED job /\ (Consumes(c) \/ UNCHANGED reply) /\ Aside
      BY <1>1 DEF
       BeginFinalized, CreateFails, Attach, ProveFails, GotFile, AskFinalized,
       AskOpen, AskFails, RenewFails, Renew, Resume, EndOfChunks, ChunkFails,
       ChunkDone, FinishWithout, FinalizeFails, Reread, SendCard, MarkSent,
       Fails, Adopt, Elsewhere, history, Begins, Aside
    <2>2. JobType' /\ Idle
      BY <2>1 DEF Types, JobType, Idle, Same
    <2> QED
      BY <2>1, <2>2, ConsumesDoes, PumpAssumption DEF Types
  <1>2. CASE Begin(c)
    <2>1. \/ Submit(c, "create", 0, 0)
          \/ draft.up # NoSid /\ Submit(c, "query", draft.up, 0)
      BY <1>2 DEF Begin
    <2>2. draft.up \in Sids \cup {NoSid}
      BY DEF Types, DraftType, Draft
    <2>3. JobType' /\ \A u \in Threads : Same(u) \/ job'[u].op \in First \cup {"cancel"}
      BY <2>1, <2>2, SubmitDoes, Numbers, PumpAssumption DEF Types, Ops, SidOps,
         ChunkOps, WriteOps, FinalOps, CancelOps, ProofOps, First
    <2>4. UNCHANGED reply /\ Aside
      BY <1>2 DEF Begin, Elsewhere, history, Begins, Aside
    <2> QED
      BY <2>3, <2>4, ConsumesDoes, PumpAssumption DEF Idle, Types, First, WriteOps, FinalOps
  <1>3. CASE Prove(c)
    <2>1. reply[c].arg \in Challenges
      BY <1>3, PumpAssumption DEF Prove, Types, ReplyType, GoodReply
    <2>2. Submit(c, "prove", reply[c].arg, 0)
      BY <1>3 DEF Prove
    <2>3. JobType' /\ \A u \in Threads : Same(u) \/ job'[u].op \in First \cup {"cancel"}
      BY <2>1, <2>2, SubmitDoes, Numbers, PumpAssumption DEF Types, Ops, SidOps,
         ChunkOps, WriteOps, FinalOps, CancelOps, ProofOps, First
    <2>4. (Consumes(c) \/ UNCHANGED reply) /\ Aside
      BY <1>3 DEF Prove, Elsewhere, history, Begins, Aside
    <2> QED
      BY <2>3, <2>4, ConsumesDoes, PumpAssumption DEF Idle, Types, First, WriteOps, FinalOps
  <1>4. CASE Merge(c)
    <2>1. draft'.up \in Sids
      BY <1>4 DEF Merge, MarkDone, PlaceInv, Types, DraftType, Draft
    <2>2. Submit(c, "query", draft'.up, 0)
      BY <1>4 DEF Merge
    <2>3. JobType' /\ \A u \in Threads : Same(u) \/ job'[u].op \in First \cup {"cancel"}
      BY <2>1, <2>2, SubmitDoes, Numbers, PumpAssumption DEF Types, Ops, SidOps,
         ChunkOps, WriteOps, FinalOps, CancelOps, ProofOps, First
    <2>4. (Consumes(c) \/ UNCHANGED reply) /\ Aside
      BY <1>4 DEF Merge, Elsewhere, history, Begins, Aside
    <2> QED
      BY <2>3, <2>4, ConsumesDoes, PumpAssumption DEF Idle, Types, First, WriteOps, FinalOps
  <1>5. CASE AskGone(c)
    <2>1. Submit(c, "create", 0, 0)
      BY <1>5 DEF AskGone
    <2>2. JobType' /\ \A u \in Threads : Same(u) \/ job'[u].op \in First \cup {"cancel"}
      BY <2>1, SubmitDoes, Numbers, PumpAssumption DEF Types, Ops, SidOps, ChunkOps,
         WriteOps, FinalOps, CancelOps, ProofOps, First
    <2>3. (Consumes(c) \/ UNCHANGED reply) /\ Aside
      BY <1>5 DEF AskGone, Elsewhere, history, Begins, Aside
    <2> QED
      BY <2>2, <2>3, ConsumesDoes, PumpAssumption DEF Idle, Types, First, WriteOps, FinalOps
  <1>6. CASE SendChunk(c)
    <2>1. cur[c].up \in Sids /\ NextMissing(c) \in Chunks
      <3>1. cur[c].up \in Sids
        BY <1>6 DEF SendChunk, PlaceInv, Asking, Types, DraftType, Draft
      <3> QED
        BY <1>6, <3>1, NextMissingIsChunk DEF SendChunk
    <2>2. Submit(c, "chunk", cur[c].up, NextMissing(c))
      BY <1>6 DEF SendChunk
    <2>3. JobType' /\ \A u \in Threads : Same(u) \/ job'[u].op \in First \cup {"cancel"}
      BY <2>1, <2>2, SubmitDoes, Numbers, PumpAssumption DEF Types, Ops, SidOps,
         ChunkOps, WriteOps, FinalOps, CancelOps, ProofOps, First
    <2>4. (Consumes(c) \/ UNCHANGED reply) /\ Aside
      BY <1>6 DEF SendChunk, Elsewhere, history, Begins, Aside
    <2> QED
      BY <2>3, <2>4, ConsumesDoes, PumpAssumption DEF Idle, Types, First, WriteOps, FinalOps
  <1>7. CASE Finalize(c)
    <2>1. cur[c].up \in Sids
      BY <1>7 DEF Finalize, PlaceInv, Asking, Types, DraftType, Draft
    <2>2. Submit(c, "finalize", cur[c].up, 0)
      BY <1>7 DEF Finalize
    <2>3. JobType' /\ \A u \in Threads : Same(u) \/ job'[u].op \in First \cup {"cancel"}
      BY <2>1, <2>2, SubmitDoes, Numbers, PumpAssumption DEF Types, Ops, SidOps,
         ChunkOps, WriteOps, FinalOps, CancelOps, ProofOps, First
    <2>4. (Consumes(c) \/ UNCHANGED reply) /\ Aside
      BY <1>7 DEF Finalize, Elsewhere, history, Begins, Aside
    <2> QED
      BY <2>3, <2>4, ConsumesDoes, PumpAssumption DEF Idle, Types, First, WriteOps, FinalOps
  <1> QED
    BY <1>1, <1>2, <1>3, <1>4, <1>5, <1>6, <1>7 DEF Pumped, PumpStep

(* The draft a pump leaves, and where the pump stands. *)
LEMMA SetStateDoes ==
  ASSUME draft \in Draft, NEW st \in {"Sent", "Cancelled", "Uploading", "Failed"}, SetState(st)
  PROVE  /\ draft' \in Draft /\ draft'.up = draft.up /\ draft'.fid = draft.fid
         /\ draft'.done = draft.done
         /\ draft'.state = IF draft.state \in Terminal THEN draft.state ELSE st
  BY DEF SetState, Draft, Open, Terminal

LEMMA MarkDoneDoes ==
  ASSUME draft \in Draft, NEW is \in SUBSET Chunks, MarkDone(is)
  PROVE  /\ draft' \in Draft /\ draft'.up = draft.up /\ draft'.fid = draft.fid
         /\ draft'.state = draft.state
  BY DEF MarkDone, Draft

LEMMA BlankDraft == Blank \in Draft
  BY DEF Blank, Draft, Open

LEMMA StopsDoes ==
  ASSUME DraftType, NEW c \in Pumps, Stops(c)
  PROVE  /\ cur' \in [Pumps -> Draft] /\ pump' \in [Pumps -> Places] /\ pump'[c] = "idle"
         /\ \A d \in Pumps : d # c => pump'[d] = pump[d] /\ cur'[d] = cur[d]
  BY BlankDraft DEF DraftType, Stops, Places

LEMMA GoesDoes ==
  ASSUME DraftType, NEW c \in Pumps, NEW to \in Places, Goes(c, to)
  PROVE  /\ pump' \in [Pumps -> Places] /\ pump'[c] = to
         /\ \A d \in Pumps : d # c => pump'[d] = pump[d]
  BY DEF DraftType, Goes

LEMMA RereadsDoes ==
  ASSUME DraftType, NEW c \in Pumps, Rereads(c), draft' \in Draft
  PROVE  /\ cur' \in [Pumps -> Draft] /\ cur'[c] = draft'
         /\ \A d \in Pumps : d # c => cur'[d] = cur[d]
  BY DEF DraftType, Rereads

(* The state and the file id of the draft after a step of a pump. *)
Turns(c) ==
  \/ draft'.state = draft.state /\ draft'.fid = draft.fid
  \/ /\ draft.state \notin Terminal /\ pump[c] \notin Late
     /\ draft'.state \in {"Failed", "Uploading"}
     /\ draft'.fid = draft.fid \/ (draft'.fid = NoFid /\ draft.state \in Open)
  \/ /\ draft.state \in Open /\ draft'.state = "Finalized" /\ draft'.fid \in Fids
     /\ pump[c] \notin Late /\ pump'[c] = "reread"
  \/ /\ pump[c] = "mark" /\ draft'.state = "Sent" /\ draft'.fid = draft.fid
     /\ draft.state \notin Terminal /\ pump'[c] = "idle"

(* Where the pump stands, and what it knows there. *)
Stands(c) ==
  /\ pump'[c] \in Asking \cup {"merging"} => draft'.up # NoSid
  /\ pump'[c] \in Asking => cur'[c].up # NoSid
  /\ pump'[c] = "sending" => Missing(c)' # {}

(* How it comes to send the card. *)
Cards(c) ==
  /\ pump'[c] = "card" =>
       pump[c] = "reread" /\ draft.state \in {"Finalized", "Sent"} /\ cur'[c].fid = draft.fid
  /\ pump'[c] = "mark" =>
       pump[c] = "card" /\ cur'[c] = cur[c] /\ card' = IF card = NoFid THEN cur[c].fid ELSE card
  /\ pump'[c] # "mark" => card' = card
  /\ pump[c] \in Late => pump'[c] \in Late \/ (pump[c] = "idle" /\ draft.state \in Open)

Leaves(c) ==
  /\ draft' \in Draft /\ cur' \in [Pumps -> Draft] /\ pump' \in [Pumps -> Places]
  /\ draft.up # NoSid => draft'.up # NoSid
  /\ \A d \in Pumps : d # c => pump'[d] = pump[d] /\ cur'[d] = cur[d]
  /\ Turns(c) /\ Stands(c) /\ Cards(c)

LEMMA FailsDoes ==
  ASSUME DraftType, NEW c \in Pumps, Fails(c), pump[c] \notin Late
  PROVE  Leaves(c)
  <1>1. SetState("Failed") /\ Stops(c) /\ card' = card
    BY DEF Fails, Elsewhere, history, Begins
  <1>2. draft \in Draft
    BY DEF DraftType
  <1>3. draft' \in Draft /\ Turns(c) /\ draft'.up = draft.up
    BY <1>1, <1>2, SetStateDoes DEF Turns
  <1>4. pump'[c] = "idle" /\ Stands(c) /\ Cards(c)
    BY <1>1, StopsDoes DEF Stands, Cards, Asking, Late
  <1> QED
    BY <1>1, <1>3, <1>4, StopsDoes DEF Leaves

LEMMA AdoptDoes ==
  ASSUME DraftType, NEW c \in Pumps, NEW f \in Fids, Adopt(c, f), pump[c] \notin Late
  PROVE  Leaves(c)
  <1>1. card' = card /\ draft \in Draft
    BY DEF Adopt, Elsewhere, history, Begins, DraftType
  <1>2. CASE draft.state \in Open \/ (draft.state = "Finalized" /\ draft.fid = f)
    <2>1. draft' = [draft EXCEPT !.fid = f, !.state = "Finalized"] /\ Goes(c, "reread") /\ UNCHANGED cur
      BY <1>2 DEF Adopt
    <2>2. draft' \in Draft /\ draft'.fid = f /\ draft'.state = "Finalized" /\ draft'.up = draft.up
      BY <1>1, <2>1 DEF Draft
    <2>3. /\ pump' \in [Pumps -> Places] /\ pump'[c] = "reread"
          /\ \A d \in Pumps : d # c => pump'[d] = pump[d]
      BY <2>1, GoesDoes DEF Places
    <2>4. Turns(c) /\ Stands(c) /\ Cards(c)
      BY <1>1, <1>2, <2>2, <2>3 DEF Turns, Stands, Cards, Asking, Late
    <2> QED
      BY <2>1, <2>2, <2>3, <2>4 DEF Leaves, DraftType
  <1>3. CASE ~(draft.state \in Open \/ (draft.state = "Finalized" /\ draft.fid = f))
    <2>1. UNCHANGED draft /\ Stops(c)
      BY <1>3 DEF Adopt
    <2> QED
      BY <1>1, <2>1, StopsDoes DEF Leaves, Turns, Stands, Cards, Asking, Late
  <1> QED
    BY <1>2, <1>3

LEMMA PumpLeaves ==
  ASSUME Types, PlaceInv, NEW c \in Pumps, Pumped(c)
  PROVE  Leaves(c)
  <1>1. CASE \/ CreateFails(c) \/ ProveFails(c) \/ AskFails(c)
             \/ RenewFails(c) \/ ChunkFails(c) \/ FinalizeFails(c)
    <2>1. Fails(c) /\ pump[c] \notin Late
      BY <1>1 DEF CreateFails,
       ProveFails, AskFails, RenewFails, ChunkFails, FinalizeFails, Late
    <2> QED
      BY <2>1, FailsDoes DEF Types
  <1>2. CASE Begin(c)
    <2>1. draft \in Draft /\ cur \in [Pumps -> Draft]
      BY DEF Types, DraftType
    <2>2. /\ pump[c] = "idle" /\ draft.state \in Open /\ Rereads(c) /\ UNCHANGED <<draft, card>>
          /\ Goes(c, IF draft.up = NoSid THEN "creating" ELSE "asking")
      BY <1>2 DEF Begin, Elsewhere, history, Begins
    <2>3. draft' \in Draft /\ (draft.up # NoSid => draft'.up # NoSid)
      BY <2>1, <2>2
    <2>4. /\ cur' \in [Pumps -> Draft]
          /\ \A d \in Pumps : d # c => cur'[d] = cur[d]
          /\ cur'[c] = draft'
      BY <2>1, <2>2, RereadsDoes DEF Types
    <2>5. /\ pump' \in [Pumps -> Places]
          /\ \A d \in Pumps : d # c => pump'[d] = pump[d]
          /\ pump'[c] = IF draft.up = NoSid THEN "creating" ELSE "asking"
      BY <2>2, GoesDoes DEF Places, Types
    <2>6. Turns(c)
      BY <2>1, <2>2, <2>3, <2>4, <2>5 DEF Open, Terminal, Turns, Late
    <2>7. Stands(c) /\ Cards(c)
      BY <2>1, <2>2, <2>3, <2>4, <2>5 DEF Stands, Cards, Asking, Late
    <2> QED
      BY <2>3, <2>4, <2>5, <2>6, <2>7 DEF Leaves
  <1>3. CASE BeginFinalized(c)
    <2>1. /\ pump[c] = "idle" /\ Goes(c, "reread") /\ UNCHANGED <<draft, card>>
          /\ UNCHANGED cur
      BY <1>3 DEF BeginFinalized, Elsewhere, history, Begins
    <2>2. draft' \in Draft /\ "reread" \in Places
      BY <2>1 DEF Types, DraftType, Places
    <2>3. cur' \in [Pumps -> Draft] /\ \A d \in Pumps : cur'[d] = cur[d]
      BY <2>1 DEF Types, DraftType
    <2>4. /\ pump' \in [Pumps -> Places] /\ pump'[c] = "reread"
          /\ \A d \in Pumps : d # c => pump'[d] = pump[d]
      BY <2>1, <2>2, GoesDoes DEF Types
    <2>5. Stands(c) /\ Cards(c) /\ Turns(c)
      BY <1>3, <2>1, <2>3, <2>4 DEF BeginFinalized, PlaceInv, Missing, Elsewhere, history, Begins, Stands,
         Cards, Turns, Asking, Late
    <2> QED
      BY <2>1, <2>2, <2>3, <2>4, <2>5 DEF Leaves
  <1>4. CASE Prove(c)
    <2>1. /\ pump[c] = "creating" /\ Goes(c, "proving") /\ UNCHANGED <<draft, card>>
          /\ UNCHANGED cur
      BY <1>4 DEF Prove, Elsewhere, history, Begins
    <2>2. draft' \in Draft /\ "proving" \in Places
      BY <2>1 DEF Types, DraftType, Places
    <2>3. cur' \in [Pumps -> Draft] /\ \A d \in Pumps : cur'[d] = cur[d]
      BY <2>1 DEF Types, DraftType
    <2>4. /\ pump' \in [Pumps -> Places] /\ pump'[c] = "proving"
          /\ \A d \in Pumps : d # c => pump'[d] = pump[d]
      BY <2>1, <2>2, GoesDoes DEF Types
    <2>5. Stands(c) /\ Cards(c) /\ Turns(c)
      BY <1>4, <2>1, <2>3, <2>4 DEF Prove, PlaceInv, Missing, Elsewhere, history, Begins, Stands, Cards,
         Turns, Asking, Late
    <2> QED
      BY <2>1, <2>2, <2>3, <2>4, <2>5 DEF Leaves
  <1>5. CASE Attach(c)
    <2>1. pump[c] = "creating" /\ UNCHANGED card
      BY <1>5 DEF Attach, Elsewhere, history, Begins
    <2>2. CASE draft.state \in Open
      <3>1. /\ draft' = [draft EXCEPT !.up = reply[c].arg, !.state = "Uploading"]
            /\ Goes(c, "merging") /\ UNCHANGED cur
        BY <1>5, <2>2 DEF Attach
      <3>2. reply[c].arg \in Sids
        BY <1>5, PumpAssumption DEF Attach, Types, ReplyType, GoodReply
      <3>3. /\ draft' \in Draft /\ draft'.up = reply[c].arg /\ draft'.state = "Uploading"
            /\ draft'.fid = draft.fid /\ draft'.up # NoSid
        BY <3>1, <3>2, Numbers DEF Types, DraftType, Draft, Open
      <3>4. /\ pump' \in [Pumps -> Places] /\ pump'[c] = "merging"
            /\ \A d \in Pumps : d # c => pump'[d] = pump[d]
        BY <3>1, GoesDoes DEF Types, Places
      <3>5. Turns(c) /\ Stands(c) /\ Cards(c)
        BY <2>1, <2>2, <3>3, <3>4 DEF Turns, Stands, Cards, Asking, Late, Open, Terminal
      <3> QED
        BY <3>1, <3>3, <3>4, <3>5 DEF Leaves, Types, DraftType
    <2>3. CASE draft.state \notin Open
      <3>1. Stops(c) /\ UNCHANGED draft
        BY <1>5, <2>3 DEF Attach
      <3> QED
        BY <2>1, <3>1, StopsDoes DEF Leaves, Turns, Stands, Cards, Asking, Late, Types,
           DraftType
    <2> QED
      BY <2>2, <2>3
  <1>6. CASE Merge(c)
    <2>1. draft \in Draft /\ cur \in [Pumps -> Draft]
      BY DEF Types, DraftType
    <2>2. /\ pump[c] = "merging" /\ MarkDone(reply[c].has) /\ Rereads(c) /\ Goes(c, "asking")
          /\ UNCHANGED card /\ draft.up # NoSid
      BY <1>6 DEF Merge, Elsewhere, history, Begins, PlaceInv
    <2>3. reply[c].has \in SUBSET Chunks
      BY PumpAssumption DEF Types, ReplyType
    <2>4. /\ draft' \in Draft /\ draft'.up = draft.up /\ draft'.fid = draft.fid
          /\ draft'.state = draft.state
      BY <2>1, <2>2, <2>3, MarkDoneDoes
    <2>5. draft' \in Draft /\ (draft.up # NoSid => draft'.up # NoSid)
      BY <2>4
    <2>6. /\ cur' \in [Pumps -> Draft]
          /\ \A d \in Pumps : d # c => cur'[d] = cur[d]
          /\ cur'[c] = draft'
      BY <2>2, <2>4, RereadsDoes DEF Types
    <2>7. /\ pump' \in [Pumps -> Places]
          /\ \A d \in Pumps : d # c => pump'[d] = pump[d]
          /\ pump'[c] = "asking"
      BY <2>2, GoesDoes DEF Places, Types
    <2>8. Turns(c)
      BY <2>1, <2>2, <2>3, <2>4, <2>5, <2>6, <2>7 DEF Open, Terminal, Turns, Late
    <2>9. Stands(c) /\ Cards(c)
      BY <2>1, <2>2, <2>3, <2>4, <2>5, <2>6, <2>7 DEF Stands, Cards, Asking, Late
    <2> QED
      BY <2>5, <2>6, <2>7, <2>8, <2>9 DEF Leaves
  <1>7. CASE GotFile(c)
    <2>1. PICK f \in Fids : Adopt(c, f)
      BY <1>7, PumpAssumption, Numbers DEF GotFile, Types, ReplyType, GoodReply
    <2>2. pump[c] \in Asking \cup {"proving"}
      BY <1>7 DEF GotFile, Asking
    <2> QED
      BY <2>1, <2>2, AdoptDoes DEF Asking, Late, Types
  <1>8. CASE AskFinalized(c)
    <2>1. PICK f \in Fids : Adopt(c, f)
      BY <1>8, PumpAssumption, Numbers DEF AskFinalized, Types, ReplyType, GoodReply
    <2>2. pump[c] \in Asking \cup {"proving"}
      BY <1>8 DEF AskFinalized, Asking
    <2> QED
      BY <2>1, <2>2, AdoptDoes DEF Asking, Late, Types
  <1>9. CASE AskOpen(c)
    <2>1. draft \in Draft /\ cur \in [Pumps -> Draft]
      BY DEF Types, DraftType
    <2>2. /\ pump[c] = "asking" /\ MarkDone(reply[c].has) /\ Goes(c, "resume")
          /\ UNCHANGED <<card, cur>> /\ draft.up # NoSid /\ cur[c].up # NoSid
      BY <1>9 DEF AskOpen, Elsewhere, history, Begins, PlaceInv, Asking
    <2>3. reply[c].has \in SUBSET Chunks
      BY PumpAssumption DEF Types, ReplyType
    <2>4. /\ draft' \in Draft /\ draft'.up = draft.up /\ draft'.fid = draft.fid
          /\ draft'.state = draft.state
      BY <2>1, <2>2, <2>3, MarkDoneDoes
    <2>5. draft' \in Draft /\ (draft.up # NoSid => draft'.up # NoSid)
      BY <2>4
    <2>6. /\ cur' \in [Pumps -> Draft]
          /\ \A d \in Pumps : d # c => cur'[d] = cur[d]
          /\ cur'[c] = cur[c]
      BY <2>1, <2>2
    <2>7. /\ pump' \in [Pumps -> Places]
          /\ \A d \in Pumps : d # c => pump'[d] = pump[d]
          /\ pump'[c] = "resume"
      BY <2>2, GoesDoes DEF Places, Types
    <2>8. Turns(c)
      BY <2>1, <2>2, <2>3, <2>4, <2>5, <2>6, <2>7 DEF Open, Terminal, Turns, Late
    <2>9. Stands(c) /\ Cards(c)
      BY <2>1, <2>2, <2>3, <2>4, <2>5, <2>6, <2>7 DEF Stands, Cards, Asking, Late
    <2> QED
      BY <2>5, <2>6, <2>7, <2>8, <2>9 DEF Leaves
  <1>10. CASE AskGone(c)
    <2>1. /\ pump[c] = "asking" /\ Goes(c, "renewing") /\ UNCHANGED <<draft, card>>
          /\ UNCHANGED cur
      BY <1>10 DEF AskGone, Elsewhere, history, Begins
    <2>2. draft' \in Draft /\ "renewing" \in Places
      BY <2>1 DEF Types, DraftType, Places
    <2>3. cur' \in [Pumps -> Draft] /\ \A d \in Pumps : cur'[d] = cur[d]
      BY <2>1 DEF Types, DraftType
    <2>4. /\ pump' \in [Pumps -> Places] /\ pump'[c] = "renewing"
          /\ \A d \in Pumps : d # c => pump'[d] = pump[d]
      BY <2>1, <2>2, GoesDoes DEF Types
    <2>5. Stands(c) /\ Cards(c) /\ Turns(c)
      BY <1>10, <2>1, <2>3, <2>4 DEF AskGone, PlaceInv, Missing, Elsewhere, history, Begins, Stands,
         Cards, Turns, Asking, Late
    <2> QED
      BY <2>1, <2>2, <2>3, <2>4, <2>5 DEF Leaves
  <1>11. CASE Renew(c)
    <2>1. pump[c] = "renewing" /\ UNCHANGED card
      BY <1>11 DEF Renew, Elsewhere, history, Begins
    <2>2. CASE draft.state \in Open
      <3>1. /\ draft' = [state |-> "Uploading", up |-> reply[c].arg, done |-> {}, fid |-> NoFid]
            /\ Goes(c, "resume") /\ Rereads(c)
        BY <1>11, <2>2 DEF Renew
      <3>2. reply[c].arg \in Sids
        BY <1>11, PumpAssumption DEF Renew, Types, ReplyType, GoodReply
      <3>3. /\ draft' \in Draft /\ draft'.up = reply[c].arg /\ draft'.state = "Uploading"
            /\ draft'.fid = NoFid /\ draft'.up # NoSid
        BY <3>1, <3>2, Numbers DEF Draft, Open
      <3>4. /\ pump' \in [Pumps -> Places] /\ pump'[c] = "resume"
            /\ \A d \in Pumps : d # c => pump'[d] = pump[d]
        BY <3>1, GoesDoes DEF Types, Places
      <3>5. /\ cur' \in [Pumps -> Draft] /\ cur'[c] = draft'
            /\ \A d \in Pumps : d # c => cur'[d] = cur[d]
        BY <3>1, <3>3, RereadsDoes DEF Types
      <3>6. Turns(c) /\ Stands(c) /\ Cards(c)
        BY <2>1, <2>2, <3>3, <3>4, <3>5 DEF Turns, Stands, Cards, Asking, Late, Open,
           Terminal
      <3> QED
        BY <3>3, <3>4, <3>5, <3>6 DEF Leaves
    <2>3. CASE draft.state \notin Open
      <3>1. Stops(c) /\ UNCHANGED draft
        BY <1>11, <2>3 DEF Renew
      <3> QED
        BY <2>1, <3>1, StopsDoes DEF Leaves, Turns, Stands, Cards, Asking, Late, Types,
           DraftType
    <2> QED
      BY <2>2, <2>3
  <1>12. CASE Resume(c)
    <2>1. /\ pump[c] = "resume" /\ UNCHANGED card /\ draft.up # NoSid /\ cur[c].up # NoSid
          /\ draft \in Draft /\ cur \in [Pumps -> Draft]
      BY <1>12 DEF Resume, Elsewhere, history, Begins, PlaceInv, Asking, Types, DraftType
    <2>2. CASE cur[c].state # "Failed"
      <3>1. Goes(c, "next") /\ UNCHANGED <<draft, cur>>
        BY <1>12, <2>2 DEF Resume
      <3>2. /\ pump' \in [Pumps -> Places] /\ pump'[c] = "next"
            /\ \A d \in Pumps : d # c => pump'[d] = pump[d]
        BY <3>1, GoesDoes DEF Types, Places
      <3> QED
        BY <2>1, <3>1, <3>2 DEF Leaves, Turns, Stands, Cards, Asking, Late
    <2>3. CASE cur[c].state = "Failed" /\ draft.state \in Terminal
      <3>1. Stops(c) /\ UNCHANGED draft
        BY <1>12, <2>3 DEF Resume
      <3> QED
        BY <2>1, <3>1, StopsDoes DEF Leaves, Turns, Stands, Cards, Asking, Late, Types,
           DraftType
    <2>4. CASE cur[c].state = "Failed" /\ draft.state \notin Terminal
      <3>1. Goes(c, "next") /\ Rereads(c) /\ SetState("Uploading")
        BY <1>12, <2>4 DEF Resume
      <3>2. /\ draft' \in Draft /\ draft'.up = draft.up /\ draft'.fid = draft.fid
            /\ draft'.state = "Uploading"
        BY <2>1, <2>4, <3>1, SetStateDoes
      <3>3. /\ pump' \in [Pumps -> Places] /\ pump'[c] = "next"
            /\ \A d \in Pumps : d # c => pump'[d] = pump[d]
        BY <3>1, GoesDoes DEF Types, Places
      <3>4. /\ cur' \in [Pumps -> Draft] /\ cur'[c] = draft'
            /\ \A d \in Pumps : d # c => cur'[d] = cur[d]
        BY <3>1, <3>2, RereadsDoes DEF Types
      <3>5. Turns(c) /\ Stands(c) /\ Cards(c)
        BY <2>1, <2>4, <3>2, <3>3, <3>4 DEF Turns, Stands, Cards, Asking, Late
      <3> QED
        BY <2>1, <3>2, <3>3, <3>4, <3>5 DEF Leaves
    <2> QED
      BY <2>2, <2>3, <2>4
  <1>13. CASE SendChunk(c)
    <2>1. /\ pump[c] = "next" /\ Goes(c, "sending") /\ UNCHANGED <<draft, card>>
          /\ UNCHANGED cur
      BY <1>13 DEF SendChunk, Elsewhere, history, Begins
    <2>2. draft' \in Draft /\ "sending" \in Places
      BY <2>1 DEF Types, DraftType, Places
    <2>3. cur' \in [Pumps -> Draft] /\ \A d \in Pumps : cur'[d] = cur[d]
      BY <2>1 DEF Types, DraftType
    <2>4. /\ pump' \in [Pumps -> Places] /\ pump'[c] = "sending"
          /\ \A d \in Pumps : d # c => pump'[d] = pump[d]
      BY <2>1, <2>2, GoesDoes DEF Types
    <2>5. Stands(c) /\ Cards(c) /\ Turns(c)
      BY <1>13, <2>1, <2>3, <2>4 DEF SendChunk, PlaceInv, Missing, Elsewhere, history, Begins, Stands,
         Cards, Turns, Asking, Late
    <2> QED
      BY <2>1, <2>2, <2>3, <2>4, <2>5 DEF Leaves
  <1>14. CASE EndOfChunks(c)
    <2>1. draft \in Draft /\ cur \in [Pumps -> Draft]
      BY DEF Types, DraftType
    <2>2. /\ pump[c] = "next" /\ UNCHANGED <<draft, card>> /\ Goes(c, "finish")
          /\ UNCHANGED cur \/ cur' = [cur EXCEPT ![c] = draft]
          /\ draft.up # NoSid /\ cur[c].up # NoSid
      BY <1>14 DEF EndOfChunks, Elsewhere, history, Begins, PlaceInv, Asking
    <2>3. draft' \in Draft /\ (draft.up # NoSid => draft'.up # NoSid)
      BY <2>1, <2>2
    <2>4. /\ cur' \in [Pumps -> Draft]
          /\ \A d \in Pumps : d # c => cur'[d] = cur[d]
          /\ cur'[c] \in {cur[c], draft}
      BY <2>1, <2>2
    <2>5. /\ pump' \in [Pumps -> Places]
          /\ \A d \in Pumps : d # c => pump'[d] = pump[d]
          /\ pump'[c] = "finish"
      BY <2>2, GoesDoes DEF Places, Types
    <2>6. Turns(c)
      BY <2>1, <2>2, <2>3, <2>4, <2>5 DEF Open, Terminal, Turns, Late
    <2>7. Stands(c) /\ Cards(c)
      BY <2>1, <2>2, <2>3, <2>4, <2>5 DEF Stands, Cards, Asking, Late
    <2> QED
      BY <2>3, <2>4, <2>5, <2>6, <2>7 DEF Leaves
  <1>15. CASE ChunkDone(c)
    <2>1. /\ pump[c] = "sending" /\ UNCHANGED card /\ draft.up # NoSid /\ cur[c].up # NoSid
          /\ Missing(c) # {} /\ MarkDone({NextMissing(c)})
      BY <1>15 DEF ChunkDone, Elsewhere, history, Begins, PlaceInv, Asking
    <2>2. NextMissing(c) \in Chunks /\ draft \in Draft /\ cur \in [Pumps -> Draft]
      BY <2>1, NextMissingIsChunk DEF Types, DraftType
    <2>3. /\ draft' \in Draft /\ draft'.up = draft.up /\ draft'.fid = draft.fid
          /\ draft'.state = draft.state
      BY <2>1, <2>2, MarkDoneDoes
    <2>4. CASE draft.state \in Terminal
      <3>1. Stops(c)
        BY <1>15, <2>4 DEF ChunkDone
      <3> QED
        BY <2>1, <2>3, <3>1, StopsDoes DEF Leaves, Turns, Stands, Cards, Asking, Late, Types
    <2>5. CASE draft.state \notin Terminal
      <3>1. Goes(c, "next") /\ cur' = [cur EXCEPT ![c].done = @ \cup {NextMissing(c)}]
        BY <1>15, <2>5 DEF ChunkDone
      <3>2. /\ pump' \in [Pumps -> Places] /\ pump'[c] = "next"
            /\ \A d \in Pumps : d # c => pump'[d] = pump[d]
        BY <3>1, GoesDoes DEF Types, Places
      <3>3. /\ cur' \in [Pumps -> Draft] /\ cur'[c].up = cur[c].up
            /\ \A d \in Pumps : d # c => cur'[d] = cur[d]
        BY <2>2, <3>1 DEF Draft
      <3>4. Turns(c) /\ Stands(c) /\ Cards(c)
        BY <2>1, <2>3, <3>2, <3>3 DEF Turns, Stands, Cards, Asking, Late
      <3> QED
        BY <2>1, <2>3, <3>2, <3>3, <3>4 DEF Leaves
    <2> QED
      BY <2>4, <2>5
  <1>16. CASE Finalize(c)
    <2>1. /\ pump[c] = "finish" /\ Goes(c, "finalizing") /\ UNCHANGED <<draft, card>>
          /\ UNCHANGED cur
      BY <1>16 DEF Finalize, Elsewhere, history, Begins
    <2>2. draft' \in Draft /\ "finalizing" \in Places
      BY <2>1 DEF Types, DraftType, Places
    <2>3. cur' \in [Pumps -> Draft] /\ \A d \in Pumps : cur'[d] = cur[d]
      BY <2>1 DEF Types, DraftType
    <2>4. /\ pump' \in [Pumps -> Places] /\ pump'[c] = "finalizing"
          /\ \A d \in Pumps : d # c => pump'[d] = pump[d]
      BY <2>1, <2>2, GoesDoes DEF Types
    <2>5. Stands(c) /\ Cards(c) /\ Turns(c)
      BY <1>16, <2>1, <2>3, <2>4 DEF Finalize, PlaceInv, Missing, Elsewhere, history, Begins, Stands,
         Cards, Turns, Asking, Late
    <2> QED
      BY <2>1, <2>2, <2>3, <2>4, <2>5 DEF Leaves
  <1>17. CASE FinishWithout(c)
    <2>1. /\ pump[c] = "finish" /\ Goes(c, "reread") /\ UNCHANGED <<draft, card>>
          /\ UNCHANGED cur
      BY <1>17 DEF FinishWithout, Elsewhere, history, Begins
    <2>2. draft' \in Draft /\ "reread" \in Places
      BY <2>1 DEF Types, DraftType, Places
    <2>3. cur' \in [Pumps -> Draft] /\ \A d \in Pumps : cur'[d] = cur[d]
      BY <2>1 DEF Types, DraftType
    <2>4. /\ pump' \in [Pumps -> Places] /\ pump'[c] = "reread"
          /\ \A d \in Pumps : d # c => pump'[d] = pump[d]
      BY <2>1, <2>2, GoesDoes DEF Types
    <2>5. Stands(c) /\ Cards(c) /\ Turns(c)
      BY <1>17, <2>1, <2>3, <2>4 DEF FinishWithout, PlaceInv, Missing, Elsewhere, history, Begins, Stands,
         Cards, Turns, Asking, Late
    <2> QED
      BY <2>1, <2>2, <2>3, <2>4, <2>5 DEF Leaves
  <1>18. CASE Reread(c)
    <2>1. pump[c] = "reread" /\ UNCHANGED <<draft, card>> /\ draft' \in Draft
      BY <1>18 DEF Reread, Elsewhere, history, Begins, Types, DraftType
    <2>2. CASE draft.state \in {"Finalized", "Sent"}
      <3>1. Rereads(c) /\ Goes(c, "card")
        BY <1>18, <2>2 DEF Reread
      <3>2. /\ cur' \in [Pumps -> Draft] /\ cur'[c] = draft
            /\ pump' \in [Pumps -> Places] /\ pump'[c] = "card"
            /\ \A d \in Pumps : d # c => pump'[d] = pump[d] /\ cur'[d] = cur[d]
        BY <2>1, <3>1, RereadsDoes, GoesDoes DEF Places, Types
      <3> QED
        BY <2>1, <2>2, <3>2 DEF Leaves, Turns, Stands, Cards, Asking, Late
    <2>3. CASE draft.state \notin {"Finalized", "Sent"}
      <3>1. Stops(c)
        BY <1>18, <2>3 DEF Reread
      <3> QED
        BY <2>1, <3>1, StopsDoes DEF Leaves, Turns, Stands, Cards, Asking, Late, Types
    <2> QED
      BY <2>2, <2>3
  <1>19. CASE SendCard(c)
    <2>1. draft \in Draft /\ cur \in [Pumps -> Draft]
      BY DEF Types, DraftType
    <2>2. /\ pump[c] = "card" /\ Goes(c, "mark") /\ UNCHANGED <<draft, cur>>
          /\ card' = IF card = NoFid THEN cur[c].fid ELSE card
      BY <1>19 DEF SendCard
    <2>3. draft' \in Draft /\ (draft.up # NoSid => draft'.up # NoSid)
      BY <2>1, <2>2
    <2>4. /\ cur' \in [Pumps -> Draft]
          /\ \A d \in Pumps : d # c => cur'[d] = cur[d]
          /\ UNCHANGED cur
      BY <2>1, <2>2
    <2>5. /\ pump' \in [Pumps -> Places]
          /\ \A d \in Pumps : d # c => pump'[d] = pump[d]
          /\ pump'[c] = "mark"
      BY <2>2, GoesDoes DEF Places, Types
    <2>6. Turns(c)
      BY <2>1, <2>2, <2>3, <2>4, <2>5 DEF Open, Terminal, Turns, Late
    <2>7. Stands(c) /\ Cards(c)
      BY <2>1, <2>2, <2>3, <2>4, <2>5 DEF Stands, Cards, Asking, Late
    <2> QED
      BY <2>3, <2>4, <2>5, <2>6, <2>7 DEF Leaves
  <1>20. CASE MarkSent(c)
    <2>1. draft \in Draft /\ cur \in [Pumps -> Draft]
      BY DEF Types, DraftType
    <2>2. pump[c] = "mark" /\ SetState("Sent") /\ Stops(c) /\ UNCHANGED card
      BY <1>20 DEF MarkSent, Elsewhere, history, Begins
    <2>3. /\ draft' \in Draft /\ draft'.up = draft.up /\ draft'.fid = draft.fid
          /\ draft'.state = IF draft.state \in Terminal THEN draft.state ELSE "Sent"
      BY <2>1, <2>2, SetStateDoes
    <2>4. draft' \in Draft /\ (draft.up # NoSid => draft'.up # NoSid)
      BY <2>3
    <2>5. /\ cur' \in [Pumps -> Draft]
          /\ \A d \in Pumps : d # c => cur'[d] = cur[d]
      BY <2>2, StopsDoes DEF Types
    <2>6. /\ pump' \in [Pumps -> Places]
          /\ \A d \in Pumps : d # c => pump'[d] = pump[d]
          /\ pump'[c] = "idle"
      BY <2>2, StopsDoes DEF Types
    <2>7. Turns(c)
      BY <2>1, <2>2, <2>3, <2>4, <2>5, <2>6 DEF Open, Terminal, Turns, Late
    <2>8. Stands(c) /\ Cards(c)
      BY <2>1, <2>2, <2>3, <2>4, <2>5, <2>6 DEF Stands, Cards, Asking, Late
    <2> QED
      BY <2>4, <2>5, <2>6, <2>7, <2>8 DEF Leaves
  <1> QED
    BY <1>1, <1>2, <1>3, <1>4, <1>5, <1>6, <1>7, <1>8, <1>9, <1>10, <1>11,
       <1>12, <1>13, <1>14, <1>15, <1>16, <1>17, <1>18, <1>19, <1>20 DEF Pumped, PumpStep

-----------------------------------------------------------------------------
(* What any step does.                                                     *)

(* The steps besides those of handlers that are not dull. *)
Foreigns == ForeignUpload \/ ForeignCopyFails

Takes ==
  /\ Still
  /\ \/ \E p \in Paths : CollectFile(p)
     \/ ListExpired \/ Foreigns
     \/ \E s \in Sids : UnlinkExpired(s) \/ DeleteExpired(s) \/ SessionExpires(s) \/ Recycle(s)

LEMMA Untouched ==
  ASSUME JobType, ReplyType, UNCHANGED <<job, reply>>
  PROVE  JobType' /\ ReplyType' /\ Still
  BY DEF JobType, ReplyType, Still, Same

LEMMA LostReplyIsGood == GoodReply(LostReply) /\ GoodReply(NoReply) /\ LostReply.kind = "lost"
  BY DEF GoodReply, LostReply, NoReply, Kinds

(* A request whose caller no longer waits. *)
LEMMA AloneGood ==
  ASSUME NEW k \in Jobs, GoodJob(k)
  PROVE  /\ [k EXCEPT !.caller = Nobody] \in Jobs /\ GoodJob([k EXCEPT !.caller = Nobody])
         /\ Like([k EXCEPT !.caller = Nobody], k)
  <1>1. PICK j : j = [k EXCEPT !.caller = Nobody]
    OBVIOUS
  <1>2. j \in Jobs /\ j.op = k.op /\ j.arg = k.arg /\ j.chunk = k.chunk /\ j.path = k.path
    BY <1>1 DEF Jobs
  <1>3. Like(j, k)
    BY <1>2 DEF Like
  <1>4. GoodJob(j)
    BY <1>2, <1>3, LikeGood
  <1> QED
    BY <1>1, <1>2, <1>3, <1>4

LEMMA StepDoes ==
  ASSUME Types, PlaceInv, [Next]_vars
  PROVE  JobType' /\ ReplyType' /\ (Dull \/ Takes \/ \E t \in Threads : Works(t))
  <1>1. CASE \E c \in Pumps : Pumped(c)
    <2>1. JobType' /\ ReplyType' /\ Idle /\ Aside
      BY <1>1, PumpAsks
    <2> QED
      BY <2>1 DEF Dull, uploads, Aside, db, disk
  <1>2. CASE \/ CancelRead \/ CardFound \/ CardSaved \/ CardSaveFails \/ CardStored \/ CardRefused \/ ForeignCard
    <2>1. UNCHANGED <<job, reply>> /\ UNCHANGED uploads /\ UNCHANGED gc
      BY <1>2 DEF CancelRead, CardFound, CardSaved, CardStored, CardSaveFails, CardArrives, CardRefused, ForeignCard, FindRecord, SaveMedia, EraseRecord, SaveFails,
         serverVars, db,
         uploads
    <2> QED
      BY <2>1, Untouched DEF Types, Dull, Idle, Still
  <1>3. CASE CancelSet
    <2>1. UNCHANGED uploads /\ UNCHANGED gc /\ UNCHANGED reply
      BY <1>3 DEF CancelSet, db, uploads
    <2>2. CASE UNCHANGED job
      BY <2>1, <2>2, Untouched DEF Types, Dull, Idle, Still
    <2>3. CASE ~UNCHANGED job
      <3>1. cancel.up \in Sids /\ Submit(Nobody, "cancel", cancel.up, 0)
        BY <1>3, <2>3 DEF CancelSet, Types, UserType
      <3>2. JobType' /\ \A u \in Threads : Same(u) \/ job'[u].op \in First \cup {"cancel"}
        BY <3>1, SubmitDoes, Numbers DEF Types, SidOps, ChunkOps, WriteOps, FinalOps,
           CancelOps
      <3> QED
        BY <2>1, <3>2 DEF Dull, Idle, First, WriteOps, FinalOps, ReplyType, Types
    <2> QED
      BY <2>2, <2>3
  <1>4. CASE \E t \in Threads : ServerStep(t)
    <2> QED
      BY <1>4, HandlerDoes DEF ServerStep
  <1>5. CASE \E t \in Threads : RequestLost(t)
    <2>1. PICK t \in Threads : RequestLost(t)
      BY <1>5
    <2>2. /\ job' = [job EXCEPT ![t] = NoJob]
          /\ reply' = [reply EXCEPT ![job[t].caller] = LostReply] /\ job[t].caller \in Callers
          /\ UNCHANGED uploads /\ UNCHANGED gc
      BY <2>1 DEF RequestLost, Types, JobType, Jobs, db, uploads
    <2>3. job'[t] = NoJob /\ \A u \in Threads : u # t => job'[u] = job[u]
      BY <2>2 DEF Types, JobType
    <2>4. JobType'
      BY <2>2, <2>3, FreeJob DEF Types, JobType, GoodJob
    <2>5. ReplyType'
      BY <2>2, SetReply, LostReplyIsGood DEF Types
    <2> QED
      BY <2>2, <2>3, <2>4, <2>5, FreeJob DEF Dull, Idle, Same, WriteOps, FinalOps
  <1>6. CASE \E t \in Threads : GivesUp(t)
    <2>1. PICK t \in Threads : GivesUp(t)
      BY <1>6
    <2>2. /\ job' = [job EXCEPT ![t].caller = Nobody]
          /\ reply' = [reply EXCEPT ![job[t].caller] = LostReply] /\ job[t].caller \in Callers
          /\ UNCHANGED uploads /\ UNCHANGED gc
      BY <2>1 DEF GivesUp, Types, JobType, Jobs, db, uploads
    <2>3. /\ job'[t] = [job[t] EXCEPT !.caller = Nobody]
          /\ \A u \in Threads : u # t => job'[u] = job[u]
      BY <2>2 DEF Types, JobType
    <2>4. job'[t] \in Jobs /\ GoodJob(job'[t]) /\ Like(job'[t], job[t])
      BY <2>3, AloneGood DEF Types, JobType
    <2>5. JobType'
      BY <2>2, <2>3, <2>4 DEF Types, JobType
    <2>6. ReplyType'
      BY <2>2, SetReply, LostReplyIsGood DEF Types
    <2>7. Still
      BY <2>3, <2>4 DEF Still, Same, Like
    <2> QED
      BY <2>2, <2>5, <2>6, <2>7 DEF Dull, Idle, Still
  <1>7. CASE \E t \in Threads : DiskFails(t)
    <2>1. PICK t \in Threads : CopyFails(t) \/ Status(t, "500")
      BY <1>7 DEF DiskFails, WriteFails
    <2>2. CASE CopyFails(t)
      BY <2>2, HandlerDoes
    <2>3. CASE Status(t, "500")
      BY <2>3, StatusDoes DEF Types, Dull, Idle, uploads, db, disk, WriteOps, FinalOps
    <2> QED
      BY <2>1, <2>2, <2>3
  <1>8. CASE ServerDies
    <2>1. /\ job' = [t \in Threads |-> NoJob] /\ gc'.sids = {}
          /\ UNCHANGED uploads
          /\ reply' = [c \in Callers |-> IF \E t \in Threads : job[t] # NoJob /\ job[t].caller = c
                                         THEN LostReply ELSE reply[c]]
      BY <1>8 DEF ServerDies, ServerRestarts, db, uploads, LostReply
    <2>2. JobType' /\ Idle
      BY <2>1, FreeJob DEF JobType, Idle, WriteOps, FinalOps, GoodJob
    <2>3. LostReply \in [kind : Kinds, arg : Int, has : SUBSET Chunks]
      BY LostReplyIsGood DEF GoodReply
    <2>4. ReplyType'
      BY <2>1, <2>3, LostReplyIsGood DEF ReplyType, Types
    <2> QED
      BY <2>1, <2>2, <2>4 DEF Dull
  <1>9. CASE ClientDies
    <2>1. /\ reply' = [c \in Callers |-> NoReply]
          /\ job' = [t \in Threads |-> [job[t] EXCEPT !.caller = Nobody]]
          /\ UNCHANGED uploads /\ UNCHANGED gc
      BY <1>9, PumpAssumption DEF ClientDies, db, uploads
    <2>2. \A t \in Threads : job'[t] \in Jobs /\ GoodJob(job'[t]) /\ Like(job'[t], job[t])
      <3> TAKE t \in Threads
      <3>1. job[t] \in Jobs /\ GoodJob(job[t]) /\ job'[t] = [job[t] EXCEPT !.caller = Nobody]
        BY <2>1 DEF Types, JobType
      <3> QED
        BY <3>1, AloneGood
    <2>3. JobType' /\ Still
      BY <2>1, <2>2 DEF JobType, Still, Same, Like
    <2>4. NoReply \in [kind : Kinds, arg : Int, has : SUBSET Chunks]
      BY LostReplyIsGood DEF GoodReply
    <2>5. ReplyType'
      BY <2>1, <2>4, LostReplyIsGood DEF ReplyType
    <2> QED
      BY <2>1, <2>3, <2>5 DEF Dull, Idle, Still
  <1>10. CASE OtherDevice \/ ForeignDiskFails
    <2>1. Foreigns /\ UNCHANGED <<job, reply>>
      BY <1>10 DEF OtherDevice, ForeignDiskFails, Foreigns, ForeignUpload, ForeignCopyFails, ForeignRecord, Spoil
    <2> QED
      BY <2>1, Untouched DEF Takes, Types
  <1>11. CASE CollectorStep
    <2>1. CASE CollectRecords \/ CollectDone
      <3>1. UNCHANGED <<job, reply>> /\ UNCHANGED uploads /\ gc'.sids \subseteq gc.sids
        BY <2>1 DEF CollectRecords, CollectDone, db, uploads, Types, GcType
      <3> QED
        BY <3>1, Untouched DEF Types, Dull, Idle, Still
    <2>2. CASE ListExpired \/ \E p \in Paths : CollectFile(p)
      <3>1. UNCHANGED <<job, reply>>
        BY <2>2 DEF ListExpired, CollectFile
      <3> QED
        BY <2>2, <3>1, Untouched DEF Types, Takes
    <2>3. ASSUME NEW s \in Sids, DeleteExpired(s)
          PROVE  JobType' /\ ReplyType' /\ Takes
      <3>1. UNCHANGED <<job, reply>>
        BY <2>3 DEF DeleteExpired
      <3> QED
        BY <2>3, <3>1, Untouched DEF Types, Takes
    <2>4. ASSUME NEW s \in Sids, UnlinkExpired(s)
          PROVE  JobType' /\ ReplyType' /\ Takes
      <3>1. job' = Detached(s, job) /\ UNCHANGED reply
        BY <2>4 DEF UnlinkExpired
      <3>2. JobType' /\ \A t \in Threads : Like(job'[t], job[t])
        BY <3>1, DetachedDoes DEF Types, JobType
      <3> QED
        BY <2>4, <3>1, <3>2 DEF Types, Takes, ReplyType, Still, Same, Like
    <2> QED
      BY <1>11, <2>1, <2>2, <2>3, <2>4 DEF CollectorStep, Collect
  <1>12. CASE \E s \in Sids : DayPasses(s) \/ Recycle(s)
    <2>1. PICK s \in Sids : (SessionExpires(s) \/ Recycle(s)) /\ UNCHANGED <<job, reply>>
      BY <1>12 DEF DayPasses, SessionExpires, Recycle
    <2> QED
      BY <2>1, Untouched DEF Takes, Types
  <1>13. CASE \/ \E f \in Fids : RecordDay(f)
              \/ \E n \in Challenges : ChallengeTime(n)
    <2>1. UNCHANGED <<job, reply>> /\ UNCHANGED uploads /\ UNCHANGED gc
      BY <1>13 DEF RecordDay, RecordAges, ChallengeTime, ChallengeLapses, db, uploads
    <2> QED
      BY <2>1, Untouched DEF Types, Dull, Idle, Still
  <1>14. CASE UNCHANGED vars
    <2>1. UNCHANGED <<job, reply>> /\ UNCHANGED uploads /\ UNCHANGED gc
      BY <1>14 DEF vars, history, serverVars, db, uploads
    <2> QED
      BY <2>1, Untouched DEF Types, Dull, Idle, Still
  <1> QED
    BY <1>1, <1>2, <1>3, <1>4, <1>5, <1>6, <1>7, <1>8, <1>9, <1>10, <1>11,
       <1>12, <1>13, <1>14 DEF Next, Pumped

-----------------------------------------------------------------------------
(* What a step does to sessions and files.                                 *)

Effect == Dull \/ Takes \/ \E t \in Threads : Works(t)

LEMMA ArgOf ==
  ASSUME JobType, NEW t \in Threads
  PROVE  /\ job[t].op \in SidOps => job[t].arg \in Sids
         /\ job[t].op \in ChunkOps => job[t].chunk \in Chunks
  BY DEF JobType, GoodJob

LEMMA UploadTypes ==
  ASSUME Types, Effect
  PROVE  SessType' /\ PartType' /\ WholeType'
  <1>1. CASE Dull
    BY <1>1 DEF Dull, uploads, disk, Types, SessType, PartType, WholeType
  <1>2. ASSUME NEW t \in Threads, Works(t)
        PROVE  SessType' /\ PartType' /\ WholeType'
    <2>1. CASE CreateSession(t) /\ Idle /\ Ends(t)
      BY <2>1 DEF CreateSession, disk, Types, SessType, PartType, WholeType
    <2>2. CASE \/ (StoreChunk(t) /\ Moves(t, "open"))
               \/ (TruncatePart(t) /\ Moves(t, "write"))
               \/ (WriteChunk(t) /\ Ends(t))
      <3>1. job[t].arg \in Sids /\ job[t].chunk \in Chunks
        BY <2>2, ArgOf DEF StoreChunk, TruncatePart, WriteChunk, SidOps, ChunkOps,
           WriteOps, Types
      <3> QED
        BY <2>2, <3>1 DEF StoreChunk, TruncatePart, WriteChunk, db, disk, Types,
           SessType, PartType,
           WholeType
    <2>3. CASE \/ (RecordFinal(t) /\ Moves(t, "register"))
               \/ (CancelSession(t) /\ Moves(t, "unlink"))
      <3>1. job[t].arg \in Sids
        BY <2>3, ArgOf DEF RecordFinal, CancelSession, SidOps, FinalOps, CancelOps, Types
      <3> QED
        BY <2>3, <3>1 DEF RecordFinal, CancelSession, disk, Types, SessType, PartType,
           WholeType
    <2>4. CASE \/ (Renames(t) /\ Moves(t, "record"))
               \/ (CancelUnlink(t) /\ Ends(t))
      <3>1. job[t].arg \in Sids
        BY <2>4, ArgOf DEF Renames, RenamePart, CopyFails, Movable, Spoil, CancelUnlink, SidOps, FinalOps, CancelOps, Types
      <3>2. PathOf(job[t].arg) \in Paths
        BY <3>1, PathOfFile, Numbers
      <3> QED
        BY <2>4, <3>1, <3>2 DEF Renames, RenamePart, CopyFails, Movable, Spoil, CancelUnlink, DropPart, db, Types, SessType,
           PartType,
           WholeType
    <2>5. CASE \/ (OpenPart(t) /\ (Moves(t, "write") \/ Moves(t, "truncate")))
               \/ (FinalizeStart(t) /\ Moves(t, "verify"))
               \/ (Verify(t) /\ Moves(t, "rename"))
               \/ (Register(t) /\ Moves(t, "keep"))
      BY <2>5 DEF OpenPart, FinalizeStart, Verify, Register, db, disk, Types,
         SessType, PartType, WholeType
    <2> QED
      BY <1>2, <2>1, <2>2, <2>3, <2>4, <2>5 DEF Works
  <1>3. CASE Takes
    <2>0. Still
      BY <1>3 DEF Takes
    <2>1. CASE Foreigns
      <3>1. PathOf(Foreign) \in Paths
        BY PathOfFile, Numbers
      <3> QED
        BY <2>1, <3>1 DEF Foreigns, ForeignUpload, ForeignCopyFails, ForeignRecord, Spoil, db, Types, SessType, PartType, WholeType
    <2>2. CASE \/ (\E p \in Paths : CollectFile(p))
               \/ ListExpired
               \/ (\E s \in Sids : UnlinkExpired(s))
               \/ (\E s \in Sids : DeleteExpired(s))
               \/ (\E s \in Sids : SessionExpires(s))
               \/ (\E s \in Sids : Recycle(s))
      BY <2>2 DEF CollectFile, ListExpired, UnlinkExpired, DeleteExpired,
         SessionExpires, Recycle, DropPart, db, disk, Types, SessType,
         PartType, WholeType
    <2> QED
      BY <1>3, <2>1, <2>2 DEF Takes
  <1> QED
    BY <1>1, <1>2, <1>3 DEF Effect

LEMMA KeptStays ==
  ASSUME Effect
  PROVE  whole \cup removed \cup spoiled \subseteq whole' \cup removed' \cup spoiled'
  <1>1. CASE Dull
    BY <1>1 DEF Dull, uploads, disk
  <1>2. ASSUME NEW t \in Threads, Works(t)
        PROVE  whole \cup removed \cup spoiled \subseteq whole' \cup removed' \cup spoiled'
    <2>1. CASE \/ (CreateSession(t) /\ Idle /\ Ends(t))
               \/ (StoreChunk(t) /\ Moves(t, "open"))
               \/ (OpenPart(t) /\ (Moves(t, "write") \/ Moves(t, "truncate")))
               \/ (TruncatePart(t) /\ Moves(t, "write"))
               \/ (WriteChunk(t) /\ Ends(t))
               \/ (FinalizeStart(t) /\ Moves(t, "verify"))
               \/ (Verify(t) /\ Moves(t, "rename"))
               \/ (Renames(t) /\ Moves(t, "record"))
               \/ (RecordFinal(t) /\ Moves(t, "register"))
               \/ (Register(t) /\ Moves(t, "keep"))
               \/ (CancelSession(t) /\ Moves(t, "unlink"))
               \/ (CancelUnlink(t) /\ Ends(t))
      BY <2>1 DEF CreateSession, StoreChunk, OpenPart, TruncatePart,
         WriteChunk, FinalizeStart, Verify, Renames, RenamePart, CopyFails, Movable, Spoil, RecordFinal,
         Register, CancelSession, CancelUnlink, db, disk
    <2> QED
      BY <1>2, <2>1 DEF Works
  <1>3. CASE Takes
    <2>0. Still
      BY <1>3 DEF Takes
    <2>1. CASE \/ (\E p \in Paths : CollectFile(p))
               \/ ListExpired \/ Foreigns
               \/ (\E s \in Sids : UnlinkExpired(s))
               \/ (\E s \in Sids : DeleteExpired(s))
               \/ (\E s \in Sids : SessionExpires(s))
               \/ (\E s \in Sids : Recycle(s))
      BY <2>1 DEF CollectFile, ListExpired, Foreigns, ForeignUpload, ForeignCopyFails, ForeignRecord, Spoil, UnlinkExpired,
         DeleteExpired, SessionExpires, Recycle, db, disk
    <2> QED
      BY <1>3, <2>1 DEF Takes
  <1> QED
    BY <1>1, <1>2, <1>3 DEF Effect

(* The chunks that are being written. *)
Writing(u) ==
  job'[u].op \in WriteOps =>
    job[u].op \in WriteOps /\ job'[u].arg = job[u].arg /\ job'[u].chunk = job[u].chunk

Undone(s) ==
  /\ partHas'[s] \subseteq partHas[s]
  /\ sess'[s] = "deleted" \/ (rows[s] \subseteq rows'[s] /\ (sess[s] = "deleted" => sess'[s] = "deleted"))

LEMMA WriterKept ==
  ASSUME WriterInv, \A u \in Threads : Writing(u),
         \A u \in Threads : job'[u].op \in WriteOps => Undone(job'[u].arg)
  PROVE  WriterInv'
  BY DEF WriterInv, Writes, Writing, Undone

LEMMA MovesWriting ==
  ASSUME NEW t \in Threads,
         \/ Ends(t) \/ \E op : Moves(t, op) /\ (op \in WriteOps => job[t].op \in WriteOps)
         \/ Idle
  PROVE  \A u \in Threads : Writing(u)
  BY DEF Ends, Moves, Same, Writing, Idle, WriteOps

LEMMA StillWriting ==
  ASSUME Still \/ Idle
  PROVE  \A u \in Threads : Writing(u)
  BY DEF Still, Same, Writing, Idle

LEMMA WriterStep ==
  ASSUME Types, WriterInv, PartInv, Effect
  PROVE  WriterInv'
  <1>1. CASE Dull
    BY <1>1, StillWriting, WriterKept DEF Dull, uploads, disk, Undone
  <1>2. ASSUME NEW t \in Threads, Works(t)
        PROVE  WriterInv'
    <2>1. CASE CreateSession(t) /\ Idle /\ Ends(t)
      <3>1. \A u \in Threads : Writing(u)
        BY <2>1, StillWriting
      <3>2. \A s : Undone(s)
        BY <2>1 DEF CreateSession, disk, Undone, Types, SessType, PartType
      <3> QED
        BY <3>1, <3>2, WriterKept
    <2>2. CASE StoreChunk(t) /\ Moves(t, "open")
      <3>1. /\ job[t].op = "store" /\ sess[job[t].arg] = "open" /\ job[t].arg \in Sids
            /\ job[t].chunk \in Chunks /\ job[t].chunk \notin rows[job[t].arg]
            /\ rows' = [rows EXCEPT ![job[t].arg] = @ \cup {job[t].chunk}]
            /\ UNCHANGED <<sess, partHas>>
        BY <2>2, ArgOf DEF StoreChunk, SidOps, ChunkOps, WriteOps, disk, Types
      <3>2. /\ job'[t].op = "open" /\ job'[t].arg = job[t].arg /\ job'[t].chunk = job[t].chunk
            /\ \A u \in Threads : u # t => Same(u)
        BY <2>2 DEF Moves
      <3>3. /\ job[t].chunk \notin partHas[job[t].arg]
            /\ \A s \in Sids : rows[s] \subseteq rows'[s] /\ job[t].chunk \in rows'[job[t].arg]
        BY <3>1 DEF PartInv, Types, SessType
      <3>4. ASSUME NEW u \in Threads, job[u].op \in WriteOps, job[u].arg = job[t].arg
            PROVE  job[u].chunk # job[t].chunk
        BY <3>1, <3>4 DEF WriterInv
      <3>5. ASSUME NEW u \in Threads, job'[u].op \in WriteOps
            PROVE  /\ job'[u].chunk \notin partHas'[job'[u].arg]
                   /\ sess'[job'[u].arg] = "deleted" \/ job'[u].chunk \in rows'[job'[u].arg]
        BY <3>1, <3>2, <3>3, <3>5 DEF WriterInv, Same
      <3>6. ASSUME NEW u \in Threads, NEW v \in Threads, job'[u].op \in WriteOps,
                   job'[v].op \in WriteOps, job'[v].arg = job'[u].arg, job'[v].chunk = job'[u].chunk
            PROVE  u = v
        BY <3>2, <3>4, <3>6 DEF WriterInv, Writes, Same
      <3> QED
        BY <3>5, <3>6 DEF WriterInv, Writes
    <2>3. CASE \/ (OpenPart(t) /\ (Moves(t, "write") \/ Moves(t, "truncate")))
               \/ (FinalizeStart(t) /\ Moves(t, "verify"))
               \/ (Verify(t) /\ Moves(t, "rename"))
               \/ (Register(t) /\ Moves(t, "keep"))
      <3>1. \A u \in Threads : Writing(u)
        BY <2>3, MovesWriting DEF OpenPart, FinalizeStart, Verify, Register, WriteOps
      <3>2. \A s : Undone(s)
        BY <2>3 DEF OpenPart, FinalizeStart, Verify, Register, db, disk, Undone
      <3> QED
        BY <3>1, <3>2, WriterKept
    <2>4. CASE \/ (RecordFinal(t) /\ Moves(t, "register"))
               \/ (CancelSession(t) /\ Moves(t, "unlink"))
      <3>1. \A u \in Threads : Writing(u)
        BY <2>4, MovesWriting DEF RecordFinal, CancelSession, WriteOps
      <3>2. \A s \in Sids : Undone(s)
        BY <2>4 DEF RecordFinal, CancelSession, disk, Undone, Types, SessType, PartType
      <3>3. \A u \in Threads : job'[u].op \in WriteOps => job'[u].arg \in Sids
        BY <3>1, ArgOf DEF Writing, SidOps, ChunkOps, Types
      <3> QED
        BY <3>1, <3>2, <3>3, WriterKept
    <2>5. CASE \/ (TruncatePart(t) /\ Moves(t, "write"))
               \/ (Renames(t) /\ Moves(t, "record"))
               \/ (CancelUnlink(t) /\ Ends(t))
      <3>1. \A u \in Threads : Writing(u)
        BY <2>5, MovesWriting DEF TruncatePart, Renames, RenamePart, CopyFails, Movable, Spoil, CancelUnlink, WriteOps
      <3>2. \A s \in Sids : Undone(s)
        BY <2>5 DEF TruncatePart, Renames, RenamePart, CopyFails, Movable, Spoil, CancelUnlink, DropPart, db, disk, Undone,
           Types, SessType, PartType
      <3>3. \A u \in Threads : job'[u].op \in WriteOps => job'[u].arg \in Sids
        BY <3>1, ArgOf DEF Writing, SidOps, ChunkOps, Types
      <3> QED
        BY <3>1, <3>2, <3>3, WriterKept
    <2>6. CASE WriteChunk(t) /\ Ends(t)
      <3>1. /\ job[t].op = "write" /\ job[t].arg \in Sids /\ UNCHANGED <<sess, rows>>
            /\ partHas' \in {partHas, [partHas EXCEPT ![job[t].arg] = @ \cup {job[t].chunk}]}
        BY <2>6, ArgOf DEF WriteChunk, SidOps, ChunkOps, WriteOps, db, Types
      <3>2. job'[t].op = "free" /\ \A u \in Threads : u # t => Same(u)
        BY <2>6 DEF Ends
      <3>3. ASSUME NEW u \in Threads, job'[u].op \in WriteOps
            PROVE  /\ job'[u].chunk \notin partHas'[job'[u].arg]
                   /\ sess'[job'[u].arg] = "deleted" \/ job'[u].chunk \in rows'[job'[u].arg]
        <4>1. u # t /\ Same(u)
          BY <3>2, <3>3 DEF WriteOps
        <4>2. job[u].arg = job[t].arg => job[u].chunk # job[t].chunk
          BY <3>1, <3>3, <4>1 DEF WriterInv, Writes, WriteOps, Same
        <4>3. job[u].arg \in Sids
          BY <3>3, <4>1, ArgOf DEF Same, SidOps, ChunkOps, Types
        <4> QED
          BY <3>1, <3>3, <4>1, <4>2, <4>3 DEF WriterInv, Same, Types, PartType
      <3>4. \A u \in Threads : job'[u].op \in WriteOps => u # t /\ Same(u)
        BY <3>2 DEF WriteOps
      <3> QED
        BY <3>3, <3>4 DEF WriterInv, Writes, Same
    <2> QED
      BY <1>2, <2>1, <2>2, <2>3, <2>4, <2>5, <2>6 DEF Works
  <1>3. CASE Takes
    <2>0. Still
      BY <1>3 DEF Takes
    <2>1. CASE \/ (\E p \in Paths : CollectFile(p))
               \/ ListExpired \/ Foreigns
               \/ (\E s \in Sids : SessionExpires(s))
      <3>1. \A u \in Threads : Writing(u)
        BY <2>0, StillWriting
      <3>2. \A s : Undone(s)
        BY <2>1 DEF CollectFile, ListExpired, Foreigns, ForeignUpload, ForeignCopyFails, ForeignRecord, Spoil, SessionExpires, db, disk,
           Undone
      <3> QED
        BY <3>1, <3>2, WriterKept
    <2>2. CASE \/ (\E s \in Sids : UnlinkExpired(s))
               \/ (\E s \in Sids : DeleteExpired(s))
      <3>1. \A u \in Threads : Writing(u)
        BY <2>0, StillWriting
      <3>2. \A s \in Sids : Undone(s)
        BY <2>2 DEF UnlinkExpired, DeleteExpired, DropPart, db, disk, Undone, Types,
           SessType, PartType
      <3>3. \A u \in Threads : job'[u].op \in WriteOps => job'[u].arg \in Sids
        BY <3>1, ArgOf DEF Writing, SidOps, ChunkOps, Types
      <3> QED
        BY <3>1, <3>2, <3>3, WriterKept
    <2>3. CASE \E s \in Sids : Recycle(s)
      <3>1. \A u \in Threads : Writing(u)
        BY <2>0, StillWriting
      <3>2. PICK s \in Sids : Recycle(s)
        BY <2>3
      <3>3. \A u \in Threads : job'[u].op \in WriteOps => job'[u].arg \in Sids /\ job'[u].arg # s
        BY <3>1, <3>2, ArgOf DEF Writing, Recycle, SidOps, ChunkOps, Types
      <3>4. \A r \in Sids : r # s => Undone(r)
        BY <3>2 DEF Recycle, DropPart, Undone, Types, SessType, PartType
      <3> QED
        BY <3>1, <3>3, <3>4, WriterKept
    <2> QED
      BY <1>3, <2>1, <2>2, <2>3 DEF Takes
  <1> QED
    BY <1>1, <1>2, <1>3 DEF Effect

LEMMA PartKept ==
  ASSUME PartInv,
         \A s \in Sids :
           /\ partHas'[s] \subseteq partHas[s] /\ rows'[s] = rows[s]
           /\ sess'[s] # "deleted" => sess[s] # "deleted"
           /\ sess'[s] \in {"none", "deleted"} => sess[s] \in {"none", "deleted"}
  PROVE  PartInv'
  BY DEF PartInv

LEMMA PartStep ==
  ASSUME Types, PartInv, WriterInv, Effect
  PROVE  PartInv'
  <1>1. CASE Dull
    BY <1>1 DEF Dull, uploads, disk, PartInv
  <1>2. ASSUME NEW t \in Threads, Works(t)
        PROVE  PartInv'
    <2>1. CASE StoreChunk(t) /\ Moves(t, "open")
      <3>1. /\ sess[job[t].arg] = "open" /\ UNCHANGED <<sess, partHas>>
            /\ rows' = [rows EXCEPT ![job[t].arg] = @ \cup {job[t].chunk}]
        BY <2>1 DEF StoreChunk, disk
      <3> QED
        BY <3>1 DEF PartInv, Types, SessType
    <2>2. CASE WriteChunk(t) /\ Ends(t)
      <3>1. /\ job[t].op = "write" /\ job[t].arg \in Sids /\ UNCHANGED <<sess, rows>>
            /\ partHas' \in {partHas, [partHas EXCEPT ![job[t].arg] = @ \cup {job[t].chunk}]}
        BY <2>2, ArgOf DEF WriteChunk, SidOps, ChunkOps, WriteOps, db, Types
      <3>2. sess[job[t].arg] = "deleted" \/ job[t].chunk \in rows[job[t].arg]
        BY <3>1 DEF WriterInv, WriteOps
      <3> QED
        BY <3>1, <3>2 DEF PartInv, Types, PartType
    <2>3. CASE \/ (CreateSession(t) /\ Idle /\ Ends(t))
               \/ (OpenPart(t) /\ (Moves(t, "write") \/ Moves(t, "truncate")))
               \/ (TruncatePart(t) /\ Moves(t, "write"))
               \/ (FinalizeStart(t) /\ Moves(t, "verify"))
               \/ (Verify(t) /\ Moves(t, "rename"))
               \/ (Renames(t) /\ Moves(t, "record"))
               \/ (RecordFinal(t) /\ Moves(t, "register"))
               \/ (Register(t) /\ Moves(t, "keep"))
               \/ (CancelSession(t) /\ Moves(t, "unlink"))
               \/ (CancelUnlink(t) /\ Ends(t))
      BY <2>3, PartKept DEF CreateSession, OpenPart, TruncatePart,
         FinalizeStart, Verify, Renames, RenamePart, CopyFails, Movable, Spoil, RecordFinal, Register,
         CancelSession, CancelUnlink, DropPart, db, disk, Types, SessType,
         PartType
    <2> QED
      BY <1>2, <2>1, <2>2, <2>3 DEF Works
  <1>3. CASE Takes
    <2>0. Still
      BY <1>3 DEF Takes
    <2>1. CASE \E s \in Sids : DeleteExpired(s)
      BY <2>1 DEF DeleteExpired, disk, PartInv, Types, SessType, PartType
    <2>2. CASE \E s \in Sids : Recycle(s)
      BY <2>2 DEF Recycle, DropPart, PartInv, Types, SessType, PartType
    <2>3. CASE \/ (\E p \in Paths : CollectFile(p))
               \/ ListExpired \/ Foreigns
               \/ (\E s \in Sids : UnlinkExpired(s))
               \/ (\E s \in Sids : SessionExpires(s))
      BY <2>3, PartKept DEF CollectFile, ListExpired, Foreigns, ForeignUpload, ForeignCopyFails, ForeignRecord, Spoil,
         UnlinkExpired, SessionExpires, DropPart, db, disk, Types, SessType,
         PartType
    <2> QED
      BY <1>3, <2>1, <2>2, <2>3 DEF Takes
  <1> QED
    BY <1>1, <1>2, <1>3 DEF Effect

(* Requests that finalize or unlink, and go on. *)
Going(u, ops) == job'[u].op \in ops => job[u].op = job'[u].op /\ job'[u].arg = job[u].arg

LEMMA MovesGoing ==
  ASSUME NEW t \in Threads, NEW op, Moves(t, op)
  PROVE  \A u \in Threads : u # t => \A ops : Going(u, ops)
  BY DEF Moves, Same, Going

LEMMA EndsGoing ==
  ASSUME NEW t \in Threads, Ends(t)
  PROVE  \A u \in Threads : Going(u, FinalOps \cup {"unlink"})
  BY DEF Ends, Same, Going, FinalOps

LEMMA StillGoing ==
  ASSUME Still \/ Idle
  PROVE  \A u \in Threads : Going(u, FinalOps \cup {"unlink"})
  BY DEF Still, Idle, Same, Going

(* A session that is being finalized, one whose file is being renamed, and *)
(* that they stay so.                                                      *)
Ready(s) == sess[s] # "none" /\ (sess[s] = "deleted" \/ rows[s] = Chunks)
Closed(s) == (s \in part => partHas[s] = Chunks) /\ \A u \in Threads : ~Writes(u, s)
StaysReady(s) == sess'[s] # "none" /\ (sess'[s] = "deleted" \/ rows'[s] = Chunks)
StaysClosed(s) ==
  /\ s \in part' => partHas'[s] = Chunks
  /\ \A u \in Threads : ~(job'[u].op \in WriteOps /\ job'[u].arg = s)

LEMMA VerifiedKept ==
  ASSUME VerifiedInv, JobType,
         \A u \in Threads :
           \/ Going(u, FinalOps)
           \/ StaysReady(job'[u].arg) /\ (job'[u].op = "rename" => StaysClosed(job'[u].arg)),
         \A s \in Sids : Ready(s) => StaysReady(s),
         \A s \in Sids : Ready(s) /\ Closed(s) => StaysClosed(s)
  PROVE  VerifiedInv'
  <1>1. \A u \in Threads : /\ job[u].op \in FinalOps => Ready(job[u].arg)
                           /\ job[u].op = "rename" => Closed(job[u].arg)
    BY DEF VerifiedInv, Ready, Closed
  <1>2. ASSUME NEW u \in Threads, Going(u, FinalOps), job'[u].op \in FinalOps
        PROVE  StaysReady(job'[u].arg) /\ (job'[u].op = "rename" => StaysClosed(job'[u].arg))
    <2>1. job[u].op = job'[u].op /\ job'[u].arg = job[u].arg /\ job[u].arg \in Sids
      BY <1>2, ArgOf DEF Going, SidOps
    <2>2. Ready(job[u].arg) /\ (job[u].op = "rename" => Closed(job[u].arg))
      BY <1>1, <1>2, <2>1
    <2> QED
      BY <2>1, <2>2
  <1>3. "rename" \in FinalOps
    BY DEF FinalOps
  <1> QED
    BY <1>2, <1>3 DEF VerifiedInv, StaysReady, StaysClosed, Writes

(* With the same writers, a file that lost nothing stays closed. *)
LEMMA ClosedKept ==
  ASSUME NEW s, Closed(s), \A u \in Threads : Writing(u),
         s \in part' => s \in part /\ partHas'[s] = partHas[s]
  PROVE  StaysClosed(s)
  BY DEF Closed, StaysClosed, Writing, Writes

LEMMA VerifiedStep ==
  ASSUME Types, VerifiedInv, WriterInv, Effect
  PROVE  VerifiedInv'
  <1>1. CASE Dull
    <2>1. \A u \in Threads : Going(u, FinalOps) /\ Writing(u)
      BY <1>1, StillGoing, StillWriting DEF Going, Dull
    <2>2. UNCHANGED <<sess, rows, part, partHas>>
      BY <1>1 DEF Dull, uploads, disk
    <2>3. \A s \in Sids : Ready(s) => StaysReady(s)
      BY <2>2 DEF Ready, StaysReady
    <2>4. \A s \in Sids : Ready(s) /\ Closed(s) => StaysClosed(s)
      BY <2>1, <2>2, ClosedKept
    <2> QED
      BY <2>1, <2>3, <2>4, VerifiedKept DEF Types
  <1>2. ASSUME NEW t \in Threads, Works(t)
        PROVE  VerifiedInv'
    <2>1. CASE CreateSession(t) /\ Idle /\ Ends(t)
      <3>1. \A u \in Threads : Going(u, FinalOps) /\ Writing(u)
        BY <2>1, StillGoing, StillWriting DEF Going
      <3>2. \A s \in Sids : Ready(s) => StaysReady(s)
        BY <2>1 DEF CreateSession, DropPart, db, disk, Ready, StaysReady, Types, SessType
      <3>3. \A s \in Sids : Ready(s) /\ Closed(s) => StaysClosed(s)
        BY <2>1, <3>1, ClosedKept DEF CreateSession, DropPart, db, disk, Types, PartType
      <3> QED
        BY <3>1, <3>2, <3>3, VerifiedKept DEF Types
    <2>2. CASE CancelUnlink(t) /\ Ends(t)
      <3>1. \A u \in Threads : Going(u, FinalOps) /\ Writing(u)
        BY <2>2, EndsGoing, MovesWriting DEF Going
      <3>2. \A s \in Sids : Ready(s) => StaysReady(s)
        BY <2>2 DEF CancelUnlink, DropPart, db, disk, Ready, StaysReady, Types, SessType
      <3>3. \A s \in Sids : Ready(s) /\ Closed(s) => StaysClosed(s)
        BY <2>2, <3>1, ClosedKept DEF CancelUnlink, DropPart, db, disk, Types, PartType
      <3> QED
        BY <3>1, <3>2, <3>3, VerifiedKept DEF Types
    <2>3. CASE \/ (OpenPart(t) /\ (Moves(t, "write") \/ Moves(t, "truncate")))
               \/ (CancelSession(t) /\ Moves(t, "unlink"))
      <3>1. \A u \in Threads : Going(u, FinalOps) /\ Writing(u)
        BY <2>3, MovesGoing, MovesWriting DEF OpenPart, CancelSession, Moves, Going,
           FinalOps, WriteOps
      <3>2. \A s \in Sids : Ready(s) => StaysReady(s)
        BY <2>3 DEF OpenPart, CancelSession, DropPart, db, disk, Ready, StaysReady,
           Types, SessType
      <3>3. \A s \in Sids : Ready(s) /\ Closed(s) => StaysClosed(s)
        BY <2>3, <3>1, ClosedKept DEF OpenPart, CancelSession, DropPart, db, disk, Types,
           PartType
      <3> QED
        BY <3>1, <3>2, <3>3, VerifiedKept DEF Types
    <2>4. CASE \/ (Renames(t) /\ Moves(t, "record"))
               \/ (RecordFinal(t) /\ Moves(t, "register"))
               \/ (Register(t) /\ Moves(t, "keep"))
      <3>1. /\ \A u \in Threads : Writing(u)
            /\ \A u \in Threads : u # t => Going(u, FinalOps)
            /\ job[t].op \in FinalOps /\ job'[t].op \in FinalOps \ {"rename"}
            /\ job'[t].arg = job[t].arg /\ job[t].arg \in Sids
        BY <2>4, MovesGoing, MovesWriting, ArgOf
           DEF Renames, RenamePart, CopyFails, Movable, Spoil, RecordFinal, Register, Moves, FinalOps, WriteOps, SidOps, Types
      <3>2. \A s \in Sids : Ready(s) => StaysReady(s)
        BY <2>4 DEF Renames, RenamePart, CopyFails, Movable, Spoil, RecordFinal, Register, DropPart, db, disk, Ready,
           StaysReady, Types, SessType
      <3>3. \A s \in Sids : Ready(s) /\ Closed(s) => StaysClosed(s)
        BY <2>4, <3>1, ClosedKept DEF Renames, RenamePart, CopyFails, Movable, Spoil, RecordFinal, Register, DropPart, db,
           disk, Types, PartType
      <3>4. StaysReady(job'[t].arg)
        BY <3>1, <3>2 DEF VerifiedInv, Ready
      <3> QED
        BY <3>1, <3>2, <3>3, <3>4, VerifiedKept DEF Types
    <2>5. CASE FinalizeStart(t) /\ Moves(t, "verify")
      <3>1. /\ \A u \in Threads : Writing(u)
            /\ \A u \in Threads : u # t => Going(u, FinalOps)
            /\ job'[t].op = "verify" /\ job'[t].arg = job[t].arg
        BY <2>5, MovesGoing, MovesWriting DEF Moves, WriteOps
      <3>2. \A s \in Sids : Ready(s) => StaysReady(s)
        BY <2>5 DEF FinalizeStart, db, Ready, StaysReady
      <3>3. \A s \in Sids : Ready(s) /\ Closed(s) => StaysClosed(s)
        BY <2>5, <3>1, ClosedKept DEF FinalizeStart, disk
      <3>4. StaysReady(job'[t].arg)
        BY <2>5, <3>1 DEF FinalizeStart, FinalizeRefusal, Gone, StaysReady, db
      <3> QED
        BY <3>1, <3>2, <3>3, <3>4, VerifiedKept DEF Types
    <2>6. CASE Verify(t) /\ Moves(t, "rename")
      <3>1. /\ \A u \in Threads : Writing(u)
            /\ \A u \in Threads : u # t => Going(u, FinalOps)
            /\ job[t].op = "verify" /\ job'[t].op = "rename" /\ job'[t].arg = job[t].arg
            /\ job[t].arg \in Sids /\ partHas[job[t].arg] = Chunks
        BY <2>6, MovesGoing, MovesWriting, ArgOf
           DEF Verify, Complete, Moves, WriteOps, SidOps, FinalOps, Types
      <3>2. \A s \in Sids : Ready(s) => StaysReady(s)
        BY <2>6 DEF Verify, db, Ready, StaysReady
      <3>3. \A s \in Sids : Ready(s) /\ Closed(s) => StaysClosed(s)
        BY <2>6, <3>1, ClosedKept DEF Verify, disk
      <3>4. Ready(job[t].arg)
        BY <3>1 DEF VerifiedInv, FinalOps, Ready
      <3>5. ASSUME NEW u \in Threads, Writes(u, job[t].arg)
            PROVE  FALSE
        <4>1. job[u].chunk \in Chunks /\ job[u].chunk \notin partHas[job[t].arg]
          BY <3>5, ArgOf DEF Writes, WriterInv, ChunkOps, Types
        <4> QED
          BY <3>1, <4>1
      <3>6. Closed(job[t].arg)
        BY <3>1, <3>5 DEF Closed
      <3> QED
        BY <3>1, <3>2, <3>3, <3>4, <3>6, VerifiedKept DEF Types
    <2>7. CASE StoreChunk(t) /\ Moves(t, "open")
      <3>1. /\ job[t].op = "store" /\ sess[job[t].arg] = "open" /\ job[t].arg \in Sids
            /\ job[t].chunk \in Chunks /\ job[t].chunk \notin rows[job[t].arg]
            /\ \A s \in Sids : s # job[t].arg => rows'[s] = rows[s]
            /\ UNCHANGED <<sess, part, partHas>>
        BY <2>7, ArgOf DEF StoreChunk, SidOps, ChunkOps, WriteOps, disk, Types, SessType
      <3>2. /\ job'[t].op = "open" /\ job'[t].arg = job[t].arg
            /\ \A u \in Threads : u # t => Same(u)
        BY <2>7 DEF Moves
      <3>3. \A u \in Threads : Going(u, FinalOps)
        BY <3>2 DEF Going, Same, FinalOps
      <3>4. ~Ready(job[t].arg)
        BY <3>1 DEF Ready
      <3>5. \A s \in Sids : Ready(s) => StaysReady(s)
        BY <3>1, <3>4 DEF Ready, StaysReady
      <3>6. \A s \in Sids : Ready(s) /\ Closed(s) => StaysClosed(s)
        BY <3>1, <3>2, <3>4 DEF Closed, StaysClosed, Same, Writes
      <3> QED
        BY <3>3, <3>5, <3>6, VerifiedKept DEF Types
    <2>8. CASE \/ (TruncatePart(t) /\ Moves(t, "write"))
               \/ (WriteChunk(t) /\ Ends(t))
      <3>1. /\ \A u \in Threads : Writing(u) /\ Going(u, FinalOps)
            /\ job[t].op \in WriteOps /\ job[t].arg \in Sids
        BY <2>8, MovesGoing, EndsGoing, MovesWriting, ArgOf
           DEF TruncatePart, WriteChunk, Moves, Going, FinalOps, WriteOps, SidOps, ChunkOps, Types
      <3>2. \A s \in Sids : Ready(s) => StaysReady(s)
        BY <2>8 DEF TruncatePart, WriteChunk, db, Ready, StaysReady
      <3>3. \A s \in Sids : Closed(s) => s # job[t].arg
        BY <3>1 DEF Closed, Writes
      <3>4. \A s \in Sids : s # job[t].arg => (s \in part' => s \in part /\ partHas'[s] = partHas[s])
        BY <2>8, <3>1 DEF TruncatePart, WriteChunk, Types, PartType
      <3>5. \A s \in Sids : Ready(s) /\ Closed(s) => StaysClosed(s)
        BY <3>1, <3>3, <3>4, ClosedKept
      <3> QED
        BY <3>1, <3>2, <3>5, VerifiedKept DEF Types
    <2> QED
      BY <1>2, <2>1, <2>2, <2>3, <2>4, <2>5, <2>6, <2>7, <2>8 DEF Works
  <1>3. CASE Takes
    <2>0. Still
      BY <1>3 DEF Takes
    <2>1. CASE \E s \in Sids : Recycle(s)
      <3>1. /\ \A u \in Threads : Going(u, FinalOps)
            /\ \A u \in Threads : Writing(u)
        BY <2>0, StillGoing, StillWriting DEF Going
      <3>2. PICK s \in Sids : Recycle(s)
        BY <2>1
      <3>3. /\ \A r \in Sids : r # s => sess'[r] = sess[r]
            /\ \A u \in Threads : job[u].arg # s /\ job'[u] = job[u]
            /\ UNCHANGED rows
            /\ \A r \in part' : r \in part /\ r # s /\ partHas'[r] = partHas[r]
        BY <3>2 DEF Recycle, DropPart, Types, SessType, PartType
      <3>4. ASSUME NEW u \in Threads, job[u].op \in FinalOps
            PROVE  /\ StaysReady(job[u].arg)
                   /\ job[u].op = "rename" => StaysClosed(job[u].arg)
        <4>1. Ready(job[u].arg) /\ job[u].arg \in Sids \ {s}
          BY <3>3, <3>4, ArgOf DEF VerifiedInv, Ready, SidOps, Types
        <4>2. job[u].op = "rename" => Closed(job[u].arg)
          BY DEF VerifiedInv, Closed
        <4> QED
          BY <3>1, <3>3, <4>1, <4>2, ClosedKept DEF Ready, StaysReady
      <3> QED
        BY <3>3, <3>4 DEF VerifiedInv, StaysReady, StaysClosed, Writes, FinalOps
    <2>2. CASE \/ (\E p \in Paths : CollectFile(p))
               \/ ListExpired \/ Foreigns
               \/ (\E s \in Sids : UnlinkExpired(s))
               \/ (\E s \in Sids : DeleteExpired(s))
               \/ (\E s \in Sids : SessionExpires(s))
      <3>1. \A u \in Threads : Going(u, FinalOps) /\ Writing(u)
        BY <2>0, StillGoing, StillWriting DEF Going
      <3>2. \A s \in Sids : Ready(s) => StaysReady(s)
        BY <2>2 DEF CollectFile, ListExpired, Foreigns, ForeignUpload, ForeignCopyFails, ForeignRecord, Spoil, UnlinkExpired,
           DeleteExpired, SessionExpires, DropPart, db, disk, Ready, StaysReady, Types,
           SessType
      <3>3. \A s \in Sids : Ready(s) /\ Closed(s) => StaysClosed(s)
        BY <2>2, <3>1, ClosedKept DEF CollectFile, ListExpired, Foreigns, ForeignUpload, ForeignCopyFails, ForeignRecord, Spoil,
           UnlinkExpired, DeleteExpired, SessionExpires, DropPart, db, disk, Types,
           PartType
      <3> QED
        BY <3>1, <3>2, <3>3, VerifiedKept DEF Types
    <2> QED
      BY <1>3, <2>1, <2>2 DEF Takes
  <1> QED
    BY <1>1, <1>2, <1>3 DEF Effect

(* A session that is open and has time left, and a file that was or is there. *)
Fresh(s) == sess[s] = "open" /\ s \notin old
StaysFresh(s) == sess'[s] = "open" /\ s \notin old'
StaysKept(p) == p \in whole' \cup removed' \cup spoiled'

LEMMA RenamedKept ==
  ASSUME Types, VerifiedInv, RenamedInv, Effect,
         \A u \in Threads :
           \/ Going(u, {"rename", "record"})
           \/ StaysFresh(job'[u].arg) =>
                \/ StaysKept(PathOf(job'[u].arg))
                \/ job'[u].op = "rename" /\ job'[u].arg \in part',
         \A s \in Sids : StaysFresh(s) => Fresh(s) \/ sess[s] = "none",
         \A s \in Sids : Fresh(s) /\ s \in part => s \in part' \/ StaysKept(PathOf(s))
  PROVE  RenamedInv'
  <1>1. ASSUME NEW u \in Threads, job'[u].op \in {"rename", "record"}, StaysFresh(job'[u].arg)
        PROVE  \/ StaysKept(PathOf(job'[u].arg))
               \/ job'[u].op = "rename" /\ job'[u].arg \in part'
    <2>1. CASE Going(u, {"rename", "record"})
      <3>1. job[u].op = job'[u].op /\ job'[u].arg = job[u].arg /\ job[u].arg \in Sids
        BY <1>1, <2>1, ArgOf DEF Going, SidOps, FinalOps, Types
      <3>2. Fresh(job[u].arg)
        BY <1>1, <3>1 DEF VerifiedInv, FinalOps
      <3>3. \/ Kept(PathOf(job[u].arg))
            \/ job[u].op = "rename" /\ job[u].arg \in part
        BY <1>1, <3>1, <3>2 DEF RenamedInv, Fresh
      <3>4. Kept(PathOf(job[u].arg)) => StaysKept(PathOf(job[u].arg))
        BY KeptStays DEF Kept, StaysKept
      <3> QED
        BY <3>1, <3>2, <3>3, <3>4
    <2>2. CASE ~Going(u, {"rename", "record"})
      BY <1>1, <2>2
    <2> QED
      BY <2>1, <2>2
  <1> QED
    BY <1>1 DEF RenamedInv, StaysFresh, StaysKept, Kept, PathOf

LEMMA RenamedStep ==
  ASSUME Types, VerifiedInv, RenamedInv, DroppedInv, Effect
  PROVE  RenamedInv'
  <1>1. CASE Dull
    <2>1. \A u \in Threads : Going(u, {"rename", "record"})
      BY <1>1, StillGoing DEF Going, Dull, FinalOps
    <2>2. (\A s \in Sids : StaysFresh(s) => Fresh(s)) /\ part' = part
      BY <1>1 DEF Dull, uploads, disk, Fresh, StaysFresh
    <2> QED
      BY <2>1, <2>2, RenamedKept
  <1>2. ASSUME NEW t \in Threads, Works(t)
        PROVE  RenamedInv'
    <2>1. CASE CreateSession(t) /\ Idle /\ Ends(t)
      <3>1. \A u \in Threads : Going(u, {"rename", "record"})
        BY <2>1, StillGoing DEF Going, FinalOps
      <3>2. \A s \in Sids : StaysFresh(s) => Fresh(s) \/ sess[s] = "none"
        BY <2>1 DEF CreateSession, DropPart, db, disk, Fresh, StaysFresh, Types, SessType
      <3>3. \A s \in Sids : Fresh(s) /\ s \in part => s \in part' \/ StaysKept(PathOf(s))
        BY <2>1 DEF CreateSession, DropPart, db, disk, Fresh, StaysKept
      <3> QED
        BY <3>1, <3>2, <3>3, RenamedKept
    <2>2. CASE WriteChunk(t) /\ Ends(t)
      <3>1. \A u \in Threads : Going(u, {"rename", "record"})
        BY <2>2, EndsGoing DEF Going, FinalOps
      <3>2. \A s \in Sids : StaysFresh(s) => Fresh(s) \/ sess[s] = "none"
        BY <2>2 DEF WriteChunk, DropPart, db, disk, Fresh, StaysFresh, Types, SessType
      <3>3. \A s \in Sids : Fresh(s) /\ s \in part => s \in part' \/ StaysKept(PathOf(s))
        BY <2>2 DEF WriteChunk, DropPart, db, disk, Fresh, StaysKept
      <3> QED
        BY <3>1, <3>2, <3>3, RenamedKept
    <2>3. CASE \/ (StoreChunk(t) /\ Moves(t, "open"))
               \/ (OpenPart(t) /\ (Moves(t, "write") \/ Moves(t, "truncate")))
               \/ (TruncatePart(t) /\ Moves(t, "write"))
               \/ (FinalizeStart(t) /\ Moves(t, "verify"))
               \/ (RecordFinal(t) /\ Moves(t, "register"))
               \/ (Register(t) /\ Moves(t, "keep"))
               \/ (CancelSession(t) /\ Moves(t, "unlink"))
      <3>1. \A u \in Threads : Going(u, {"rename", "record"})
        BY <2>3, MovesGoing DEF Moves, Going
      <3>2. \A s \in Sids : StaysFresh(s) => Fresh(s) \/ sess[s] = "none"
        BY <2>3 DEF StoreChunk, OpenPart, TruncatePart, FinalizeStart, RecordFinal,
           Register, CancelSession, DropPart, db, disk, Fresh, StaysFresh, Types,
           SessType
      <3>3. \A s \in Sids : Fresh(s) /\ s \in part => s \in part' \/ StaysKept(PathOf(s))
        BY <2>3 DEF StoreChunk, OpenPart, TruncatePart, FinalizeStart, RecordFinal,
           Register, CancelSession, DropPart, db, disk, Fresh, StaysKept
      <3> QED
        BY <3>1, <3>2, <3>3, RenamedKept
    <2>4. CASE CancelUnlink(t) /\ Ends(t)
      <3>1. \A u \in Threads : Going(u, {"rename", "record"})
        BY <2>4, EndsGoing DEF Going, FinalOps
      <3>2. job[t].op = "unlink" /\ ~Fresh(job[t].arg) /\ part' = part \ {job[t].arg}
        BY <2>4 DEF CancelUnlink, DropPart, DroppedInv, Fresh
      <3>3. \A s \in Sids : StaysFresh(s) => Fresh(s)
        BY <2>4 DEF CancelUnlink, db, Fresh, StaysFresh
      <3> QED
        BY <3>1, <3>2, <3>3, RenamedKept
    <2>5. CASE Verify(t) /\ Moves(t, "rename")
      <3>1. \A u \in Threads : u # t => Going(u, {"rename", "record"})
        BY <2>5, MovesGoing
      <3>2. job'[t].op = "rename" /\ job'[t].arg \in part'
        BY <2>5 DEF Verify, Complete, Moves, disk
      <3>3. \A s \in Sids : StaysFresh(s) => Fresh(s)
        BY <2>5 DEF Verify, db, Fresh, StaysFresh
      <3>4. part' = part
        BY <2>5 DEF Verify, disk
      <3> QED
        BY <3>1, <3>2, <3>3, <3>4, RenamedKept
    <2>6. CASE Renames(t) /\ Moves(t, "record")
      <3>1. \A u \in Threads : u # t => Going(u, {"rename", "record"})
        BY <2>6, MovesGoing
      <3>2. job[t].op = "rename" /\ job'[t].arg = job[t].arg /\ part' = part \ {job[t].arg}
        BY <2>6 DEF Renames, RenamePart, CopyFails, Movable, Spoil, Moves, DropPart
      <3>3. \A s \in Sids : StaysFresh(s) <=> Fresh(s)
        BY <2>6 DEF Renames, RenamePart, CopyFails, Movable, Spoil, db, Fresh, StaysFresh
      <3>4. job[t].arg \in part => StaysKept(PathOf(job[t].arg))
        BY <2>6 DEF Renames, RenamePart, CopyFails, Movable, Spoil, StaysKept
      <3>5. job[t].arg \notin part /\ Fresh(job[t].arg) => StaysKept(PathOf(job[t].arg))
        BY <3>2, KeptStays DEF RenamedInv, Fresh, Kept, StaysKept
      <3>6. job[t].arg \in Sids
        BY <3>2, ArgOf DEF SidOps, FinalOps, Types
      <3> QED
        BY <3>1, <3>2, <3>3, <3>4, <3>5, <3>6, RenamedKept
    <2> QED
      BY <1>2, <2>1, <2>2, <2>3, <2>4, <2>5, <2>6 DEF Works
  <1>3. CASE Takes
    <2>0. Still
      BY <1>3 DEF Takes
    <2>1. CASE \E s \in Sids : UnlinkExpired(s)
      <3>1. \A u \in Threads : Going(u, {"rename", "record"})
        BY <2>0, StillGoing DEF Going, FinalOps
      <3>2. PICK r \in Sids : UnlinkExpired(r)
        BY <2>1
      <3>3. ~Fresh(r) /\ part' = part \ {r}
        BY <3>2 DEF UnlinkExpired, DropPart, DroppedInv, Fresh
      <3>4. \A s \in Sids : StaysFresh(s) => Fresh(s)
        BY <3>2 DEF UnlinkExpired, db, Fresh, StaysFresh
      <3> QED
        BY <3>1, <3>3, <3>4, RenamedKept
    <2>2. CASE \/ (\E p \in Paths : CollectFile(p))
               \/ ListExpired \/ Foreigns
               \/ (\E s \in Sids : DeleteExpired(s))
               \/ (\E s \in Sids : SessionExpires(s))
               \/ (\E s \in Sids : Recycle(s))
      <3>1. \A u \in Threads : Going(u, {"rename", "record"})
        BY <2>0, StillGoing DEF Going, FinalOps
      <3>2. \A s \in Sids : StaysFresh(s) => Fresh(s) \/ sess[s] = "none"
        BY <2>2 DEF CollectFile, ListExpired, Foreigns, ForeignUpload, ForeignCopyFails, ForeignRecord, Spoil, DeleteExpired,
           SessionExpires, Recycle, DropPart, db, disk, Fresh, StaysFresh, Types,
           SessType
      <3>3. \A s \in Sids : Fresh(s) /\ s \in part => s \in part' \/ StaysKept(PathOf(s))
        BY <2>2 DEF CollectFile, ListExpired, Foreigns, ForeignUpload, ForeignCopyFails, ForeignRecord, Spoil, DeleteExpired,
           SessionExpires, Recycle, DropPart, db, disk, Fresh, StaysKept
      <3> QED
        BY <3>1, <3>2, <3>3, RenamedKept
    <2> QED
      BY <1>3, <2>1, <2>2 DEF Takes
  <1> QED
    BY <1>1, <1>2, <1>3 DEF Effect

LEMMA DroppedKept ==
  ASSUME DroppedInv, JobType,
         \A u \in Threads : Going(u, {"unlink"}) \/ sess'[job'[u].arg] \in {"cancelled", "deleted"},
         \A s \in Sids : sess[s] \in {"cancelled", "deleted"} => sess'[s] \in {"cancelled", "deleted"},
         \A s \in gc'.sids : s \in old' /\ sess'[s] \notin {"none", "deleted"}
  PROVE  DroppedInv'
  <1>1. ASSUME NEW u \in Threads, job'[u].op = "unlink"
        PROVE  sess'[job'[u].arg] \in {"cancelled", "deleted"}
    <2>1. CASE Going(u, {"unlink"})
      BY <1>1, <2>1, ArgOf DEF Going, DroppedInv, SidOps, CancelOps
    <2>2. CASE ~Going(u, {"unlink"})
      BY <2>2
    <2> QED
      BY <2>1, <2>2
  <1> QED
    BY <1>1 DEF DroppedInv

LEMMA DroppedStep ==
  ASSUME Types, DroppedInv, Effect
  PROVE  DroppedInv'
  <1>1. CASE Dull
    <2>1. \A u \in Threads : Going(u, {"unlink"})
      BY <1>1, StillGoing DEF Going, Dull
    <2>2. UNCHANGED <<sess, old>> /\ gc'.sids \subseteq gc.sids
      BY <1>1 DEF Dull, uploads
    <2> QED
      BY <2>1, <2>2, DroppedKept DEF DroppedInv, Types
  <1>2. ASSUME NEW t \in Threads, Works(t)
        PROVE  DroppedInv'
    <2>1. CASE CreateSession(t) /\ Idle /\ Ends(t)
      <3>1. \A u \in Threads : Going(u, {"unlink"})
        BY <2>1, StillGoing DEF Going
      <3>2. \A s \in Sids : sess[s] \in {"cancelled", "deleted"} => sess'[s] \in {"cancelled", "deleted"}
        BY <2>1 DEF CreateSession, db, Types, SessType
      <3>3. \A s \in gc'.sids : s \in old' /\ sess'[s] \notin {"none", "deleted"}
        BY <2>1 DEF CreateSession, db, DroppedInv, Types, SessType, GcType
      <3> QED
        BY <3>1, <3>2, <3>3, DroppedKept DEF Types
    <2>2. CASE \/ (WriteChunk(t) /\ Ends(t)) \/ (CancelUnlink(t) /\ Ends(t))
      <3>1. \A u \in Threads : Going(u, {"unlink"})
        BY <2>2, EndsGoing DEF Going
      <3>2. \A s \in Sids : sess[s] \in {"cancelled", "deleted"} => sess'[s] \in {"cancelled", "deleted"}
        BY <2>2 DEF WriteChunk, CancelUnlink, db, Types, SessType
      <3>3. \A s \in gc'.sids : s \in old' /\ sess'[s] \notin {"none", "deleted"}
        BY <2>2 DEF WriteChunk, CancelUnlink, db, DroppedInv, Types, SessType, GcType
      <3> QED
        BY <3>1, <3>2, <3>3, DroppedKept DEF Types
    <2>3. CASE CancelSession(t) /\ Moves(t, "unlink")
      <3>1. \A u \in Threads : u # t => Going(u, {"unlink"})
        BY <2>3, MovesGoing
      <3>2. job[t].op = "close" /\ job'[t].arg = job[t].arg /\ job[t].arg \in Sids
        BY <2>3, ArgOf DEF CancelSession, Moves, SidOps, CancelOps, Types
      <3>3. \A s \in Sids : sess[s] \in {"cancelled", "deleted"} => sess'[s] \in {"cancelled", "deleted"}
        BY <2>3 DEF CancelSession, Types, SessType
      <3>4. sess'[job[t].arg] = "cancelled"
        BY <2>3, <3>2 DEF CancelSession, Types, SessType
      <3>5. \A s \in gc'.sids : s \in old' /\ sess'[s] \notin {"none", "deleted"}
        BY <2>3 DEF CancelSession, DroppedInv, Types, SessType, GcType
      <3> QED
        BY <3>1, <3>2, <3>3, <3>4, <3>5, DroppedKept DEF Types
    <2>4. CASE \/ (StoreChunk(t) /\ Moves(t, "open"))
               \/ (OpenPart(t) /\ (Moves(t, "write") \/ Moves(t, "truncate")))
               \/ (TruncatePart(t) /\ Moves(t, "write"))
               \/ (FinalizeStart(t) /\ Moves(t, "verify"))
               \/ (Verify(t) /\ Moves(t, "rename"))
               \/ (Renames(t) /\ Moves(t, "record"))
               \/ (RecordFinal(t) /\ Moves(t, "register"))
               \/ (Register(t) /\ Moves(t, "keep"))
      <3>1. \A u \in Threads : Going(u, {"unlink"})
        BY <2>4, MovesGoing DEF Moves, Going
      <3>2. \A s \in Sids : sess[s] \in {"cancelled", "deleted"} => sess'[s] \in {"cancelled", "deleted"}
        BY <2>4 DEF StoreChunk, OpenPart, TruncatePart, FinalizeStart, Verify,
           Renames, RenamePart, CopyFails, Movable, Spoil, RecordFinal, Register, db, Types, SessType
      <3>3. \A s \in gc'.sids : s \in old' /\ sess'[s] \notin {"none", "deleted"}
        BY <2>4 DEF StoreChunk, OpenPart, TruncatePart, FinalizeStart, Verify,
           Renames, RenamePart, CopyFails, Movable, Spoil, RecordFinal, Register, db, DroppedInv, Types, SessType, GcType
      <3> QED
        BY <3>1, <3>2, <3>3, DroppedKept DEF Types
    <2> QED
      BY <1>2, <2>1, <2>2, <2>3, <2>4 DEF Works
  <1>3. CASE Takes
    <2>0. Still
      BY <1>3 DEF Takes
    <2>1. CASE \E s \in Sids : Recycle(s)
      <3>1. PICK r \in Sids : Recycle(r)
        BY <2>1
      <3>2. \A u \in Threads : job[u].arg # r /\ job'[u] = job[u]
        BY <3>1 DEF Recycle
      <3>3. sess[r] = "deleted" /\ old' = old \ {r} /\ sess' = [sess EXCEPT ![r] = "none"] /\ gc' = gc
        BY <3>1 DEF Recycle
      <3>4. \A s \in Sids : s # r => sess'[s] = sess[s]
        BY <3>3 DEF Types, SessType
      <3>5. \A u \in Threads : job[u].op = "unlink" => job[u].arg \in Sids
        BY ArgOf DEF SidOps, CancelOps, Types
      <3>6. gc.sids \subseteq Sids
        BY DEF Types, GcType
      <3> QED
        BY <3>2, <3>3, <3>4, <3>5, <3>6 DEF DroppedInv
    <2>2. CASE \/ (\E p \in Paths : CollectFile(p))
               \/ (\E s \in Sids : UnlinkExpired(s))
      <3>1. \A u \in Threads : Going(u, {"unlink"})
        BY <2>0, StillGoing DEF Going
      <3>2. \A s \in Sids : sess[s] \in {"cancelled", "deleted"} => sess'[s] \in {"cancelled", "deleted"}
        BY <2>2 DEF CollectFile, UnlinkExpired, db, Types, SessType
      <3>3. \A s \in gc'.sids : s \in old' /\ sess'[s] \notin {"none", "deleted"}
        BY <2>2 DEF CollectFile, UnlinkExpired, db, DroppedInv, Types, SessType, GcType
      <3> QED
        BY <3>1, <3>2, <3>3, DroppedKept DEF Types
    <2>3. CASE ListExpired
      <3>1. \A u \in Threads : Going(u, {"unlink"})
        BY <2>0, StillGoing DEF Going
      <3>2. \A s \in Sids : sess[s] \in {"cancelled", "deleted"} => sess'[s] \in {"cancelled", "deleted"}
        BY <2>3 DEF ListExpired, db, Types, SessType
      <3>3. \A s \in gc'.sids : s \in old' /\ sess'[s] \notin {"none", "deleted"}
        BY <2>3 DEF ListExpired, db, DroppedInv, Types, SessType, GcType
      <3> QED
        BY <3>1, <3>2, <3>3, DroppedKept DEF Types
    <2>4. CASE \E s \in Sids : DeleteExpired(s)
      <3>1. \A u \in Threads : Going(u, {"unlink"})
        BY <2>0, StillGoing DEF Going
      <3>2. \A s \in Sids : sess[s] \in {"cancelled", "deleted"} => sess'[s] \in {"cancelled", "deleted"}
        BY <2>4 DEF DeleteExpired, db, Types, SessType
      <3>3. \A s \in gc'.sids : s \in old' /\ sess'[s] \notin {"none", "deleted"}
        BY <2>4 DEF DeleteExpired, db, DroppedInv, Types, SessType, GcType
      <3> QED
        BY <3>1, <3>2, <3>3, DroppedKept DEF Types
    <2>5. CASE \/ Foreigns
               \/ (\E s \in Sids : SessionExpires(s))
      <3>1. \A u \in Threads : Going(u, {"unlink"})
        BY <2>0, StillGoing DEF Going
      <3>2. \A s \in Sids : sess[s] \in {"cancelled", "deleted"} => sess'[s] \in {"cancelled", "deleted"}
        BY <2>5 DEF Foreigns, ForeignUpload, ForeignCopyFails, ForeignRecord, Spoil, SessionExpires, db, Types, SessType
      <3>3. \A s \in gc'.sids : s \in old' /\ sess'[s] \notin {"none", "deleted"}
        BY <2>5 DEF Foreigns, ForeignUpload, ForeignCopyFails, ForeignRecord, Spoil, SessionExpires, db, DroppedInv, Types, SessType, GcType
      <3> QED
        BY <3>1, <3>2, <3>3, DroppedKept DEF Types
    <2> QED
      BY <1>3, <2>1, <2>2, <2>3, <2>4, <2>5 DEF Takes
  <1> QED
    BY <1>1, <1>2, <1>3 DEF Effect

LEMMA WholeStep ==
  ASSUME Types, VerifiedInv, WholeFiles, Effect
  PROVE  WholeFiles'
  <1>1. CASE Dull
    BY <1>1 DEF Dull, uploads, disk, WholeFiles
  <1>2. ASSUME NEW t \in Threads, Works(t)
        PROVE  WholeFiles'
    <2>1. CASE Renames(t) /\ Moves(t, "record")
      <3>1. job[t].op = "rename" /\ job[t].arg \in Sids
        BY <2>1, ArgOf DEF Renames, RenamePart, CopyFails, Movable, Spoil, SidOps, FinalOps, Types
      <3>2. job[t].arg \in part => partHas[job[t].arg] = Chunks
        BY <3>1 DEF VerifiedInv
      <3>3. PathOf(job[t].arg) \in Paths
        BY <3>1, PathOfFile, Numbers
      <3> QED
        BY <2>1, <3>2, <3>3 DEF Renames, RenamePart, CopyFails, Movable, Spoil, WholeFiles, Types, WholeType
    <2>2. CASE \/ (CreateSession(t) /\ Idle /\ Ends(t))
               \/ (StoreChunk(t) /\ Moves(t, "open"))
               \/ (OpenPart(t) /\ (Moves(t, "write") \/ Moves(t, "truncate")))
               \/ (TruncatePart(t) /\ Moves(t, "write"))
               \/ (WriteChunk(t) /\ Ends(t))
               \/ (FinalizeStart(t) /\ Moves(t, "verify"))
               \/ (Verify(t) /\ Moves(t, "rename"))
               \/ (RecordFinal(t) /\ Moves(t, "register"))
               \/ (Register(t) /\ Moves(t, "keep"))
               \/ (CancelSession(t) /\ Moves(t, "unlink"))
               \/ (CancelUnlink(t) /\ Ends(t))
      BY <2>2 DEF CreateSession, StoreChunk, OpenPart, TruncatePart,
         WriteChunk, FinalizeStart, Verify, RecordFinal, Register,
         CancelSession, CancelUnlink, disk, WholeFiles
    <2> QED
      BY <1>2, <2>1, <2>2 DEF Works
  <1>3. CASE Takes
    <2>0. Still
      BY <1>3 DEF Takes
    <2>1. CASE Foreigns
      <3>1. PathOf(Foreign) \in Paths
        BY PathOfFile, Numbers
      <3> QED
        BY <2>1, <3>1 DEF Foreigns, ForeignUpload, ForeignCopyFails, ForeignRecord, Spoil, WholeFiles, Types, WholeType
    <2>2. CASE \/ (\E p \in Paths : CollectFile(p))
               \/ ListExpired
               \/ (\E s \in Sids : UnlinkExpired(s))
               \/ (\E s \in Sids : DeleteExpired(s))
               \/ (\E s \in Sids : SessionExpires(s))
               \/ (\E s \in Sids : Recycle(s))
      BY <2>2 DEF CollectFile, ListExpired, UnlinkExpired, DeleteExpired,
         SessionExpires, Recycle, disk, WholeFiles, Types, WholeType
    <2> QED
      BY <1>3, <2>1, <2>2 DEF Takes
  <1> QED
    BY <1>1, <1>2, <1>3 DEF Effect

LEMMA FinalizedKept ==
  ASSUME Effect, FinalizedHasFile,
         \A s \in Sids : sess'[s] = "finalized" /\ s \notin old' =>
           \/ sess[s] = "finalized" /\ s \notin old
           \/ Kept(PathOf(s))
  PROVE  FinalizedHasFile'
  <1>1. \A p : Kept(p) => StaysKept(p)
    BY KeptStays DEF Kept, StaysKept
  <1> QED
    BY <1>1 DEF FinalizedHasFile, Kept, StaysKept, PathOf

LEMMA FinalizedStep ==
  ASSUME Types, RenamedInv, FinalizedHasFile, Effect
  PROVE  FinalizedHasFile'
  <1>1. CASE Dull
    BY <1>1, FinalizedKept DEF Dull, uploads
  <1>2. ASSUME NEW t \in Threads, Works(t)
        PROVE  FinalizedHasFile'
    <2>1. CASE RecordFinal(t) /\ Moves(t, "register")
      <3>1. /\ job[t].op = "record" /\ sess[job[t].arg] = "open"
            /\ sess' = [sess EXCEPT ![job[t].arg] = "finalized"] /\ old' = old
        BY <2>1 DEF RecordFinal
      <3>2. job[t].arg \notin old => Kept(PathOf(job[t].arg))
        BY <3>1 DEF RenamedInv
      <3>3. \A s \in Sids : s # job[t].arg => sess'[s] = sess[s]
        BY <3>1 DEF Types, SessType
      <3> QED
        BY <3>1, <3>2, <3>3, FinalizedKept
    <2>2. CASE \/ (CreateSession(t) /\ Idle /\ Ends(t))
               \/ (StoreChunk(t) /\ Moves(t, "open"))
               \/ (OpenPart(t) /\ (Moves(t, "write") \/ Moves(t, "truncate")))
               \/ (TruncatePart(t) /\ Moves(t, "write"))
               \/ (WriteChunk(t) /\ Ends(t))
               \/ (FinalizeStart(t) /\ Moves(t, "verify"))
               \/ (Verify(t) /\ Moves(t, "rename"))
               \/ (Renames(t) /\ Moves(t, "record"))
               \/ (Register(t) /\ Moves(t, "keep"))
               \/ (CancelSession(t) /\ Moves(t, "unlink"))
               \/ (CancelUnlink(t) /\ Ends(t))
      BY <2>2, FinalizedKept DEF CreateSession, StoreChunk, OpenPart,
         TruncatePart, WriteChunk, FinalizeStart, Verify, Renames, RenamePart, CopyFails, Movable, Spoil,
         Register, CancelSession, CancelUnlink, db, Types, SessType
    <2> QED
      BY <1>2, <2>1, <2>2 DEF Works
  <1>3. CASE Takes
    <2>0. Still
      BY <1>3 DEF Takes
    <2>1. CASE \/ (\E p \in Paths : CollectFile(p))
               \/ ListExpired \/ Foreigns
               \/ (\E s \in Sids : UnlinkExpired(s))
               \/ (\E s \in Sids : DeleteExpired(s))
               \/ (\E s \in Sids : SessionExpires(s))
               \/ (\E s \in Sids : Recycle(s))
      BY <2>1, FinalizedKept DEF CollectFile, ListExpired, Foreigns, ForeignUpload, ForeignCopyFails, ForeignRecord, Spoil,
         UnlinkExpired, DeleteExpired, SessionExpires, Recycle, db, Types,
         SessType
    <2> QED
      BY <1>3, <2>1 DEF Takes
  <1> QED
    BY <1>1, <1>2, <1>3 DEF Effect

-----------------------------------------------------------------------------
(* The client.                                                             *)

ClientInv == DraftType /\ UserType /\ PlaceInv /\ CardInv /\ AloneInv

(* What a step may not undo. *)
Firm ==
  /\ draft.state \in Terminal => draft'.state = draft.state
  /\ card # NoFid => card' = card

LEMMA PumpClient ==
  ASSUME Types, PlaceInv, CardInv, AloneInv, NEW c \in Pumps, Pumped(c)
  PROVE  ClientInv' /\ Firm
  <1>1. /\ draft \in Draft /\ cur \in [Pumps -> Draft] /\ pump \in [Pumps -> Places]
        /\ card \in Fids \cup {NoFid}
    BY DEF Types, DraftType, UserType
  <1>2. Turns(c) /\ Stands(c) /\ Cards(c)
    BY PumpLeaves DEF Leaves
  <1>3. /\ draft' \in Draft /\ cur' \in [Pumps -> Draft] /\ pump' \in [Pumps -> Places]
        /\ draft.up # NoSid => draft'.up # NoSid
        /\ \A d \in Pumps : d # c => pump'[d] = pump[d] /\ cur'[d] = cur[d]
    BY PumpLeaves DEF Leaves
  <1>4. cur[c].fid \in Fids \cup {NoFid}
    BY <1>1 DEF Draft
  <1>5. DraftType'
    BY <1>3 DEF DraftType
  <1>6. UserType'
    <2>1. card' \in {card, cur[c].fid}
      BY <1>2 DEF Cards
    <2> QED
      BY <1>1, <1>4, <2>1, PumpAsks DEF UserType, Types, Aside
  <1>7. PlaceInv'
    <2>1. ASSUME NEW d \in Pumps, d # c
          PROVE  /\ pump'[d] \in Asking \cup {"merging"} => draft'.up # NoSid
                 /\ pump'[d] \in Asking => cur'[d].up # NoSid
                 /\ pump'[d] = "sending" => Missing(d)' # {}
      BY <1>3, <2>1 DEF PlaceInv, Missing
    <2> QED
      BY <1>2, <2>1 DEF PlaceInv, Stands
  <1>8. Firm
    BY <1>2 DEF Firm, Turns, Cards, Open, Terminal
  <1>9. CardInv'
    <2>1. draft'.state = "Finalized" => draft'.fid # NoFid
      BY <1>2, Numbers DEF Turns, CardInv
    <2>2. draft'.state = "Sent" => card' # NoFid
      BY <1>2, <1>8 DEF Turns, Cards, CardInv, Firm
    <2>3. /\ pump'[c] = "card" => cur'[c].fid # NoFid \/ card' # NoFid
          /\ pump'[c] = "mark" => card' # NoFid
      BY <1>2 DEF Cards, CardInv
    <2>4. ASSUME NEW d \in Pumps, d # c
          PROVE  /\ pump'[d] = "card" => cur'[d].fid # NoFid \/ card' # NoFid
                 /\ pump'[d] = "mark" => card' # NoFid
      <3>1. pump'[d] = pump[d] /\ cur'[d] = cur[d]
        BY <1>3, <2>4
      <3> QED
        BY <1>8, <3>1 DEF CardInv, Firm
    <2> QED
      BY <2>1, <2>2, <2>3, <2>4 DEF CardInv
  <1>10. AloneInv'
    <2>1. SUFFICES ASSUME Alone
                   PROVE  /\ card' # NoFid => card' = draft'.fid /\ draft'.state \in Over
                          /\ pump'[c] \in {"card", "mark"} => draft'.state \in Over /\ cur'[c].fid = draft'.fid
                          /\ draft'.state \in {"Finalized", "Sent"} \/ card' # NoFid => pump'[c] \in Late
      BY DEF AloneInv, Alone
    <2>2. /\ card # NoFid => card = draft.fid /\ draft.state \in Over
          /\ pump[c] \in {"card", "mark"} => draft.state \in Over /\ cur[c].fid = draft.fid
          /\ draft.state \in {"Finalized", "Sent"} \/ card # NoFid => pump[c] \in Late
      BY <2>1 DEF AloneInv
    <2>3. CASE pump[c] \in Late
      <3>1. draft'.fid = draft.fid /\ (draft.state \in Over => draft'.state \in Over)
        BY <1>2, <2>3 DEF Turns, Over
      <3>2. draft'.state # draft.state => pump[c] = "mark" /\ pump'[c] = "idle"
        BY <1>2, <2>3 DEF Turns
      <3>3. pump'[c] \in {"card", "mark"} => draft'.state \in Over /\ cur'[c].fid = draft'.fid
        BY <1>2, <2>2, <3>1 DEF Cards, Over
      <3>4. card' # NoFid => card' = draft'.fid /\ draft'.state \in Over
        BY <1>2, <2>2, <3>1 DEF Cards
      <3>5. draft'.state \in {"Finalized", "Sent"} \/ card' # NoFid => pump'[c] \in Late
        BY <1>2, <2>2, <2>3, <3>2 DEF Cards, Late, Over, Open
      <3> QED
        BY <3>3, <3>4, <3>5
    <2>4. CASE pump[c] \notin Late
      <3>1. pump'[c] \notin {"card", "mark"} /\ card' = NoFid
        BY <1>2, <2>2, <2>4 DEF Cards, Late
      <3>2. draft.state \notin {"Finalized", "Sent"}
        BY <2>2, <2>4
      <3>3. draft'.state \in {"Finalized", "Sent"} => pump'[c] = "reread"
        BY <1>2, <2>4, <3>2 DEF Turns, Late
      <3> QED
        BY <3>1, <3>3 DEF Late
    <2> QED
      BY <2>3, <2>4
  <1> QED
    BY <1>5, <1>6, <1>7, <1>8, <1>9, <1>10 DEF ClientInv

(* Nobody else touches the draft but the user. *)
LEMMA OtherClient ==
  ASSUME Types, PlaceInv, CardInv, AloneInv, UserType', UNCHANGED <<draft, pump, cur, card>>
  PROVE  ClientInv' /\ Firm
  <1>1. DraftType' /\ Firm
    BY DEF Types, DraftType, Firm
  <1>2. PlaceInv' /\ CardInv'
    BY DEF PlaceInv, Missing, CardInv
  <1>3. AloneInv'
    BY DEF AloneInv, Alone
  <1> QED
    BY <1>1, <1>2, <1>3 DEF ClientInv

LEMMA CancelClient ==
  ASSUME Types, PlaceInv, CardInv, AloneInv, CancelSet
  PROVE  ClientInv' /\ Firm
  <1>1. draft \in Draft /\ SetState("Cancelled") /\ UNCHANGED <<pump, cur, card, sent, faults>>
    BY DEF CancelSet, history, Types, DraftType
  <1>2. /\ draft' \in Draft /\ draft'.up = draft.up /\ draft'.fid = draft.fid
        /\ draft'.state = IF draft.state \in Terminal THEN draft.state ELSE "Cancelled"
    BY <1>1, SetStateDoes
  <1>3. UserType'
    BY <1>1 DEF CancelSet, Types, UserType
  <1>4. DraftType' /\ Firm
    BY <1>1, <1>2 DEF Types, DraftType, Firm
  <1>5. PlaceInv'
    BY <1>1, <1>2 DEF PlaceInv, Missing
  <1>6. CardInv'
    BY <1>1, <1>2 DEF CardInv, Terminal
  <1>7. AloneInv'
    BY <1>1, <1>2 DEF AloneInv, Alone, Over, Terminal
  <1> QED
    BY <1>3, <1>4, <1>5, <1>6, <1>7 DEF ClientInv

LEMMA DeadClient ==
  ASSUME Types, PlaceInv, CardInv, AloneInv, ClientDies
  PROVE  ClientInv' /\ Firm
  <1>1. /\ pump' = [c \in Pumps |-> "idle"] /\ cur' = [c \in Pumps |-> Blank]
        /\ UNCHANGED <<draft, card, sent>> /\ faults' = faults + 1 /\ faults < MaxFaults
    BY DEF ClientDies, Fault
  <1>2. cancel' \in [step : {"no", "set", "done"}, up : Sids \cup {NoSid}]
    BY DEF ClientDies, Types, UserType
  <1>3. UserType'
    BY <1>1, <1>2, PumpAssumption DEF Types, UserType
  <1>4. DraftType' /\ Firm
    BY <1>1, BlankDraft DEF Types, DraftType, Firm, Places
  <1>5. PlaceInv'
    BY <1>1 DEF PlaceInv, Missing, Asking
  <1>6. CardInv'
    BY <1>1 DEF CardInv
  <1>7. AloneInv'
    BY <1>1 DEF AloneInv, Alone, Late
  <1> QED
    BY <1>3, <1>4, <1>5, <1>6, <1>7 DEF ClientInv

LEMMA ClientStep ==
  ASSUME Types, PlaceInv, CardInv, AloneInv, [Next]_vars
  PROVE  ClientInv' /\ Firm
  <1>1. CASE \E c \in Pumps : Pumped(c)
    BY <1>1, PumpClient
  <1>2. CASE CancelSet
    BY <1>2, CancelClient
  <1>3. CASE ClientDies
    BY <1>3, DeadClient
  <1>4. CASE \/ CancelRead \/ CardFound \/ CardSaved \/ CardSaveFails \/ CardStored \/ CardRefused
    <2>1. UNCHANGED <<draft, pump, cur, card>> /\ (Fault \/ UNCHANGED faults)
      BY <1>4 DEF CancelRead, CardFound, CardSaved, CardStored, CardSaveFails, CardRefused,
         clientVars, history
    <2>2. /\ cancel' \in [step : {"no", "set", "done"}, up : Sids \cup {NoSid}]
          /\ sent' \in {"no", "stored", "refused"}
      BY <1>4 DEF CancelRead, CardFound, CardSaved, CardStored, CardSaveFails, CardRefused,
         clientVars, Types, UserType, DraftType, Draft
    <2>3. UserType'
      BY <2>1, <2>2, PumpAssumption DEF Fault, Types, UserType
    <2> QED
      BY <2>1, <2>3, OtherClient
  <1>5. CASE \/ \E t \in Threads : RequestLost(t)
             \/ \E t \in Threads : GivesUp(t)
             \/ \E t \in Threads : DiskFails(t)
             \/ ServerDies \/ ForeignDiskFails
             \/ \E s \in Sids : DayPasses(s) \/ Recycle(s)
             \/ \E n \in Challenges : ChallengeTime(n)
    <2>1. UNCHANGED clientVars /\ (Fault \/ UNCHANGED faults)
      BY <1>5 DEF RequestLost, GivesUp, DiskFails, ForeignDiskFails, ServerDies, DayPasses,
         ChallengeTime, Recycle, history
    <2>2. UserType'
      BY <2>1, PumpAssumption DEF clientVars, Fault, Types, UserType
    <2> QED
      BY <2>1, <2>2, OtherClient DEF clientVars
  <1>6. CASE \/ \E t \in Threads : ServerStep(t)
             \/ ForeignCard \/ OtherDevice \/ CollectorStep
             \/ \E f \in Fids : RecordDay(f)
             \/ UNCHANGED vars
    <2>1. UNCHANGED clientVars /\ UNCHANGED faults
      BY <1>6 DEF ServerStep, ForeignCard, OtherDevice, CollectorStep, RecordDay, vars, history
    <2>2. UserType'
      BY <2>1 DEF clientVars, Types, UserType
    <2> QED
      BY <2>1, <2>2, OtherClient DEF clientVars
  <1> QED
    BY <1>1, <1>2, <1>3, <1>4, <1>5, <1>6 DEF Next, Pumped

-----------------------------------------------------------------------------
(* Records, challenges and the collector.                                  *)

Quiet == UNCHANGED <<index, stored, memory>>

LEMMA QuietRecords ==
  ASSUME RecordType, Quiet
  PROVE  RecordType'
  BY DEF RecordType, Quiet, memory

LEMMA HandlerRecords ==
  ASSUME Types, NEW t \in Threads, Handle(t) \/ CopyFails(t)
  PROVE  RecordType' /\ UNCHANGED gc
  <1>1. CASE \/ ChunkRefused(t) \/ StoreRejected(t) \/ StoreDuplicate(t)
             \/ QueryMissing(t) \/ FinalizeRefused(t) \/ VerifyFails(t)
             \/ RecordRefused(t) \/ ProveUnknown(t) \/ CompareFails(t)
             \/ CancelRefused(t) \/ CancelLate(t)
    <2>1. \E kind \in {"ok", "404", "409", "410", "500"} : Status(t, kind)
      BY <1>1 DEF ChunkRefused, StoreRejected, StoreDuplicate, QueryMissing,
         FinalizeRefused,
         VerifyFails, RecordRefused, ProveUnknown, CompareFails, CancelRefused, CancelLate,
         ChunkRefusal, FinalizeRefusal
    <2>2. Quiet /\ UNCHANGED gc
      BY <2>1 DEF Status, db, Quiet
    <2> QED
      BY <2>2, QuietRecords DEF Types
  <1>2. CASE \/ CreateReuses(t) \/ CreateMisses(t) \/ CreateSession(t)
             \/ ChunkAccepted(t) \/ StoreChunk(t) \/ OpenPart(t)
             \/ TruncatePart(t) \/ WriteChunk(t) \/ Query(t)
             \/ FinalizeAgain(t) \/ FinalizeStart(t) \/ Verify(t)
             \/ Renames(t) \/ RecordExisting(t) \/ RecordFinal(t)
             \/ Compare(t) \/ CancelChecked(t) \/ CancelSession(t)
             \/ CancelUnlink(t)
    <2>1. Quiet /\ UNCHANGED gc
      BY <1>2 DEF CreateReuses, CreateMisses, CreateSession, ChunkAccepted,
         StoreChunk, OpenPart, TruncatePart, WriteChunk, Query,
         FinalizeAgain, FinalizeStart, Verify, Renames, RenamePart, CopyFails, Movable, Spoil, RecordExisting,
         RecordFinal, Compare, CancelChecked, CancelSession, CancelUnlink,
         db, memory, Quiet
    <2> QED
      BY <2>1, QuietRecords DEF Types
  <1>3. CASE CreateInstant(t)
    <2>1. PICK p \in Known, n \in Challenges : challenge' = [challenge EXCEPT ![n] = p]
      BY <1>3 DEF CreateInstant
    <2>2. p \in Paths
      BY DEF Known, Types, WholeType
    <2> QED
      BY <1>3, <2>1, <2>2 DEF CreateInstant, db, Types, RecordType
  <1>4. CASE Register(t)
    <2>1. job[t].arg \in Fids
      BY <1>4, ArgOf, Numbers DEF Register, SidOps, FinalOps, Types
    <2>2. PathOf(job[t].arg) \in Paths
      BY <2>1, PathOfFile
    <2> QED
      BY <1>4, <2>2 DEF Register, memory, Types, RecordType
  <1>5. CASE KeepRecord(t)
    <2>1. job[t].arg \in Fids
      BY <1>5, ArgOf, Numbers DEF KeepRecord, SidOps, FinalOps, Types
    <2>2. PathOf(job[t].arg) \in Paths
      BY <2>1, PathOfFile
    <2> QED
      BY <1>5, <2>1, <2>2 DEF KeepRecord, db, Types, RecordType
  <1>6. CASE TakeChallenge(t)
    BY <1>6 DEF TakeChallenge, db, Types, RecordType
  <1>7. CASE Grant(t)
    <2>1. job[t].arg \in Challenges /\ MaxSessions + job[t].arg \in Fids
      BY <1>7, Numbers DEF Grant, Types, JobType, GoodJob, ProofOps
    <2>2. job[t].path \in Paths \cup {NoPath}
      BY DEF Types, JobType, Jobs
    <2> QED
      BY <1>7, <2>1, <2>2 DEF Grant, db, Types, RecordType
  <1> QED
    BY <1>1, <1>2, <1>3, <1>4, <1>5, <1>6, <1>7 DEF Handle, Renames

LEMMA RecordStep ==
  ASSUME Types, PlaceInv, [Next]_vars
  PROVE  RecordType' /\ GcType'
  <1>1. CASE \E c \in Pumps : Pumped(c)
    <2>1. Aside
      BY <1>1, PumpAsks
    <2> QED
      BY <2>1, QuietRecords DEF Aside, db, Quiet, Types, GcType
  <1>2. CASE \/ CancelRead \/ CancelSet \/ CardRefused
             \/ \E t \in Threads : RequestLost(t) \/ GivesUp(t) \/ DiskFails(t)
             \/ ClientDies
             \/ \E s \in Sids : DayPasses(s) \/ Recycle(s)
             \/ UNCHANGED vars
    <2>1. Quiet /\ UNCHANGED gc
      BY <1>2 DEF CancelRead, CancelSet, CardRefused, serverVars, RequestLost, GivesUp,
         DiskFails, CopyFails,
         WriteFails, Status, ClientDies, DayPasses, SessionExpires, Recycle, vars, history, db, memory, Quiet
    <2> QED
      BY <2>1, QuietRecords DEF Types, GcType
  <1>3. CASE \E t \in Threads : ServerStep(t)
    BY <1>3, HandlerRecords DEF ServerStep, Types, GcType
  <1>4. CASE \/ CardFound \/ CardSaved \/ CardSaveFails \/ CardStored \/ ForeignCard
    <2>1. PICK f \in Fids : FindRecord(f) \/ SaveMedia(f) \/ SaveFails(f) \/ EraseRecord(f)
      <3>1. CASE CardFound \/ CardSaved \/ CardSaveFails \/ CardStored
        <4>1. card \in Fids
          BY <3>1 DEF CardFound, CardSaved, CardStored, CardSaveFails, CardArrives, Types, UserType
        <4> QED
          BY <3>1, <4>1 DEF CardFound, CardSaved, CardStored, CardSaveFails
      <3>2. CASE ForeignCard
        BY <3>2, Numbers DEF ForeignCard
      <3> QED
        BY <1>4, <3>1, <3>2
    <2> QED
      BY <2>1 DEF db, FindRecord, SaveMedia, EraseRecord, SaveFails, memory, Types, RecordType, GcType
  <1>5. CASE ServerDies
    BY <1>5 DEF ServerDies, ServerRestarts, db, Types, RecordType, GcType
  <1>6. CASE OtherDevice \/ ForeignDiskFails
    <2>1. PathOf(Foreign) \in Paths /\ Foreign \in Fids
      BY PathOfFile, Numbers
    <2> QED
      BY <1>6, <2>1 DEF OtherDevice, ForeignDiskFails, Foreigns, ForeignUpload, ForeignCopyFails, ForeignRecord, Spoil, db, Types, RecordType, GcType
  <1>7. CASE \/ \E f \in Fids : RecordDay(f)
             \/ \E n \in Challenges : ChallengeTime(n)
    BY <1>7 DEF RecordDay, RecordAges, ChallengeTime, ChallengeLapses, db, Types,
       RecordType,
       GcType
  <1>8. CASE CollectorStep
    <2>1. CASE CollectRecords
      <3>1. {record[f] : f \in {f \in aged : record[f] # NoPath}} \subseteq Paths
        BY DEF Types, RecordType
      <3> QED
        BY <2>1, <3>1 DEF CollectRecords, db, Types, RecordType, GcType
    <2>2. CASE ~CollectRecords
      <3>1. Quiet
        BY <1>8, <2>2 DEF CollectorStep, Collect, ListExpired, CollectDone, CollectFile,
           UnlinkExpired, DeleteExpired, db, Quiet
      <3>2. ASSUME ListExpired \/ CollectDone \/ \E p \in Paths : CollectFile(p)
            PROVE  GcType'
        BY <3>2 DEF ListExpired, CollectDone, CollectFile, Types, GcType, SessType
      <3>3. ASSUME \E s \in Sids : UnlinkExpired(s) \/ DeleteExpired(s)
            PROVE  GcType'
        <4>1. PICK s \in Sids : UnlinkExpired(s) \/ DeleteExpired(s)
          BY <3>3
        <4>2. {s} \subseteq Paths /\ gc.sids \ {s} \subseteq Sids
          BY Numbers DEF Types, GcType
        <4>3. gc' = [gc EXCEPT !.step = "delete", !.files = {s}] => GcType'
          <5>1. PICK F \in SUBSET Paths : F = {s}
            BY <4>2
          <5> QED
            BY <5>1 DEF Types, GcType
        <4>4. gc' = [step |-> "unlink", files |-> {}, sids |-> gc.sids \ {s}] => GcType'
          BY <4>2 DEF Types, GcType
        <4> QED
          BY <4>1, <4>3, <4>4 DEF UnlinkExpired, DeleteExpired
      <3> QED
        BY <1>8, <2>2, <3>1, <3>2, <3>3, QuietRecords DEF CollectorStep, Collect, Types
    <2> QED
      BY <2>1, <2>2
  <1> QED
    BY <1>1, <1>2, <1>3, <1>4, <1>5, <1>6, <1>7, <1>8 DEF Next, Pumped

-----------------------------------------------------------------------------
(* The invariant.                                                          *)

LEMMA HistoryStep ==
  ASSUME HistoryType, [Next]_vars
  PROVE  HistoryType'
  <1>1. ASSUME NEW c \in Pumps, Begin(c) \/ BeginFinalized(c)
        PROVE  quiet' \subseteq Pumps
    BY <1>1 DEF Begin, BeginFinalized, Begins
  <1>2. ASSUME NEW c \in Pumps, PumpStep(c)
        PROVE  quiet' = quiet
    BY <1>2 DEF PumpStep, CreateFails, Prove, Attach, Merge, ProveFails, GotFile, AskFinalized,
       AskOpen, AskGone, AskFails, RenewFails, Renew, Resume, SendChunk, EndOfChunks, ChunkFails,
       ChunkDone, Finalize, FinishWithout, FinalizeFails, Reread, SendCard, MarkSent, Fails,
       Adopt, Elsewhere, history
  <1>3. CASE \/ CancelRead \/ CancelSet \/ CardFound \/ CardSaved \/ CardStored \/ CardRefused
             \/ \E t \in Threads : ServerStep(t)
             \/ OtherDevice \/ \E s \in Sids : Recycle(s)
             \/ \E f \in Fids : RecordDay(f)
             \/ UNCHANGED vars
    <2>1. quiet' = quiet
      BY <1>3 DEF CancelRead, CancelSet, CardFound, CardSaved, CardStored, CardRefused,
         ServerStep, OtherDevice, Recycle, RecordDay, vars, history
    <2> QED
      BY <2>1 DEF HistoryType
  <1>4. CASE \/ CardSaveFails \/ ServerDies \/ ClientDies \/ ForeignDiskFails
             \/ \E t \in Threads : RequestLost(t) \/ GivesUp(t) \/ DiskFails(t)
             \/ \E s \in Sids : DayPasses(s)
             \/ \E n \in Challenges : ChallengeTime(n)
    <2>1. quiet' \in {quiet, {}}
      BY <1>4 DEF CardSaveFails, ServerDies, ClientDies, ForeignDiskFails, RequestLost, GivesUp,
         DiskFails, DayPasses, ChallengeTime, Fault, history
    <2> QED
      BY <2>1 DEF HistoryType
  <1>5. CASE ForeignCard \/ CollectorStep
    <2>1. quiet' \in {quiet, {}}
      BY <1>5 DEF ForeignCard, CollectorStep
    <2> QED
      BY <2>1 DEF HistoryType
  <1> QED
    BY <1>1, <1>2, <1>3, <1>4, <1>5 DEF Next, HistoryType

LEMMA Start_Types ==
  ASSUME Init
  PROVE  Types
  <1>1. NoJob \in Jobs /\ GoodJob(NoJob)
    BY FreeJob DEF GoodJob
  <1>2. JobType
    BY <1>1 DEF Init, ServerInit, JobType
  <1>3. NoReply \in [kind : Kinds, arg : Int, has : SUBSET Chunks] /\ GoodReply(NoReply)
    BY LostReplyIsGood DEF GoodReply
  <1>4. ReplyType
    BY <1>3 DEF Init, ServerInit, ReplyType
  <1>5. SessType /\ PartType /\ WholeType /\ RecordType
    BY DEF Init, ServerInit, SessType, PartType, WholeType, RecordType
  <1>6. GcType
    BY DEF Init, ServerInit, GcType
  <1>7. DraftType
    BY BlankDraft DEF Init, DraftType, Places
  <1>8. UserType /\ HistoryType
    BY PumpAssumption DEF Init, UserType, HistoryType
  <1> QED
    BY <1>2, <1>4, <1>5, <1>6, <1>7, <1>8 DEF Types

LEMMA Start_IInv == Init => IInv
  <1> SUFFICES ASSUME Init
               PROVE  IInv
    OBVIOUS
  <1>1. \A t \in Threads : job[t].op = "free"
    BY FreeJob DEF Init, ServerInit
  <1>2. \A c \in Pumps : pump[c] = "idle"
    BY DEF Init
  <1>3. draft = Blank /\ card = NoFid /\ gc.sids = {} /\ whole = {}
    BY DEF Init, ServerInit
  <1>4. \A s \in Sids : sess[s] = "none" /\ rows[s] = {} /\ partHas[s] = {}
    BY DEF Init, ServerInit
  <1>5. PlaceInv /\ CardInv /\ AloneInv
    BY <1>2, <1>3 DEF PlaceInv, CardInv, AloneInv, Asking, Late, Blank
  <1>6. WriterInv /\ VerifiedInv /\ RenamedInv
    BY <1>1 DEF WriterInv, VerifiedInv, RenamedInv, WriteOps, FinalOps
  <1>7. PartInv /\ DroppedInv /\ WholeFiles /\ FinalizedHasFile
    BY <1>1, <1>3, <1>4 DEF PartInv, DroppedInv, WholeFiles, FinalizedHasFile
  <1> QED
    BY <1>5, <1>6, <1>7, Start_Types DEF IInv

LEMMA Step_IInv == IInv /\ [Next]_vars => IInv'
  <1> SUFFICES ASSUME IInv, [Next]_vars
               PROVE  IInv'
    OBVIOUS
  <1>1. /\ Types /\ PlaceInv /\ WriterInv /\ PartInv /\ VerifiedInv /\ RenamedInv /\ DroppedInv
        /\ WholeFiles /\ FinalizedHasFile /\ CardInv /\ AloneInv
    BY DEF IInv
  <1>2. JobType' /\ ReplyType' /\ Effect
    BY <1>1, StepDoes DEF Effect
  <1>3. SessType' /\ PartType' /\ WholeType'
    BY <1>1, <1>2, UploadTypes
  <1>4. RecordType' /\ GcType'
    BY <1>1, RecordStep
  <1>5. DraftType' /\ UserType' /\ PlaceInv' /\ CardInv' /\ AloneInv'
    BY <1>1, ClientStep DEF ClientInv
  <1>6. Types'
    BY <1>1, <1>2, <1>3, <1>4, <1>5, HistoryStep DEF Types
  <1>7. WriterInv' /\ PartInv'
    BY <1>1, <1>2, WriterStep, PartStep
  <1>8. VerifiedInv' /\ RenamedInv' /\ DroppedInv'
    BY <1>1, <1>2, VerifiedStep, RenamedStep, DroppedStep
  <1>9. WholeFiles' /\ FinalizedHasFile'
    BY <1>1, <1>2, WholeStep, FinalizedStep
  <1> QED
    BY <1>5, <1>6, <1>7, <1>8, <1>9 DEF IInv

LEMMA Always_IInv == Spec => []IInv
  BY Start_IInv, Step_IInv, PTL DEF Spec

-----------------------------------------------------------------------------
(* The file that the message card names, with any number of pumps.         *)

FileKinds == {"file", "finalized"}
FileOps == {"register", "keep"}

(* The server recorded the session as finalized, if it has it still. *)
Finished(s) == sess[s] \in {"finalized", "deleted"}

(* The server gave out this file id for the bytes of the message. *)
Given(f) == (f \in Sids /\ Finished(f)) \/ \E n \in granted : f = MaxSessions + n

NamedInv ==
  /\ \A c \in Pumps : reply[c].kind \in FileKinds => Given(reply[c].arg)
  /\ \A t \in Threads : job[t].op \in FileOps => Finished(job[t].arg)
  /\ draft.fid # NoFid => Given(draft.fid)
  /\ card # NoFid => Given(card)
  /\ \A c \in Pumps : cur[c].fid # NoFid => Given(cur[c].fid)

(* Only what is listed as expired is deleted. *)
ExpiredInv ==
  /\ \A s \in Sids : sess[s] = "deleted" => s \in old
  /\ gc.step = "delete" => gc.files \subseteq gc.sids

FileInv == NamedInv /\ ExpiredInv

(* Numbers that Recycle leaves alone. *)
InUse(s) ==
  \/ s = draft.fid \/ s = card
  \/ \E c \in Pumps : s = cur[c].fid \/ (reply[c].kind # "none" /\ s = reply[c].arg)
  \/ \E t \in Threads : s = job[t].arg

LEMMA FinishedStays ==
  ASSUME Types, Effect, NEW s \in Sids, Finished(s), InUse(s)
  PROVE  Finished(s)'
  <1>1. CASE Dull
    BY <1>1 DEF Dull, uploads, Finished
  <1>2. ASSUME NEW t \in Threads, Works(t)
        PROVE  Finished(s)'
    <2>1. CASE \/ CreateSession(t) \/ RecordFinal(t) \/ CancelSession(t)
      <3>1. job[t].op \in SidOps => job[t].arg \in Sids
        BY ArgOf DEF Types
      <3> QED
        BY <2>1, <3>1 DEF CreateSession, RecordFinal, CancelSession, Finished, Types, SessType
    <2>2. CASE UNCHANGED sess
      BY <2>2 DEF Finished
    <2> QED
      BY <1>2, <2>1, <2>2 DEF Works, StoreChunk, OpenPart, TruncatePart, WriteChunk,
         FinalizeStart, Verify, Renames, RenamePart, CopyFails, Movable, Spoil, Register, CancelUnlink, db
  <1>3. CASE Takes
    <2>1. CASE \E r \in Sids : Recycle(r)
      <3>1. PICK r \in Sids : Recycle(r)
        BY <2>1
      <3>2. r # s
        BY <3>1 DEF Recycle, InUse
      <3> QED
        BY <3>1, <3>2 DEF Recycle, Finished, Types, SessType
    <2>2. CASE \E r \in Sids : DeleteExpired(r)
      BY <2>2 DEF DeleteExpired, Finished, Types, SessType
    <2>3. CASE UNCHANGED sess
      BY <2>3 DEF Finished
    <2> QED
      BY <1>3, <2>1, <2>2, <2>3 DEF Takes, CollectFile, ListExpired, Foreigns, ForeignUpload, ForeignCopyFails, ForeignRecord, Spoil,
         UnlinkExpired, SessionExpires, db
  <1> QED
    BY <1>1, <1>2, <1>3 DEF Effect

LEMMA GivenStays ==
  ASSUME Types, Effect, granted \subseteq granted', NEW f, Given(f), InUse(f)
  PROVE  Given(f)'
  <1>1. CASE f \in Sids /\ Finished(f)
    BY <1>1, FinishedStays DEF Given
  <1>2. CASE \E n \in granted : f = MaxSessions + n
    BY <1>2 DEF Given
  <1> QED
    BY <1>1, <1>2 DEF Given

-----------------------------------------------------------------------------
(* Answers with a file id.                                                 *)

(* The answers that are new. *)
Answered ==
  \A c \in Pumps : reply'[c] = reply[c] \/ (reply'[c].kind \in FileKinds => Given(reply[c].arg)')

LEMMA AnswerIs ==
  ASSUME Types, NEW t \in Threads, NEW kind, NEW arg, NEW has, Answer(t, kind, arg, has),
         kind \in FileKinds => Given(arg)'
  PROVE  Answered
  <1>1. reply \in [Pumps -> [kind : Kinds, arg : Int, has : SUBSET Chunks]]
    BY PumpAssumption DEF Types, ReplyType
  <1>2. CASE job[t].caller = Nobody
    BY <1>2 DEF Answer, Answered
  <1>3. CASE job[t].caller # Nobody
    <2>1. reply' = [reply EXCEPT ![job[t].caller] = [kind |-> kind, arg |-> arg, has |-> has]]
      BY <1>3 DEF Answer
    <2>2. ASSUME NEW c \in Pumps, c # job[t].caller
          PROVE  reply'[c] = reply[c]
      BY <1>1, <2>1, <2>2
    <2>3. ASSUME NEW c \in Pumps, c = job[t].caller
          PROVE  reply'[c].kind = kind /\ reply'[c].arg = arg
      BY <1>1, <2>1, <2>3
    <2> QED
      BY <2>2, <2>3 DEF Answered
  <1> QED
    BY <1>2, <1>3

LEMMA HandlerAnswers ==
  ASSUME Types, NamedInv, NEW t \in Threads, Handle(t) \/ CopyFails(t)
  PROVE  Answered /\ granted \subseteq granted'
  <1>0. job[t].op \in SidOps => job[t].arg \in Sids
    BY ArgOf DEF Types
  <1>1. CASE \/ ChunkRefused(t) \/ StoreRejected(t) \/ StoreDuplicate(t)
             \/ QueryMissing(t) \/ FinalizeRefused(t) \/ VerifyFails(t)
             \/ RecordRefused(t) \/ ProveUnknown(t) \/ CompareFails(t)
             \/ CancelRefused(t) \/ CancelLate(t)
    <2>1. PICK kind \in {"ok", "404", "409", "410", "500"} : Status(t, kind)
      BY <1>1 DEF ChunkRefused, StoreRejected, StoreDuplicate, QueryMissing,
         FinalizeRefused,
         VerifyFails, RecordRefused, ProveUnknown, CompareFails, CancelRefused, CancelLate,
         ChunkRefusal, FinalizeRefusal
    <2>2. Answer(t, kind, 0, {}) /\ kind \notin FileKinds /\ UNCHANGED granted
      BY <2>1 DEF Status, memory, FileKinds
    <2> QED
      BY <2>2, AnswerIs
  <1>2. CASE CreateInstant(t) \/ CreateReuses(t) \/ CreateSession(t) \/ WriteChunk(t)
    <2>1. \E kind \in {"instant", "session", "ok"}, arg \in Nat, has \in SUBSET Chunks :
            Answer(t, kind, arg, has)
      BY <1>2, Numbers DEF CreateInstant, CreateReuses, CreateSession, WriteChunk, Types, SessType
    <2>2. PICK kind \in {"instant", "session", "ok"}, arg \in Nat, has \in SUBSET Chunks :
            Answer(t, kind, arg, has)
      BY <2>1
    <2>3. kind \notin FileKinds /\ UNCHANGED granted
      BY <1>2, <2>2 DEF CreateInstant, CreateReuses, CreateSession, WriteChunk, memory, FileKinds
    <2> QED
      BY <2>2, <2>3, AnswerIs
  <1>3. CASE \/ CreateMisses(t) \/ ChunkAccepted(t) \/ StoreChunk(t) \/ OpenPart(t)
             \/ TruncatePart(t) \/ FinalizeStart(t) \/ Verify(t) \/ Renames(t)
             \/ RecordFinal(t) \/ Register(t) \/ TakeChallenge(t) \/ Compare(t)
             \/ CancelChecked(t) \/ CancelSession(t)
    <2>1. UNCHANGED <<reply, granted>>
      BY <1>3 DEF CreateMisses, ChunkAccepted, StoreChunk, OpenPart, TruncatePart,
         FinalizeStart, Verify, Renames, RenamePart, CopyFails, Movable, Spoil, RecordFinal, Register, TakeChallenge, Compare,
         CancelChecked, CancelSession, Goto, memory
    <2> QED
      BY <2>1 DEF Answered
  <1>4. CASE Query(t)
    <2>1. Answer(t, sess[job[t].arg], job[t].arg, rows[job[t].arg]) /\ UNCHANGED <<sess, granted>>
      BY <1>4 DEF Query, db, memory
    <2>2. job[t].arg \in Sids
      BY <1>0, <1>4 DEF Query, SidOps
    <2>3. sess[job[t].arg] \in FileKinds => sess'[job[t].arg] = "finalized"
      BY <2>1, <2>2 DEF Types, SessType, FileKinds
    <2> QED
      BY <2>1, <2>2, <2>3, AnswerIs DEF Given, Finished
  <1>5. CASE FinalizeAgain(t) \/ RecordExisting(t) \/ KeepRecord(t)
    <2>1. Answer(t, "file", job[t].arg, {}) /\ UNCHANGED <<sess, granted>>
      BY <1>5 DEF FinalizeAgain, RecordExisting, KeepRecord, db, memory
    <2>2. job[t].arg \in Sids
      BY <1>0, <1>5 DEF FinalizeAgain, RecordExisting, KeepRecord, SidOps, FinalOps
    <2>3. Finished(job[t].arg)
      BY <1>5 DEF FinalizeAgain, RecordExisting, KeepRecord, Finished, NamedInv, FileOps
    <2> QED
      BY <2>1, <2>2, <2>3, AnswerIs DEF Given, Finished
  <1>6. CASE Grant(t)
    <2>1. Answer(t, "file", MaxSessions + job[t].arg, {}) /\ granted' = granted \cup {job[t].arg}
      BY <1>6 DEF Grant
    <2> QED
      BY <2>1, AnswerIs DEF Given
  <1>7. CASE CancelUnlink(t)
    <2>1. /\ reply' = IF job[t].caller = Nobody THEN reply
                      ELSE [reply EXCEPT ![job[t].caller] = [NoReply EXCEPT !.kind = "ok"]]
          /\ UNCHANGED granted
      BY <1>7 DEF CancelUnlink, memory
    <2>2. [NoReply EXCEPT !.kind = "ok"].kind \notin FileKinds
      BY DEF NoReply, FileKinds
    <2>3. reply \in [Pumps -> [kind : Kinds, arg : Int, has : SUBSET Chunks]]
      BY PumpAssumption DEF Types, ReplyType
    <2> QED
      BY <2>1, <2>2, <2>3 DEF Answered
  <1> QED
    BY <1>1, <1>2, <1>3, <1>4, <1>5, <1>6, <1>7 DEF Handle, Renames

(* A pump consumes its answer, or leaves it for its next step. *)
LEMMA PumpAnswers ==
  ASSUME Types, NEW c \in Pumps, Pumped(c)
  PROVE  Answered /\ UNCHANGED granted
  <1>1. Consumes(c) \/ UNCHANGED reply
    BY DEF Pumped, PumpStep, Begin, BeginFinalized, CreateFails, Prove, Attach, Merge,
       ProveFails, GotFile, AskFinalized, AskOpen, AskGone, AskFails, RenewFails, Renew, Resume,
       SendChunk, EndOfChunks, ChunkFails, ChunkDone, Finalize, FinishWithout, FinalizeFails,
       Reread, SendCard, MarkSent, Fails, Adopt
  <1>2. Answered
    <2>1. CASE Consumes(c)
      <3>1. NoReply.kind \notin FileKinds
        BY DEF NoReply, FileKinds
      <3>2. reply \in [Pumps -> [kind : Kinds, arg : Int, has : SUBSET Chunks]]
        BY PumpAssumption DEF Types, ReplyType
      <3> QED
        BY <2>1, <3>1, <3>2 DEF Consumes, Answered
    <2> QED
      BY <1>1, <2>1 DEF Answered
  <1>3. UNCHANGED memory
    BY DEF Pumped, PumpStep, Begin, BeginFinalized, CreateFails, Prove, Attach, Merge,
       ProveFails, GotFile, AskFinalized, AskOpen, AskGone, AskFails, RenewFails, Renew, Resume,
       SendChunk, EndOfChunks, ChunkFails, ChunkDone, Finalize, FinishWithout, FinalizeFails,
       Reread, SendCard, MarkSent, Fails, Adopt, Elsewhere, history, Begins
  <1> QED
    BY <1>2, <1>3 DEF memory

LEMMA StepAnswers ==
  ASSUME Types, NamedInv, [Next]_vars
  PROVE  Answered /\ granted \subseteq granted'
  <1>0. /\ reply \in [Pumps -> [kind : Kinds, arg : Int, has : SUBSET Chunks]]
        /\ NoReply.kind \notin FileKinds /\ LostReply.kind \notin FileKinds
        /\ [NoReply EXCEPT !.kind = "lost"] = LostReply
        /\ [NoReply EXCEPT !.kind = "500"].kind \notin FileKinds
    BY PumpAssumption DEF Types, ReplyType, NoReply, LostReply, FileKinds
  <1>1. CASE \E c \in Pumps : Pumped(c)
    BY <1>1, PumpAnswers
  <1>2. CASE \E t \in Threads : ServerStep(t)
    BY <1>2, HandlerAnswers DEF ServerStep
  <1>3. CASE \/ \E t \in Threads : RequestLost(t) \/ GivesUp(t)
    <2>1. PICK t \in Threads : reply' = [reply EXCEPT ![job[t].caller] = LostReply]
      BY <1>3 DEF RequestLost, GivesUp
    <2>2. UNCHANGED granted
      BY <1>3 DEF RequestLost, GivesUp, memory
    <2> QED
      BY <1>0, <2>1, <2>2 DEF Answered
  <1>4. CASE \E t \in Threads : DiskFails(t)
    <2>1. PICK t \in Threads : CopyFails(t) \/ Status(t, "500")
      BY <1>4 DEF DiskFails, WriteFails
    <2>2. CASE CopyFails(t)
      BY <2>2, HandlerAnswers
    <2>3. CASE Status(t, "500")
      <3>1. Answer(t, "500", 0, {}) /\ "500" \notin FileKinds /\ UNCHANGED granted
        BY <2>3 DEF Status, memory, FileKinds
      <3> QED
        BY <3>1, AnswerIs
    <2> QED
      BY <2>1, <2>2, <2>3
  <1>5. CASE ServerDies
    <2>1. /\ \A c \in Pumps : reply'[c] = reply[c] \/ reply'[c] = LostReply
          /\ UNCHANGED granted
      BY <1>0, <1>5, PumpAssumption DEF ServerDies, ServerRestarts
    <2> QED
      BY <1>0, <2>1 DEF Answered
  <1>6. CASE ClientDies
    <2>1. reply' = [c \in Pumps |-> NoReply] /\ UNCHANGED granted
      BY <1>6 DEF ClientDies, memory
    <2> QED
      BY <1>0, <2>1 DEF Answered
  <1>7. CASE \/ CancelRead \/ CancelSet \/ CardFound \/ CardSaved \/ CardSaveFails \/ CardStored \/ CardRefused \/ ForeignCard
             \/ OtherDevice \/ ForeignDiskFails \/ CollectorStep
             \/ \E s \in Sids : DayPasses(s) \/ Recycle(s)
             \/ \E f \in Fids : RecordDay(f)
             \/ \E n \in Challenges : ChallengeTime(n)
             \/ UNCHANGED vars
    <2>1. UNCHANGED <<reply, granted>>
      BY <1>7 DEF CancelRead, CancelSet, CardFound, CardSaved, CardStored, CardSaveFails, CardArrives, CardRefused, ForeignCard, FindRecord, SaveMedia, EraseRecord, SaveFails,
         OtherDevice, ForeignDiskFails, Foreigns, ForeignUpload, ForeignCopyFails, ForeignRecord, Spoil, CollectorStep, Collect, CollectRecords, ListExpired,
         CollectDone, CollectFile, UnlinkExpired, DeleteExpired, DayPasses, SessionExpires,
         Recycle, RecordDay, RecordAges, ChallengeTime, ChallengeLapses, vars, history, serverVars, memory
    <2> QED
      BY <2>1 DEF Answered
  <1> QED
    BY <1>1, <1>2, <1>3, <1>4, <1>5, <1>6, <1>7 DEF Next, Pumped

-----------------------------------------------------------------------------
(* The draft, the copies of the pumps, and the card.                       *)

(* Where file ids come from: an answer, the draft or a copy of it. *)
Copies(c) ==
  /\ \/ draft'.fid \in {draft.fid, NoFid}
     \/ reply[c].kind \in FileKinds /\ draft'.fid = reply[c].arg
  /\ cur'[c].fid \in {cur[c].fid, draft.fid, draft'.fid, NoFid}
  /\ card' \in {card, cur[c].fid}

LEMMA CopiesDo ==
  ASSUME Types, PlaceInv, NEW c \in Pumps, Pumped(c)
  PROVE  Copies(c)
  <1>0. /\ draft \in Draft /\ cur \in [Pumps -> Draft] /\ reply[c].has \in SUBSET Chunks
        /\ Blank.fid = NoFid
    BY PumpAssumption DEF Types, DraftType, ReplyType, Blank
  <1>1. card' \in {card, cur[c].fid}
    BY PumpLeaves DEF Leaves, Cards
  <1>2. ASSUME Stops(c) PROVE cur'[c].fid = NoFid
    BY <1>0, <1>2 DEF Stops
  <1>3. ASSUME Rereads(c) PROVE cur'[c].fid = draft'.fid
    BY <1>0, <1>3 DEF Rereads
  <1>4. ASSUME NEW st, SetState(st) PROVE draft'.fid = draft.fid
    BY <1>0, <1>4 DEF SetState, Draft
  <1>5. ASSUME NEW is, MarkDone(is) PROVE draft'.fid = draft.fid
    BY <1>0, <1>5 DEF MarkDone, Draft
  <1>6. CASE \/ CreateFails(c) \/ ProveFails(c) \/ AskFails(c)
             \/ RenewFails(c) \/ ChunkFails(c) \/ FinalizeFails(c)
    <2>1. Fails(c)
      BY <1>6 DEF CreateFails, ProveFails, AskFails, RenewFails, ChunkFails, FinalizeFails
    <2> QED
      BY <1>1, <1>2, <1>4, <2>1 DEF Fails, Copies
  <1>7. CASE GotFile(c) \/ AskFinalized(c)
    <2>1. reply[c].kind \in FileKinds /\ Adopt(c, reply[c].arg)
      BY <1>7 DEF GotFile, AskFinalized, FileKinds
    <2>2. draft'.fid \in {draft.fid, reply[c].arg}
      BY <1>0, <2>1 DEF Adopt, Draft
    <2>3. cur'[c].fid \in {cur[c].fid, NoFid}
      BY <1>2, <2>1 DEF Adopt
    <2> QED
      BY <1>1, <2>1, <2>2, <2>3 DEF Copies
  <1>8. CASE \/ Begin(c) \/ BeginFinalized(c) \/ Prove(c) \/ AskGone(c) \/ SendChunk(c)
             \/ EndOfChunks(c) \/ Finalize(c) \/ FinishWithout(c) \/ Reread(c) \/ SendCard(c)
    <2>1. draft' = draft
      BY <1>8 DEF Begin, BeginFinalized, Prove, AskGone, SendChunk, EndOfChunks, Finalize,
         FinishWithout, Reread, SendCard
    <2>2. \/ UNCHANGED cur \/ Rereads(c) \/ Stops(c)
          \/ cur' = [cur EXCEPT ![c] = draft]
      BY <1>8 DEF Begin, BeginFinalized, Prove, AskGone, SendChunk, EndOfChunks, Finalize,
         FinishWithout, Reread, SendCard
    <2> QED
      BY <1>0, <1>1, <1>2, <1>3, <2>1, <2>2 DEF Copies
  <1>9. CASE Attach(c)
    <2>1. draft'.fid = draft.fid
      BY <1>0, <1>9 DEF Attach, Draft
    <2>2. UNCHANGED cur \/ Stops(c)
      BY <1>9 DEF Attach
    <2> QED
      BY <1>1, <1>2, <2>1, <2>2 DEF Copies
  <1>10. CASE Merge(c) \/ AskOpen(c)
    <2>1. MarkDone(reply[c].has) /\ (Rereads(c) \/ UNCHANGED cur)
      BY <1>10 DEF Merge, AskOpen
    <2> QED
      BY <1>1, <1>3, <1>5, <2>1 DEF Copies
  <1>11. CASE Renew(c)
    <2>1. draft'.fid \in {draft.fid, NoFid}
      BY <1>11 DEF Renew
    <2>2. Rereads(c) \/ Stops(c)
      BY <1>11 DEF Renew
    <2> QED
      BY <1>1, <1>2, <1>3, <2>1, <2>2 DEF Copies
  <1>12. CASE Resume(c) \/ MarkSent(c)
    <2>1. draft' = draft \/ \E st \in {"Uploading", "Sent"} : SetState(st)
      BY <1>12 DEF Resume, MarkSent
    <2>2. UNCHANGED cur \/ Rereads(c) \/ Stops(c)
      BY <1>12 DEF Resume, MarkSent
    <2> QED
      BY <1>1, <1>2, <1>3, <1>4, <2>1, <2>2 DEF Copies
  <1>13. CASE ChunkDone(c)
    <2>1. MarkDone({NextMissing(c)})
      BY <1>13 DEF ChunkDone
    <2>2. Stops(c) \/ cur' = [cur EXCEPT ![c].done = @ \cup {NextMissing(c)}]
      BY <1>13 DEF ChunkDone
    <2>3. cur'[c].fid \in {cur[c].fid, NoFid}
      BY <1>0, <1>2, <2>2 DEF Draft
    <2> QED
      BY <1>1, <1>5, <2>1, <2>3 DEF Copies
  <1> QED
    BY <1>6, <1>7, <1>8, <1>9, <1>10, <1>11, <1>12, <1>13 DEF Pumped, PumpStep

LEMMA StepCopies ==
  ASSUME Types, PlaceInv, [Next]_vars
  PROVE  \/ \E c \in Pumps : Copies(c) /\ \A d \in Pumps : d # c => cur'[d] = cur[d]
         \/ /\ draft'.fid = draft.fid /\ card' = card
            /\ \A d \in Pumps : cur'[d].fid \in {cur[d].fid, NoFid}
  <1>1. CASE \E c \in Pumps : Pumped(c)
    BY <1>1, CopiesDo, PumpLeaves DEF Leaves
  <1>2. CASE CancelSet
    BY <1>2, SetStateDoes DEF CancelSet, Types, DraftType
  <1>3. CASE ClientDies
    BY <1>3 DEF ClientDies, Blank
  <1>4. CASE \/ CancelRead \/ CardFound \/ CardSaved \/ CardSaveFails \/ CardStored \/ CardRefused \/ ForeignCard
             \/ OtherDevice \/ ForeignDiskFails \/ CollectorStep \/ ServerDies
             \/ \E t \in Threads : ServerStep(t) \/ RequestLost(t) \/ GivesUp(t) \/ DiskFails(t)
             \/ \E s \in Sids : DayPasses(s) \/ Recycle(s)
             \/ \E f \in Fids : RecordDay(f)
             \/ \E n \in Challenges : ChallengeTime(n)
             \/ UNCHANGED vars
    <2>1. UNCHANGED <<draft, cur, card>>
      BY <1>4 DEF CancelRead, CardFound, CardSaved, CardStored, CardSaveFails, CardArrives, CardRefused, ForeignCard, OtherDevice, ForeignDiskFails, CollectorStep,
         ServerDies, ServerStep, RequestLost, GivesUp, DiskFails, ForeignDiskFails, DayPasses, Recycle, RecordDay,
         ChallengeTime, vars, history, clientVars
    <2> QED
      BY <2>1
  <1> QED
    BY <1>1, <1>2, <1>3, <1>4 DEF Next, Pumped

-----------------------------------------------------------------------------
(* Requests of a finalized session, and what is deleted.                   *)

LEMMA RegisterStep ==
  ASSUME Types, NamedInv, Effect
  PROVE  \A t \in Threads : job'[t].op \in FileOps => Finished(job[t].arg)'
  <1>1. ASSUME NEW u \in Threads, job'[u].op \in FileOps, Going(u, FileOps)
        PROVE  Finished(job[u].arg)'
    <2>1. job[u].op \in FileOps /\ job'[u].arg = job[u].arg
      BY <1>1 DEF Going
    <2>2. job[u].arg \in Sids /\ Finished(job[u].arg) /\ InUse(job[u].arg)
      BY <2>1, ArgOf DEF Types, NamedInv, InUse, SidOps, FinalOps, FileOps
    <2>3. PICK s \in Sids : s = job[u].arg
      BY <2>2
    <2>4. Finished(s)'
      BY <2>2, <2>3, FinishedStays
    <2> QED
      BY <2>1, <2>3, <2>4 DEF Finished
  <1>2. CASE Dull
    BY <1>1, <1>2, StillGoing DEF Dull, Going, FileOps, FinalOps
  <1>3. CASE Takes
    BY <1>1, <1>3, StillGoing DEF Takes, Going, FileOps, FinalOps
  <1>4. ASSUME NEW t \in Threads, Works(t)
        PROVE  \A u \in Threads : job'[u].op \in FileOps => Finished(job[u].arg)'
    <2>1. CASE RecordFinal(t) /\ Moves(t, "register")
      <3>1. job[t].arg \in Sids /\ job'[t].arg = job[t].arg
        BY <2>1, ArgOf DEF RecordFinal, Moves, SidOps, FinalOps, Types
      <3>2. sess'[job'[t].arg] = "finalized"
        BY <2>1, <3>1 DEF RecordFinal, Types, SessType
      <3>3. \A u \in Threads : u # t => Going(u, FileOps)
        BY <2>1, MovesGoing
      <3> QED
        BY <1>1, <3>2, <3>3 DEF Finished
    <2>2. CASE Register(t) /\ Moves(t, "keep")
      <3>1. job[t].op \in FileOps /\ job'[t].arg = job[t].arg /\ sess' = sess
        BY <2>2 DEF Register, Moves, FileOps
      <3>2. sess'[job'[t].arg] \in {"finalized", "deleted"}
        BY <3>1 DEF NamedInv, Finished
      <3>3. \A u \in Threads : u # t => Going(u, FileOps)
        BY <2>2, MovesGoing
      <3> QED
        BY <1>1, <3>2, <3>3 DEF Finished
    <2>3. CASE Ends(t)
      BY <1>1, <2>3, EndsGoing DEF Going, FileOps, FinalOps
    <2>4. CASE \E op : Moves(t, op) /\ op \notin FileOps
      <3>1. \A u \in Threads : Going(u, FileOps)
        BY <2>4, MovesGoing DEF Moves, Going
      <3> QED
        BY <1>1, <3>1
    <2> QED
      BY <1>4, <2>1, <2>2, <2>3, <2>4 DEF Works, FileOps
  <1> QED
    BY <1>2, <1>3, <1>4 DEF Effect

LEMMA DeletedIsOld ==
  ASSUME Types, DroppedInv, ExpiredInv, Effect
  PROVE  \A s \in Sids : sess'[s] = "deleted" => s \in old'
  <1>1. CASE Dull
    BY <1>1 DEF Dull, uploads, ExpiredInv
  <1>2. ASSUME NEW t \in Threads, Works(t)
        PROVE  \A s \in Sids : sess'[s] = "deleted" => s \in old'
    <2>1. CASE CreateSession(t) \/ RecordFinal(t) \/ CancelSession(t)
      BY <2>1 DEF CreateSession, RecordFinal, CancelSession, ExpiredInv, Types, SessType
    <2>2. CASE UNCHANGED <<sess, old>>
      BY <2>2 DEF ExpiredInv
    <2> QED
      BY <1>2, <2>1, <2>2 DEF Works, StoreChunk, OpenPart, TruncatePart, WriteChunk,
         FinalizeStart, Verify, Renames, RenamePart, CopyFails, Movable, Spoil, Register, CancelUnlink, db
  <1>3. CASE Takes
    <2>1. CASE \E r \in Sids : Recycle(r)
      BY <2>1 DEF Recycle, ExpiredInv, Types, SessType
    <2>2. CASE \E r \in Sids : DeleteExpired(r)
      BY <2>2 DEF DeleteExpired, ExpiredInv, DroppedInv, Types, SessType
    <2>3. CASE \E r \in Sids : SessionExpires(r)
      BY <2>3 DEF SessionExpires, ExpiredInv
    <2>4. CASE UNCHANGED <<sess, old>>
      BY <2>4 DEF ExpiredInv
    <2> QED
      BY <1>3, <2>1, <2>2, <2>3, <2>4 DEF Takes, CollectFile, ListExpired, Foreigns, ForeignUpload, ForeignCopyFails, ForeignRecord, Spoil,
         UnlinkExpired, db
  <1> QED
    BY <1>1, <1>2, <1>3 DEF Effect

LEMMA DeletesListed ==
  ASSUME Types, ExpiredInv, PlaceInv, [Next]_vars
  PROVE  gc'.step = "delete" => gc'.files \subseteq gc'.sids
  <1>1. CASE \E c \in Pumps : Pumped(c)
    BY <1>1, PumpAsks DEF Aside, ExpiredInv
  <1>2. CASE \E t \in Threads : ServerStep(t)
    BY <1>2, HandlerRecords DEF ServerStep, ExpiredInv
  <1>3. CASE CollectorStep
    <2>1. gc \in [step : {"sleep", "files", "unlink", "delete"}, files : SUBSET Paths, sids : SUBSET Sids]
      BY DEF Types, GcType
    <2>2. CASE CollectRecords \/ ListExpired \/ CollectDone \/ \E s \in Sids : DeleteExpired(s)
      <3>1. gc'.step # "delete"
        BY <2>1, <2>2 DEF CollectRecords, ListExpired, CollectDone, DeleteExpired
      <3> QED
        BY <3>1
    <2>3. CASE \E p \in Paths : CollectFile(p)
      <3>1. gc'.step # "delete"
        BY <2>1, <2>3 DEF CollectFile
      <3> QED
        BY <3>1
    <2>4. ASSUME NEW s \in Sids, UnlinkExpired(s)
          PROVE  gc'.files \subseteq gc'.sids
      <3>1. gc' = [gc EXCEPT !.step = "delete", !.files = {s}] /\ s \in gc.sids
        BY <2>4 DEF UnlinkExpired
      <3>2. gc'.files = {s} /\ gc'.sids = gc.sids
        BY <2>1, <3>1
      <3> QED
        BY <3>1, <3>2
    <2> QED
      BY <1>3, <2>2, <2>3, <2>4 DEF CollectorStep, Collect
  <1>4. CASE ServerDies
    BY <1>4 DEF ServerDies, ServerRestarts
  <1>5. CASE \/ CancelRead \/ CancelSet \/ CardFound \/ CardSaved \/ CardSaveFails \/ CardStored \/ CardRefused \/ ForeignCard
             \/ OtherDevice \/ ForeignDiskFails \/ ClientDies
             \/ \E t \in Threads : RequestLost(t) \/ GivesUp(t) \/ DiskFails(t)
             \/ \E s \in Sids : DayPasses(s) \/ Recycle(s)
             \/ \E f \in Fids : RecordDay(f)
             \/ \E n \in Challenges : ChallengeTime(n)
             \/ UNCHANGED vars
    <2>1. UNCHANGED gc
      BY <1>5 DEF CancelRead, CancelSet, CardFound, CardSaved, CardStored, CardSaveFails, CardArrives, CardRefused, ForeignCard, FindRecord, SaveMedia, EraseRecord, SaveFails,
         OtherDevice, Foreigns, ForeignUpload, ForeignCopyFails, ForeignRecord, Spoil, ClientDies, RequestLost, GivesUp, DiskFails, ForeignDiskFails, CopyFails, WriteFails,
         Status, DayPasses, SessionExpires, Recycle, RecordDay, RecordAges, ChallengeTime,
         ChallengeLapses, vars, history, serverVars
    <2> QED
      BY <2>1 DEF ExpiredInv
  <1> QED
    BY <1>1, <1>2, <1>3, <1>4, <1>5 DEF Next, Pumped

-----------------------------------------------------------------------------
(* The second invariant.                                                   *)

LEMMA Start_FileInv == Init => FileInv
  <1> SUFFICES ASSUME Init
               PROVE  FileInv
    OBVIOUS
  <1>1. \A c \in Pumps : reply[c].kind = "none" /\ cur[c].fid = NoFid
    BY PumpAssumption DEF Init, ServerInit, NoReply, Blank
  <1>2. \A t \in Threads : job[t].op = "free"
    BY FreeJob DEF Init, ServerInit
  <1>3. draft.fid = NoFid /\ card = NoFid /\ gc.step = "sleep"
    BY DEF Init, ServerInit, Blank
  <1>4. \A s \in Sids : sess[s] = "none"
    BY DEF Init, ServerInit
  <1> QED
    BY <1>1, <1>2, <1>3, <1>4 DEF FileInv, NamedInv, ExpiredInv, FileKinds, FileOps

LEMMA Step_FileInv == IInv /\ FileInv /\ [Next]_vars => FileInv'
  <1> SUFFICES ASSUME IInv, FileInv, [Next]_vars
               PROVE  FileInv'
    OBVIOUS
  <1>1. Types /\ PlaceInv /\ DroppedInv /\ NamedInv /\ ExpiredInv
    BY DEF IInv, FileInv
  <1>2. Effect
    BY <1>1, StepDoes DEF Effect
  <1>3. Answered /\ granted \subseteq granted'
    BY <1>1, StepAnswers
  <1>4. ASSUME NEW f, Given(f), InUse(f)
        PROVE  Given(f)'
    BY <1>1, <1>2, <1>3, <1>4, GivenStays
  <1>5. ASSUME NEW c \in Pumps, reply[c].kind \in FileKinds
        PROVE  Given(reply[c].arg) /\ InUse(reply[c].arg)
    BY <1>1, <1>5 DEF NamedInv, InUse, FileKinds
  <1>6. ASSUME NEW c \in Pumps, reply'[c].kind \in FileKinds
        PROVE  Given(reply[c].arg)'
    <2>1. CASE reply'[c] = reply[c]
      <3>1. PICK f : f = reply[c].arg
        OBVIOUS
      <3>2. Given(f) /\ InUse(f)
        BY <1>5, <1>6, <2>1, <3>1
      <3> QED
        BY <1>4, <2>1, <3>1, <3>2 DEF Given, Finished
    <2> QED
      BY <1>3, <1>6, <2>1 DEF Answered
  (* The ids that the step finds in the draft, on the card, in a copy or in an answer. *)
  <1> DEFINE Found(f) == Given(f) /\ InUse(f)
  <1>7. /\ draft.fid # NoFid => Found(draft.fid)
        /\ card # NoFid => Found(card)
        /\ \A c \in Pumps : cur[c].fid # NoFid => Found(cur[c].fid)
        /\ \A c \in Pumps : reply[c].kind \in FileKinds => Found(reply[c].arg)
    BY <1>1, <1>5 DEF NamedInv, InUse
  <1> DEFINE AllFound ==
    /\ draft'.fid # NoFid => Found(draft'.fid)
    /\ card' # NoFid => Found(card')
    /\ \A c \in Pumps : cur'[c].fid # NoFid => Found(cur'[c].fid)
  <1>8. AllFound
    <2> HIDE DEF Found
    <2>1. ASSUME NEW c \in Pumps, Copies(c), \A d \in Pumps : d # c => cur'[d] = cur[d]
          PROVE  AllFound
      BY <1>7, <2>1 DEF Copies
    <2>2. CASE /\ draft'.fid = draft.fid /\ card' = card
               /\ \A d \in Pumps : cur'[d].fid \in {cur[d].fid, NoFid}
      BY <1>7, <2>2
    <2> QED
      BY <1>1, <2>1, <2>2, StepCopies
  <1>9. ASSUME NEW f, Found(f)
        PROVE  (f \in Sids /\ sess'[f] \in {"finalized", "deleted"}) \/ \E n \in granted' : f = MaxSessions + n
    BY <1>4, <1>9 DEF Given, Finished
  <1>10. NamedInv'
    <2>1. \A t \in Threads : job'[t].op \in FileOps => Finished(job[t].arg)'
      BY <1>1, <1>2, RegisterStep
    <2>2. draft'.fid # NoFid => Given(draft.fid)'
      BY <1>8, <1>9 DEF Given, Finished
    <2>3. card' # NoFid => Given(card)'
      BY <1>8, <1>9 DEF Given, Finished
    <2>4. \A c \in Pumps : cur'[c].fid # NoFid => Given(cur[c].fid)'
      BY <1>8, <1>9 DEF Given, Finished
    <2> QED
      BY <1>6, <2>1, <2>2, <2>3, <2>4 DEF NamedInv
  <1>11. ExpiredInv'
    BY <1>1, <1>2, DeletedIsOld, DeletesListed DEF ExpiredInv
  <1> QED
    BY <1>10, <1>11 DEF FileInv

LEMMA Always_FileInv == Spec => []FileInv
  BY Always_IInv, Start_FileInv, Step_FileInv, PTL DEF Spec

-----------------------------------------------------------------------------
(* The theorems.                                                           *)

(* Every variable keeps its type: in particular a draft and a message card *)
(* name file ids that the server gave out, whatever answer was lost        *)
(* (MediaService::processVariant, HttpFileServer).                         *)
THEOREM TypeCorrect == Spec => []TypeOK
  <1>1. IInv => TypeOK
    BY PumpAssumption DEF IInv, Types, ReplyType, SessType, PartType, WholeType, RecordType,
       DraftType, UserType, HistoryType, TypeOK
  <1> QED
    BY <1>1, Always_IInv, PTL

(* A file under its final name has all its bytes, unless a copy to that    *)
(* name failed and its error was dropped: no late or repeated chunk,       *)
(* truncation or second finalizer puts another one there                   *)
(* (handleUploadChunk, handleFinalizeUpload).                              *)
THEOREM FilesAreWhole == Spec => []WholeFiles
  <1>1. IInv => WholeFiles
    BY DEF IInv
  <1> QED
    BY <1>1, Always_IInv, PTL

(* A session that is recorded as finalized has its file, until it expires  *)
(* or the collector takes the file, unless both the rename and the copy    *)
(* failed: the file is moved before finalizeUploadSession, and nobody      *)
(* drops the .part file of an open session in between.                     *)
THEOREM FinalizedKeepsFile == Spec => []FinalizedHasFile
  <1>1. IInv => FinalizedHasFile
    BY DEF IInv
  <1> QED
    BY <1>1, Always_IInv, PTL

(* A draft marked as sent has a message card; with one pump it names the   *)
(* draft's file (MediaService::pumpMessage, sendMessageCard).              *)
THEOREM SentMeansCard == Spec => []SentHasCard
  <1>1. IInv => SentHasCard
    BY DEF IInv, CardInv, AloneInv, SentHasCard
  <1> QED
    BY <1>1, Always_IInv, PTL

(* A draft that is sent or cancelled stays so, and a message card never    *)
(* changes, with any number of pumps (setUploadDraftState, sendMessageCard). *)
THEOREM TerminalIsFinal == Spec => TerminalStays
  <1>1. IInv /\ [Next]_vars =>
          [/\ draft.state \in Terminal => draft'.state = draft.state
           /\ card # NoFid => card' = card]_vars
    BY ClientStep DEF IInv, Firm
  <1> QED
    BY <1>1, Always_IInv, PTL DEF Spec, TerminalStays

(* The bytes of a file, as far as the disk and the collector left them. *)
Stored(p) == p \in removed \cup spoiled \/ (p \in whole /\ wholeHas[p] = Chunks)

(* However many pumps race for a message, and whatever answer is lost or   *)
(* late, its card names a file that the server gave out for these bytes:   *)
(* one granted for a proof, or that of a finalized session.  Until the     *)
(* session expires its bytes are there, all of them, unless the collector  *)
(* took the file or a copy to its name failed                              *)
(* (MediaService::processVariant, setUploadDraftFileId, sendMessageCard,   *)
(* handleFinalizeUpload).                                                  *)
CardNamesFile ==
  card # NoFid =>
    \/ \E n \in granted : card = MaxSessions + n
    \/ /\ card \in Sids
       /\ card \notin old => sess[card] = "finalized" /\ Stored(PathOf(card))

THEOREM CardIsGiven == Spec => []CardNamesFile
  <1>1. IInv /\ FileInv => CardNamesFile
    <2> SUFFICES ASSUME IInv, FileInv, card # NoFid
                 PROVE  \/ \E n \in granted : card = MaxSessions + n
                        \/ /\ card \in Sids
                           /\ card \notin old => sess[card] = "finalized" /\ Stored(PathOf(card))
      BY DEF CardNamesFile
    <2>1. CASE \E n \in granted : card = MaxSessions + n
      BY <2>1
    <2>2. CASE card \in Sids /\ Finished(card)
      <3>1. card \notin old => sess[card] = "finalized"
        BY <2>2 DEF FileInv, ExpiredInv, Finished
      <3>2. card \notin old => PathOf(card) \in whole \cup removed \cup spoiled
        BY <2>2, <3>1 DEF IInv, FinalizedHasFile
      <3>3. PathOf(card) \in whole \ spoiled => wholeHas[PathOf(card)] = Chunks
        BY DEF IInv, WholeFiles
      <3> QED
        BY <2>2, <3>1, <3>2, <3>3 DEF Stored
    <2> QED
      BY <2>1, <2>2 DEF FileInv, NamedInv, Given
  <1> QED
    BY <1>1, Always_IInv, Always_FileInv, PTL
=============================================================================
