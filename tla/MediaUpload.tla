---------------------------- MODULE MediaUpload ----------------------------
(***************************************************************************)
(* The client's side of an upload (media/MediaService.cpp and the          *)
(* upload_drafts table) together with UploadServer: one message with one   *)
(* file.  A pump is one call of pumpMessage, by the retry loop of the      *)
(* controller or by resumeAll; several may run for the same message, and   *)
(* the user may cancel at any time.  A pump sends one request and waits:   *)
(* an answer, or a network error when the request or the answer is lost,   *)
(* the wait times out or the server restarts.                              *)
(*                                                                         *)
(* The message card goes through the outbox (module Outbox): here it is    *)
(* delivered to onChat once.                                               *)
(***************************************************************************)
EXTENDS UploadServer

CONSTANTS
    Pumps,      \* calls of pumpMessage that may run at one time
    MaxFaults   \* bound: lost packets, failed writes, crashes of either side

ASSUME PumpAssumption == Pumps = Callers /\ MaxFaults \in Nat

NoSid == 0
NoFid == 0
Terminal == {"Sent", "Cancelled"}
(* What a pump may go on with: state IN(0,1,5). *)
Open == {"Pending", "Uploading", "Failed"}

VARIABLES
    draft,      \* the row of upload_drafts
    pump,       \* where a pump stands
    cur,        \* its copy of the draft
    cancel,     \* where the user's cancel stands
    card,       \* the file id in the message card, NoFid before there is one
    sent,       \* what onChat said: "no" answer yet, "stored" or "refused"
    faults,     \* faults so far
    quiet       \* history: pumps that began on good terms, undisturbed since

clientVars == <<draft, pump, cur, cancel, card, sent>>
history == <<faults, quiet>>
vars == <<serverVars, clientVars, history>>

Blank == [state |-> "Pending", up |-> NoSid, done |-> {}, fid |-> NoFid]

Init ==
    /\ ServerInit
    /\ draft = Blank
    /\ pump = [c \in Pumps |-> "idle"]
    /\ cur = [c \in Pumps |-> Blank]
    /\ cancel = [step |-> "no", up |-> NoSid]
    /\ card = NoFid /\ sent = "no"
    /\ faults = 0 /\ quiet = {}

Fault == faults < MaxFaults /\ faults' = faults + 1 /\ quiet' = {}

Goes(c, to) == pump' = [pump EXCEPT ![c] = to]
Stops(c) == pump' = [pump EXCEPT ![c] = "idle"] /\ cur' = [cur EXCEPT ![c] = Blank]
Rereads(c) == cur' = [cur EXCEPT ![c] = draft']
Consumes(c) == reply' = [reply EXCEPT ![c] = NoReply]
Elsewhere == UNCHANGED <<db, disk, memory, gc, cancel, card, sent, history>>

(* An error answer: any status but 200, or none at all ("lost"). *)
Bad(c) == reply[c].kind \in {"lost", "404", "409", "410", "500"}
Lost404(c) == reply[c].kind = "404"

(* setUploadDraftState: a terminal state stays. *)
SetState(st) == draft' = IF draft.state \in Terminal THEN draft ELSE [draft EXCEPT !.state = st]

(* markUploadChunkDone, once for each index *)
MarkDone(is) ==
    draft' = IF draft.state \in Terminal THEN draft ELSE [draft EXCEPT !.done = @ \cup is]

-----------------------------------------------------------------------------
(* pumpMessage and processVariant                                          *)

(* failDraft, and the call returns. *)
Fails(c) == SetState("Failed") /\ Stops(c) /\ Consumes(c) /\ UNCHANGED job /\ Elsewhere

(* The draft names a session that the server no longer serves. *)
LosesSession == draft.up # NoSid /\ sess[draft.up] \notin {"open", "finalized"}

(* Nothing of an earlier attempt is under way, what the server records is  *)
(* on its disk, no session has expired, a lost one is not answered with an *)
(* instant offer, and the record of a given file is still there.  Each of  *)
(* these is needed: without it an attempt can fail although nothing        *)
(* disturbs it (see the README).                                           *)
GoodTerms(c) ==
    /\ \A d \in Pumps : pump[d] = "idle"
    /\ \A t \in Threads : job[t] = NoJob
    /\ \A p \in whole : wholeHas[p] = Chunks
    /\ \A s \in Sids : sess[s] = "open" => s \notin old /\ rows[s] \subseteq partHas[s]
    /\ LosesSession => Known = {}
    /\ draft.up # NoSid /\ sess[draft.up] = "finalized" => record[draft.up] # NoPath
    /\ draft.state = "Finalized" => record[draft.fid] # NoPath

Begins(c) ==
    /\ quiet' = IF GoodTerms(c) THEN {c} ELSE {}
    /\ UNCHANGED <<db, disk, memory, gc, cancel, card, sent, faults>>

Begin(c) ==
    /\ pump[c] = "idle" /\ draft.state \in Open
    /\ UNCHANGED draft /\ Rereads(c)
    /\ IF draft.up = NoSid
       THEN Submit(c, "create", 0, 0) /\ Goes(c, "creating")
       ELSE Submit(c, "query", draft.up, 0) /\ Goes(c, "asking")
    /\ UNCHANGED reply /\ Begins(c)

BeginFinalized(c) ==
    /\ pump[c] = "idle" /\ draft.state = "Finalized"
    /\ Goes(c, "reread")
    /\ UNCHANGED <<draft, cur, job, reply>> /\ Begins(c)

CreateFails(c) == pump[c] = "creating" /\ Bad(c) /\ Fails(c)

(* An instant upload: the proof is read from the local file. *)
Prove(c) ==
    /\ pump[c] = "creating" /\ reply[c].kind = "instant"
    /\ Submit(c, "prove", reply[c].arg, 0)
    /\ Goes(c, "proving") /\ Consumes(c)
    /\ UNCHANGED <<draft, cur>> /\ Elsewhere

(* setUploadDraftSession *)
Attach(c) ==
    /\ pump[c] = "creating" /\ reply[c].kind = "session"
    /\ IF draft.state \in Open
       THEN /\ draft' = [draft EXCEPT !.up = reply[c].arg, !.state = "Uploading"]
            /\ Goes(c, "merging")
            /\ UNCHANGED <<cur, reply>>
       ELSE UNCHANGED draft /\ Stops(c) /\ Consumes(c)
    /\ UNCHANGED job /\ Elsewhere

(* The chunks the server has are marked, the draft is read again, and the  *)
(* session is asked for.                                                   *)
Merge(c) ==
    /\ pump[c] = "merging"
    /\ MarkDone(reply[c].has) /\ Rereads(c)
    /\ Submit(c, "query", draft'.up, 0)
    /\ Goes(c, "asking") /\ Consumes(c)
    /\ Elsewhere

ProveFails(c) == pump[c] = "proving" /\ Bad(c) /\ Fails(c)

(* setUploadDraftFileId *)
Adopt(c, f) ==
    /\ IF draft.state \in Open \/ (draft.state = "Finalized" /\ draft.fid = f)
       THEN /\ draft' = [draft EXCEPT !.fid = f, !.state = "Finalized"]
            /\ Goes(c, "reread") /\ UNCHANGED cur
       ELSE UNCHANGED draft /\ Stops(c)
    /\ Consumes(c) /\ UNCHANGED job /\ Elsewhere

(* The answer to a proof or to finalize. *)
GotFile(c) ==
    /\ pump[c] \in {"proving", "finalizing"} /\ reply[c].kind = "file"
    /\ Adopt(c, reply[c].arg)

(* The answer to an earlier finalize was lost. *)
AskFinalized(c) ==
    /\ pump[c] = "asking" /\ reply[c].kind = "finalized"
    /\ Adopt(c, reply[c].arg)

(* The server's chunks are marked; the pump's copy is not read again. *)
AskOpen(c) ==
    /\ pump[c] = "asking" /\ reply[c].kind = "open"
    /\ MarkDone(reply[c].has)
    /\ Goes(c, "resume") /\ Consumes(c)
    /\ UNCHANGED <<cur, job>> /\ Elsewhere

(* The session is cancelled or collected: a new one. *)
AskGone(c) ==
    /\ pump[c] = "asking" /\ reply[c].kind \in {"cancelled", "404", "410"}
    /\ Submit(c, "create", 0, 0)
    /\ Goes(c, "renewing") /\ Consumes(c)
    /\ UNCHANGED <<draft, cur>> /\ Elsewhere

AskFails(c) == pump[c] = "asking" /\ Bad(c) /\ ~Lost404(c) /\ Fails(c)

(* An instant offer is taken for a failure here. *)
RenewFails(c) == pump[c] = "renewing" /\ (Bad(c) \/ reply[c].kind = "instant") /\ Fails(c)

(* Mutant: the chunks sent to the lost session still count as sent. *)
RenewKeepsProgress(c) ==
    /\ pump[c] = "renewing" /\ reply[c].kind = "session"
    /\ IF draft.state \in Open
       THEN /\ draft' = [draft EXCEPT !.state = "Uploading", !.up = reply[c].arg]
            /\ Rereads(c) /\ Goes(c, "resume")
       ELSE UNCHANGED draft /\ Stops(c)
    /\ Consumes(c) /\ UNCHANGED job /\ Elsewhere

(* resetUploadDraftForNewSession: progress starts again. *)
Renew(c) ==
    /\ pump[c] = "renewing" /\ reply[c].kind = "session"
    /\ IF draft.state \in Open
       THEN /\ draft' = [state |-> "Uploading", up |-> reply[c].arg, done |-> {}, fid |-> NoFid]
            /\ Rereads(c) /\ Goes(c, "resume")
       ELSE UNCHANGED draft /\ Stops(c)
    /\ Consumes(c) /\ UNCHANGED job /\ Elsewhere

Resume(c) ==
    /\ pump[c] = "resume"
    /\ IF cur[c].state # "Failed"
       THEN UNCHANGED <<draft, cur>> /\ Goes(c, "next")
       ELSE IF draft.state \in Terminal THEN UNCHANGED draft /\ Stops(c)
       ELSE SetState("Uploading") /\ Rereads(c) /\ Goes(c, "next")
    /\ UNCHANGED <<job, reply>> /\ Elsewhere

Missing(c) == Chunks \ cur[c].done
NextMissing(c) == CHOOSE i \in Missing(c) : \A j \in Missing(c) : i <= j

(* Before each chunk the state is read again: the user may have cancelled. *)
SendChunk(c) ==
    /\ pump[c] = "next" /\ cur[c].state = "Uploading" /\ Missing(c) # {}
    /\ draft.state = "Uploading"
    /\ Submit(c, "chunk", cur[c].up, NextMissing(c))
    /\ Goes(c, "sending")
    /\ UNCHANGED <<draft, cur, reply>> /\ Elsewhere

EndOfChunks(c) ==
    /\ pump[c] = "next"
    /\ \/ cur[c].state # "Uploading" /\ UNCHANGED cur
       \/ /\ cur[c].state = "Uploading"
          /\ Missing(c) = {} \/ draft.state # "Uploading"
          /\ cur' = [cur EXCEPT ![c] = draft]
    /\ Goes(c, "finish")
    /\ UNCHANGED <<draft, job, reply>> /\ Elsewhere

ChunkFails(c) == pump[c] = "sending" /\ Bad(c) /\ Fails(c)

ChunkDone(c) ==
    /\ pump[c] = "sending" /\ reply[c].kind = "ok"
    /\ MarkDone({NextMissing(c)})
    /\ IF draft.state \in Terminal THEN Stops(c)
       ELSE /\ cur' = [cur EXCEPT ![c].done = @ \cup {NextMissing(c)}]
            /\ Goes(c, "next")
    /\ Consumes(c) /\ UNCHANGED job /\ Elsewhere

Finalize(c) ==
    /\ pump[c] = "finish" /\ cur[c].state = "Uploading" /\ Missing(c) = {}
    /\ Submit(c, "finalize", cur[c].up, 0)
    /\ Goes(c, "finalizing")
    /\ UNCHANGED <<draft, cur, reply>> /\ Elsewhere

FinishWithout(c) ==
    /\ pump[c] = "finish" /\ (cur[c].state # "Uploading" \/ Missing(c) # {})
    /\ Goes(c, "reread")
    /\ UNCHANGED <<draft, cur, job, reply>> /\ Elsewhere

FinalizeFails(c) == pump[c] = "finalizing" /\ Bad(c) /\ Fails(c)

(* Mutant: the card is made from the copy the pump began with. *)
RereadNothing(c) ==
    /\ pump[c] = "reread"
    /\ UNCHANGED <<draft, cur>>
    /\ Goes(c, "card")
    /\ UNCHANGED <<job, reply>> /\ Elsewhere

(* pumpMessage reads the draft once more. *)
Reread(c) ==
    /\ pump[c] = "reread"
    /\ UNCHANGED draft
    /\ IF draft.state \in {"Finalized", "Sent"} THEN Rereads(c) /\ Goes(c, "card") ELSE Stops(c)
    /\ UNCHANGED <<job, reply>> /\ Elsewhere

(* sendMessageCard: the card and its outbox row, unless there is one. *)
SendCard(c) ==
    /\ pump[c] = "card"
    /\ card' = IF card = NoFid THEN cur[c].fid ELSE card
    /\ Goes(c, "mark")
    /\ UNCHANGED <<draft, cur, job, reply, db, disk, memory, gc, cancel, sent, history>>

MarkSent(c) ==
    /\ pump[c] = "mark"
    /\ SetState("Sent") /\ Stops(c)
    /\ UNCHANGED <<job, reply>> /\ Elsewhere

PumpStep(c) ==
    \/ CreateFails(c) \/ Prove(c) \/ Attach(c) \/ Merge(c) \/ ProveFails(c) \/ GotFile(c)
    \/ AskFinalized(c) \/ AskOpen(c) \/ AskGone(c) \/ AskFails(c) \/ RenewFails(c) \/ Renew(c)
    \/ Resume(c) \/ SendChunk(c) \/ EndOfChunks(c) \/ ChunkFails(c) \/ ChunkDone(c)
    \/ Finalize(c) \/ FinishWithout(c) \/ FinalizeFails(c) \/ Reread(c) \/ SendCard(c)
    \/ MarkSent(c)

-----------------------------------------------------------------------------
(* cancel, on the user's thread                                            *)

CancelRead ==
    /\ cancel.step = "no" /\ draft.state \notin Terminal
    /\ cancel' = [step |-> "set", up |-> draft.up]
    /\ UNCHANGED <<serverVars, draft, pump, cur, card, sent, history>>

(* The draft first; the server is told without waiting for the answer. *)
CancelSet ==
    /\ cancel.step = "set"
    /\ SetState("Cancelled")
    /\ cancel' = [step |-> "done", up |-> NoSid]
    /\ IF draft.state \in Terminal \/ cancel.up = NoSid THEN UNCHANGED job
       ELSE Submit(Nobody, "cancel", cancel.up, 0)
    /\ UNCHANGED <<db, disk, memory, gc, reply, pump, cur, card, sent, history>>

-----------------------------------------------------------------------------
(* The card reaches onChat: one handler at a time (see ChatServer for more *)
(* of them and for the retries).                                           *)
CardArrives == card # NoFid /\ sent = "no"

CardFound == CardArrives /\ FindRecord(card) /\ UNCHANGED <<clientVars, history>>

CardSaved == CardArrives /\ SaveMedia(card) /\ UNCHANGED <<clientVars, history>>

CardStored ==
    /\ CardArrives /\ EraseRecord(card)
    /\ sent' = "stored"
    /\ UNCHANGED <<draft, pump, cur, cancel, card, history>>

CardRefused ==
    /\ CardArrives /\ record[card] = NoPath /\ claim[card] = NoPath
    /\ sent' = "refused"
    /\ UNCHANGED <<serverVars, draft, pump, cur, cancel, card, history>>

CardSaveFails == CardArrives /\ SaveFails(card) /\ Fault /\ UNCHANGED clientVars

ForeignCard ==
    /\ FindRecord(Foreign) \/ SaveMedia(Foreign) \/ EraseRecord(Foreign)
    /\ quiet' = IF LosesSession /\ stored' # stored THEN {} ELSE quiet
    /\ UNCHANGED <<clientVars, faults>>

-----------------------------------------------------------------------------
(* Faults and time                                                         *)

First == {"create", "chunk", "query", "finalize", "prove"}
LostReply == [NoReply EXCEPT !.kind = "lost"]

(* The request does not arrive. *)
RequestLost(t) ==
    /\ job[t].op \in First /\ job[t].caller # Nobody
    /\ Fault
    /\ job' = [job EXCEPT ![t] = NoJob]
    /\ reply' = [reply EXCEPT ![job[t].caller] = LostReply]
    /\ UNCHANGED <<db, disk, memory, gc, clientVars>>

(* The answer is lost or late: the handler goes on. *)
GivesUp(t) ==
    /\ job[t].caller # Nobody
    /\ Fault
    /\ job' = [job EXCEPT ![t].caller = Nobody]
    /\ reply' = [reply EXCEPT ![job[t].caller] = LostReply]
    /\ UNCHANGED <<db, disk, memory, gc, clientVars>>

DiskFails(t) == (WriteFails(t) \/ CopyFails(t)) /\ Fault /\ UNCHANGED clientVars

ForeignDiskFails == ForeignCopyFails /\ Fault /\ UNCHANGED clientVars

ServerDies == ServerRestarts /\ Fault /\ UNCHANGED clientVars

ClientDies ==
    /\ Fault
    /\ pump' = [c \in Pumps |-> "idle"] /\ cur' = [c \in Pumps |-> Blank]
    /\ reply' = [c \in Pumps |-> NoReply]
    /\ job' = [t \in Threads |-> [job[t] EXCEPT !.caller = Nobody]]
    /\ cancel' = IF cancel.step = "set" THEN [cancel EXCEPT !.step = "no"] ELSE cancel
    /\ UNCHANGED <<db, disk, memory, gc, draft, card, sent>>

(* The attempts of this session come to nothing: a chunk is missing on the *)
(* disk or on the server, and the client believes them all sent.           *)
Stalled(s) ==
    /\ s = draft.up /\ draft.done = Chunks /\ ~Complete(s)
    /\ \A t \in Threads : job[t].arg = s => job[t] = NoJob

(* A day goes by: while an upload is stuck, or as a fault. *)
DayPasses(s) ==
    /\ SessionExpires(s)
    /\ IF sess[s] = "open" /\ Stalled(s) THEN UNCHANGED history ELSE Fault
    /\ UNCHANGED clientVars

RecordDay(f) == RecordAges(f) /\ UNCHANGED <<clientVars, history>>

(* Five minutes go by: nobody uses the challenge any more, or as a fault.  *)
ChallengeTime(n) ==
    /\ ChallengeLapses(n)
    /\ IF \/ \E c \in Pumps : reply[c].kind = "instant" /\ reply[c].arg = n
          \/ \E t \in Threads : Proving(t, n)
       THEN Fault ELSE UNCHANGED history
    /\ UNCHANGED clientVars

(* A collected session that never had a file and that nothing refers to:   *)
(* its number stands for a new one, without a .part file (bound).          *)
Recycle(s) ==
    /\ sess[s] = "deleted" /\ s \notin {draft.up, draft.fid, card, cancel.up, index}
    /\ \A c \in Pumps : s \notin {cur[c].up, cur[c].fid} /\ (reply[c].kind = "none" \/ reply[c].arg # s)
    /\ \A t \in Threads : job[t].arg # s
    /\ s \notin whole \cup removed \cup spoiled
    /\ record[s] = NoPath /\ stored[s] = NoPath /\ claim[s] = NoPath
    /\ sess' = [sess EXCEPT ![s] = "none"] /\ old' = old \ {s}
    /\ DropPart(s)
    /\ UNCHANGED <<rows, index, stored, whole, wholeHas, removed, spoiled, memory, job, reply, gc>>
    /\ UNCHANGED <<clientVars, history>>

ServerStep(t) == Handle(t) /\ UNCHANGED <<clientVars, history>>

(* A record or a file that the collector takes may be one an attempt needs. *)
CollectorStep ==
    /\ Collect
    /\ quiet' = IF UNCHANGED <<record, removed>> THEN quiet ELSE {}
    /\ UNCHANGED <<clientVars, faults>>

OtherDevice == ForeignUpload /\ UNCHANGED <<clientVars, history>>

Next ==
    \/ \E c \in Pumps : Begin(c) \/ BeginFinalized(c) \/ PumpStep(c)
    \/ CancelRead \/ CancelSet
    \/ CardFound \/ CardSaved \/ CardStored \/ CardRefused \/ CardSaveFails \/ ForeignCard
    \/ \E t \in Threads : ServerStep(t) \/ RequestLost(t) \/ GivesUp(t) \/ DiskFails(t)
    \/ ServerDies \/ ClientDies \/ OtherDevice \/ ForeignDiskFails \/ CollectorStep
    \/ \E s \in Sids : DayPasses(s) \/ Recycle(s)
    \/ \E f \in Fids : RecordDay(f)
    \/ \E n \in Challenges : ChallengeTime(n)

Spec == Init /\ [][Next]_vars

-----------------------------------------------------------------------------
(* Properties                                                              *)

Kinds == {"none", "lost", "404", "409", "410", "500", "ok", "instant", "session", "file",
          "open", "cancelled", "finalized"}
Draft == [state : Open \cup Terminal \cup {"Finalized"}, up : Sids \cup {NoSid},
          done : SUBSET Chunks, fid : Fids \cup {NoFid}]

(* Types, and a message card that, like a draft, only names file ids.      *)
TypeOK ==
    /\ sess \in [Sids -> {"none", "open", "cancelled", "finalized", "deleted"}]
    /\ rows \in [Sids -> SUBSET Chunks] /\ old \subseteq Sids
    /\ part \subseteq Sids /\ partHas \in [Sids -> SUBSET Chunks]
    /\ whole \subseteq Paths /\ wholeHas \in [Paths -> SUBSET Chunks]
    /\ removed \subseteq Paths /\ spoiled \subseteq Paths
    /\ index \in Paths \cup {NoPath}
    /\ record \in [Fids -> Paths \cup {NoPath}] /\ aged \subseteq Fids
    /\ challenge \in [Challenges -> Paths \cup {NoPath}] /\ granted \subseteq Challenges
    /\ stored \in [Fids -> Paths \cup {NoPath}] /\ claim \in [Fids -> Paths \cup {NoPath}]
    /\ reply \in [Pumps -> [kind : Kinds, arg : Int, has : SUBSET Chunks]]
    /\ draft \in Draft /\ cur \in [Pumps -> Draft]
    /\ card \in Fids \cup {NoFid} /\ sent \in {"no", "stored", "refused"}
    /\ faults \in 0..MaxFaults /\ quiet \subseteq Pumps

(* A finished file has all its bytes: no handler that is late, no repeated *)
(* request and no truncation of a .part file puts another under a final    *)
(* name (handleFinalizeUpload verifies, then renames).  The one exception  *)
(* is a name under which a copy failed after the rename had: its error is  *)
(* dropped there.                                                          *)
WholeFiles == \A p \in whole \ spoiled : wholeHas[p] = Chunks

(* A finalized session has its file, unless the collector took it or the   *)
(* disk failed both the rename and the copy: two finalizers, a cancel or   *)
(* the loss of the .part file between verification and rename cannot leave *)
(* a file id without bytes, as long as the session has not expired.        *)
FinalizedHasFile ==
    \A s \in Sids : sess[s] = "finalized" /\ s \notin old =>
        PathOf(s) \in whole \cup removed \cup spoiled

(* A draft marked as sent has its message card, whatever pumps, resets and *)
(* crashes did in between.  With one pump at a time the card has the       *)
(* draft's file id; with two it need not: a pump that got a file id sends  *)
(* the card with it after another has failed, begun again and stored the   *)
(* id of a second challenge (sendMessageCard, setUploadDraftFileId).       *)
Alone == \A c, d \in Pumps : c = d
SentHasCard == draft.state = "Sent" => card # NoFid /\ (Alone => card = draft.fid)

(* Sent and Cancelled are final, and the card never changes.               *)
TerminalStays ==
    [][/\ draft.state \in Terminal => draft'.state = draft.state
       /\ card # NoFid => card' = card]_vars

(* The collector removes orphans only: the file of a stored message stays  *)
(* (gcLoop, "uploads that no message ever claimed").                       *)
MessageFileKept == \A f \in Fids : stored[f] # NoPath => stored[f] \in whole

(* An attempt that begins on good terms, and that no fault disturbs, does  *)
(* not end before the upload: the draft is sent, with a card that the      *)
(* server will accept, or cancelled.  What lost answers, failed writes and *)
(* crashes left behind in draft and server, the next attempt takes up at   *)
(* the right place (processVariant, setUploadDraftFileId,                  *)
(* resetUploadDraftForNewSession).                                         *)
Accepted == sent = "stored" \/ (sent = "no" /\ record[card] # NoPath)
AttemptSucceeds ==
    [][\A c \in quiet \cap quiet' : pump[c] # "idle" /\ pump'[c] = "idle" =>
        draft'.state = "Cancelled" \/ (draft'.state = "Sent" /\ Accepted')]_vars
=============================================================================
