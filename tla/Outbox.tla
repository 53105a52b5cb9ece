------------------------------- MODULE Outbox -------------------------------
(***************************************************************************)
(* The sending side of the client: the outbox table and the message rows   *)
(* (storage/NativeRepository.cpp), the acknowledgement rules               *)
(* (message/MessageService.cpp) and, in runtime/ClientRuntime.cpp, the     *)
(* thread that pumps the outbox, the condition variable it waits on and    *)
(* the handler of the server's answers.                                    *)
(*                                                                         *)
(* Four threads take steps: the caller of sendText/sendMedia, the pump,    *)
(* the network thread that delivers answers, and whoever switches the      *)
(* runtime or the send gate on and off.  The database survives a crash.    *)
(*                                                                         *)
(* Instants (next_retry_at, the pump's wake-up time) are kept as the time  *)
(* that is left until them, so that time needs no bound.  retry_count is   *)
(* kept only as far as the code compares it: an attempt number is the      *)
(* row's current one or an older one.                                      *)
(*                                                                         *)
(* A transaction whose caller gave up waiting may be done later.  The      *)
(* writer does them in the order they were handed in and their times are   *)
(* those of the call, so no step can tell it from one done at once; it is  *)
(* done at once here, and reported as failed.                              *)
(***************************************************************************)
EXTENDS Integers, FiniteSets

CONSTANTS
    N,           \* number of outgoing messages, named by their local_order
    Lease,       \* seconds a claimed row is not offered again
    Limit,       \* rows one claim may return
    Backoffs,    \* delays after a SERVER_ERROR answer
    Results,     \* what the server may answer
    MaxAnswers,  \* bound: answers on their way at one time
    MaxFaults    \* bound: crashes, restarts, lost packets, database errors

Accepted == {"SUCC", "FAIL"}

ASSUME OutboxAssumption ==
    /\ N \in Nat /\ Lease \in Nat \ {0} /\ Limit \in Nat \ {0}
    /\ Backoffs \subseteq Nat \ {0}
    /\ Results \subseteq Accepted \cup {"REFUSED", "SERVER_ERROR"}
    /\ MaxAnswers \in Nat /\ MaxFaults \in Nat

Msgs == 1..N
NoTime == -1                \* no wake-up is scheduled

VARIABLES
    row,        \* outbox row: "absent", "live", "dead" (INT64_MAX), "gone"
    due,        \* of a live row: time left to next_retry_at
    finished,   \* of a live row: finished_attempt = retry_count
    status,     \* messages.status: 0 sending, 1 delivered, 3 stored offline
    ui,         \* where the sendText call of a message stands
    inflight,   \* m_inflightMessages: "no" entry, attempt 0, "old" or "cur"
    pump,       \* the pump thread: where it stands
    batch,      \* claimed messages not yet handed to the connection
    handed,     \* the message handed over whose attempt is not recorded yet
    nextWake,   \* flushOutbox: nextWake
    wake,       \* m_outboxWake
    wakeAt,     \* m_outboxWakeAt
    gate,       \* m_accountAuthenticated
    connected,  \* ClientCore::isConnected
    state,      \* m_state: "Running", "Stopping" or "Stopped"
    net,        \* requests on their way to the server
    answers,    \* answers on their way back
    stored,     \* the server has stored the message
    ack,        \* handleChatAck: the answer in work and the attempt it read
    faults      \* faults so far

outbox == <<row, due, finished>>
thread == <<pump, batch, handed, nextWake>>
alarm == <<wake, wakeAt>>
link == <<gate, connected, state>>
server == <<net, answers, stored>>
vars == <<outbox, status, ui, inflight, thread, alarm, link, server, ack, faults>>

NoAck == [msg |-> 0, result |-> "SUCC", attempt |-> "no"]

Init ==
    /\ row = [m \in Msgs |-> "absent"]
    /\ due = [m \in Msgs |-> 0]
    /\ finished = [m \in Msgs |-> FALSE]
    /\ status = [m \in Msgs |-> 0]
    /\ ui = [m \in Msgs |-> "new"]
    /\ inflight = [m \in Msgs |-> "no"]
    /\ pump = "loop" /\ batch = {} /\ handed = {}
    /\ nextWake = NoTime
    /\ wake = TRUE /\ wakeAt = NoTime
    /\ gate = FALSE /\ connected = FALSE /\ state = "Running"
    /\ net = {} /\ answers = {} /\ stored = {}
    /\ ack = NoAck
    /\ faults = 0

Fault == faults < MaxFaults /\ faults' = faults + 1

(* notify_one/notify_all: wakes the pump only if it waits at this moment. *)
Notify == pump' = IF pump \in {"wait", "timed"} THEN "woken" ELSE pump

(* scheduleOutboxPump keeps the earlier of two wake-up times. *)
Earlier(s, t) == IF s = NoTime \/ t < s THEN t ELSE s

(* DELETE FROM outbox *)
RemoveRow(m) ==
    /\ row' = [row EXCEPT ![m] = "gone"]
    /\ due' = [due EXCEPT ![m] = 0]
    /\ finished' = [finished EXCEPT ![m] = FALSE]

-----------------------------------------------------------------------------
(* sendText / sendMedia, on the caller's thread.                           *)

(* Mutant: the draft is committed without its outbox row. *)
DraftWithoutRow(m, next) ==
    /\ state = "Running" /\ ui[m] = "new" /\ \A k \in 1..(m - 1) : ui[k] # "new"
    /\ ui' = [ui EXCEPT ![m] = next]
    /\ UNCHANGED <<outbox, status, inflight, thread, alarm, link, server, ack, faults>>

(* commitOutgoingDraft: message and outbox row in one transaction, in the  *)
(* order of local_order.                                                   *)
CommitDraft(m, next) ==
    /\ state = "Running" /\ ui[m] = "new" /\ \A k \in 1..(m - 1) : ui[k] # "new"
    /\ row' = [row EXCEPT ![m] = "live"]
    /\ ui' = [ui EXCEPT ![m] = next]
    /\ UNCHANGED <<due, finished, status, inflight, thread, alarm, link, server, ack, faults>>

Draft(m) == CommitDraft(m, "committed")

(* The wait for the writer times out and the transaction commits later:    *)
(* the call reports an error, registers nothing and wakes nobody.          *)
DraftUnknown(m) == CommitDraft(m, "done")

(* m_inflightMessages[msgId] = {0, operationId} *)
Register(m) ==
    /\ ui[m] = "committed"
    /\ inflight' = [inflight EXCEPT ![m] = "zero"]
    /\ ui' = [ui EXCEPT ![m] = "registered"]
    /\ UNCHANGED <<outbox, status, thread, alarm, link, server, ack, faults>>

(* wakeOutboxPump *)
WakePump(m) ==
    /\ ui[m] = "registered"
    /\ ui' = [ui EXCEPT ![m] = "done"]
    /\ wake' = TRUE
    /\ Notify
    /\ UNCHANGED <<outbox, status, inflight, batch, handed, nextWake, wakeAt, link,
                   server, ack, faults>>

-----------------------------------------------------------------------------
(* runOutboxPump and flushOutbox, on the pump's thread.                    *)

(* The loop enters the wait; it does not look at m_outboxWake first. *)
PumpWait ==
    /\ pump = "loop"
    /\ pump' = IF gate /\ wakeAt # NoTime THEN "timed" ELSE "wait"
    /\ UNCHANGED <<outbox, status, ui, inflight, batch, handed, nextWake, alarm, link, server, ack,
                   faults>>

(* wait_until ends.  Its deadline is m_outboxWakeAt: whoever moves that    *)
(* notifies the pump.                                                      *)
PumpTimeout ==
    /\ pump = "timed" /\ wakeAt = 0
    /\ pump' = "woken"
    /\ UNCHANGED <<outbox, status, ui, inflight, batch, handed, nextWake, alarm, link,
                   server, ack, faults>>

(* After the wait: m_outboxWake is taken, the gate and the time are looked at. *)
PumpWoken ==
    /\ pump = "woken"
    /\ wake' = FALSE
    /\ IF ~gate \/ (~wake /\ wakeAt > 0)
       THEN pump' = "loop" /\ UNCHANGED wakeAt
       ELSE pump' = "flush" /\ wakeAt' = IF wakeAt = 0 THEN NoTime ELSE wakeAt
    /\ UNCHANGED <<outbox, status, ui, inflight, batch, handed, nextWake, link, server, ack, faults>>

(* Mutant: a row whose last attempt has ended is not offered. *)
DueUnfinished == {m \in Msgs : row[m] = "live" /\ due[m] = 0 /\ ~finished[m]}

(* Mutant: a row that has reached its end is offered as well. *)
DueDead == {m \in Msgs : row[m] \in {"live", "dead"} /\ due[m] = 0}

(* WHERE next_retry_at <= now *)
Due == {m \in Msgs : row[m] = "live" /\ due[m] = 0}

(* ORDER BY local_order LIMIT ? *)
Oldest(S) == {m \in S : Cardinality({k \in S : k < m}) < Limit}

(* claimOutbox: a new attempt and a lease for every row it returns.  An    *)
(* attempt number that was read before is now old.                         *)
Claim(b) ==
    /\ due' = [m \in Msgs |-> IF m \in b THEN Lease ELSE due[m]]
    /\ finished' = [m \in Msgs |-> IF m \in b THEN FALSE ELSE finished[m]]
    /\ inflight' = [m \in Msgs |-> IF m \in b /\ inflight[m] = "cur" THEN "old" ELSE inflight[m]]
    /\ ack' = IF ack.msg \in b THEN [ack EXCEPT !.attempt = "old"] ELSE ack
    /\ UNCHANGED row

(* flushOutbox up to the claim. *)
FlushClaim ==
    /\ pump = "flush" /\ state = "Running" /\ gate /\ connected
    /\ Claim(Oldest(Due))
    /\ batch' = Oldest(Due)
    /\ pump' = "send"
    /\ UNCHANGED <<status, ui, handed, nextWake, alarm, link, server, faults>>

(* flushOutbox returns at once: not running, gate shut, or no connection. *)
FlushClosed ==
    /\ pump = "flush" /\ ~(state = "Running" /\ gate /\ connected)
    /\ pump' = "loop"
    /\ UNCHANGED <<outbox, status, ui, inflight, batch, handed, nextWake, alarm, link,
                   server, ack, faults>>

(* claimOutbox fails, or the wait for it times out and it is done all the  *)
(* same: flushOutbox returns, sends nothing and schedules nothing.         *)
FlushClaimFails ==
    /\ pump = "flush" /\ state = "Running" /\ gate /\ connected
    /\ Fault
    /\ Claim(Oldest(Due)) \/ UNCHANGED <<outbox, inflight, ack>>
    /\ pump' = "loop"
    /\ UNCHANGED <<status, ui, batch, handed, nextWake, alarm, link, server>>

NextInBatch(m) == m \in batch /\ \A k \in batch : m <= k

(* sendChatPayload hands a claimed message to the connection. *)
SendOne(m) ==
    /\ pump = "send" /\ handed = {} /\ NextInBatch(m) /\ connected
    /\ batch' = batch \ {m} /\ handed' = {m}
    /\ net' = net \cup {m}
    /\ UNCHANGED <<outbox, status, ui, inflight, pump, nextWake, alarm, link, answers,
                   stored, ack, faults>>

(* Its attempt is recorded in m_inflightMessages afterwards; the server's  *)
(* answer may already be there.                                            *)
RecordAttempt(m) ==
    /\ m \in handed
    /\ handed' = {}
    /\ inflight' = [inflight EXCEPT ![m] = "cur"]
    /\ nextWake' = Lease
    /\ UNCHANGED <<outbox, status, ui, pump, batch, alarm, link, server, ack, faults>>

(* Mutant: finished_attempt is not looked at. *)
FinishAttemptAgain(m, terminal, t) ==
    IF row[m] = "live"
    THEN /\ row' = [row EXCEPT ![m] = IF terminal THEN "dead" ELSE "live"]
         /\ due' = [due EXCEPT ![m] = t]
         /\ finished' = [finished EXCEPT ![m] = TRUE]
    ELSE UNCHANGED outbox

(* finishOutboxAttempt for the row's current attempt: once, and never a    *)
(* row that has reached its end.                                           *)
FinishAttempt(m, terminal, t) ==
    IF row[m] = "live" /\ ~finished[m]
    THEN /\ row' = [row EXCEPT ![m] = IF terminal THEN "dead" ELSE "live"]
         /\ due' = [due EXCEPT ![m] = t]
         /\ finished' = [finished EXCEPT ![m] = TRUE]
    ELSE UNCHANGED outbox

(* The connection is down: the attempt ends, to be repeated a second       *)
(* later.  Whether that was recorded is not looked at.                     *)
SendFails(m) ==
    /\ pump = "send" /\ handed = {} /\ NextInBatch(m) /\ ~connected
    /\ batch' = batch \ {m}
    /\ \/ FinishAttempt(m, FALSE, 1) /\ UNCHANGED faults
       \/ Fault /\ UNCHANGED outbox
    /\ nextWake' = Earlier(nextWake, 1)
    /\ UNCHANGED <<status, ui, inflight, pump, handed, alarm, link, server, ack>>

(* scheduleOutboxPump at the end of flushOutbox, on the pump's own thread. *)
FlushEnd ==
    /\ pump = "send" /\ batch = {} /\ handed = {}
    /\ wakeAt' = IF nextWake = NoTime THEN wakeAt ELSE Earlier(wakeAt, nextWake)
    /\ nextWake' = NoTime
    /\ pump' = "loop"
    /\ UNCHANGED <<outbox, status, ui, inflight, batch, handed, wake, link, server, ack,
                   faults>>

-----------------------------------------------------------------------------
(* The server, as the client sees it: a message is stored and answered,    *)
(* or answered without being stored; a stored message is not refused for   *)
(* want of storing.  Requests and answers get lost.                        *)

ServerAnswers(m, r) ==
    /\ m \in net /\ Cardinality(answers) < MaxAnswers
    /\ m \in stored => r # "SERVER_ERROR"
    /\ stored' = IF r \in Accepted THEN stored \cup {m} ELSE stored
    /\ net' = net \ {m}
    /\ answers' = answers \cup {[msg |-> m, result |-> r]}
    /\ UNCHANGED <<outbox, status, ui, inflight, thread, alarm, link, ack, faults>>

RequestLost(m) ==
    /\ m \in net
    /\ Fault
    /\ net' = net \ {m}
    /\ UNCHANGED <<outbox, status, ui, inflight, thread, alarm, link, answers, stored, ack>>

-----------------------------------------------------------------------------
(* handleChatAck, on the network thread.                                   *)

(* The attempt is read under the lock; without one, or when the runtime    *)
(* does not run, the answer is dropped.                                    *)
AckRead(a) ==
    /\ ack = NoAck
    /\ answers' = answers \ {a}
    /\ ack' = IF state = "Running" /\ inflight[a.msg] \in {"cur", "old"}
              THEN [msg |-> a.msg, result |-> a.result, attempt |-> inflight[a.msg]]
              ELSE NoAck
    /\ UNCHANGED <<outbox, status, ui, inflight, thread, alarm, link, net, stored, faults>>

(* Mutant: the row stays in the outbox. *)
CommitAckKeepsRow(m, r) ==
    /\ status' = [status EXCEPT ![m] = IF @ = 0 THEN (IF r = "SUCC" THEN 1 ELSE 3) ELSE @]
    /\ UNCHANGED outbox

(* commitAck: the status moves once, the row is removed. *)
CommitAck(m, r) ==
    /\ status' = [status EXCEPT ![m] = IF @ = 0 THEN (IF r = "SUCC" THEN 1 ELSE 3) ELSE @]
    /\ RemoveRow(m)

(* The entry of an answered message is erased. *)
Forget(m) == inflight' = [inflight EXCEPT ![m] = "no"]

(* onProtocolAck, by the kind of answer.  An attempt number that is no     *)
(* longer the row's changes no row.                                        *)
RecordAccepted == ack.result \in Accepted /\ CommitAck(ack.msg, ack.result)

EndAttempt(terminal, t) ==
    /\ IF ack.attempt = "cur" THEN FinishAttempt(ack.msg, terminal, t) ELSE UNCHANGED outbox
    /\ UNCHANGED status

RecordRefused == ack.result = "REFUSED" /\ EndAttempt(TRUE, 0)

RecordError(t) == ack.result = "SERVER_ERROR" /\ EndAttempt(FALSE, t)

AckAccepted ==
    /\ ack # NoAck
    /\ RecordAccepted
    /\ Forget(ack.msg)
    /\ ack' = NoAck
    /\ UNCHANGED <<ui, thread, alarm, link, server, faults>>

AckRefused ==
    /\ RecordRefused
    /\ Forget(ack.msg)
    /\ ack' = NoAck
    /\ UNCHANGED <<ui, thread, alarm, link, server, faults>>

AckServerError ==
    /\ \E t \in Backoffs : RecordError(t) /\ wakeAt' = Earlier(wakeAt, t)
    /\ Notify
    /\ ack' = NoAck
    /\ UNCHANGED <<ui, inflight, batch, handed, nextWake, wake, link, server, faults>>

(* The transaction of an answer fails, or the wait for it times out and it *)
(* is done all the same: handleChatAck returns.                            *)
AckFails ==
    /\ ack # NoAck
    /\ Fault
    /\ \/ RecordAccepted \/ RecordRefused \/ \E t \in Backoffs : RecordError(t)
       \/ UNCHANGED <<outbox, status>>
    /\ ack' = NoAck
    /\ UNCHANGED <<ui, inflight, thread, alarm, link, server>>

(* A roaming page brings back an own message (mergeIncoming). *)
RoamOwn(m) ==
    /\ state = "Running" /\ connected /\ m \in stored /\ row[m] \in {"live", "dead"}
    /\ status' = [status EXCEPT ![m] = IF @ = 0 THEN 1 ELSE @]
    /\ RemoveRow(m)
    /\ UNCHANGED <<ui, inflight, thread, alarm, link, server, ack, faults>>

-----------------------------------------------------------------------------
(* The connection, the send gate, the runtime and the process.             *)

Connected ==
    /\ ~connected
    /\ connected' = TRUE
    /\ UNCHANGED <<outbox, status, ui, inflight, thread, alarm, gate, state, server, ack, faults>>

Disconnected ==
    /\ connected
    /\ Fault
    /\ connected' = FALSE
    /\ net' = {} /\ answers' = {}
    /\ UNCHANGED <<outbox, status, ui, inflight, thread, alarm, gate, state, stored, ack>>

(* setAccountAuthenticated(true), for the first time or again. *)
Authenticated ==
    /\ connected /\ state = "Running"
    /\ gate' = TRUE
    /\ wake' = TRUE
    /\ Notify
    /\ UNCHANGED <<outbox, status, ui, inflight, batch, handed, nextWake, wakeAt,
                   connected, state, server, ack, faults>>

(* setAccountAuthenticated(false) *)
GateShut ==
    /\ gate
    /\ gate' = FALSE
    /\ UNCHANGED <<outbox, status, ui, inflight, thread, alarm, connected, state, server, ack, faults>>

(* stop(): nothing is accepted any more, then the pump is told to stop ... *)
StopBegin ==
    /\ state = "Running"
    /\ Fault
    /\ state' = "Stopping" /\ gate' = FALSE
    /\ wake' = TRUE
    /\ Notify
    /\ UNCHANGED <<outbox, status, ui, inflight, batch, handed, nextWake, wakeAt,
                   connected, server, ack>>

(* ... and joined: a flush in work is finished first. *)
StopEnd ==
    /\ state = "Stopping" /\ pump \in {"loop", "wait", "timed", "woken"}
    /\ state' = "Stopped" /\ pump' = "exit"
    /\ UNCHANGED <<outbox, status, ui, inflight, batch, handed, nextWake, alarm, gate, connected,
                   server, ack, faults>>

Start ==
    /\ state = "Stopped"
    /\ state' = "Running" /\ pump' = "loop"
    /\ wake' = TRUE
    /\ UNCHANGED <<outbox, status, ui, inflight, batch, handed, nextWake, wakeAt, gate,
                   connected, server, ack, faults>>

(* The process dies: the tables and what the server has stay. *)
Crash ==
    /\ Fault
    /\ ui' = [m \in Msgs |-> IF ui[m] = "new" THEN "new" ELSE "done"]
    /\ inflight' = [m \in Msgs |-> "no"]
    /\ pump' = "loop" /\ batch' = {} /\ handed' = {}
    /\ nextWake' = NoTime /\ wake' = TRUE /\ wakeAt' = NoTime
    /\ gate' = FALSE /\ connected' = FALSE /\ state' = "Running"
    /\ net' = {} /\ answers' = {}
    /\ ack' = NoAck
    /\ UNCHANGED <<outbox, status, stored>>

(* Times that are over stay at 0. *)
Less(t) == IF t > 0 THEN t - 1 ELSE t

(* One second passes. *)
Tick ==
    /\ \/ \E m \in Msgs : due[m] > 0
       \/ wakeAt > 0 \/ nextWake > 0
    /\ due' = [m \in Msgs |-> Less(due[m])]
    /\ wakeAt' = Less(wakeAt)
    /\ nextWake' = Less(nextWake)
    /\ UNCHANGED <<row, finished, status, ui, inflight, pump, batch, handed, wake, link, server, ack,
                   faults>>

-----------------------------------------------------------------------------
PumpStep ==
    \/ PumpWait \/ PumpTimeout \/ PumpWoken
    \/ FlushClaim \/ FlushClosed \/ FlushEnd
    \/ \E m \in Msgs : SendOne(m) \/ RecordAttempt(m) \/ SendFails(m)

AckStep == AckAccepted \/ AckRefused \/ AckServerError

Environment ==
    \/ FlushClaimFails \/ AckFails
    \/ \E m \in Msgs : RequestLost(m) \/ RoamOwn(m)
    \/ Connected \/ Disconnected \/ Authenticated \/ GateShut
    \/ StopBegin \/ StopEnd \/ Start \/ Crash

Next ==
    \/ \E m \in Msgs : Draft(m) \/ DraftUnknown(m) \/ Register(m) \/ WakePump(m)
    \/ PumpStep
    \/ \E m \in Msgs, r \in Results : ServerAnswers(m, r)
    \/ \E a \in answers : AckRead(a)
    \/ AckStep
    \/ Environment
    \/ Tick

Spec == Init /\ [][Next]_vars

(* The threads of a running process are scheduled, calls return, time      *)
(* passes and the server answers what reaches it.                          *)
Fairness ==
    /\ WF_vars(PumpStep)
    /\ WF_vars(Tick)
    /\ WF_vars(\E m \in Msgs : Register(m) \/ WakePump(m))
    /\ WF_vars(\E m \in Msgs, r \in Results : ServerAnswers(m, r))
    /\ WF_vars(\E a \in answers : AckRead(a))
    /\ WF_vars(AckStep)

FairSpec == Spec /\ Fairness

-----------------------------------------------------------------------------
TypeOK ==
    /\ row \in [Msgs -> {"absent", "live", "dead", "gone"}]
    /\ due \in [Msgs -> Nat]
    /\ finished \in [Msgs -> BOOLEAN]
    /\ status \in [Msgs -> {0, 1, 3}]
    /\ ui \in [Msgs -> {"new", "committed", "registered", "done"}]
    /\ inflight \in [Msgs -> {"no", "zero", "old", "cur"}]
    /\ pump \in {"loop", "wait", "timed", "woken", "flush", "send", "exit"}
    /\ nextWake \in Nat \cup {NoTime}
    /\ batch \subseteq Msgs /\ handed \subseteq Msgs
    /\ wake \in BOOLEAN /\ wakeAt \in Nat \cup {NoTime}
    /\ gate \in BOOLEAN /\ connected \in BOOLEAN
    /\ state \in {"Running", "Stopping", "Stopped"}
    /\ net \subseteq Msgs /\ stored \subseteq Msgs
    /\ answers \subseteq [msg : Msgs, result : Results]
    /\ ack \in [msg : Msgs \cup {0}, result : Results \cup {"SUCC"}, attempt : {"no", "old", "cur"}]
    /\ faults \in 0..MaxFaults

(* A message the user has sent and the server has not stored keeps its     *)
(* outbox row, live or marked as refused: whatever is lost, whichever      *)
(* thread is interrupted, it is never dropped silently                     *)
(* (commitOutgoingDraft, commitAck, mergeIncoming).                        *)
NothingLost ==
    \A m \in Msgs : ui[m] # "new" /\ m \notin stored => row[m] \in {"live", "dead"}

(* A message leaves "sending" exactly when its outbox row goes, and only   *)
(* for a message the server has stored (commitAck and mergeIncoming do     *)
(* both in one transaction).                                               *)
StatusMatches ==
    \A m \in Msgs : /\ status[m] # 0 <=> row[m] = "gone"
                    /\ status[m] # 0 => m \in stored

(* A refused message is never sent again and a settled one never changes:  *)
(* late and duplicated answers move nothing back (finishOutboxAttempt's    *)
(* and commitAck's conditions).                                            *)
SettledStays ==
    [][\A m \in Msgs :
          /\ row[m] = "gone" => row'[m] = "gone" /\ status'[m] = status[m]
          /\ row[m] = "dead" => row'[m] \in {"dead", "gone"} /\ m \notin (batch' \ batch)]_vars

(* The retry time an attempt was given is not moved by a second answer to  *)
(* the same attempt: only time and the next claim change it                *)
(* (finished_attempt).                                                     *)
BackoffKept ==
    [][\A m \in Msgs :
          row[m] = "live" /\ row'[m] = "live" /\ finished[m] /\ finished'[m]
          => due'[m] \in {due[m], Less(due[m])}]_vars

(* While the runtime is up, logged in, connected and nothing fails, the    *)
(* alarm alone brings the retry: one of the Limit oldest rows, due when    *)
(* the alarm rings or before, is handed to the connection again or comes   *)
(* to its end, unless an answer moves the alarm before the row's time      *)
(* (scheduleOutboxPump, runOutboxPump).  Neither a login nor another       *)
(* message has to wake the pump.                                           *)
Serving == state = "Running" /\ gate /\ connected

Alarmed(m) == row[m] = "live" /\ wakeAt >= due[m] /\ m \in Oldest({k \in Msgs : row[k] = "live"})

AlarmTooEarly(m) == wakeAt # NoTime /\ wakeAt < due[m]

AlarmBringsRetry ==
    \A m \in Msgs, f \in 0..MaxFaults :
        Serving /\ faults = f /\ Alarmed(m)
        ~> \/ row[m] # "live" \/ m \in net
           \/ AlarmTooEarly(m) \/ ~Serving \/ faults # f
=============================================================================
