---------------------------- MODULE OutboxProofs ----------------------------
(***************************************************************************)
(* What holds of the outbox for every number of messages, lease, claim     *)
(* limit, set of delays, set of answers and number of faults.              *)
(***************************************************************************)
EXTENDS Outbox, TLAPS

-----------------------------------------------------------------------------
(* The inductive invariant.                                                *)

(* The parts of TypeOK, each preserved by itself. *)
TableType ==
  /\ row \in [Msgs -> {"absent", "live", "dead", "gone"}]
  /\ due \in [Msgs -> Nat]
  /\ finished \in [Msgs -> BOOLEAN]
  /\ status \in [Msgs -> {0, 1, 3}]
  /\ ui \in [Msgs -> {"new", "committed", "registered", "done"}]
  /\ inflight \in [Msgs -> {"no", "zero", "old", "cur"}]

PumpType ==
  /\ pump \in {"loop", "wait", "timed", "woken", "flush", "send", "exit"}
  /\ batch \subseteq Msgs /\ handed \subseteq Msgs

TimerType == nextWake \in Nat \cup {NoTime} /\ wakeAt \in Nat \cup {NoTime}

LinkType ==
  /\ wake \in BOOLEAN /\ gate \in BOOLEAN /\ connected \in BOOLEAN
  /\ state \in {"Running", "Stopping", "Stopped"}

WireType ==
  /\ net \subseteq Msgs /\ stored \subseteq Msgs
  /\ answers \subseteq [msg : Msgs, result : Results]
  /\ ack \in [msg : Msgs \cup {0}, result : Results \cup {"SUCC"},
              attempt : {"no", "old", "cur"}]

FaultType == faults \in 0 .. MaxFaults

LEMMA TypeParts ==
  TypeOK <=> /\ TableType /\ PumpType /\ TimerType
             /\ LinkType /\ WireType /\ FaultType
  BY DEF TypeOK, TableType, PumpType, TimerType, LinkType, WireType, FaultType

(* Whatever is on its way, on either side, is of a message that was        *)
(* committed.                                                              *)
KnownInv ==
  /\ \A m \in Msgs : row[m] = "absent" <=> ui[m] = "new"
  /\ \A m \in batch \cup handed \cup net \cup stored : ui[m] # "new"
  /\ \A a \in answers : ui[a.msg] # "new"

(* An answer that settles a message is about a message the server stored.  *)
AnswerInv ==
  /\ \A a \in answers : a.result \in Accepted => a.msg \in stored
  /\ ack # NoAck => /\ ack.msg \in Msgs /\ ui[ack.msg] # "new"
                    /\ ack.result \in Accepted => ack.msg \in stored

(* A row goes when its message is settled, and only then. *)
GoneInv == \A m \in Msgs : row[m] = "gone" => m \in stored

IInv == TypeOK /\ KnownInv /\ AnswerInv /\ GoneInv /\ StatusMatches

-----------------------------------------------------------------------------
(* The parts of the invariant, one lemma each.                             *)

LEMMA FinishAttemptType ==
  ASSUME TableType, NEW m \in Msgs, NEW terminal \in BOOLEAN, NEW t \in Nat,
         FinishAttempt(m, terminal, t) \/ UNCHANGED outbox
  PROVE  /\ row' \in [Msgs -> {"absent", "live", "dead", "gone"}]
         /\ due' \in [Msgs -> Nat]
         /\ finished' \in [Msgs -> BOOLEAN]
  <1>1. CASE UNCHANGED outbox
    BY <1>1 DEF TableType, outbox
  <1>2. CASE ~UNCHANGED outbox
    <2>1. /\ row' = [row EXCEPT ![m] = IF terminal THEN "dead" ELSE "live"]
          /\ due' = [due EXCEPT ![m] = t] /\ finished' = [finished EXCEPT ![m] = TRUE]
      BY <1>2 DEF FinishAttempt
    <2> QED
      BY <2>1 DEF TableType
  <1> QED
    BY <1>1, <1>2

(* An answer whose transaction is reported as failed has changed nothing,  *)
(* settled its message, or ended its attempt.                              *)
LEMMA AckFailsDoes ==
  ASSUME AnswerInv, AckFails
  PROVE  /\ ack # NoAck /\ ack.msg \in Msgs /\ ui[ack.msg] # "new"
         /\ ack' = NoAck
         /\ UNCHANGED <<ui, inflight, pump, batch, handed, nextWake, wake, wakeAt, gate,
                        connected, state, net, answers, stored>>
         /\ \/ UNCHANGED <<row, due, finished, status>>
            \/ ack.msg \in stored /\ CommitAck(ack.msg, ack.result)
            \/ /\ UNCHANGED status
               /\ \E t \in Nat, terminal \in BOOLEAN : FinishAttempt(ack.msg, terminal, t)
  <1>1. ack # NoAck /\ ack' = NoAck
        /\ UNCHANGED <<ui, inflight, pump, batch, handed, nextWake, wake, wakeAt, gate,
                       connected, state, net, answers, stored>>
    BY DEF AckFails, thread, alarm, link, server
  <1>2. ack.msg \in Msgs /\ ui[ack.msg] # "new" /\ (ack.result \in Accepted => ack.msg \in stored)
    BY <1>1 DEF AnswerInv
  <1>3. CASE RecordAccepted
    BY <1>1, <1>2, <1>3 DEF RecordAccepted
  <1>4. CASE RecordRefused
    <2>1. UNCHANGED status /\ (FinishAttempt(ack.msg, TRUE, 0) \/ UNCHANGED outbox)
      BY <1>4 DEF RecordRefused, EndAttempt
    <2> QED
      BY <1>1, <1>2, <2>1 DEF outbox
  <1>5. CASE \E t \in Backoffs : RecordError(t)
    <2>1. PICK t \in Backoffs : UNCHANGED status /\ (FinishAttempt(ack.msg, FALSE, t) \/ UNCHANGED outbox)
      BY <1>5 DEF RecordError, EndAttempt
    <2>2. t \in Nat
      BY OutboxAssumption
    <2> QED
      BY <1>1, <1>2, <2>1, <2>2 DEF outbox
  <1>6. CASE UNCHANGED <<outbox, status>>
    BY <1>1, <1>2, <1>6 DEF outbox
  <1> QED
    BY <1>3, <1>4, <1>5, <1>6 DEF AckFails

LEMMA TableTypeStep ==
  ASSUME TableType, WireType, AnswerInv, [Next]_vars
  PROVE  TableType'
  <1>1. CASE \/ (\E m \in Msgs : Draft(m))
             \/ (\E m \in Msgs : DraftUnknown(m))
             \/ (\E m \in Msgs : Register(m))
             \/ (\E m \in Msgs : WakePump(m))
    BY <1>1 DEF Draft, CommitDraft, thread, alarm, link, server,
       DraftUnknown, Register, outbox, WakePump, Notify, TableType
  <1>2. CASE \/ PumpWait \/ PumpTimeout \/ PumpWoken \/ FlushClosed
             \/ FlushEnd
    BY <1>2 DEF PumpWait, outbox, alarm, link, server, PumpTimeout,
       PumpWoken, FlushClosed, FlushEnd, Earlier, TableType
  <1>3. CASE FlushClaim \/ FlushClaimFails
    <2>1. UNCHANGED <<status, ui>>
      BY <1>3 DEF FlushClaim, FlushClaimFails
    <2>2. Claim(Oldest(Due)) \/ UNCHANGED <<row, due, finished, inflight>>
      BY <1>3 DEF FlushClaim, FlushClaimFails, outbox
    <2>3. CASE UNCHANGED <<row, due, finished, inflight>>
      BY <2>1, <2>3 DEF TableType
    <2>4. CASE Claim(Oldest(Due))
      <3>1. due' \in [Msgs -> Nat] /\ finished' \in [Msgs -> BOOLEAN]
        BY <2>4, OutboxAssumption DEF Claim, TableType
      <3>2. UNCHANGED row /\ inflight' \in [Msgs -> {"no", "zero", "old", "cur"}]
        BY <2>4 DEF Claim, TableType
      <3> QED
        BY <2>1, <3>1, <3>2 DEF TableType
    <2> QED
      BY <2>2, <2>3, <2>4
  <1>4. CASE \/ (\E m \in Msgs : SendOne(m))
             \/ (\E m \in Msgs : RecordAttempt(m))
    BY <1>4 DEF SendOne, NextInBatch, outbox, alarm, link, RecordAttempt,
       server, TableType
  <1>5. CASE (\E m \in Msgs : SendFails(m))
    <2>1. PICK m \in Msgs : SendFails(m)
      BY <1>5
    <2> QED
      BY <2>1, FinishAttemptType DEF SendFails, TableType
  <1>6. CASE \/ (\E m \in Msgs, r \in Results : ServerAnswers(m, r))
             \/ (\E m \in Msgs : RequestLost(m)) \/ Connected
             \/ Disconnected
    BY <1>6 DEF ServerAnswers, outbox, thread, alarm, link, RequestLost,
       Fault, Connected, server, Disconnected, TableType
  <1>7. CASE (\E a \in answers : AckRead(a))
    BY <1>7 DEF AckRead, outbox, thread, alarm, link, server, TableType
  <1>20. CASE AckFails
    <2>1. ack.msg \in Msgs /\ UNCHANGED <<ui, inflight>>
      BY <1>20, AckFailsDoes
    <2>2. CASE UNCHANGED <<row, due, finished, status>>
      BY <2>1, <2>2 DEF TableType
    <2>3. CASE CommitAck(ack.msg, ack.result)
      BY <2>1, <2>3 DEF CommitAck, RemoveRow, TableType
    <2>4. CASE /\ UNCHANGED status
               /\ \E t \in Nat, terminal \in BOOLEAN : FinishAttempt(ack.msg, terminal, t)
      BY <2>1, <2>4, FinishAttemptType DEF TableType
    <2> QED
      BY <1>20, <2>2, <2>3, <2>4, AckFailsDoes
  <1>8. CASE AckAccepted
    BY <1>8 DEF AckAccepted, CommitAck, Forget, thread, alarm, link, server,
       RemoveRow, TableType, AnswerInv, Accepted, RecordAccepted
  <1>9. CASE AckRefused
    <2>1. ack.msg \in Msgs
      BY <1>9 DEF AckRefused, AnswerInv, NoAck, RecordRefused, EndAttempt
    <2>2. inflight' \in [Msgs -> {"no", "zero", "old", "cur"}]
      BY <1>9 DEF AckRefused, Forget, TableType, RecordRefused, EndAttempt
    <2>3. FinishAttempt(ack.msg, TRUE, 0) \/ UNCHANGED outbox
      BY <1>9 DEF AckRefused, RecordRefused, EndAttempt
    <2> QED
      BY <1>9, <2>1, <2>2, <2>3, FinishAttemptType DEF AckRefused, TableType,
         RecordRefused, EndAttempt
  <1>10. CASE AckServerError
    <2>1. ack.msg \in Msgs
      BY <1>10 DEF AckServerError, AnswerInv, NoAck, RecordError, EndAttempt
    <2>2. PICK t \in Backoffs : FinishAttempt(ack.msg, FALSE, t) \/ UNCHANGED outbox
      BY <1>10 DEF AckServerError, RecordError, EndAttempt
    <2>3. t \in Nat
      BY OutboxAssumption
    <2> QED
      BY <1>10, <2>1, <2>2, <2>3, FinishAttemptType DEF AckServerError, TableType,
         RecordError, EndAttempt
  <1>11. CASE (\E m \in Msgs : RoamOwn(m))
    BY <1>11 DEF RoamOwn, RemoveRow, thread, alarm, link, server, TableType
  <1>12. CASE \/ Authenticated \/ GateShut \/ StopBegin \/ StopEnd \/ Start
              \/ Crash
    BY <1>12 DEF Authenticated, Notify, outbox, server, GateShut, thread,
       alarm, StopBegin, Fault, StopEnd, Start, Crash, TableType
  <1>13. CASE Tick
    BY <1>13 DEF Tick, Less, link, server, TableType
  <1>14. CASE UNCHANGED vars
    BY <1>14 DEF vars, outbox, thread, alarm, link, server, TableType
  <1> QED
    BY <1>1, <1>20, <1>2, <1>3, <1>4, <1>5, <1>6, <1>7, <1>8, <1>9, <1>10, <1>11,
       <1>12, <1>13, <1>14 DEF Next, PumpStep, AckStep, Environment

LEMMA PumpTypeStep ==
  ASSUME PumpType, [Next]_vars
  PROVE  PumpType'
  <1>1. CASE \/ (\E m \in Msgs : Draft(m))
             \/ (\E m \in Msgs : DraftUnknown(m))
             \/ (\E m \in Msgs : Register(m))
             \/ (\E m \in Msgs : WakePump(m))
    BY <1>1 DEF Draft, CommitDraft, thread, alarm, link, server,
       DraftUnknown, Register, outbox, WakePump, Notify, PumpType
  <1>2. CASE \/ PumpWait \/ PumpTimeout \/ PumpWoken \/ FlushClosed
             \/ FlushEnd \/ FlushClaimFails
    BY <1>2 DEF PumpWait, outbox, alarm, link, server, PumpTimeout, PumpWoken,
       FlushClosed, FlushEnd, Earlier, FlushClaimFails, Fault, PumpType,
       Claim, Oldest, Due
  <1>3. CASE \/ FlushClaim \/ (\E m \in Msgs : SendOne(m))
             \/ (\E m \in Msgs : RecordAttempt(m))
             \/ (\E m \in Msgs : SendFails(m))
    BY <1>3 DEF FlushClaim, Oldest, Due, Claim, alarm, link, server,
       SendOne, NextInBatch, outbox, RecordAttempt, SendFails,
       FinishAttempt, Earlier, PumpType
  <1>4. CASE \/ (\E m \in Msgs, r \in Results : ServerAnswers(m, r))
             \/ (\E m \in Msgs : RequestLost(m)) \/ Connected
             \/ Disconnected
    BY <1>4 DEF ServerAnswers, outbox, thread, alarm, link, RequestLost,
       Fault, Connected, server, Disconnected, PumpType
  <1>5. CASE \/ (\E a \in answers : AckRead(a)) \/ AckAccepted
             \/ AckRefused \/ AckServerError \/ AckFails
             \/ (\E m \in Msgs : RoamOwn(m))
    BY <1>5 DEF AckRead, outbox, thread, alarm, link, AckAccepted,
       CommitAck, Forget, server, RemoveRow, AckRefused, FinishAttempt,
       AckServerError, Earlier, Notify, AckFails, Fault, RoamOwn, PumpType,
       RecordAccepted, RecordRefused, EndAttempt, RecordError
  <1>6. CASE \/ Authenticated \/ GateShut \/ StopBegin \/ StopEnd \/ Start
             \/ Crash
    BY <1>6 DEF Authenticated, Notify, outbox, server, GateShut, thread,
       alarm, StopBegin, Fault, StopEnd, Start, Crash, PumpType
  <1>7. CASE Tick
    BY <1>7 DEF Tick, Less, link, server, PumpType
  <1>8. CASE UNCHANGED vars
    BY <1>8 DEF vars, outbox, thread, alarm, link, server, PumpType
  <1> QED
    BY <1>1, <1>2, <1>3, <1>4, <1>5, <1>6, <1>7, <1>8 DEF Next, PumpStep, AckStep, Environment

LEMMA TimerTypeStep ==
  ASSUME TimerType, [Next]_vars
  PROVE  TimerType'
  <1>1. CASE \/ (\E m \in Msgs : Draft(m))
             \/ (\E m \in Msgs : DraftUnknown(m))
             \/ (\E m \in Msgs : Register(m))
             \/ (\E m \in Msgs : WakePump(m))
    BY <1>1 DEF Draft, CommitDraft, thread, alarm, link, server,
       DraftUnknown, Register, outbox, WakePump, Notify, TimerType
  <1>2. CASE \/ PumpWait \/ PumpTimeout \/ PumpWoken \/ FlushClosed
             \/ FlushEnd \/ FlushClaimFails
    BY <1>2 DEF PumpWait, outbox, alarm, link, server, PumpTimeout, PumpWoken,
       FlushClosed, FlushEnd, Earlier, FlushClaimFails, Fault, TimerType,
       NoTime, Claim, Oldest, Due
  <1>3. CASE \/ FlushClaim \/ (\E m \in Msgs : SendOne(m))
    BY <1>3 DEF FlushClaim, Oldest, Due, Claim, alarm, link, server,
       SendOne, NextInBatch, outbox, TimerType
  <1>4. CASE (\E m \in Msgs : RecordAttempt(m))
    BY <1>4, OutboxAssumption DEF RecordAttempt, outbox, alarm, link,
       server, TimerType
  <1>5. CASE (\E m \in Msgs : SendFails(m))
    BY <1>5 DEF SendFails, NextInBatch, FinishAttempt, Earlier, alarm, link,
       server, outbox, TimerType, NoTime
  <1>6. CASE \/ (\E m \in Msgs, r \in Results : ServerAnswers(m, r))
             \/ (\E m \in Msgs : RequestLost(m)) \/ Connected
             \/ Disconnected
    BY <1>6 DEF ServerAnswers, outbox, thread, alarm, link, RequestLost,
       Fault, Connected, server, Disconnected, TimerType
  <1>7. CASE \/ (\E a \in answers : AckRead(a)) \/ AckAccepted
             \/ AckRefused \/ AckFails \/ (\E m \in Msgs : RoamOwn(m))
    BY <1>7 DEF AckRead, outbox, thread, alarm, link, AckAccepted, CommitAck,
       Forget, server, RemoveRow, AckRefused, FinishAttempt, AckFails, Fault,
       RoamOwn, TimerType, RecordAccepted, RecordRefused, EndAttempt,
       RecordError
  <1>8. CASE AckServerError
    BY <1>8, OutboxAssumption DEF AckServerError, FinishAttempt, outbox,
       Earlier, Notify, link, server, TimerType, NoTime,
       RecordError, EndAttempt
  <1>9. CASE \/ Authenticated \/ GateShut \/ StopBegin \/ StopEnd \/ Start
             \/ Crash
    BY <1>9 DEF Authenticated, Notify, outbox, server, GateShut, thread,
       alarm, StopBegin, Fault, StopEnd, Start, Crash, TimerType
  <1>10. CASE Tick
    BY <1>10 DEF Tick, Less, link, server, TimerType, NoTime
  <1>11. CASE UNCHANGED vars
    BY <1>11 DEF vars, outbox, thread, alarm, link, server, TimerType
  <1> QED
    BY <1>1, <1>2, <1>3, <1>4, <1>5, <1>6, <1>7, <1>8, <1>9, <1>10, <1>11 DEF Next, PumpStep, AckStep, Environment

LEMMA LinkTypeStep ==
  ASSUME LinkType, [Next]_vars
  PROVE  LinkType'
  <1>1. CASE \/ (\E m \in Msgs : Draft(m))
             \/ (\E m \in Msgs : DraftUnknown(m))
             \/ (\E m \in Msgs : Register(m))
             \/ (\E m \in Msgs : WakePump(m))
    BY <1>1 DEF Draft, CommitDraft, thread, alarm, link, server,
       DraftUnknown, Register, outbox, WakePump, Notify, LinkType
  <1>2. CASE \/ PumpWait \/ PumpTimeout \/ PumpWoken \/ FlushClosed
             \/ FlushEnd \/ FlushClaimFails
    BY <1>2 DEF PumpWait, outbox, alarm, link, server, PumpTimeout, PumpWoken,
       FlushClosed, FlushEnd, Earlier, FlushClaimFails, Fault, LinkType,
       Claim, Oldest, Due
  <1>3. CASE \/ FlushClaim \/ (\E m \in Msgs : SendOne(m))
             \/ (\E m \in Msgs : RecordAttempt(m))
             \/ (\E m \in Msgs : SendFails(m))
    BY <1>3 DEF FlushClaim, Oldest, Due, Claim, alarm, link, server,
       SendOne, NextInBatch, outbox, RecordAttempt, SendFails,
       FinishAttempt, Earlier, LinkType
  <1>4. CASE \/ (\E m \in Msgs, r \in Results : ServerAnswers(m, r))
             \/ (\E m \in Msgs : RequestLost(m)) \/ Connected
             \/ Disconnected
    BY <1>4 DEF ServerAnswers, outbox, thread, alarm, link, RequestLost,
       Fault, Connected, server, Disconnected, LinkType
  <1>5. CASE \/ (\E a \in answers : AckRead(a)) \/ AckAccepted
             \/ AckRefused \/ AckServerError \/ AckFails
             \/ (\E m \in Msgs : RoamOwn(m))
    BY <1>5 DEF AckRead, outbox, thread, alarm, link, AckAccepted,
       CommitAck, Forget, server, RemoveRow, AckRefused, FinishAttempt,
       AckServerError, Earlier, Notify, AckFails, Fault, RoamOwn, LinkType,
       RecordAccepted, RecordRefused, EndAttempt, RecordError
  <1>6. CASE \/ Authenticated \/ GateShut \/ StopBegin \/ StopEnd \/ Start
             \/ Crash
    BY <1>6 DEF Authenticated, Notify, outbox, server, GateShut, thread,
       alarm, StopBegin, Fault, StopEnd, Start, Crash, LinkType
  <1>7. CASE Tick
    BY <1>7 DEF Tick, Less, link, server, LinkType
  <1>8. CASE UNCHANGED vars
    BY <1>8 DEF vars, outbox, thread, alarm, link, server, LinkType
  <1> QED
    BY <1>1, <1>2, <1>3, <1>4, <1>5, <1>6, <1>7, <1>8 DEF Next, PumpStep, AckStep, Environment

LEMMA WireTypeStep ==
  ASSUME WireType, TableType, [Next]_vars
  PROVE  WireType'
  <1>1. CASE \/ (\E m \in Msgs : Draft(m))
             \/ (\E m \in Msgs : DraftUnknown(m))
             \/ (\E m \in Msgs : Register(m))
             \/ (\E m \in Msgs : WakePump(m))
    BY <1>1 DEF Draft, CommitDraft, thread, alarm, link, server,
       DraftUnknown, Register, outbox, WakePump, Notify, WireType
  <1>2. CASE \/ PumpWait \/ PumpTimeout \/ PumpWoken \/ FlushClosed
             \/ FlushEnd \/ FlushClaimFails
    BY <1>2 DEF PumpWait, outbox, alarm, link, server, PumpTimeout, PumpWoken,
       FlushClosed, FlushEnd, Earlier, FlushClaimFails, Fault, WireType,
       Claim, Oldest, Due
  <1>3. CASE FlushClaim
    BY <1>3 DEF FlushClaim, Oldest, Due, Claim, alarm, link, server,
       WireType
  <1>4. CASE \/ (\E m \in Msgs : SendOne(m))
             \/ (\E m \in Msgs : RecordAttempt(m))
             \/ (\E m \in Msgs : SendFails(m))
    BY <1>4 DEF SendOne, NextInBatch, outbox, alarm, link, RecordAttempt,
       server, SendFails, FinishAttempt, Earlier, WireType
  <1>5. CASE \/ (\E m \in Msgs, r \in Results : ServerAnswers(m, r))
             \/ (\E m \in Msgs : RequestLost(m)) \/ Connected
             \/ Disconnected
    BY <1>5 DEF ServerAnswers, outbox, thread, alarm, link, RequestLost,
       Fault, Connected, server, Disconnected, WireType
  <1>6. CASE (\E a \in answers : AckRead(a))
    BY <1>6 DEF AckRead, outbox, thread, alarm, link, WireType, NoAck
  <1>7. CASE \/ AckAccepted \/ AckRefused \/ AckServerError \/ AckFails
    BY <1>7 DEF AckAccepted, CommitAck, Forget, thread, alarm, link, server,
       RemoveRow, AckRefused, FinishAttempt, outbox, AckServerError,
       Earlier, Notify, AckFails, Fault, WireType, NoAck,
       RecordAccepted, RecordRefused, EndAttempt, RecordError
  <1>8. CASE (\E m \in Msgs : RoamOwn(m))
    BY <1>8 DEF RoamOwn, RemoveRow, thread, alarm, link, server, WireType
  <1>9. CASE \/ Authenticated \/ GateShut \/ StopBegin \/ StopEnd \/ Start
             \/ Crash
    BY <1>9 DEF Authenticated, Notify, outbox, server, GateShut, thread,
       alarm, StopBegin, Fault, StopEnd, Start, Crash, WireType, NoAck
  <1>10. CASE Tick
    BY <1>10 DEF Tick, Less, link, server, WireType
  <1>11. CASE UNCHANGED vars
    BY <1>11 DEF vars, outbox, thread, alarm, link, server, WireType
  <1> QED
    BY <1>1, <1>2, <1>3, <1>4, <1>5, <1>6, <1>7, <1>8, <1>9, <1>10, <1>11 DEF Next, PumpStep, AckStep, Environment

LEMMA FaultsCounted ==
  ASSUME [Next]_vars
  PROVE  Fault \/ UNCHANGED faults
  <1>1. CASE \/ (\E m \in Msgs : Draft(m))
             \/ (\E m \in Msgs : DraftUnknown(m))
             \/ (\E m \in Msgs : Register(m))
             \/ (\E m \in Msgs : WakePump(m))
    BY <1>1 DEF Draft, CommitDraft, thread, alarm, link, server,
       DraftUnknown, Register, outbox, WakePump, Notify
  <1>2. CASE \/ PumpWait \/ PumpTimeout \/ PumpWoken \/ FlushClosed
             \/ FlushEnd \/ FlushClaimFails
    BY <1>2 DEF PumpWait, outbox, alarm, link, server, PumpTimeout,
       PumpWoken, FlushClosed, FlushEnd, Earlier, FlushClaimFails,
       Claim, Oldest, Due
  <1>3. CASE \/ FlushClaim \/ (\E m \in Msgs : SendOne(m))
             \/ (\E m \in Msgs : RecordAttempt(m))
             \/ (\E m \in Msgs : SendFails(m))
    BY <1>3 DEF FlushClaim, Oldest, Due, Claim, alarm, link, server,
       SendOne, NextInBatch, outbox, RecordAttempt, SendFails,
       FinishAttempt, Earlier
  <1>4. CASE \/ (\E m \in Msgs, r \in Results : ServerAnswers(m, r))
             \/ (\E m \in Msgs : RequestLost(m)) \/ Connected
             \/ Disconnected
    BY <1>4 DEF ServerAnswers, outbox, thread, alarm, link, RequestLost,
       Connected, server, Disconnected
  <1>5. CASE \/ (\E a \in answers : AckRead(a)) \/ AckAccepted
             \/ AckRefused \/ AckServerError \/ AckFails
             \/ (\E m \in Msgs : RoamOwn(m))
    BY <1>5 DEF AckRead, outbox, thread, alarm, link, AckAccepted,
       CommitAck, Forget, server, RemoveRow, AckRefused, FinishAttempt,
       AckServerError, Earlier, Notify, AckFails, RoamOwn,
       RecordAccepted, RecordRefused, EndAttempt, RecordError
  <1>6. CASE \/ Authenticated \/ GateShut \/ StopBegin \/ StopEnd \/ Start
             \/ Crash
    BY <1>6 DEF Authenticated, Notify, outbox, server, GateShut, thread,
       alarm, StopBegin, StopEnd, Start, Crash
  <1>7. CASE Tick
    BY <1>7 DEF Tick, Less, link, server
  <1>8. CASE UNCHANGED vars
    BY <1>8 DEF vars, outbox, thread, alarm, link, server
  <1> QED
    BY <1>1, <1>2, <1>3, <1>4, <1>5, <1>6, <1>7, <1>8 DEF Next, PumpStep, AckStep, Environment

LEMMA KnownStep ==
  ASSUME TableType, PumpType, WireType, KnownInv, AnswerInv, [Next]_vars
  PROVE  KnownInv'
  <1>1. CASE \/ (\E m \in Msgs : Draft(m))
             \/ (\E m \in Msgs : DraftUnknown(m))
    BY <1>1 DEF Draft, CommitDraft, thread, alarm, link, server,
       DraftUnknown, KnownInv, TableType, PumpType, WireType
  <1>2. CASE \/ (\E m \in Msgs : Register(m))
             \/ (\E m \in Msgs : WakePump(m))
    BY <1>2 DEF Register, outbox, thread, alarm, link, server, WakePump,
       Notify, KnownInv, TableType, PumpType, WireType
  <1>3. CASE \/ PumpWait \/ PumpTimeout \/ PumpWoken \/ FlushClosed
             \/ FlushEnd \/ FlushClaimFails
    BY <1>3 DEF PumpWait, outbox, alarm, link, server, PumpTimeout, PumpWoken,
       FlushClosed, FlushEnd, Earlier, FlushClaimFails, Fault, KnownInv,
       TableType, PumpType, WireType, Claim, Oldest, Due
  <1>4. CASE FlushClaim
    BY <1>4 DEF FlushClaim, Oldest, Due, Claim, alarm, link, server,
       KnownInv, TableType, PumpType, WireType
  <1>5. CASE \/ (\E m \in Msgs : SendOne(m))
             \/ (\E m \in Msgs : RecordAttempt(m))
    BY <1>5 DEF SendOne, NextInBatch, outbox, alarm, link, RecordAttempt,
       server, KnownInv, TableType, PumpType, WireType
  <1>6. CASE (\E m \in Msgs : SendFails(m))
    BY <1>6 DEF SendFails, NextInBatch, FinishAttempt, Earlier, alarm, link,
       server, outbox, KnownInv, TableType, PumpType, WireType
  <1>7. CASE \/ (\E m \in Msgs, r \in Results : ServerAnswers(m, r))
             \/ (\E m \in Msgs : RequestLost(m)) \/ Connected
             \/ Disconnected
    BY <1>7 DEF ServerAnswers, outbox, thread, alarm, link, RequestLost,
       Fault, Connected, server, Disconnected, KnownInv, TableType,
       PumpType, WireType
  <1>8. CASE (\E a \in answers : AckRead(a))
    BY <1>8 DEF AckRead, outbox, thread, alarm, link, server, KnownInv,
       TableType, PumpType, WireType
  <1>20. CASE AckFails
    BY <1>20, AckFailsDoes DEF CommitAck, RemoveRow, FinishAttempt,
       outbox, KnownInv, TableType, PumpType, WireType
  <1>9. CASE AckAccepted
    BY <1>9 DEF AckAccepted, CommitAck, Forget, thread, alarm, link, server,
       RemoveRow, KnownInv, TableType, PumpType, WireType, AnswerInv,
       RecordAccepted
  <1>10. CASE AckRefused
    BY <1>10 DEF AckRefused, FinishAttempt, outbox, Forget, thread, alarm,
       link, server, KnownInv, TableType, PumpType, WireType, AnswerInv,
       NoAck, RecordRefused, EndAttempt
  <1>11. CASE AckServerError
    BY <1>11 DEF AckServerError, FinishAttempt, outbox, Earlier, Notify, link,
       server, KnownInv, TableType, PumpType, WireType, AnswerInv, NoAck,
       RecordError, EndAttempt
  <1>12. CASE (\E m \in Msgs : RoamOwn(m))
    BY <1>12 DEF RoamOwn, RemoveRow, thread, alarm, link, server, KnownInv,
       TableType, PumpType, WireType
  <1>13. CASE \/ Authenticated \/ GateShut \/ StopBegin \/ StopEnd \/ Start
    BY <1>13 DEF Authenticated, Notify, outbox, server, GateShut, thread,
       alarm, StopBegin, Fault, StopEnd, Start, KnownInv, TableType,
       PumpType, WireType
  <1>14. CASE Crash
    BY <1>14 DEF Crash, Fault, outbox, KnownInv, TableType, PumpType,
       WireType
  <1>15. CASE Tick
    BY <1>15 DEF Tick, Less, link, server, KnownInv, TableType, PumpType,
       WireType
  <1>16. CASE UNCHANGED vars
    BY <1>16 DEF vars, outbox, thread, alarm, link, server, KnownInv,
       TableType, PumpType, WireType
  <1> QED
    BY <1>1, <1>20, <1>2, <1>3, <1>4, <1>5, <1>6, <1>7, <1>8, <1>9, <1>10, <1>11,
       <1>12, <1>13, <1>14, <1>15, <1>16 DEF Next, PumpStep, AckStep, Environment

LEMMA AnswerStep ==
  ASSUME TableType, WireType, KnownInv, AnswerInv, [Next]_vars
  PROVE  AnswerInv'
  <1>1. CASE \/ (\E m \in Msgs : Draft(m))
             \/ (\E m \in Msgs : DraftUnknown(m))
    BY <1>1 DEF Draft, CommitDraft, thread, alarm, link, server,
       DraftUnknown, AnswerInv, TableType, WireType
  <1>2. CASE \/ (\E m \in Msgs : Register(m))
             \/ (\E m \in Msgs : WakePump(m))
    BY <1>2 DEF Register, outbox, thread, alarm, link, server, WakePump,
       Notify, AnswerInv, TableType, WireType
  <1>3. CASE \/ PumpWait \/ PumpTimeout \/ PumpWoken \/ FlushClosed
             \/ FlushEnd
    BY <1>3 DEF PumpWait, outbox, alarm, link, server, PumpTimeout,
       PumpWoken, FlushClosed, FlushEnd, Earlier, AnswerInv, TableType,
       WireType
  <1>4. CASE FlushClaim \/ FlushClaimFails
    <2>1. UNCHANGED <<answers, stored, ui>>
      BY <1>4 DEF FlushClaim, FlushClaimFails, server
    <2>2. ack.msg \in Oldest(Due) => ack # NoAck
      BY DEF Oldest, Due, Msgs, NoAck
    <2>3. /\ ack' # NoAck => ack # NoAck
          /\ ack'.msg = ack.msg /\ ack'.result = ack.result
      <3>1. \/ ack' = ack
            \/ ack' = IF ack.msg \in Oldest(Due) THEN [ack EXCEPT !.attempt = "old"] ELSE ack
        BY <1>4 DEF FlushClaim, FlushClaimFails, Claim
      <3> QED
        BY <2>2, <3>1 DEF WireType
    <2> QED
      BY <2>1, <2>3 DEF AnswerInv
  <1>5. CASE \/ (\E m \in Msgs : SendOne(m))
             \/ (\E m \in Msgs : RecordAttempt(m))
    BY <1>5 DEF SendOne, NextInBatch, outbox, alarm, link, RecordAttempt,
       server, AnswerInv, TableType, WireType
  <1>6. CASE (\E m \in Msgs : SendFails(m))
    BY <1>6 DEF SendFails, NextInBatch, FinishAttempt, Earlier, alarm, link,
       server, outbox, AnswerInv, TableType, WireType
  <1>7. CASE \/ (\E m \in Msgs, r \in Results : ServerAnswers(m, r))
             \/ (\E m \in Msgs : RequestLost(m)) \/ Connected
             \/ Disconnected
    BY <1>7 DEF ServerAnswers, outbox, thread, alarm, link, RequestLost,
       Fault, Connected, server, Disconnected, AnswerInv, TableType,
       WireType
  <1>8. CASE (\E a \in answers : AckRead(a))
    BY <1>8 DEF AckRead, outbox, thread, alarm, link, AnswerInv, TableType,
       WireType, KnownInv
  <1>9. CASE \/ AckFails \/ AckAccepted \/ AckRefused \/ AckServerError
    BY <1>9 DEF AckFails, Fault, outbox, thread, alarm, link, server,
       AckAccepted, CommitAck, Forget, RemoveRow, AckRefused, FinishAttempt,
       AckServerError, Earlier, Notify, AnswerInv, TableType, WireType,
       RecordAccepted, RecordRefused, RecordError, EndAttempt
  <1>10. CASE (\E m \in Msgs : RoamOwn(m))
    BY <1>10 DEF RoamOwn, RemoveRow, thread, alarm, link, server, AnswerInv,
       TableType, WireType
  <1>11. CASE \/ Authenticated \/ GateShut \/ StopBegin \/ StopEnd \/ Start
    BY <1>11 DEF Authenticated, Notify, outbox, server, GateShut, thread,
       alarm, StopBegin, Fault, StopEnd, Start, AnswerInv, TableType,
       WireType
  <1>12. CASE Crash
    BY <1>12 DEF Crash, Fault, outbox, AnswerInv, TableType, WireType
  <1>13. CASE Tick
    BY <1>13 DEF Tick, Less, link, server, AnswerInv, TableType, WireType
  <1>14. CASE UNCHANGED vars
    BY <1>14 DEF vars, outbox, thread, alarm, link, server, AnswerInv,
       TableType, WireType
  <1> QED
    BY <1>1, <1>2, <1>3, <1>4, <1>5, <1>6, <1>7, <1>8, <1>9, <1>10, <1>11,
       <1>12, <1>13, <1>14 DEF Next, PumpStep, AckStep, Environment

LEMMA GoneStep ==
  ASSUME TableType, WireType, KnownInv, AnswerInv, GoneInv, [Next]_vars
  PROVE  GoneInv'
  <1>1. CASE \/ (\E m \in Msgs : Draft(m))
             \/ (\E m \in Msgs : DraftUnknown(m))
             \/ (\E m \in Msgs : Register(m))
             \/ (\E m \in Msgs : WakePump(m))
    BY <1>1 DEF Draft, CommitDraft, thread, alarm, link, server,
       DraftUnknown, Register, outbox, WakePump, Notify, GoneInv, TableType
  <1>2. CASE \/ PumpWait \/ PumpTimeout \/ PumpWoken \/ FlushClosed
             \/ FlushEnd \/ FlushClaimFails
    BY <1>2 DEF PumpWait, outbox, alarm, link, server, PumpTimeout, PumpWoken,
       FlushClosed, FlushEnd, Earlier, FlushClaimFails, Fault, GoneInv,
       TableType, Claim, Oldest, Due
  <1>3. CASE FlushClaim
    BY <1>3 DEF FlushClaim, Oldest, Due, Claim, alarm, link, server,
       GoneInv, TableType
  <1>4. CASE \/ (\E m \in Msgs : SendOne(m))
             \/ (\E m \in Msgs : RecordAttempt(m))
    BY <1>4 DEF SendOne, NextInBatch, outbox, alarm, link, RecordAttempt,
       server, GoneInv, TableType
  <1>5. CASE (\E m \in Msgs : SendFails(m))
    BY <1>5 DEF SendFails, NextInBatch, FinishAttempt, Earlier, alarm, link,
       server, outbox, GoneInv, TableType
  <1>6. CASE \/ (\E m \in Msgs, r \in Results : ServerAnswers(m, r))
             \/ (\E m \in Msgs : RequestLost(m)) \/ Connected
             \/ Disconnected
    BY <1>6 DEF ServerAnswers, outbox, thread, alarm, link, RequestLost,
       Fault, Connected, server, Disconnected, GoneInv, TableType
  <1>7. CASE (\E a \in answers : AckRead(a))
    BY <1>7 DEF AckRead, outbox, thread, alarm, link, server, GoneInv,
       TableType
  <1>20. CASE AckFails
    BY <1>20, AckFailsDoes DEF CommitAck, RemoveRow, FinishAttempt,
       outbox, GoneInv, TableType
  <1>8. CASE AckAccepted
    BY <1>8 DEF AckAccepted, CommitAck, Forget, thread, alarm, link, server,
       RemoveRow, GoneInv, TableType, AnswerInv, RecordAccepted
  <1>9. CASE AckRefused
    BY <1>9 DEF AckRefused, FinishAttempt, outbox, Forget, thread, alarm,
       link, server, GoneInv, TableType, AnswerInv, NoAck,
       RecordRefused, EndAttempt
  <1>10. CASE AckServerError
    BY <1>10 DEF AckServerError, FinishAttempt, outbox, Earlier, Notify,
       link, server, GoneInv, TableType, AnswerInv, NoAck,
       RecordError, EndAttempt
  <1>11. CASE (\E m \in Msgs : RoamOwn(m))
    BY <1>11 DEF RoamOwn, RemoveRow, thread, alarm, link, server, GoneInv,
       TableType
  <1>12. CASE \/ Authenticated \/ GateShut \/ StopBegin \/ StopEnd \/ Start
              \/ Crash
    BY <1>12 DEF Authenticated, Notify, outbox, server, GateShut, thread,
       alarm, StopBegin, Fault, StopEnd, Start, Crash, GoneInv, TableType
  <1>13. CASE Tick
    BY <1>13 DEF Tick, Less, link, server, GoneInv, TableType
  <1>14. CASE UNCHANGED vars
    BY <1>14 DEF vars, outbox, thread, alarm, link, server, GoneInv,
       TableType
  <1> QED
    BY <1>1, <1>20, <1>2, <1>3, <1>4, <1>5, <1>6, <1>7, <1>8, <1>9, <1>10, <1>11,
       <1>12, <1>13, <1>14 DEF Next, PumpStep, AckStep, Environment

LEMMA StatusStep ==
  ASSUME TableType, WireType, KnownInv, AnswerInv, StatusMatches, [Next]_vars
  PROVE  StatusMatches'
  <1>1. CASE \/ (\E m \in Msgs : Draft(m))
             \/ (\E m \in Msgs : DraftUnknown(m))
             \/ (\E m \in Msgs : Register(m))
             \/ (\E m \in Msgs : WakePump(m))
    BY <1>1 DEF Draft, CommitDraft, thread, alarm, link, server,
       DraftUnknown, Register, outbox, WakePump, Notify, StatusMatches,
       TableType, KnownInv
  <1>2. CASE \/ PumpWait \/ PumpTimeout \/ PumpWoken \/ FlushClosed
             \/ FlushEnd \/ FlushClaimFails
    BY <1>2 DEF PumpWait, outbox, alarm, link, server, PumpTimeout, PumpWoken,
       FlushClosed, FlushEnd, Earlier, FlushClaimFails, Fault, StatusMatches,
       TableType, Claim, Oldest, Due
  <1>3. CASE FlushClaim
    BY <1>3 DEF FlushClaim, Oldest, Due, Claim, alarm, link, server,
       StatusMatches, TableType
  <1>4. CASE \/ (\E m \in Msgs : SendOne(m))
             \/ (\E m \in Msgs : RecordAttempt(m))
    BY <1>4 DEF SendOne, NextInBatch, outbox, alarm, link, RecordAttempt,
       server, StatusMatches, TableType
  <1>5. CASE (\E m \in Msgs : SendFails(m))
    BY <1>5 DEF SendFails, NextInBatch, FinishAttempt, Earlier, alarm, link,
       server, outbox, StatusMatches, TableType
  <1>6. CASE \/ (\E m \in Msgs, r \in Results : ServerAnswers(m, r))
             \/ (\E m \in Msgs : RequestLost(m)) \/ Connected
             \/ Disconnected
    BY <1>6 DEF ServerAnswers, outbox, thread, alarm, link, RequestLost,
       Fault, Connected, server, Disconnected, StatusMatches, TableType
  <1>7. CASE (\E a \in answers : AckRead(a))
    BY <1>7 DEF AckRead, outbox, thread, alarm, link, server, StatusMatches,
       TableType
  <1>20. CASE AckFails
    BY <1>20, AckFailsDoes DEF CommitAck, RemoveRow, FinishAttempt,
       outbox, StatusMatches, TableType
  <1>8. CASE AckAccepted
    BY <1>8 DEF AckAccepted, CommitAck, Forget, thread, alarm, link, server,
       RemoveRow, StatusMatches, TableType, AnswerInv, RecordAccepted
  <1>9. CASE AckRefused
    BY <1>9 DEF AckRefused, FinishAttempt, outbox, Forget, thread, alarm,
       link, server, StatusMatches, TableType, AnswerInv, NoAck,
       RecordRefused, EndAttempt
  <1>10. CASE AckServerError
    BY <1>10 DEF AckServerError, FinishAttempt, outbox, Earlier, Notify,
       link, server, StatusMatches, TableType, AnswerInv, NoAck,
       RecordError, EndAttempt
  <1>11. CASE (\E m \in Msgs : RoamOwn(m))
    BY <1>11 DEF RoamOwn, RemoveRow, thread, alarm, link, server,
       StatusMatches, TableType
  <1>12. CASE \/ Authenticated \/ GateShut \/ StopBegin \/ StopEnd \/ Start
              \/ Crash
    BY <1>12 DEF Authenticated, Notify, outbox, server, GateShut, thread,
       alarm, StopBegin, Fault, StopEnd, Start, Crash, StatusMatches,
       TableType
  <1>13. CASE Tick
    BY <1>13 DEF Tick, Less, link, server, StatusMatches, TableType
  <1>14. CASE UNCHANGED vars
    BY <1>14 DEF vars, outbox, thread, alarm, link, server, StatusMatches,
       TableType
  <1> QED
    BY <1>1, <1>20, <1>2, <1>3, <1>4, <1>5, <1>6, <1>7, <1>8, <1>9, <1>10, <1>11,
       <1>12, <1>13, <1>14 DEF Next, PumpStep, AckStep, Environment

-----------------------------------------------------------------------------
(* The theorems.                                                           *)

LEMMA Init_IInv == Init => IInv
  <1> SUFFICES ASSUME Init PROVE IInv
    OBVIOUS
  <1>1. TableType /\ PumpType /\ LinkType
    BY DEF Init, TableType, PumpType, LinkType
  <1>2. TimerType /\ WireType /\ FaultType
    BY OutboxAssumption DEF Init, TimerType, WireType, FaultType, NoAck
  <1>3. KnownInv /\ AnswerInv /\ GoneInv /\ StatusMatches
    BY DEF Init, KnownInv, AnswerInv, GoneInv, StatusMatches
  <1> QED
    BY <1>1, <1>2, <1>3, TypeParts DEF IInv

LEMMA Next_IInv == IInv /\ [Next]_vars => IInv'
  <1> SUFFICES ASSUME IInv, [Next]_vars PROVE IInv'
    OBVIOUS
  <1>1. TableType /\ PumpType /\ TimerType /\ LinkType /\ WireType /\ FaultType
    BY TypeParts DEF IInv
  <1>2. FaultType'
    <2>1. Fault \/ UNCHANGED faults
      BY FaultsCounted
    <2> QED
      BY <1>1, <2>1, OutboxAssumption DEF FaultType, Fault
  <1>3. TypeOK'
    <2>1. (TableType /\ PumpType /\ TimerType /\ LinkType /\ WireType)'
      BY <1>1, TableTypeStep, PumpTypeStep, TimerTypeStep, LinkTypeStep, WireTypeStep
         DEF IInv
    <2>2. TypeOK' <=> (/\ TableType /\ PumpType /\ TimerType
                       /\ LinkType /\ WireType /\ FaultType)'
      BY TypeParts, PTL
    <2> QED
      BY <1>2, <2>1, <2>2
  <1>4. KnownInv' /\ AnswerInv' /\ GoneInv' /\ StatusMatches'
    BY <1>1, KnownStep, AnswerStep, GoneStep, StatusStep DEF IInv
  <1> QED
    BY <1>3, <1>4 DEF IInv

LEMMA Always_IInv == Spec => []IInv
  BY Init_IInv, Next_IInv, PTL DEF Spec

(* Every variable keeps its type. *)
THEOREM TypeCorrect == Spec => []TypeOK
  <1>1. IInv => TypeOK
    BY DEF IInv
  <1> QED
    BY <1>1, Always_IInv, PTL

(* A message that was sent and is not stored keeps its row: what removes   *)
(* rows is an answer that says the server has the message, or the message  *)
(* itself coming back.                                                     *)
THEOREM NothingIsLost == Spec => []NothingLost
  <1>1. IInv => NothingLost
    BY DEF IInv, TypeOK, KnownInv, GoneInv, NothingLost
  <1> QED
    BY <1>1, Always_IInv, PTL

(* The status of a message and its outbox row change together. *)
THEOREM StatusMatchesRow == Spec => []StatusMatches
  <1>1. IInv => StatusMatches
    BY DEF IInv
  <1> QED
    BY <1>1, Always_IInv, PTL

LEMMA Settled ==
  ASSUME TableType, WireType, KnownInv, AnswerInv, StatusMatches, [Next]_vars,
         NEW m \in Msgs
  PROVE  /\ row[m] = "gone" => row'[m] = "gone" /\ status'[m] = status[m]
         /\ row[m] = "dead" => row'[m] \in {"dead", "gone"} /\ m \notin (batch' \ batch)
  <1>1. CASE \/ (\E k \in Msgs : Draft(k))
             \/ (\E k \in Msgs : DraftUnknown(k))
    BY <1>1 DEF Draft, CommitDraft, thread, alarm, link, server,
       DraftUnknown, TableType, KnownInv
  <1>2. CASE \/ (\E k \in Msgs : Register(k))
             \/ (\E k \in Msgs : WakePump(k))
    BY <1>2 DEF Register, outbox, thread, alarm, link, server, WakePump,
       Notify, TableType
  <1>3. CASE \/ PumpWait \/ PumpTimeout \/ PumpWoken \/ FlushClosed
             \/ FlushEnd \/ FlushClaimFails
    BY <1>3 DEF PumpWait, outbox, alarm, link, server, PumpTimeout, PumpWoken,
       FlushClosed, FlushEnd, Earlier, FlushClaimFails, Fault, TableType,
       Claim, Oldest, Due
  <1>4. CASE FlushClaim
    BY <1>4 DEF FlushClaim, Oldest, Due, Claim, alarm, link, server,
       TableType
  <1>5. CASE \/ (\E k \in Msgs : SendOne(k))
             \/ (\E k \in Msgs : RecordAttempt(k))
    BY <1>5 DEF SendOne, NextInBatch, outbox, alarm, link, RecordAttempt,
       server, TableType
  <1>6. CASE (\E k \in Msgs : SendFails(k))
    BY <1>6 DEF SendFails, NextInBatch, FinishAttempt, Earlier, alarm, link,
       server, outbox, TableType
  <1>7. CASE \/ (\E k \in Msgs, r \in Results : ServerAnswers(k, r))
             \/ (\E k \in Msgs : RequestLost(k)) \/ Connected
             \/ Disconnected
    BY <1>7 DEF ServerAnswers, outbox, thread, alarm, link, RequestLost,
       Fault, Connected, server, Disconnected, TableType
  <1>8. CASE (\E a \in answers : AckRead(a))
    BY <1>8 DEF AckRead, outbox, thread, alarm, link, server, TableType
  <1>20. CASE AckFails
    BY <1>20, AckFailsDoes DEF CommitAck, RemoveRow, FinishAttempt,
       outbox, TableType, StatusMatches
  <1>9. CASE AckAccepted
    BY <1>9 DEF AckAccepted, CommitAck, Forget, thread, alarm, link, server,
       RemoveRow, TableType, StatusMatches, AnswerInv, RecordAccepted
  <1>10. CASE AckRefused
    BY <1>10 DEF AckRefused, FinishAttempt, outbox, Forget, thread, alarm,
       link, server, TableType, AnswerInv, NoAck, RecordRefused, EndAttempt
  <1>11. CASE AckServerError
    BY <1>11 DEF AckServerError, FinishAttempt, outbox, Earlier, Notify, link,
       server, TableType, AnswerInv, NoAck, RecordError, EndAttempt
  <1>12. CASE (\E k \in Msgs : RoamOwn(k))
    BY <1>12 DEF RoamOwn, RemoveRow, thread, alarm, link, server, TableType,
       StatusMatches
  <1>13. CASE \/ Authenticated \/ GateShut \/ StopBegin \/ StopEnd \/ Start
    BY <1>13 DEF Authenticated, Notify, outbox, server, GateShut, thread,
       alarm, StopBegin, Fault, StopEnd, Start, TableType
  <1>14. CASE Crash
    BY <1>14 DEF Crash, Fault, outbox, TableType
  <1>15. CASE Tick
    BY <1>15 DEF Tick, Less, link, server, TableType
  <1>16. CASE UNCHANGED vars
    BY <1>16 DEF vars, outbox, thread, alarm, link, server, TableType
  <1> QED
    BY <1>1, <1>20, <1>2, <1>3, <1>4, <1>5, <1>6, <1>7, <1>8, <1>9, <1>10, <1>11,
       <1>12, <1>13, <1>14, <1>15, <1>16 DEF Next, PumpStep, AckStep, Environment

(* A settled message never changes, a refused one is not claimed again.    *)
THEOREM SettledForGood == Spec => SettledStays
  <1>1. IInv /\ [Next]_vars =>
          [\A m \in Msgs :
             /\ row[m] = "gone" => row'[m] = "gone" /\ status'[m] = status[m]
             /\ row[m] = "dead" => row'[m] \in {"dead", "gone"}
                                   /\ m \notin (batch' \ batch)]_vars
    BY TypeParts, Settled DEF IInv
  <1> QED
    BY <1>1, Always_IInv, PTL DEF Spec, SettledStays

LEMMA Backoff ==
  ASSUME TableType, WireType, KnownInv, AnswerInv, StatusMatches, [Next]_vars,
         NEW m \in Msgs
  PROVE  row[m] = "live" /\ row'[m] = "live" /\ finished[m] /\ finished'[m]
           => due'[m] \in {due[m], Less(due[m])}
  <1>1. CASE \/ (\E k \in Msgs : Draft(k))
             \/ (\E k \in Msgs : DraftUnknown(k))
    BY <1>1 DEF Draft, CommitDraft, thread, alarm, link, server,
       DraftUnknown, TableType, KnownInv
  <1>2. CASE \/ (\E k \in Msgs : Register(k))
             \/ (\E k \in Msgs : WakePump(k))
    BY <1>2 DEF Register, outbox, thread, alarm, link, server, WakePump,
       Notify, TableType
  <1>3. CASE \/ PumpWait \/ PumpTimeout \/ PumpWoken \/ FlushClosed
             \/ FlushEnd \/ FlushClaimFails
    BY <1>3 DEF PumpWait, outbox, alarm, link, server, PumpTimeout, PumpWoken,
       FlushClosed, FlushEnd, Earlier, FlushClaimFails, Fault, TableType,
       Claim, Oldest, Due
  <1>4. CASE FlushClaim
    BY <1>4 DEF FlushClaim, Oldest, Due, Claim, alarm, link, server,
       TableType
  <1>5. CASE \/ (\E k \in Msgs : SendOne(k))
             \/ (\E k \in Msgs : RecordAttempt(k))
    BY <1>5 DEF SendOne, NextInBatch, outbox, alarm, link, RecordAttempt,
       server, TableType
  <1>6. CASE (\E k \in Msgs : SendFails(k))
    BY <1>6 DEF SendFails, NextInBatch, FinishAttempt, Earlier, alarm, link,
       server, outbox, TableType
  <1>7. CASE \/ (\E k \in Msgs, r \in Results : ServerAnswers(k, r))
             \/ (\E k \in Msgs : RequestLost(k)) \/ Connected
             \/ Disconnected
    BY <1>7 DEF ServerAnswers, outbox, thread, alarm, link, RequestLost,
       Fault, Connected, server, Disconnected, TableType
  <1>8. CASE (\E a \in answers : AckRead(a))
    BY <1>8 DEF AckRead, outbox, thread, alarm, link, server, TableType
  <1>20. CASE AckFails
    BY <1>20, AckFailsDoes DEF CommitAck, RemoveRow, FinishAttempt,
       outbox, TableType
  <1>9. CASE AckAccepted
    BY <1>9 DEF AckAccepted, CommitAck, Forget, thread, alarm, link, server,
       RemoveRow, TableType, StatusMatches, AnswerInv, RecordAccepted
  <1>10. CASE AckRefused
    BY <1>10 DEF AckRefused, FinishAttempt, outbox, Forget, thread, alarm,
       link, server, TableType, AnswerInv, NoAck, RecordRefused, EndAttempt
  <1>11. CASE AckServerError
    BY <1>11 DEF AckServerError, FinishAttempt, outbox, Earlier, Notify, link,
       server, TableType, AnswerInv, NoAck, RecordError, EndAttempt
  <1>12. CASE (\E k \in Msgs : RoamOwn(k))
    BY <1>12 DEF RoamOwn, RemoveRow, thread, alarm, link, server, TableType,
       StatusMatches
  <1>13. CASE \/ Authenticated \/ GateShut \/ StopBegin \/ StopEnd \/ Start
    BY <1>13 DEF Authenticated, Notify, outbox, server, GateShut, thread,
       alarm, StopBegin, Fault, StopEnd, Start, TableType
  <1>14. CASE Crash
    BY <1>14 DEF Crash, Fault, outbox, TableType
  <1>15. CASE Tick
    BY <1>15 DEF Tick, Less, link, server, TableType
  <1>16. CASE UNCHANGED vars
    BY <1>16 DEF vars, outbox, thread, alarm, link, server, TableType
  <1> QED
    BY <1>1, <1>20, <1>2, <1>3, <1>4, <1>5, <1>6, <1>7, <1>8, <1>9, <1>10, <1>11,
       <1>12, <1>13, <1>14, <1>15, <1>16 DEF Next, PumpStep, AckStep, Environment

(* The retry time of a finished attempt only runs down. *)
THEOREM BackoffIsKept == Spec => BackoffKept
  <1>1. IInv /\ [Next]_vars =>
          [\A m \in Msgs :
             row[m] = "live" /\ row'[m] = "live" /\ finished[m] /\ finished'[m]
             => due'[m] \in {due[m], Less(due[m])}]_vars
    BY TypeParts, Backoff DEF IInv
  <1> QED
    BY <1>1, Always_IInv, PTL DEF Spec, BackoffKept
=============================================================================
