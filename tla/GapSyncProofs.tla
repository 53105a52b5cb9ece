--------------------------- MODULE GapSyncProofs ---------------------------
(***************************************************************************)
(* What holds of the gap tracker for every length of the conversation,     *)
(* page size, page budget and number of faults.                            *)
(***************************************************************************)
EXTENDS GapSync, SequenceTheorems, TLAPS

Requests == [kind : {"page", "convs"}, before : Nat, limit : Nat]
Packets == [kind : {"push", "page", "convs"}, rows : SUBSET Seqs, more : BOOLEAN]
Places == {"idle", "look", "clear", "later", "claim", "arm", "charge", "chargePage",
           "lapse"}
GapRecords == {g \in [from : Seqs, to : Seqs] : g.from <= g.to}

(* A thread that is about to send a request aims at a gap, and the page    *)
(* counter stays within the budget.                                        *)
TrackerType ==
    /\ stored \subseteq Seqs /\ arrived \subseteq Seqs /\ loaded \in BOOLEAN
    /\ retry \in [Seqs -> {"none", "wait", "due"}]
    /\ timer \in 0..Timeout
    /\ faults \in Nat

FlightType ==
    /\ running \in BOOLEAN /\ open \in BOOLEAN
    /\ pending \in BOOLEAN /\ inflight \in BOOLEAN /\ pages \in 0..MaxPages

ThreadType ==
    /\ pc \in [Threads -> Places]
    /\ aim \in [Threads -> GapRecords \cup {NoAim}]
    /\ \A t \in Threads : pc[t] = "claim" => aim[t] # NoAim

WireType ==
    /\ top \in 0..MaxSeq
    /\ up \in Seq(Requests) /\ down \in Seq(Packets)
    /\ fresh \in BOOLEAN

IInv == TrackerType /\ FlightType /\ ThreadType /\ WireType /\ ArrivedIsStored

-----------------------------------------------------------------------------
(* The helpers.                                                            *)

LEMMA Bounds ==
    /\ 0 \in 0..MaxPages
    /\ 0 \in 0..Timeout /\ Timeout \in 0..Timeout
  BY GapSyncAssumption DEF Timeout

LEMMA GapsType ==
    ASSUME NEW S
    PROVE  Gaps(S) \subseteq GapRecords
  BY DEF Gaps, GapRecords

LEMMA ContiguousMonotonic ==
    ASSUME NEW S, NEW T, S \subseteq T
    PROVE  Contiguous(S) \subseteq Contiguous(T)
  BY DEF Contiguous

LEMMA TimerType ==
    ASSUME NEW S, NEW r, timer \in 0..Timeout, ArmRetry(S, r)
    PROVE  timer' \in 0..Timeout
  <1> DEFINE Timed == {g.from : g \in Gaps(S)} \cap {s \in Seqs : r[s] # "none"}
  <1>1. timer' = timer \/ timer' \in Timed
    BY DEF ArmRetry
  <1>2. Seqs \subseteq 0..Timeout
    BY GapSyncAssumption DEF Seqs, Timeout
  <1> QED
    BY <1>1, <1>2

LEMMA ChargedType ==
    ASSUME NEW S, NEW r \in [Seqs -> {"none", "wait", "due"}]
    PROVE  Charged(S, r) \in [Seqs -> {"none", "wait", "due"}]
  BY DEF Charged

LEMMA RetriesType ==
    ASSUME TrackerType, NEW failed \in BOOLEAN
    PROVE  Retries(failed) \in [Seqs -> {"none", "wait", "due"}]
  BY DEF Retries, TrackerType

LEMMA FindsStored ==
    ASSUME TrackerType, ArrivedIsStored, NEW failed \in BOOLEAN,
           NEW rows \in SUBSET Seqs
    PROVE  /\ Finds(failed, rows) \subseteq Seqs
           /\ Finds(failed, rows) \subseteq stored \cup rows
  BY DEF Finds, Restores, TrackerType, ArrivedIsStored

(* A thread goes anywhere but to a request. *)
LEMMA Moved ==
    ASSUME ThreadType, NEW t \in Threads, NEW p \in Places \ {"claim"}, Goes(t, p),
           aim' = aim \/ aim' = [aim EXCEPT ![t] = NoAim]
    PROVE  ThreadType'
  <1>1. pc' \in [Threads -> Places] /\ \A u \in Threads : pc'[u] = IF u = t THEN p ELSE pc[u]
    BY DEF ThreadType, Goes
  <1>2. /\ aim' \in [Threads -> GapRecords \cup {NoAim}]
        /\ \A u \in Threads \ {t} : aim'[u] = aim[u]
    BY DEF ThreadType
  <1> QED
    BY <1>1, <1>2 DEF ThreadType

LEMMA Rested ==
    ASSUME ThreadType, UNCHANGED threads
    PROVE  ThreadType'
  BY DEF ThreadType, threads

LEMMA BlameType ==
    ASSUME faults \in Nat, NEW failed, Blame(failed)
    PROVE  faults' \in Nat
  BY GapSyncAssumption DEF Blame

(* What storing a packet does to the tracker. *)
LEMMA StoreSafe ==
    ASSUME TrackerType, ArrivedIsStored, pending \in BOOLEAN,
           NEW rows \in SUBSET Seqs, NEW ok \in SUBSET rows, Store(rows, ok)
    PROVE  /\ stored' \subseteq Seqs /\ arrived' \subseteq Seqs /\ loaded' \in BOOLEAN
           /\ retry' \in [Seqs -> {"none", "wait", "due"}]
           /\ faults' \in Nat
           /\ pending' \in BOOLEAN
           /\ ArrivedIsStored'
           /\ stored \subseteq stored'
           /\ Known \subseteq Known' \/ (~loaded /\ faults' > faults)
  <1>1. PICK late \in SUBSET (rows \ ok), failed \in BOOLEAN :
          /\ failed => ~loaded /\ ok # {}
          /\ Blame(failed \/ (running /\ ok # rows))
          /\ stored' = stored \cup ok \cup late
          /\ loaded' = (loaded \/ ok # {})
          /\ arrived' = IF ok = {} THEN arrived
                        ELSE Finds(failed, stored \cup ok) \cup ok
          /\ retry' = Retries(failed)
          /\ pending' = (pending \/ (ok # {} /\ Gaps(arrived') # {}))
    BY DEF Store, Observes
  <1>2. faults' \in Nat
    BY <1>1, BlameType DEF TrackerType
  <1>3. retry' \in [Seqs -> {"none", "wait", "due"}]
    BY <1>1, RetriesType
  <1>4. /\ Finds(failed, stored \cup ok) \subseteq Seqs
        /\ Finds(failed, stored \cup ok) \subseteq stored \cup ok
    BY FindsStored DEF TrackerType
  <1>5. stored' \subseteq Seqs /\ arrived' \subseteq Seqs /\ stored \subseteq stored'
    BY <1>1, <1>4 DEF TrackerType
  <1>6. ArrivedIsStored'
    BY <1>1, <1>4 DEF ArrivedIsStored
  <1>7. Known \subseteq Known' \/ (~loaded /\ faults' > faults)
    <2>1. CASE failed
      BY <1>1, <2>1 DEF Blame, TrackerType
    <2>2. CASE ~failed
      BY <1>1, <2>2 DEF Known, Finds, Restores, TrackerType
    <2> QED
      BY <2>1, <2>2
  <1> QED
    BY <1>1, <1>2, <1>3, <1>5, <1>6, <1>7 DEF TrackerType

-----------------------------------------------------------------------------
LEMMA InitInv == Init => IInv
  <1> SUFFICES ASSUME Init PROVE IInv
    OBVIOUS
  <1>1. TrackerType
    <2>1. 0 \in 0..Timeout
      BY GapSyncAssumption DEF Timeout
    <2>2. [s \in Seqs |-> "none"] \in [Seqs -> {"none", "wait", "due"}]
      OBVIOUS
    <2> QED
      BY <2>1, <2>2 DEF Init, TrackerType, NoTimer
  <1>2. FlightType
    BY Bounds DEF Init, FlightType
  <1>4. ThreadType
    <2>1. /\ pc \in [Threads -> Places] /\ aim \in [Threads -> GapRecords \cup {NoAim}]
          /\ \A t \in Threads : pc[t] = "idle"
      BY DEF Init, Places
    <2> QED
      BY <2>1 DEF ThreadType
  <1>3. WireType
    BY EmptySeq DEF Init, WireType
  <1> QED
    BY <1>1, <1>2, <1>3, <1>4 DEF IInv, ArrivedIsStored, Init

(* maybeRequestGap. *)
LEMMA AskInv ==
    ASSUME IInv, NEW t \in Threads, Ask(t)
    PROVE  IInv' /\ (Known \subseteq Known' \/ (~loaded /\ faults' > faults))
  <1> USE DEF IInv
  <1>1. CASE Look(t)
    <2>1. UNCHANGED <<top, stored, running, open, pending, inflight, pages, up, down, fresh>>
      BY <1>1 DEF Look, gate, flight, wire
    <2>2. CASE ~running
      <3>1. Goes(t, "idle") /\ UNCHANGED <<tracker, timer, aim, faults>>
        BY <1>1, <2>2 DEF Look
      <3> QED
        BY <2>1, <3>1, Moved DEF tracker, TrackerType, FlightType, WireType, Places,
                                 ArrivedIsStored, Known
    <2>3. CASE running
      <3>1. PICK failed \in BOOLEAN :
              /\ failed => ~loaded
              /\ Blame(failed)
              /\ loaded' = TRUE
              /\ arrived' = Finds(failed, stored)
              /\ retry' = Retries(failed)
        BY <1>1, <2>3 DEF Look
      <3>2. arrived' \subseteq Seqs /\ arrived' \subseteq stored
        BY <3>1, FindsStored DEF TrackerType
      <3>3. retry' \in [Seqs -> {"none", "wait", "due"}] /\ faults' \in Nat
        BY <3>1, RetriesType, BlameType DEF TrackerType
      <3>4. timer' \in 0..Timeout
        BY <1>1, <2>3, TimerType DEF Look, TrackerType
      <3>5. TrackerType' /\ ArrivedIsStored'
        BY <2>1, <3>1, <3>2, <3>3, <3>4 DEF TrackerType, ArrivedIsStored
      <3>6. \/ /\ aim' = aim
               /\ Goes(t, "clear") \/ Goes(t, "idle") \/ Goes(t, "later")
            \/ /\ Goes(t, "claim")
               /\ \E g \in Gaps(arrived') : aim' = [aim EXCEPT ![t] = g]
        BY <1>1, <2>3 DEF Look, Fronts, Ready
      <3>7. ThreadType'
        <4>1. CASE /\ aim' = aim
                   /\ Goes(t, "clear") \/ Goes(t, "idle") \/ Goes(t, "later")
          BY <4>1, Moved DEF Places
        <4>2. CASE /\ Goes(t, "claim")
                   /\ \E g \in Gaps(arrived') : aim' = [aim EXCEPT ![t] = g]
          <5>1. PICK g \in GapRecords : aim' = [aim EXCEPT ![t] = g]
            BY <4>2, GapsType
          <5>2. g # NoAim
            BY DEF GapRecords, NoAim, Seqs
          <5>3. /\ pc' \in [Threads -> Places]
                /\ \A u \in Threads \ {t} : pc'[u] = pc[u]
            BY <4>2 DEF ThreadType, Goes, Places
          <5>4. /\ aim' \in [Threads -> GapRecords \cup {NoAim}] /\ aim'[t] = g
                /\ \A u \in Threads \ {t} : aim'[u] = aim[u]
            BY <5>1 DEF ThreadType
          <5> QED
            BY <5>2, <5>3, <5>4 DEF ThreadType
        <4> QED
          BY <3>6, <4>1, <4>2
      <3>8. Known \subseteq Known' \/ (~loaded /\ faults' > faults)
        BY <2>1, <3>1 DEF Known, Finds, Restores, Blame, TrackerType
      <3> QED
        BY <2>1, <3>5, <3>7, <3>8 DEF WireType, FlightType
    <2> QED
      BY <2>2, <2>3 DEF FlightType
  <1>2. CASE Clear(t) \/ Later(t) \/ Arm(t)
    <2>1. UNCHANGED <<top, stored, tracker, running, open, aim, up, down, fresh, faults>>
      BY <1>2 DEF Clear, Later, Arm, gate, wire, flight
    <2>2. TrackerType' /\ ArrivedIsStored' /\ WireType'
      BY <1>2, <2>1, GapSyncAssumption
         DEF Clear, Later, Arm, TrackerType, ArrivedIsStored, WireType, tracker, Timeout
    <2>3. FlightType'
      <3>1. pages' \in 0..MaxPages
        BY <1>2, Bounds DEF Clear, Later, Arm, FlightType, flight
      <3>2. pending' \in BOOLEAN /\ inflight' \in BOOLEAN
        BY <1>2 DEF Clear, Later, Arm, FlightType, flight
      <3> QED
        BY <2>1, <3>1, <3>2 DEF FlightType
    <2>4. ThreadType'
      BY <1>2, <2>1, Moved DEF Clear, Later, Arm, Places
    <2> QED
      BY <2>1, <2>2, <2>3, <2>4 DEF Known, tracker
  <1>3. CASE Claim(t)
    <2>1. UNCHANGED <<top, stored, tracker, running, open, timer, down, fresh, faults>>
      BY <1>3 DEF Claim, gate
    <2>2. FlightType'
      <3>1. pages' = pages \/ pages' = 0 \/ (~Spent /\ pages' = pages + 1)
        BY <1>3 DEF Claim
      <3>2. pages' \in 0..MaxPages
        BY <3>1, GapSyncAssumption DEF FlightType, Spent
      <3>3. pending' \in BOOLEAN /\ inflight' \in BOOLEAN
        BY <1>3 DEF Claim, FlightType
      <3> QED
        BY <2>1, <3>2, <3>3 DEF FlightType
    <2>4. ThreadType'
      BY <1>3, Moved DEF Claim, Places
    <2>3. up' \in Seq(Requests)
      <3>1. CASE up' = up
        BY <3>1 DEF WireType
      <3>2. CASE up' = Append(up, PageFor(aim[t]))
        <4>1. aim[t] \in GapRecords
          BY <1>3 DEF ThreadType, Claim
        <4>2. PICK a \in Seqs, b \in Seqs : aim[t] = [from |-> a, to |-> b] /\ a <= b
          BY <4>1 DEF GapRecords
        <4>3. PageFor(aim[t]) \in Requests
          BY <4>2, GapSyncAssumption DEF PageFor, Requests, Width, Seqs
        <4> QED
          BY <3>2, <4>3, AppendProperties DEF WireType
      <3> QED
        BY <1>3, <3>1, <3>2 DEF Claim
    <2> QED
      BY <2>1, <2>2, <2>3, <2>4 DEF TrackerType, WireType, ArrivedIsStored, Known, tracker
  <1>4. CASE Charge(t)
    <2>1. /\ UNCHANGED <<top, stored, loaded, arrived, running, open, pending, inflight,
                         pages, aim, up, down, fresh, faults>>
          /\ Goes(t, "idle")
          /\ retry' = Charged(arrived, retry)
          /\ timer' \in 0..Timeout
      BY <1>4, TimerType DEF Charge, gate, flight, wire, TrackerType
    <2>2. retry' \in [Seqs -> {"none", "wait", "due"}]
      BY <2>1, ChargedType DEF TrackerType
    <2>3. ThreadType'
      BY <2>1, Moved DEF Places
    <2> QED
      BY <2>1, <2>2, <2>3 DEF TrackerType, FlightType, WireType, ArrivedIsStored, Known
  <1> QED
    BY <1>1, <1>2, <1>3, <1>4 DEF Ask

(* The sync timer thread. *)
LEMMA TimerInv ==
    ASSUME IInv, FireRetry \/ FireTimeout \/ Lapse \/ \E s \in Seqs : BackoffEnds(s)
    PROVE  IInv' /\ Known' = Known
  <1> USE DEF IInv
  <1>1. CASE FireRetry \/ FireTimeout \/ Lapse
    <2>1. /\ UNCHANGED <<top, stored, loaded, arrived, running, open, aim, up, down,
                         fresh, faults>>
          /\ retry' = retry \/ retry' = [retry EXCEPT ![timer] = IF @ = "wait" THEN "due" ELSE @]
          /\ timer' = timer \/ timer' = NoTimer
      BY <1>1 DEF FireRetry, FireTimeout, Lapse, gate, flight, wire, tracker
    <2>2. TrackerType'
      BY <2>1, GapSyncAssumption DEF TrackerType, NoTimer, Timeout
    <2>3. FlightType'
      <3>1. pages' \in 0..MaxPages
        BY <1>1, Bounds DEF FireRetry, FireTimeout, Lapse, FlightType, flight
      <3>2. pending' \in BOOLEAN /\ inflight' \in BOOLEAN
        BY <1>1 DEF FireRetry, FireTimeout, Lapse, FlightType, flight
      <3> QED
        BY <2>1, <3>1, <3>2 DEF FlightType
    <2>4. ThreadType'
      BY <1>1, <2>1, Moved DEF FireRetry, FireTimeout, Lapse, Places, Threads
    <2> QED
      BY <2>1, <2>2, <2>3, <2>4 DEF WireType, ArrivedIsStored, Known
  <1>2. CASE \E s \in Seqs : BackoffEnds(s)
    BY <1>2, Rested DEF BackoffEnds, TrackerType, FlightType, WireType, ArrivedIsStored, Known,
                gate, flight, wire, threads
  <1> QED
    BY <1>1, <1>2

(* The network thread. *)
LEMMA IoInv ==
    ASSUME IInv, ReadPush \/ ReadConvs \/ ReadPage \/ ChargePage
    PROVE  IInv' /\ (Known \subseteq Known' \/ (~loaded /\ faults' > faults))
  <1> USE DEF IInv
  <1>1. CASE ReadPush \/ ReadConvs \/ ReadPage
    <2>1. /\ down # <<>>
          /\ down' = Tail(down)
          /\ UNCHANGED <<top, running, open, pages, aim, up, fresh>>
          /\ timer' = timer \/ timer' = NoTimer
          /\ inflight' = inflight \/ inflight' = FALSE
      BY <1>1 DEF ReadPush, ReadConvs, ReadPage, IoIdle, gate, threads, Lands
    <2>2. Head(down).rows \in SUBSET Seqs /\ down' \in Seq(Packets)
      <3>1. Head(down) \in Packets /\ Tail(down) \in Seq(Packets)
        BY <2>1, HeadTailProperties DEF WireType
      <3> QED
        BY <2>1, <3>1 DEF Packets
    <2>3. PICK ok \in SUBSET Head(down).rows : Store(Head(down).rows, ok)
      BY <1>1 DEF ReadPush, ReadConvs, ReadPage
    <2>4. /\ stored' \subseteq Seqs /\ arrived' \subseteq Seqs /\ loaded' \in BOOLEAN
          /\ retry' \in [Seqs -> {"none", "wait", "due"}]
          /\ faults' \in Nat
          /\ pending' \in BOOLEAN
          /\ ArrivedIsStored'
          /\ Known \subseteq Known' \/ (~loaded /\ faults' > faults)
      BY <2>2, <2>3, StoreSafe DEF FlightType
    <2>5. TrackerType'
      BY <2>1, <2>4, GapSyncAssumption DEF TrackerType, NoTimer, Timeout
    <2>6. pc' = pc \/ Goes("io", "look") \/ Goes("io", "chargePage")
      BY <1>1 DEF ReadPush, ReadConvs, ReadPage, threads, Goes
    <2>7. FlightType'
      BY <2>1, <2>4 DEF FlightType
    <2>8. ThreadType'
      <3>1. CASE pc' = pc
        BY <2>1, <3>1, Rested DEF threads
      <3>2. CASE Goes("io", "look") \/ Goes("io", "chargePage")
        BY <2>1, <3>2, Moved DEF Places, Threads
      <3> QED
        BY <2>6, <3>1, <3>2
    <2> QED
      BY <2>1, <2>2, <2>4, <2>5, <2>7, <2>8 DEF WireType
  <1>2. CASE ChargePage
    <2>1. UNCHANGED <<top, stored, running, open, pending, inflight, aim, up, down, fresh>>
      BY <1>2 DEF ChargePage, gate, wire
    <2>2. PICK failed \in BOOLEAN :
            /\ failed => ~loaded
            /\ Blame(failed)
            /\ loaded' = TRUE
            /\ arrived' = Finds(failed, stored)
            /\ retry' = Charged(arrived', Retries(failed))
      BY <1>2 DEF ChargePage
    <2>3. arrived' \subseteq Seqs /\ arrived' \subseteq stored
      BY <2>2, FindsStored DEF TrackerType
    <2>4. retry' \in [Seqs -> {"none", "wait", "due"}] /\ faults' \in Nat
      BY <2>2, RetriesType, ChargedType, BlameType DEF TrackerType
    <2>5. timer' \in 0..Timeout
      BY <1>2, TimerType DEF ChargePage, TrackerType
    <2>6. TrackerType' /\ ArrivedIsStored'
      BY <2>1, <2>2, <2>3, <2>4, <2>5 DEF TrackerType, ArrivedIsStored
    <2>7. FlightType'
      BY <1>2, <2>1, GapSyncAssumption DEF ChargePage, FlightType
    <2>9. ThreadType'
      BY <1>2, <2>1, Moved DEF ChargePage, Places, Threads
    <2>8. Known \subseteq Known' \/ (~loaded /\ faults' > faults)
      BY <2>1, <2>2 DEF Known, Finds, Restores, Blame, TrackerType
    <2> QED
      BY <2>1, <2>6, <2>7, <2>8, <2>9 DEF WireType
  <1> QED
    BY <1>1, <1>2

(* The caller, mishaps and the server. *)
LEMMA EnvironmentInv ==
    ASSUME IInv, Open \/ Start \/ User \/ Mishap \/ NewMessage \/ Serve
    PROVE  IInv' /\ Known \subseteq Known'
  <1> USE DEF IInv
  <1>1. CASE Open \/ Start \/ Close \/ Stop
    <2>1. /\ UNCHANGED <<top, stored, loaded, arrived, retry, pending, inflight, pages, aim>>
          /\ running' \in BOOLEAN /\ open' \in BOOLEAN /\ fresh' \in BOOLEAN
          /\ timer' = timer \/ timer' = NoTimer
          /\ pc' = pc \/ Goes("user", "look") \/ Goes("user", "idle")
      BY <1>1 DEF Open, Start, Close, Stop, tracker, flight, threads, Goes, FlightType,
                  WireType
    <2>2. faults' \in Nat
      BY <1>1, BlameType DEF Open, Start, Close, Stop, TrackerType
    <2>3. up' \in Seq(Requests) /\ down' \in Seq(Packets)
      BY <1>1, EmptySeq DEF Open, Start, Close, Stop, wire, WireType
    <2>4. TrackerType'
      BY <2>1, <2>2, GapSyncAssumption DEF TrackerType, NoTimer, Timeout
    <2>5. FlightType'
      BY <2>1 DEF FlightType
    <2>6. ThreadType'
      <3>1. CASE pc' = pc
        BY <2>1, <3>1, Rested DEF threads
      <3>2. CASE Goes("user", "look") \/ Goes("user", "idle")
        BY <2>1, <3>2, Moved DEF Places, Threads
      <3> QED
        BY <2>1, <3>1, <3>2
    <2> QED
      BY <2>1, <2>3, <2>4, <2>5, <2>6 DEF WireType, ArrivedIsStored, Known
  <1>2. CASE Restart
    <2>1. faults' \in Nat
      BY <1>2, BlameType DEF Restart, TrackerType
    <2>2. retry' \in [Seqs -> {"none", "wait", "due"}]
      BY <1>2 DEF Restart, TrackerType
    <2>3. /\ stored' = stored /\ arrived' = {} /\ loaded' = FALSE /\ timer' = NoTimer
          /\ running' = TRUE /\ open' = FALSE
          /\ pending' = FALSE /\ inflight' = FALSE /\ pages' = 0
      BY <1>2 DEF Restart
    <2>6. TrackerType'
      BY <2>1, <2>2, <2>3, Bounds DEF TrackerType, NoTimer
    <2>7. ArrivedIsStored' /\ Known \subseteq Known'
      BY <2>3 DEF ArrivedIsStored, Known
    <2>4. FlightType'
      BY <2>3, Bounds DEF FlightType
    <2>8. ThreadType'
      <3>1. /\ pc' \in [Threads -> Places] /\ aim' \in [Threads -> GapRecords \cup {NoAim}]
            /\ \A t \in Threads : pc'[t] = "idle"
        BY <1>2 DEF Restart, Places
      <3> QED
        BY <3>1 DEF ThreadType
    <2>5. WireType'
      BY <1>2, EmptySeq DEF Restart, WireType
    <2> QED
      BY <2>4, <2>5, <2>6, <2>7, <2>8
  <1>3. CASE User
    <2>1. /\ UNCHANGED <<top, stored, tracker, gate, flight, timer, threads, down, faults>>
          /\ fresh' \in BOOLEAN
      BY <1>3 DEF User, AskConvs, AskHistory, WireType
    <2>2. \E rq \in Requests : up' = Append(up, rq)
      <3>1. CASE AskConvs
        <4>1. [kind |-> "convs", before |-> top + 1, limit |-> 1] \in Requests
          BY GapSyncAssumption DEF Requests, WireType
        <4> QED
          BY <3>1, <4>1 DEF AskConvs
      <3>2. CASE \E b \in Cursors : AskHistory(b)
        <4>1. PICK b \in Cursors : AskHistory(b)
          BY <3>2
        <4>2. [kind |-> "page", before |-> b, limit |-> 1] \in Requests
          BY GapSyncAssumption DEF Requests
        <4> QED
          BY <4>1, <4>2 DEF AskHistory
      <3> QED
        BY <1>3, <3>1, <3>2 DEF User
    <2>3. up' \in Seq(Requests)
      BY <2>2, AppendProperties DEF WireType
    <2> QED
      BY <2>1, <2>3, Rested DEF TrackerType, FlightType, WireType, ArrivedIsStored, Known,
                                tracker, gate, flight, threads
  <1>4. CASE NewMessage
    <2>1. /\ UNCHANGED <<stored, tracker, gate, flight, timer, threads, up, fresh, faults>>
          /\ top' \in 0..MaxSeq /\ top + 1 \in Seqs
      BY <1>4, GapSyncAssumption DEF NewMessage, WireType, Seqs
    <2>2. down' \in Seq(Packets)
      <3>1. [kind |-> "push", rows |-> {top + 1}, more |-> FALSE] \in Packets
        BY <2>1 DEF Packets
      <3> QED
        BY <1>4, <3>1, AppendProperties DEF NewMessage, WireType
    <2> QED
      BY <2>1, <2>2, Rested DEF TrackerType, FlightType, WireType, ArrivedIsStored, Known,
                                tracker, gate, flight, threads
  <1>5. CASE Serve
    <2> DEFINE rq == Head(up)
               below == {s \in 1..top : s < rq.before \/ rq.kind = "convs"}
               rows == {s \in below : Cardinality({r \in below : r >= s}) <= rq.limit}
               more == Cardinality(rows) = rq.limit
               pk == [kind |-> rq.kind, rows |-> rows, more |-> more]
    <2>1. /\ UNCHANGED <<top, stored, tracker, gate, flight, timer, threads, fresh, faults>>
          /\ up # <<>> /\ up' = Tail(up)
          /\ down' = Append(down, pk)
      BY <1>5 DEF Serve
    <2>2. rq \in Requests /\ up' \in Seq(Requests)
      BY <2>1, HeadTailProperties DEF WireType
    <2>3. rows \in SUBSET Seqs
      BY GapSyncAssumption DEF WireType, Seqs
    <2>4. pk \in Packets
      <3>1. more \in BOOLEAN
        OBVIOUS
      <3> HIDE DEF rows, more, rq
      <3> QED
        BY <2>2, <2>3, <3>1 DEF Packets, Requests
    <2> HIDE DEF pk
    <2>5. down' \in Seq(Packets)
      BY <2>1, <2>4, AppendProperties DEF WireType
    <2> QED
      BY <2>1, <2>2, <2>5, Rested DEF TrackerType, FlightType, WireType, ArrivedIsStored, Known,
                                tracker, gate, flight, threads
  <1> QED
    BY <1>1, <1>2, <1>3, <1>4, <1>5 DEF Mishap

-----------------------------------------------------------------------------
(* Every step keeps the invariant, and what the tracker knows only grows   *)
(* unless its rows could not be read.                                      *)
LEMMA StepInv ==
    ASSUME IInv, [Next]_vars
    PROVE  IInv' /\ (Known \subseteq Known' \/ (~loaded /\ faults' > faults))
  <1>1. CASE UNCHANGED vars
    BY <1>1, Rested DEF IInv, TrackerType, FlightType, WireType, ArrivedIsStored, Known, vars,
                tracker, gate, flight, threads, wire
  <1>2. CASE Next
    <2>1. CASE \E t \in Threads : Ask(t)
      BY <2>1, AskInv
    <2>2. CASE FireRetry \/ FireTimeout \/ Lapse \/ \E s \in Seqs : BackoffEnds(s)
      BY <2>2, TimerInv
    <2>3. CASE ReadPush \/ ReadConvs \/ ReadPage \/ ChargePage
      BY <2>3, IoInv
    <2>4. CASE Open \/ Start \/ User \/ Mishap \/ NewMessage \/ Serve
      BY <2>4, EnvironmentInv
    <2> QED
      BY <1>2, <2>1, <2>2, <2>3, <2>4 DEF Next, Io, Timer, Account, Threads
  <1> QED
    BY <1>1, <1>2

LEMMA Invariance == Spec => []IInv
  <1>1. IInv /\ [Next]_vars => IInv'
    BY StepInv
  <1> QED
    BY InitInv, <1>1, PTL DEF Spec

(* TypeOK: every variable keeps its type, and no more than MaxPages        *)
(* requests are made before a back-off (maybeRequestGap).                  *)
THEOREM GapTypeCorrect == Spec => []TypeOK
  <1>1. IInv => TypeOK
    <2> SUFFICES ASSUME IInv PROVE TypeOK
      OBVIOUS
    <2>1. aim \in [Threads -> [from : 0..MaxSeq, to : 0..MaxSeq]]
      <3>1. GapRecords \cup {NoAim} \subseteq [from : 0..MaxSeq, to : 0..MaxSeq]
        BY GapSyncAssumption DEF GapRecords, NoAim, Seqs
      <3> QED
        BY <3>1 DEF IInv, ThreadType
    <2> QED
      BY <2>1 DEF IInv, TrackerType, FlightType, ThreadType, WireType, TypeOK,
                  Requests, Packets, Places
  <1> QED
    BY Invariance, <1>1, PTL

(* ArrivedIsStored: the tracker counts only seqs whose message row was     *)
(* committed, whatever transactions failed (storeProtocolMessage).         *)
THEOREM TrackerCoversRows == Spec => []ArrivedIsStored
  <1>1. IInv => ArrivedIsStored
    BY DEF IInv
  <1> QED
    BY Invariance, <1>1, PTL

(* WaterMarkKept: no step, the restart of the process included, takes the  *)
(* water mark back (SyncService::trackerFor, SyncTracker::observeSeq).     *)
THEOREM WaterMarkNeverBack == Spec => WaterMarkKept
  <1>1. IInv /\ [Next]_vars =>
          [Contiguous(Known) \subseteq Contiguous(Known') \/ (~loaded /\ faults' > faults)]_vars
    BY StepInv, ContiguousMonotonic
  <1> QED
    BY Invariance, <1>1, PTL DEF Spec, WaterMarkKept
=============================================================================
