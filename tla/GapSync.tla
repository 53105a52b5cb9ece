------------------------------ MODULE GapSync ------------------------------
(***************************************************************************)
(* How the client finds and fills holes in one conversation: the tracker   *)
(* of arrived seqs (sync/SyncTracker.h, sync/SyncService.cpp), the gap     *)
(* requests, their single-flight flag, page budget and timer in            *)
(* runtime/ClientRuntime.cpp, and the server's history pages               *)
(* (handlers/RoamHandler.cpp).  The server numbers the messages 1..top.    *)
(*                                                                         *)
(* Three threads run maybeRequestGap: "io" delivers what the server sends, *)
(* "timer" is the sync timer thread, "user" switches the send gate.  Each  *)
(* section under a lock is a step.  Rows and sync_gaps survive a restart   *)
(* of the process; everything else of the client does not.                 *)
(*                                                                         *)
(* Of next_retry_at the model keeps whether it has passed.                 *)
(***************************************************************************)
EXTENDS Integers, Sequences, FiniteSets

CONSTANTS
    MaxSeq,      \* bound: messages of the conversation
    PageSize,    \* most messages a gap request asks for (100 in the code)
    MaxPages,    \* requests before the budget is used up (5 in the code)
    Cursors,     \* where the user's own scrolling may stand
    MaxWire,     \* bound: packets on their way that bring on another one
    MaxFaults    \* bound: losses, restarts, failed transactions, by the newest seq

ASSUME GapSyncAssumption ==
    /\ MaxSeq \in Nat \ {0} /\ PageSize \in Nat \ {0} /\ MaxPages \in Nat \ {0}
    /\ Cursors \subseteq 2..(MaxSeq + 1)
    /\ MaxWire \in Nat \ {0} /\ MaxFaults \in [0..MaxSeq -> Nat]

Seqs == 1..MaxSeq
Threads == {"io", "timer", "user"}

VARIABLES
    top,       \* server: the newest seq
    stored,    \* message rows of the client, by seq
    loaded,    \* the tracker of the conversation exists
    arrived,   \* m_arrived of the tracker
    retry,     \* m_retries by the gap's start: "none", "wait" or "due"
    running,   \* m_state = Running
    open,      \* m_accountAuthenticated and isConnected
    pending,   \* the conversation is in m_gapPending
    inflight,  \* ... in m_gapInFlight
    pages,     \* m_gapPages
    timer,     \* m_gapTimers: no timer, the request timeout, or a gap's retry
    pc,        \* where a thread stands
    aim,       \* the gap a thread is about to request
    up,        \* requests on their way to the server
    down,      \* packets on their way to the client, in order
    fresh,     \* requestRoamConversations was not called since the start
    faults     \* faults so far

tracker == <<loaded, arrived, retry>>
gate == <<running, open>>
flight == <<pending, inflight, pages>>
threads == <<pc, aim>>
wire == <<up, down>>
vars == <<top, stored, tracker, gate, flight, timer, threads, wire, fresh, faults>>

NoTimer == 0
Timeout == MaxSeq + 1       \* a retry timer is the start of its gap
NoAim == [from |-> 0, to |-> 0]

Init ==
    /\ top \in 0..MaxSeq            \* an account with history, on a new device
    /\ stored = {} /\ loaded = FALSE /\ arrived = {}
    /\ retry = [s \in Seqs |-> "none"]
    /\ running = TRUE /\ open = FALSE
    /\ pending = FALSE /\ inflight = FALSE /\ pages = 0
    /\ timer = NoTimer
    /\ pc = [t \in Threads |-> "idle"] /\ aim = [t \in Threads |-> NoAim]
    /\ up = <<>> /\ down = <<>>
    /\ fresh = TRUE
    /\ faults = 0

Blame(failed) ==
    /\ failed => faults < MaxFaults[top]
    /\ faults' = IF failed THEN faults + 1 ELSE faults

Room == Len(up) + Len(down) < MaxWire

Goes(t, place) == pc' = [pc EXCEPT ![t] = place]

-----------------------------------------------------------------------------
(* SyncTracker                                                             *)

(* The seqs up to contiguousSeq, the water mark. *)
Contiguous(S) == {n \in Seqs : 1..n \subseteq S}

(* computeGaps: the maximal runs of missing seqs below the newest one. *)
Gaps(S) ==
    {[from |-> g[1], to |-> g[2]] :
        g \in {p \in Seqs \X Seqs :
                  /\ p[1] <= p[2]
                  /\ p[1]..p[2] \cap S = {}
                  /\ p[1] - 1 \in S \cup {0}
                  /\ p[2] + 1 \in S}}

Fronts(G) == {g \in G : \A h \in G : g.from <= h.from}    \* at most one

(* pendingGaps: the gaps whose next_retry_at has passed. *)
Ready(G) == {g \in G : retry[g.from] # "wait"}

(* What the tracker holds, or will hold once it is asked for. *)
Known == IF loaded THEN arrived ELSE stored

(* Mutant: only the newest row is read back. *)
RestoresNewest(rows) == {s \in rows : \A r \in rows : r <= s}

(* trackerFor builds the tracker from the message rows when it is first    *)
(* asked for.                                                              *)
Restores(rows) == rows

(* The tracker a thread finds: a failed read leaves a new one empty, with  *)
(* neither rows nor retry times.                                           *)
Finds(failed, rows) ==
    IF loaded THEN arrived ELSE IF failed THEN {} ELSE Restores(rows)

Retries(failed) == IF failed THEN [s \in Seqs |-> "none"] ELSE retry

(* nextRetryAtMs is the earliest time of a gap that has one; a time in the *)
(* past comes before those to come.  armGapTimer replaces the timer.       *)
ArmRetry(S, r) ==
    LET Timed == {g.from : g \in Gaps(S)} \cap {s \in Seqs : r[s] # "none"}
        Past == {s \in Timed : r[s] = "due"}
    IN IF Timed = {} THEN timer' = timer
       ELSE timer' \in IF Past # {} THEN Past ELSE Timed

-----------------------------------------------------------------------------
(* maybeRequestGap on thread t                                             *)

(* hasGaps, pendingGaps, the way out when every gap is backing off, and    *)
(* the look at the gate.                                                   *)
Look(t) ==
    /\ pc[t] = "look"
    /\ IF ~running
       THEN Goes(t, "idle") /\ UNCHANGED <<tracker, timer, aim, faults>>
       ELSE \E failed \in BOOLEAN :
              /\ failed => ~loaded
              /\ Blame(failed)
              /\ loaded' = TRUE
              /\ arrived' = Finds(failed, stored)
              /\ retry' = Retries(failed)
              /\ LET G == Gaps(arrived')
                 IN \/ G = {} /\ Goes(t, "clear") /\ UNCHANGED <<timer, aim>>
                    \/ /\ G # {} /\ Ready(G) = {}
                       /\ ArmRetry(arrived', retry')
                       /\ Goes(t, "idle") /\ UNCHANGED aim
                    \/ /\ G # {} /\ Ready(G) # {} /\ ~open
                       /\ Goes(t, "later") /\ UNCHANGED <<timer, aim>>
                    \/ /\ G # {} /\ Ready(G) # {} /\ open
                       /\ Goes(t, "claim") /\ UNCHANGED timer
                       /\ \E g \in Fronts(Ready(G)) : aim' = [aim EXCEPT ![t] = g]
    /\ UNCHANGED <<top, stored, gate, flight, wire, fresh>>

(* There is no gap: forget the conversation. *)
Clear(t) ==
    /\ pc[t] = "clear"
    /\ pending' = FALSE /\ inflight' = FALSE /\ pages' = 0
    /\ Goes(t, "idle")
    /\ UNCHANGED <<top, stored, tracker, gate, timer, aim, wire, fresh, faults>>

(* The gate is closed: the conversation waits for it. *)
Later(t) ==
    /\ pc[t] = "later"
    /\ pending' = TRUE
    /\ Goes(t, "idle")
    /\ UNCHANGED <<top, stored, tracker, gate, inflight, pages, timer, aim, wire, fresh,
                   faults>>

(* Mutant: one page too many. *)
SpentLate == pages > MaxPages

Spent == pages >= MaxPages

Width(g) == g.to - g.from + 1
PageFor(g) ==
    [kind |-> "page", before |-> g.to + 1,
     limit |-> IF Width(g) < PageSize THEN Width(g) ELSE PageSize]

(* Single-flight and page budget; requestRoamMessages looks at the gate    *)
(* once more and hands the request to the connection.                      *)
Claim(t) ==
    /\ pc[t] = "claim"
    /\ pending' = TRUE
    /\ aim' = [aim EXCEPT ![t] = NoAim]
    /\ \/ /\ inflight
          /\ Goes(t, "idle") /\ UNCHANGED <<inflight, pages, up>>
       \/ /\ ~inflight /\ Spent
          /\ pages' = 0
          /\ Goes(t, "charge") /\ UNCHANGED <<inflight, up>>
       \/ /\ ~inflight /\ ~Spent /\ running /\ open
          /\ pages' = pages + 1 /\ inflight' = TRUE
          /\ up' = Append(up, PageFor(aim[t]))
          /\ Goes(t, "arm")
       \/ /\ ~inflight /\ ~Spent /\ ~(running /\ open)
          /\ pages' = pages + 1
          /\ Goes(t, "charge") /\ UNCHANGED <<inflight, up>>
    /\ UNCHANGED <<top, stored, tracker, gate, timer, down, fresh, faults>>

(* The timeout of the request that was sent. *)
Arm(t) ==
    /\ pc[t] = "arm"
    /\ timer' = Timeout
    /\ Goes(t, "idle")
    /\ UNCHANGED <<top, stored, tracker, gate, flight, aim, wire, fresh, faults>>

(* markGapFailed charges the first gap, then the retry timer is armed. *)
Charged(S, r) ==
    [s \in Seqs |-> IF \E g \in Fronts(Gaps(S)) : g.from = s THEN "wait" ELSE r[s]]

Charge(t) ==
    /\ pc[t] = "charge"
    /\ retry' = Charged(arrived, retry)
    /\ ArmRetry(arrived, retry')
    /\ Goes(t, "idle")
    /\ UNCHANGED <<top, stored, loaded, arrived, gate, flight, aim, wire, fresh, faults>>

-----------------------------------------------------------------------------
(* The sync timer thread                                                   *)

FireRetry ==
    /\ running /\ pc["timer"] = "idle" /\ timer \in Seqs
    /\ timer' = NoTimer
    /\ retry' = [retry EXCEPT ![timer] = IF @ = "wait" THEN "due" ELSE @]
    /\ Goes("timer", "look")
    /\ UNCHANGED <<top, stored, loaded, arrived, gate, flight, aim, wire, fresh, faults>>

FireTimeout ==
    /\ running /\ pc["timer"] = "idle" /\ timer = Timeout /\ Room
    /\ timer' = NoTimer
    /\ Goes("timer", "lapse")
    /\ UNCHANGED <<top, stored, tracker, gate, flight, aim, wire, fresh, faults>>

(* The deadline of a request has passed. *)
Lapse ==
    /\ pc["timer"] = "lapse"
    /\ inflight' = FALSE /\ pages' = 0 /\ pending' = TRUE
    /\ Goes("timer", IF inflight THEN "charge" ELSE "idle")
    /\ UNCHANGED <<top, stored, tracker, gate, timer, aim, wire, fresh, faults>>

(* Time passes for a gap whose timer another one has replaced. *)
BackoffEnds(s) ==
    /\ retry[s] = "wait"
    /\ retry' = [retry EXCEPT ![s] = "due"]
    /\ UNCHANGED <<top, stored, loaded, arrived, gate, flight, timer, threads, wire,
                   fresh, faults>>

-----------------------------------------------------------------------------
(* The network thread                                                      *)

(* Mutant: a message is observed whatever became of its row. *)
ObservesAlways(rows, ok) == rows

Observes(rows, ok) == ok

(* storeProtocolMessage for each message of a packet: the rows "ok" are    *)
(* committed and observed; of others the commit was not confirmed in time  *)
(* and happens all the same, or it failed.                                 *)
Store(rows, ok) ==
    \E late \in SUBSET (rows \ ok), failed \in BOOLEAN :
       LET seen == Observes(rows, ok)
       IN /\ ok \cup late # {} => running
          /\ failed => ~loaded /\ seen # {}
          /\ Blame(failed \/ (running /\ ok # rows))
          /\ stored' = stored \cup ok \cup late
          /\ loaded' = (loaded \/ seen # {})
          /\ arrived' = IF seen = {} THEN arrived
                        ELSE Finds(failed, stored \cup ok) \cup seen
          /\ retry' = Retries(failed)
          /\ pending' = (pending \/ (seen # {} /\ Gaps(arrived') # {}))

IoIdle == pc["io"] = "idle" /\ down # <<>>

(* handleIncomingChat *)
ReadPush ==
    /\ IoIdle /\ Head(down).kind = "push"
    /\ down' = Tail(down)
    /\ \E ok \in SUBSET Head(down).rows : Store(Head(down).rows, ok)
    /\ Goes("io", "look")
    /\ UNCHANGED <<top, gate, inflight, pages, timer, aim, up, fresh>>

(* handleRoamConversations: no request follows. *)
ReadConvs ==
    /\ IoIdle /\ Head(down).kind = "convs"
    /\ down' = Tail(down)
    /\ \E ok \in SUBSET Head(down).rows : Store(Head(down).rows, ok)
    /\ UNCHANGED <<top, gate, inflight, pages, timer, threads, up, fresh>>

(* Mutant: a page leaves the single-flight flag as it was. *)
LandsNever(f) == f

Lands(f) == FALSE

(* handleRoamMessages, for the answer to a gap request and for the one to  *)
(* the user's own scrolling: the two look alike.                           *)
ReadPage ==
    /\ IoIdle /\ Head(down).kind = "page"
    /\ down' = Tail(down)
    /\ timer' = NoTimer
    /\ inflight' = Lands(inflight)
    /\ \E ok \in SUBSET Head(down).rows :
          /\ Store(Head(down).rows, ok)
          /\ Goes("io", IF ok # {} /\ Head(down).more THEN "look" ELSE "chargePage")
    /\ UNCHANGED <<top, gate, pages, aim, up, fresh>>

(* Nothing new, or the end of the history: back off, start a new budget.   *)
ChargePage ==
    /\ pc["io"] = "chargePage"
    /\ \E failed \in BOOLEAN :
          /\ failed => ~loaded
          /\ Blame(failed)
          /\ loaded' = TRUE
          /\ arrived' = Finds(failed, stored)
          /\ retry' = Charged(arrived', Retries(failed))
    /\ ArmRetry(arrived', retry')
    /\ pages' = 0
    /\ Goes("io", "look")
    /\ UNCHANGED <<top, stored, gate, pending, inflight, aim, wire, fresh>>

-----------------------------------------------------------------------------
(* The caller's thread: the send gate, history, start and stop             *)

(* setAccountAuthenticated(true) on a working connection, at every account *)
(* event.                                                                  *)
Open ==
    /\ running /\ pc["user"] = "idle" /\ (open => pending /\ Room)
    /\ open' = TRUE
    /\ Goes("user", IF pending THEN "look" ELSE "idle")
    /\ UNCHANGED <<top, stored, tracker, running, flight, timer, aim, wire, fresh, faults>>

(* The connection is lost with everything on it. *)
Close ==
    /\ Blame(TRUE)
    /\ open
    /\ open' = FALSE /\ up' = <<>> /\ down' = <<>>
    /\ UNCHANGED <<top, stored, tracker, running, flight, timer, threads, fresh>>

(* NativeKernelHost asks for the conversations once, when it starts. *)
AskConvs ==
    /\ fresh /\ running /\ open /\ Room
    /\ fresh' = FALSE
    /\ up' = Append(up, [kind |-> "convs", before |-> top + 1, limit |-> 1])
    /\ UNCHANGED <<top, stored, tracker, gate, flight, timer, threads, down, faults>>

(* requestRoamMessages for the user who looks at the messages below b. *)
AskHistory(b) ==
    /\ running /\ open /\ Room
    /\ up' = Append(up, [kind |-> "page", before |-> b, limit |-> 1])
    /\ UNCHANGED <<top, stored, tracker, gate, flight, timer, threads, down, fresh, faults>>

(* stop waits for the timer thread and drops its timers. *)
Stop ==
    /\ Blame(TRUE)
    /\ running /\ pc["timer"] = "idle"
    /\ running' = FALSE /\ open' = FALSE /\ timer' = NoTimer
    /\ UNCHANGED <<top, stored, tracker, flight, threads, wire, fresh>>

Start ==
    /\ ~running
    /\ running' = TRUE /\ fresh' = TRUE
    /\ UNCHANGED <<top, stored, tracker, open, flight, timer, threads, wire, faults>>

(* The process ends and starts again; sync_gaps holds the retry times of   *)
(* the gaps there were.                                                    *)
Restart ==
    /\ Blame(TRUE)
    /\ loaded' = FALSE /\ arrived' = {}
    /\ retry' = [s \in Seqs |->
                   IF s \in {g.from : g \in Gaps(Known)} THEN retry[s] ELSE "none"]
    /\ running' = TRUE /\ open' = FALSE
    /\ pending' = FALSE /\ inflight' = FALSE /\ pages' = 0
    /\ timer' = NoTimer
    /\ pc' = [t \in Threads |-> "idle"] /\ aim' = [t \in Threads |-> NoAim]
    /\ up' = <<>> /\ down' = <<>>
    /\ fresh' = TRUE
    /\ UNCHANGED <<top, stored>>

-----------------------------------------------------------------------------
(* The server                                                              *)

(* A message is saved; it is pushed when the client is seen online. *)
NewMessage ==
    /\ top < MaxSeq /\ faults <= MaxFaults[top + 1]
    /\ top' = top + 1
    /\ \/ down' = down
       \/ /\ open /\ Room
          /\ down' = Append(down, [kind |-> "push", rows |-> {top + 1}, more |-> FALSE])
    /\ UNCHANGED <<stored, tracker, gate, flight, timer, threads, up, fresh, faults>>

(* RoamHandler: the newest message of the conversation, or the newest      *)
(* "limit" ones below the cursor.                                          *)
Serve ==
    /\ up # <<>>
    /\ LET rq == Head(up)
           below == {s \in 1..top : s < rq.before \/ rq.kind = "convs"}
           rows == {s \in below : Cardinality({r \in below : r >= s}) <= rq.limit}
       IN down' = Append(down, [kind |-> rq.kind, rows |-> rows,
                                more |-> Cardinality(rows) = rq.limit])
    /\ up' = Tail(up)
    /\ UNCHANGED <<top, stored, tracker, gate, flight, timer, threads, fresh, faults>>

-----------------------------------------------------------------------------
Ask(t) == Look(t) \/ Clear(t) \/ Later(t) \/ Claim(t) \/ Arm(t) \/ Charge(t)
Io == Ask("io") \/ ReadPush \/ ReadConvs \/ ReadPage \/ ChargePage
Timer == Ask("timer") \/ FireRetry \/ FireTimeout \/ Lapse
Account == Ask("user") \/ (~open /\ Open) \/ Start
User == AskConvs \/ \E b \in Cursors : AskHistory(b)
Mishap == Close \/ Stop \/ Restart

Next ==
    \/ Open
    \/ Io \/ Timer \/ Account \/ User \/ Mishap
    \/ NewMessage \/ Serve
    \/ \E s \in Seqs : BackoffEnds(s)

Spec == Init /\ [][Next]_vars

(* The threads run, time passes, the server answers, and the account layer *)
(* starts and opens what was stopped and closed.  Nobody scrolls, nobody   *)
(* has to send anything, and no fault has to end.                          *)
Fairness ==
    /\ WF_vars(Io) /\ WF_vars(Timer) /\ WF_vars(Account) /\ WF_vars(Serve)
    /\ \A s \in Seqs : WF_vars(BackoffEnds(s))

FairSpec == Spec /\ Fairness

-----------------------------------------------------------------------------
(* The type invariant. *)
TypeOK ==
    /\ top \in 0..MaxSeq
    /\ stored \subseteq Seqs /\ arrived \subseteq Seqs
    /\ loaded \in BOOLEAN /\ running \in BOOLEAN /\ open \in BOOLEAN
    /\ retry \in [Seqs -> {"none", "wait", "due"}]
    /\ pending \in BOOLEAN /\ inflight \in BOOLEAN /\ pages \in 0..MaxPages
    /\ timer \in 0..Timeout
    /\ pc \in [Threads -> {"idle", "look", "clear", "later", "claim", "arm",
                           "charge", "chargePage", "lapse"}]
    /\ aim \in [Threads -> [from : 0..MaxSeq, to : 0..MaxSeq]]
    /\ up \in Seq([kind : {"page", "convs"}, before : Nat, limit : Nat])
    /\ down \in Seq([kind : {"push", "page", "convs"}, rows : SUBSET Seqs, more : BOOLEAN])
    /\ fresh \in BOOLEAN /\ faults \in Nat

(* Every seq the tracker counts as arrived has its row: below the water    *)
(* mark no message is missing, whatever transactions failed or were        *)
(* confirmed too late (storeProtocolMessage, observeSeq).                  *)
ArrivedIsStored == arrived \subseteq stored

(* The water mark never goes back, through restarts of the process too:    *)
(* what it passed is never asked for again.  The one exception is a tracker *)
(* whose rows could not be read (SyncService::trackerFor).                 *)
WaterMarkKept ==
    [][Contiguous(Known) \subseteq Contiguous(Known') \/ (~loaded /\ faults' > faults)]_vars

(* The single-flight flag is set, and no deadline will clear it. *)
Orphaned == inflight /\ timer # Timeout /\ \A t \in Threads : pc[t] # "arm"

(* The ways in which the code loses a gap it was asked to fill: the        *)
(* runtime stops; the retry of a gap takes the place of a request's        *)
(* deadline; a deadline is set after the answer, in the place of a retry;  *)
(* the gate opens between the look at it and the note to wait for it; a    *)
(* gap opens between the look for gaps and the erasing of the notes.       *)
Astray ==
    \/ ~running
    \/ Orphaned /\ timer \in Seqs
    \/ ~inflight /\ timer = Timeout
    \/ \E t \in Threads : \/ pc[t] = "later" /\ open
                          \/ pc[t] = "clear" /\ Gaps(arrived) # {}

(* A gap that maybeRequestGap was called for is filled in the end, however *)
(* many pages it takes, requests or answers are lost and gaps there are:   *)
(* by its own timers and the next change of the send gate, without the     *)
(* user or the next message.  Except in the ways named above, and until    *)
(* the process ends, where nothing carries the gap on.                     *)
AskedGapsFilled ==
    (Gaps(arrived) # {} /\ ~Orphaned /\ \E t \in Threads : pc[t] = "look")
        ~> (Gaps(arrived) = {} \/ Astray)

(* ClientRuntime.cpp:596 on a gap that is backing off: after a restart of  *)
(* the process or the runtime too a waker must be attached, nobody may     *)
(* rely on the next message or the next change of the network.  So once    *)
(* the conversations were asked for and all is quiet, there is a timer.    *)
BackedOffGapHasWaker ==
    (/\ running /\ open /\ ~fresh
     /\ \A t \in Threads : pc[t] = "idle"
     /\ up = <<>> /\ down = <<>>
     /\ \E g \in Gaps(Known) : retry[g.from] # "none")
       => timer # NoTimer
=============================================================================
