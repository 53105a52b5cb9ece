-------------------------- MODULE AuthTokensProofs --------------------------
(***************************************************************************)
(* What holds of the tokens for every number of sessions, connections,     *)
(* request ids and generations.                                            *)
(***************************************************************************)
EXTENDS AuthTokens, TLAPS

(* Only sessions that have a row are revoked, and a handler that is about  *)
(* to revoke one holds such a session.                                     *)
RevokedExist ==
    /\ \A s \in revoked : gen[s] > 0
    /\ \A c \in Conns : job[c].at = "revoke" => gen[job[c].tok.s] > 0

(* One refresh at a time is between its look-up and its transaction: the   *)
(* mutex is free when none is (rotateRefresh, lock_guard).                 *)
OneRotation == \A c \in Conns : job[c].at = "commit" <=> lock = c

IInv == TypeOK /\ OneRotation /\ HistoryComplete /\ RevokedExist

-----------------------------------------------------------------------------
LEMMA PairFields ==
    ASSUME NEW t \in Pairs
    PROVE  t.s \in Sessions /\ t.g \in 1..MaxGen
  BY DEF Pairs

(* The end of a handler leaves its strand idle and types its answer. *)
LEMMA AnswerType ==
    ASSUME WireType, DeviceType, NEW c \in Conns, NEW ok \in BOOLEAN,
           NEW t \in Pairs \cup {None},
           ok /\ job[c].op \in {"login", "refresh"} => t \in Pairs,
           Answer(c, ok, t)
    PROVE  WireType' /\ DeviceType'
  <1> DEFINE a == [op |-> job[c].op, ok |-> ok, tok |-> t]
  <1>1. a \in Answers /\ (a.ok /\ a.op \in {"login", "refresh"} => a.tok \in Pairs)
    BY DEF WireType, Jobs, Answers
  <1>2. Idle \in Jobs /\ JobOK(Idle)
    BY DEF Idle, Jobs, JobOK, Steps, Ops
  <1>3. job' \in [Conns -> Jobs] /\ \A d \in Conns : JobOK(job'[d])
    BY <1>2 DEF WireType, Answer
  <1>4. /\ ans' \in [Conns -> Answers \cup {None}]
        /\ \A d \in Conns : ans'[d] = ans[d] \/ ans'[d] = a
    <2> HIDE DEF a
    <2>1. ans' = ans \/ ans' = [ans EXCEPT ![c] = a]
      BY DEF Answer, a
    <2> QED
      BY <1>1, <2>1 DEF WireType
  <1>5. \A d \in Conns : ans'[d] # None /\ ans'[d].ok /\ ans'[d].op \in {"login", "refresh"}
                         => ans'[d].tok \in Pairs
    <2> HIDE DEF a
    <2> QED
      BY <1>1, <1>4 DEF WireType
  <1>6. req' = req /\ UNCHANGED device
    BY DEF Answer
  <1>7. WireType'
    BY <1>3, <1>4, <1>5, <1>6 DEF WireType
  <1> QED
    BY <1>6, <1>7 DEF DeviceType, device, asked

LEMMA RefuseType ==
    ASSUME WireType, DeviceType, NEW c \in Conns, Refuse(c)
    PROVE  WireType' /\ DeviceType'
  BY AnswerType DEF Refuse

(* A handler goes on to its next step. *)
LEMMA GoType ==
    ASSUME WireType, DeviceType, NEW c \in Conns, NEW t \in Pairs,
           job[c].at = "check", NEW step \in Steps, Go(c, step, t),
           step = "bind" => job[c].op \in {"login", "token"},
           step \in {"rotate", "commit"} => job[c].op = "refresh",
           step = "revoke" => job[c].op = "logout"
    PROVE  WireType' /\ DeviceType'
  <1>1. Complete(job[c]) /\ job[c] \in Jobs
    BY DEF WireType, JobOK
  <1>2. job' = [job EXCEPT ![c] = [job[c] EXCEPT !.at = step, !.tok = t]]
    BY DEF Go
  <1>3. [job[c] EXCEPT !.at = step, !.tok = t] \in Jobs
    BY <1>1 DEF Jobs
  <1>4. JobOK([job[c] EXCEPT !.at = step, !.tok = t])
    BY <1>1 DEF JobOK, Complete, Jobs
  <1>5. job' \in [Conns -> Jobs] /\ \A d \in Conns : JobOK(job'[d])
    BY <1>2, <1>3, <1>4 DEF WireType
  <1> QED
    BY <1>5 DEF Go, WireType, DeviceType, device, asked

LEMMA JobFields ==
    ASSUME WireType, NEW c \in Conns, job[c].at # "idle"
    PROVE  /\ job[c].op # "login" => job[c].tok \in Pairs
           /\ job[c].op = "refresh" => job[c].id \in Requests
           /\ job[c].at \in {"rotate", "commit"} => job[c].op = "refresh"
           /\ job[c].at = "revoke" => job[c].op = "logout"
           /\ job[c].at = "bind" => job[c].tok \in Pairs
  BY DEF WireType, JobOK, Complete

(* A refresh that succeeded, and one that did not. *)
LEMMA RotatedType ==
    ASSUME LinkType, WireType, DeviceType, NEW c \in Conns, NEW t \in Pairs, Rotated(c, t)
    PROVE  LinkType' /\ WireType' /\ DeviceType'
  <1>1. WireType' /\ DeviceType'
    BY AnswerType DEF Rotated
  <1>2. LinkType'
    BY PairFields DEF Rotated, LinkType
  <1> QED
    BY <1>1, <1>2

LEMMA ReusedType ==
    ASSUME TypeOK, NEW c \in Conns, NEW t \in Pairs, Reused(c, t)
    PROVE  /\ revoked' \subseteq Sessions /\ UNCHANGED <<gen, used, stale, ended>>
           /\ LinkType' /\ WireType' /\ DeviceType'
  <1>1. WireType' /\ DeviceType'
    BY RefuseType DEF Reused, TypeOK
  <1>2. LinkType' /\ revoked' \subseteq Sessions
    BY PairFields DEF Reused, TypeOK, LinkType, RowType
  <1> QED
    BY <1>1, <1>2 DEF Reused

(* What the device sends is complete. *)
LEMMA RequestType ==
    ASSUME TypeOK, NEW op \in Ops, NEW r \in Requests \cup {None}, ccon # None,
           op # "login" => ctok \in Pairs, op = "refresh" => r \in Requests,
           Request(op, r), cid' \in Requests \cup {None}, fresh' \subseteq Requests,
           dropped' = dropped
    PROVE  TypeOK'
  <1> DEFINE f == [op |-> op, tok |-> ctok, id |-> r]
  <1>1. f \in Frames /\ Complete(f)
    BY DEF TypeOK, DeviceType, Frames, Complete
  <1>2. /\ req' \in [Conns -> Frames \cup {None}]
        /\ \A c \in Conns : req'[c] = req[c] \/ req'[c] = f
    <2> HIDE DEF f
    <2>1. req' = [req EXCEPT ![ccon] = f]
      BY DEF Request, f
    <2> QED
      BY <1>1, <2>1 DEF TypeOK, DeviceType, WireType
  <1>3. \A c \in Conns : req'[c] # None => Complete(req'[c])
    <2> HIDE DEF f
    <2> QED
      BY <1>1, <1>2 DEF TypeOK, WireType
  <1>4. WireType'
    BY <1>2, <1>3 DEF Request, TypeOK, WireType
  <1>5. RowType' /\ LinkType'
    BY DEF Request, TypeOK, RowType, LinkType, rows, service, links
  <1>6. DeviceType'
    BY DEF Request, TypeOK, DeviceType
  <1> QED
    BY <1>4, <1>5, <1>6 DEF TypeOK

(* A result that is kept may push out others, which are then gone. *)
Results == [old : Pairs, new : Pairs]

LEMMA KeepDoes ==
    ASSUME RowType, NEW id \in Requests, NEW result \in Results, Keep(id, result)
    PROVE  /\ cache' \in [Requests -> Results \cup {None}] /\ cache'[id] = result
           /\ gone \subseteq gone' /\ gone' \subseteq Requests
           /\ \A r \in Requests \ {id} :
                 cache'[r] = cache[r] \/ (cache'[r] = None /\ r \in gone')
  <1>1. cache \in [Requests -> Results \cup {None}] /\ gone \subseteq Requests
    BY DEF RowType, Results
  <1>2. PICK kept \in {cache} \cup {[cache EXCEPT ![r] = None] : r \in Requests} :
          cache' = [kept EXCEPT ![id] = result]
    BY DEF Keep
  <1>3. /\ kept \in [Requests -> Results \cup {None}]
        /\ \A r \in Requests : kept[r] = cache[r] \/ kept[r] = None
    BY <1>1, <1>2
  <1>4. /\ cache' \in [Requests -> Results \cup {None}] /\ cache'[id] = result
        /\ \A r \in Requests \ {id} : cache'[r] = cache[r] \/ cache'[r] = None
    BY <1>2, <1>3
  <1>5. gone' = gone \cup {r \in Requests : cache[r] # None /\ cache'[r] = None}
    BY DEF Keep, Forgets
  <1> QED
    BY <1>1, <1>4, <1>5

-----------------------------------------------------------------------------
(* Every step of the device preserves TypeOK. *)
LEMMA DeviceStep == TypeOK /\ Device => TypeOK'
  <1> SUFFICES ASSUME TypeOK, Device PROVE TypeOK'
    OBVIOUS
  <1> USE TokensAssumption
  <1>1. ASSUME NEW c \in Conns, Connect(c) PROVE TypeOK'
    BY <1>1 DEF asked, Connect, TypeOK, RowType, LinkType, WireType, DeviceType, rows, service, wires
  <1>2. CASE AskLogin
    BY <1>2, RequestType DEF asked, AskLogin, Free, Ops, TypeOK, DeviceType
  <1>3. CASE AskToken
    BY <1>3, RequestType DEF asked, AskToken, Free, Ops, TypeOK, DeviceType
  <1>4. CASE AskRefresh
    BY <1>4, RequestType DEF asked, AskRefresh, Free, Ops, TypeOK, DeviceType
  <1>5. CASE AskLogout
    BY <1>5, RequestType DEF asked, AskLogout, Free, Ops, TypeOK, DeviceType
  <1>6. CASE Read
    <2>1. ans' \in [Conns -> Answers \cup {None}] /\ \A c \in Conns : ans'[c] = ans[c] \/ ans'[c] = None
      BY <1>6 DEF Read, TypeOK, WireType, DeviceType
    <2>2. WireType'
      BY <1>6, <2>1 DEF Read, TypeOK, WireType
    <2>3. DeviceType'
      BY <1>6 DEF asked, Read, TypeOK, DeviceType, WireType
    <2> QED
      BY <1>6, <2>2, <2>3 DEF Read, TypeOK, RowType, LinkType, rows, service, links
  <1>7. CASE ReadKick
    BY <1>7 DEF asked, ReadKick, TypeOK, RowType, LinkType, WireType, DeviceType, rows, service, wires
  <1>8. CASE Lose
    BY <1>8 DEF asked, Lose, TypeOK, RowType, LinkType, WireType, DeviceType, rows, service, links, wires
  <1>9. CASE Cancel
    BY <1>9 DEF Cancel, TypeOK, RowType, LinkType, WireType, DeviceType, rows, service, links, wires
  <1> QED
    BY <1>1, <1>2, <1>3, <1>4, <1>5, <1>6, <1>7, <1>8, <1>9 DEF Device

(* Every step of a handler preserves TypeOK. *)
LEMMA HandlerStep == ASSUME TypeOK, NEW c \in Conns, Handler(c) PROVE TypeOK'
  <1> USE TokensAssumption
  <1>1. CASE Take(c)
    <2>1. req[c] \in Frames /\ Complete(req[c])
      BY <1>1 DEF Take, TypeOK, WireType
    <2> DEFINE j == [at |-> "check", op |-> req[c].op, tok |-> req[c].tok, id |-> req[c].id]
    <2>2. j \in Jobs /\ JobOK(j)
      BY <2>1 DEF Jobs, Frames, JobOK, Complete, Steps
    <2>3. job' = [job EXCEPT ![c] = j] /\ req' = [req EXCEPT ![c] = None] /\ ans' = ans
      BY <1>1 DEF Take
    <2> HIDE DEF j
    <2>4. WireType'
      BY <2>2, <2>3 DEF TypeOK, WireType
    <2> QED
      BY <1>1, <2>4 DEF Take, TypeOK, RowType, LinkType, DeviceType, rows, service, links, device, asked
  <1>2. CASE Issue(c)
    <2>1. LinkType'
      BY <1>2 DEF Issue, TypeOK, LinkType, links
    <2>2. CASE Refuse(c) /\ UNCHANGED gen
      BY <1>2, <2>1, <2>2, RefuseType DEF Issue, TypeOK, RowType, service
    <2>3. ASSUME NEW s \in Sessions, gen' = [gen EXCEPT ![s] = 1],
                 Go(c, "bind", [s |-> s, g |-> 1])
          PROVE  TypeOK'
      <3>1. [s |-> s, g |-> 1] \in Pairs
        BY DEF Pairs
      <3>2. WireType' /\ DeviceType'
        BY <1>2, <2>3, <3>1, GoType DEF Issue, At, Steps, TypeOK
      <3>3. RowType'
        BY <1>2, <2>3 DEF Issue, TypeOK, RowType, service
      <3> QED
        BY <2>1, <3>2, <3>3 DEF TypeOK
    <2> QED
      BY <1>2, <2>2, <2>3 DEF Issue
  <1>3. CASE ValidateAccess(c)
    <2>1. RowType' /\ LinkType'
      BY <1>3 DEF ValidateAccess, TypeOK, RowType, LinkType, rows, service, links
    <2>2. job[c].tok \in Pairs
      BY <1>3, JobFields DEF ValidateAccess, At, TypeOK
    <2>3. WireType' /\ DeviceType'
      BY <1>3, <2>2, GoType, RefuseType DEF ValidateAccess, At, Steps, TypeOK
    <2> QED
      BY <2>1, <2>3 DEF TypeOK
  <1>4. CASE Bind(c)
    <2>1. job[c].tok \in Pairs
      BY <1>4, JobFields DEF Bind, TypeOK
    <2>2. WireType' /\ DeviceType'
      BY <1>4, <2>1, AnswerType DEF Bind, TypeOK
    <2>3. LinkType'
      BY <1>4, <2>1, PairFields DEF Bind, TypeOK, LinkType
    <2> QED
      BY <1>4, <2>2, <2>3 DEF Bind, TypeOK, RowType, rows, service
  <1>5. CASE RefreshCheck(c)
    <2>1. RowType' /\ LinkType'
      BY <1>5 DEF RefreshCheck, TypeOK, RowType, LinkType, rows, service, links
    <2>2. job[c].tok \in Pairs
      BY <1>5, JobFields DEF RefreshCheck, At, TypeOK
    <2>3. WireType' /\ DeviceType'
      BY <1>5, <2>2, GoType, RefuseType DEF RefreshCheck, At, Steps, TypeOK
    <2> QED
      BY <2>1, <2>3 DEF TypeOK
  <1>6. CASE LogoutCheck(c)
    <2>1. RowType' /\ LinkType'
      BY <1>6 DEF LogoutCheck, TypeOK, RowType, LinkType, rows, service, links
    <2>2. job[c].tok \in Pairs
      BY <1>6, JobFields DEF LogoutCheck, At, TypeOK
    <2>3. WireType' /\ DeviceType'
      BY <1>6, <2>2, GoType, RefuseType DEF LogoutCheck, At, Steps, TypeOK
    <2> QED
      BY <2>1, <2>3 DEF TypeOK
  <1>7. CASE LogoutRevoke(c)
    <2>1. job[c].op = "logout" /\ job[c].tok \in Pairs
      BY <1>7, JobFields DEF LogoutRevoke, TypeOK
    <2>2. WireType' /\ DeviceType'
      BY <1>7, <2>1, AnswerType DEF LogoutRevoke, TypeOK
    <2>3. RowType'
      BY <1>7, <2>1, PairFields DEF LogoutRevoke, TypeOK, RowType, service
    <2> QED
      BY <1>7, <2>2, <2>3 DEF LogoutRevoke, TypeOK, LinkType
  <1>8. CASE Closed(c)
    BY <1>8 DEF Closed, TypeOK, RowType, LinkType, WireType, DeviceType, rows, service, device, asked
  <1>9. CASE RotateFind(c)
    <2>1. job[c].tok \in Pairs /\ job[c].id \in Requests /\ job[c].op = "refresh"
      BY <1>9, JobFields DEF RotateFind, RotateReady, TypeOK
    <2> DEFINE t == job[c].tok
    <2>2. CASE Cached(c) # None /\ UNCHANGED <<rows, lock>>
               /\ IF Cached(c).old = t THEN Rotated(c, Cached(c).new)
                  ELSE Refuse(c) /\ UNCHANGED links
      <3>1. Cached(c).new \in Pairs
        BY <2>1, <2>2 DEF Cached, TypeOK, RowType
      <3>2. LinkType' /\ WireType' /\ DeviceType'
        BY <2>2, <3>1, RotatedType, RefuseType DEF TypeOK, LinkType, links
      <3> QED
        BY <1>9, <2>2, <3>2 DEF RotateFind, TypeOK, RowType, rows
    <2>3. CASE Reused(c, t) /\ UNCHANGED lock
      BY <1>9, <2>1, <2>3, ReusedType DEF RotateFind, TypeOK, RowType
    <2>4. CASE /\ IF t.s \in revoked \cup ended THEN Refuse(c) /\ UNCHANGED lock
                  ELSE job' = [job EXCEPT ![c].at = "commit", ![c].tok = t] /\ lock' = c
                       /\ UNCHANGED <<req, ans, device>>
               /\ UNCHANGED <<rows, links>>
      <3>1. CASE Refuse(c) /\ UNCHANGED lock
        BY <1>9, <2>4, <3>1, RefuseType
        DEF RotateFind, TypeOK, RowType, LinkType, rows, links
      <3>2. CASE job' = [job EXCEPT ![c].at = "commit", ![c].tok = t] /\ lock' = c
                 /\ UNCHANGED <<req, ans, device>>
        <4>1. job[c] \in Jobs /\ Complete(job[c])
          BY <1>9 DEF RotateFind, RotateReady, TypeOK, WireType, JobOK
        <4>2. [job[c] EXCEPT !.at = "commit", !.tok = t] \in Jobs
          BY <2>1, <4>1 DEF Jobs, Steps
        <4>3. JobOK([job[c] EXCEPT !.at = "commit", !.tok = t])
          BY <2>1, <4>1 DEF JobOK, Complete, Jobs
        <4>4. job' = [job EXCEPT ![c] = [job[c] EXCEPT !.at = "commit", !.tok = t]]
          BY <3>2
        <4>5. job' \in [Conns -> Jobs] /\ \A d \in Conns : JobOK(job'[d])
          BY <4>2, <4>3, <4>4 DEF TypeOK, WireType
        <4>6. WireType' /\ DeviceType'
          BY <3>2, <4>5 DEF TypeOK, WireType, DeviceType, device, asked
        <4> QED
          BY <1>9, <2>4, <3>2, <4>6 DEF RotateFind, TypeOK, RowType, LinkType, rows, links
      <3> QED
        BY <2>4, <3>1, <3>2
    <2> QED
      BY <1>9, <2>2, <2>3, <2>4 DEF RotateFind, Go
  <1>10. CASE RotateCommit(c)
    <2>1. job[c].tok \in Pairs /\ job[c].id \in Requests /\ job[c].op = "refresh"
      BY <1>10, JobFields DEF RotateCommit, TypeOK
    <2> DEFINE t == job[c].tok
               n == [t EXCEPT !.g = @ + 1]
    <2>2. CASE /\ Committable(t)
               /\ gen' = [gen EXCEPT ![t.s] = n.g]
               /\ used' = [used EXCEPT ![t.s] = History(t)]
               /\ stale' = stale \ {t.s} /\ ended' = ended \ {t.s}
               /\ Keep(job[c].id, [old |-> t, new |-> n])
               /\ Rotated(c, n)
               /\ UNCHANGED revoked
      <3>1. t.g \in 1..MaxGen /\ t.s \in Sessions /\ t.g + 1 \in 1..MaxGen
        BY <2>1, <2>2, PairFields DEF Committable
      <3>2. n \in Pairs /\ n.g = t.g + 1
        BY <2>1, <3>1 DEF Pairs
      <3>3. LinkType' /\ WireType' /\ DeviceType'
        BY <2>2, <3>2, RotatedType DEF TypeOK
      <3>4. gen' \in [Sessions -> 0..MaxGen]
        BY <2>2, <3>1, <3>2 DEF TypeOK, RowType
      <3>5. used' \in [Sessions -> SUBSET (1..MaxGen)]
        BY <2>2, <3>1 DEF TypeOK, RowType, History
      <3>6. cache' \in [Requests -> Results \cup {None}] /\ gone' \subseteq Requests
        <4>1. [old |-> t, new |-> n] \in Results
          BY <2>1, <3>2 DEF Results
        <4> HIDE DEF n, t
        <4> QED
          BY <2>1, <2>2, <4>1, KeepDoes DEF TypeOK
      <3> QED
        BY <1>10, <2>2, <3>3, <3>4, <3>5, <3>6 DEF RotateCommit, TypeOK, RowType, Results
    <2>3. CASE Reused(c, t) /\ UNCHANGED <<cache, gone>>
      BY <1>10, <2>1, <2>3, ReusedType DEF RotateCommit, TypeOK, RowType
    <2> QED
      BY <1>10, <2>2, <2>3 DEF RotateCommit
  <1> QED
    BY <1>1, <1>2, <1>3, <1>4, <1>5, <1>6, <1>7, <1>8, <1>9, <1>10 DEF Handler

(* So does every step. *)
LEMMA TypeStep == TypeOK /\ [Next]_vars => TypeOK'
  <1> SUFFICES ASSUME TypeOK, [Next]_vars PROVE TypeOK'
    OBVIOUS
  <1> USE TokensAssumption
  <1>1. CASE Device
    BY <1>1, DeviceStep
  <1>2. ASSUME NEW c \in Conns, Handler(c) PROVE TypeOK'
    BY <1>2, HandlerStep
  <1>3. ASSUME NEW s \in Sessions, AccessExpires(s) \/ RefreshExpires(s) PROVE TypeOK'
    BY <1>3 DEF AccessExpires, RefreshExpires, TypeOK, RowType, LinkType, WireType, DeviceType,
                service, links, wires, device, asked
  <1>4. ASSUME NEW r \in Requests, CacheExpires(r) PROVE TypeOK'
    BY <1>4 DEF CacheExpires, Forgets, TypeOK, RowType, LinkType, WireType, DeviceType,
                rows, links, wires, device, asked
  <1>5. CASE Restart
    <2>1. Idle \in Jobs /\ JobOK(Idle)
      BY DEF Idle, Jobs, JobOK, Steps, Ops
    <2>2. job' \in [Conns -> Jobs] /\ \A d \in Conns : JobOK(job'[d])
      <3> HIDE DEF Idle
      <3> QED
        BY <1>5, <2>1 DEF Restart
    <2>3. WireType'
      BY <1>5, <2>2 DEF Restart, WireType
    <2>4. RowType' /\ LinkType' /\ DeviceType'
      BY <1>5 DEF asked, Restart, Forgets, TypeOK, RowType, LinkType, DeviceType, rows
    <2> QED
      BY <2>3, <2>4 DEF TypeOK
  <1>6. CASE UNCHANGED vars
    BY <1>6 DEF vars, rows, service, links, wires, device, asked, TypeOK, RowType, LinkType, WireType, DeviceType
  <1> QED
    BY <1>1, <1>2, <1>3, <1>4, <1>5, <1>6 DEF Next

-----------------------------------------------------------------------------
(* One rotation at a time: the mutex follows the handler in between. *)
LEMMA MutexStep == TypeOK /\ OneRotation /\ [Next]_vars => OneRotation'
  <1> SUFFICES ASSUME TypeOK, OneRotation, [Next]_vars PROVE OneRotation'
    OBVIOUS
  <1> USE TokensAssumption
  <1>0. job \in [Conns -> Jobs]
    BY DEF TypeOK, WireType
  <1>1. CASE Device
    BY <1>1 DEF Device, Connect, AskLogin, AskToken, AskRefresh, AskLogout, Request, Read, ReadKick,
                Lose, Cancel, OneRotation, service, wires
  <1>2. ASSUME NEW c \in Conns, Handler(c) PROVE OneRotation'
    <2>1. CASE Take(c) \/ Issue(c) \/ ValidateAccess(c) \/ Bind(c) \/ RefreshCheck(c)
               \/ LogoutCheck(c) \/ LogoutRevoke(c) \/ Closed(c)
      <3>1. job[c] \in Jobs
        BY <1>0
      <3>2. lock' = lock
        BY <2>1 DEF Take, Issue, ValidateAccess, Bind, RefreshCheck, LogoutCheck, LogoutRevoke,
                    Closed, service
      <3>3. CASE Closed(c)
        BY <3>2, <3>3 DEF Closed, OneRotation
      <3>4. CASE ~Closed(c)
        <4>1. job[c].at # "commit"
          <5>1. Take(c) => job[c].at = "idle"
            BY DEF Take, Idle
          <5>2. Bind(c) => job[c].at = "bind"
            BY DEF Bind
          <5>3. LogoutRevoke(c) => job[c].at = "revoke"
            BY DEF LogoutRevoke
          <5>4. Issue(c) \/ ValidateAccess(c) \/ RefreshCheck(c) \/ LogoutCheck(c)
                  => job[c].at = "check"
            BY DEF Issue, ValidateAccess, RefreshCheck, LogoutCheck, At
          <5> QED
            BY <2>1, <3>4, <5>1, <5>2, <5>3, <5>4
        <4>2. \/ Take(c)
              \/ job' = [job EXCEPT ![c] = Idle]
              \/ \E step \in {"bind", "rotate", "revoke"} :
                   \E t : job' = [job EXCEPT ![c].at = step, ![c].tok = t]
          BY <2>1, <3>4 DEF Issue, ValidateAccess, Bind, RefreshCheck, LogoutCheck, LogoutRevoke,
                            Go, Refuse, Answer
        <4>3. CASE Take(c)
          BY <1>0, <3>2, <4>1, <4>3 DEF Take, OneRotation
        <4>4. CASE job' = [job EXCEPT ![c] = Idle]
          BY <1>0, <3>2, <4>1, <4>4 DEF OneRotation, Idle
        <4>5. ASSUME NEW step \in {"bind", "rotate", "revoke"}, NEW t,
                     job' = [job EXCEPT ![c].at = step, ![c].tok = t]
              PROVE  OneRotation'
          <5>1. job'[c].at = step /\ \A d \in Conns \ {c} : job'[d] = job[d]
            BY <1>0, <3>1, <4>5 DEF Jobs
          <5> QED
            BY <3>2, <4>1, <5>1 DEF OneRotation
        <4> QED
          BY <4>2, <4>3, <4>4, <4>5
      <3> QED
        BY <3>3, <3>4
    <2>2. CASE RotateFind(c)
      <3>1. job[c].at = "rotate" /\ lock = None
        BY <2>2 DEF RotateFind, RotateReady
      <3>2. \/ job' = [job EXCEPT ![c] = Idle] /\ lock' = lock
            \/ job' = [job EXCEPT ![c].at = "commit", ![c].tok = job[c].tok] /\ lock' = c
        BY <2>2 DEF RotateFind, Rotated, Reused, Go, Refuse, Answer
      <3>3. \/ job'[c].at = "idle" /\ lock' = lock
            \/ job'[c].at = "commit" /\ lock' = c
        <4>1. job[c] \in Jobs
          BY <1>0
        <4> QED
          BY <1>0, <3>2, <4>1 DEF Idle, Jobs
      <3>4. \A d \in Conns \ {c} : job'[d] = job[d]
        BY <1>0, <3>2
      <3> QED
        BY <3>1, <3>3, <3>4 DEF OneRotation
    <2>3. CASE RotateCommit(c)
      <3>1. job' = [job EXCEPT ![c] = Idle] /\ lock' = None /\ lock = c
        BY <2>3 DEF RotateCommit, Rotated, Reused, Refuse, Answer, OneRotation
      <3>2. job'[c].at = "idle" /\ \A d \in Conns \ {c} : job'[d] = job[d]
        BY <1>0, <3>1 DEF Idle
      <3> QED
        BY <3>1, <3>2 DEF OneRotation
    <2> QED
      BY <1>2, <2>1, <2>2, <2>3 DEF Handler
  <1>3. ASSUME NEW s \in Sessions, AccessExpires(s) \/ RefreshExpires(s) PROVE OneRotation'
    BY <1>3 DEF AccessExpires, RefreshExpires, OneRotation, service, wires
  <1>4. ASSUME NEW r \in Requests, CacheExpires(r) PROVE OneRotation'
    BY <1>4 DEF CacheExpires, OneRotation, wires
  <1>5. CASE Restart
    BY <1>5 DEF Restart, OneRotation, Idle
  <1>6. CASE UNCHANGED vars
    BY <1>6 DEF vars, service, wires, OneRotation
  <1> QED
    BY <1>1, <1>2, <1>3, <1>4, <1>5, <1>6 DEF Next

-----------------------------------------------------------------------------
(* What a step does to the rows: nothing, a new row, a rotation that the   *)
(* UPDATE allows, or a revocation of rows that exist.                      *)
NewRow == \E s \in Sessions :
    gen[s] = 0 /\ gen' = [gen EXCEPT ![s] = 1] /\ UNCHANGED <<used, revoked>>

Rotation == \E t \in Pairs :
    /\ gen[t.s] = t.g /\ t.g < MaxGen /\ t.s \notin revoked
    /\ gen' = [gen EXCEPT ![t.s] = t.g + 1]
    /\ used' = [used EXCEPT ![t.s] = @ \cup {t.g}]
    /\ UNCHANGED revoked

Revocation ==
    /\ revoked \subseteq revoked' /\ \A s \in revoked' \ revoked : gen[s] > 0
    /\ UNCHANGED <<gen, used>>

LEMMA RowStep ==
    ASSUME IInv, [Next]_vars
    PROVE  NewRow \/ Rotation \/ Revocation \/ UNCHANGED <<gen, used, revoked>>
  <1> USE TokensAssumption DEF IInv
  <1>1. CASE Device
    BY <1>1 DEF Device, Connect, AskLogin, AskToken, AskRefresh, AskLogout, Request, Read, ReadKick,
                Lose, Cancel, rows
  <1>2. ASSUME NEW c \in Conns, Handler(c)
        PROVE  NewRow \/ Rotation \/ Revocation \/ UNCHANGED <<gen, used, revoked>>
    <2>1. CASE Take(c) \/ ValidateAccess(c) \/ Bind(c) \/ RefreshCheck(c) \/ LogoutCheck(c) \/ Closed(c)
      BY <2>1 DEF Take, ValidateAccess, Bind, RefreshCheck, LogoutCheck, Closed, rows
    <2>2. CASE Issue(c)
      BY <2>2 DEF Issue, NewRow
    <2>3. CASE LogoutRevoke(c)
      <3>1. job[c].tok \in Pairs /\ gen[job[c].tok.s] > 0
        BY <2>3, JobFields DEF LogoutRevoke, RevokedExist, TypeOK
      <3> QED
        BY <2>3, <3>1 DEF LogoutRevoke, Revocation
    <2>4. ASSUME job[c].tok \in Pairs, Reused(c, job[c].tok)
          PROVE  Revocation \/ UNCHANGED <<gen, used, revoked>>
      <3> DEFINE t == job[c].tok
      <3>1. CASE t.g \in used[t.s]
        <4>1. t.s \in Sessions /\ t.g \in Nat /\ t.g < gen[t.s] /\ gen[t.s] \in Nat
          BY <2>4, <3>1, PairFields DEF HistoryComplete, TypeOK, RowType
        <4>2. gen[t.s] > 0
          BY <4>1
        <4> QED
          BY <2>4, <3>1, <4>2 DEF Reused, Revocation
      <3>2. CASE t.g \notin used[t.s]
        BY <2>4, <3>2 DEF Reused
      <3> QED
        BY <3>1, <3>2
    <2>5. CASE RotateFind(c)
      <3>1. job[c].tok \in Pairs
        BY <2>5, JobFields DEF RotateFind, RotateReady, TypeOK
      <3> QED
        BY <2>4, <2>5, <3>1 DEF RotateFind, rows
    <2>6. CASE RotateCommit(c)
      <3>1. job[c].tok \in Pairs
        BY <2>6, JobFields DEF RotateCommit, TypeOK
      <3>2. [job[c].tok EXCEPT !.g = @ + 1].g = job[c].tok.g + 1
        BY <3>1 DEF Pairs
      <3>3. CASE /\ Committable(job[c].tok)
                 /\ gen' = [gen EXCEPT ![job[c].tok.s] = [job[c].tok EXCEPT !.g = @ + 1].g]
                 /\ used' = [used EXCEPT ![job[c].tok.s] = History(job[c].tok)]
                 /\ UNCHANGED revoked
        BY <3>1, <3>2, <3>3 DEF Committable, Good, Holds, History, Rotation
      <3> QED
        BY <2>4, <2>6, <3>1, <3>3 DEF RotateCommit
    <2> QED
      BY <1>2, <2>1, <2>2, <2>3, <2>5, <2>6 DEF Handler
  <1>3. ASSUME NEW s \in Sessions, AccessExpires(s) \/ RefreshExpires(s)
        PROVE  UNCHANGED <<gen, used, revoked>>
    BY <1>3 DEF AccessExpires, RefreshExpires
  <1>4. ASSUME NEW r \in Requests, CacheExpires(r) PROVE UNCHANGED <<gen, used, revoked>>
    BY <1>4 DEF CacheExpires, rows
  <1>5. CASE Restart
    BY <1>5 DEF Restart, rows
  <1>6. CASE UNCHANGED vars
    BY <1>6 DEF vars, rows
  <1> QED
    BY <1>1, <1>2, <1>3, <1>4, <1>5, <1>6 DEF Next

(* Rows only ever get newer. *)
LEMMA GenGrows ==
    ASSUME IInv, [Next]_vars
    PROVE  \A s \in Sessions : gen[s] > 0 => gen'[s] > 0
  <1>1. gen \in [Sessions -> 0..MaxGen]
    BY DEF IInv, TypeOK, RowType
  <1>2. CASE Rotation
    BY <1>1, <1>2, PairFields, TokensAssumption DEF Rotation
  <1> QED
    BY <1>1, <1>2, RowStep DEF NewRow, Revocation

LEMMA HistoryStep == IInv /\ [Next]_vars => HistoryComplete'
  <1> SUFFICES ASSUME IInv, [Next]_vars, NEW s \in Sessions
               PROVE  used'[s] = {g \in 1..MaxGen : g < gen'[s]}
    BY DEF HistoryComplete
  <1>1. /\ gen \in [Sessions -> 0..MaxGen] /\ used \in [Sessions -> SUBSET (1..MaxGen)]
        /\ used[s] = {g \in 1..MaxGen : g < gen[s]} /\ MaxGen \in Nat
    BY TokensAssumption DEF IInv, TypeOK, RowType, HistoryComplete
  <1>2. CASE NewRow
    <2>1. used'[s] = used[s] /\ (gen'[s] = gen[s] \/ (gen[s] = 0 /\ gen'[s] = 1))
      BY <1>1, <1>2 DEF NewRow
    <2>2. {g \in 1..MaxGen : g < 0} = {g \in 1..MaxGen : g < 1}
      BY <1>1
    <2> QED
      BY <1>1, <2>1, <2>2
  <1>3. CASE Rotation
    <2>1. PICK t \in Pairs :
             /\ gen[t.s] = t.g /\ t.g < MaxGen
             /\ gen' = [gen EXCEPT ![t.s] = t.g + 1]
             /\ used' = [used EXCEPT ![t.s] = @ \cup {t.g}]
      BY <1>3 DEF Rotation
    <2>2. t.s \in Sessions /\ t.g \in 1..MaxGen
      BY PairFields
    <2>3. CASE s = t.s
      <3>1. gen'[s] = gen[s] + 1 /\ used'[s] = used[s] \cup {gen[s]} /\ gen[s] \in 1..MaxGen
        BY <1>1, <2>1, <2>2, <2>3
      <3>2. {g \in 1..MaxGen : g < gen[s] + 1} = {g \in 1..MaxGen : g < gen[s]} \cup {gen[s]}
        BY <1>1, <3>1
      <3> QED
        BY <1>1, <3>1, <3>2
    <2>4. CASE s # t.s
      BY <1>1, <2>1, <2>2, <2>4
    <2> QED
      BY <2>3, <2>4
  <1> QED
    BY <1>1, <1>2, <1>3, RowStep DEF Revocation

(* A handler comes to its revocation only with a row that it found. *)
LEMMA RevokedStep == IInv /\ [Next]_vars => RevokedExist'
  <1> SUFFICES ASSUME IInv, [Next]_vars PROVE RevokedExist'
    OBVIOUS
  <1>1. /\ \A s \in Sessions : gen[s] > 0 => gen'[s] > 0
        /\ \A s \in revoked : gen[s] > 0
        /\ revoked \subseteq Sessions /\ revoked' \subseteq Sessions
    BY GenGrows, TypeStep DEF IInv, RevokedExist, TypeOK, RowType
  <1>2. \A s \in revoked' : gen'[s] > 0
    BY <1>1, RowStep DEF NewRow, Rotation, Revocation
  <1>3. ASSUME NEW c \in Conns, job'[c].at = "revoke"
        PROVE  job[c] = job'[c] \/ (LogoutCheck(c) /\ job'[c].tok = job[c].tok /\ Good(job[c].tok))
    <2>0. job \in [Conns -> Jobs]
      BY DEF IInv, TypeOK, WireType
    <2>1. CASE Device \/ UNCHANGED vars
      BY <2>1 DEF Device, Connect, AskLogin, AskToken, AskRefresh, AskLogout, Request, Read,
                  ReadKick, Lose, Cancel, vars, wires
    <2>2. ASSUME NEW d \in Conns, Handler(d)
          PROVE  job[c] = job'[c] \/ (LogoutCheck(c) /\ job'[c].tok = job[c].tok /\ Good(job[c].tok))
      <3>1. CASE c # d
        <4>1. job'[c] = job[c]
          BY <2>0, <2>2, <3>1 DEF Handler, Take, Issue, ValidateAccess, Bind, RefreshCheck, RotateFind,
             RotateCommit, LogoutCheck, LogoutRevoke, Closed, Rotated, Reused, Refuse, Answer, Go, rows
        <4> QED
          BY <4>1
      <3>2. CASE c = d /\ LogoutCheck(c)
        <4>1. job[c] \in Jobs
          BY <2>0
        <4>2. CASE Good(job[c].tok) /\ Go(c, "revoke", job[c].tok)
          BY <2>0, <3>2, <4>1, <4>2 DEF Go, Jobs
        <4>3. CASE Refuse(c)
          BY <1>3, <2>0, <4>3 DEF Refuse, Answer, Idle
        <4> QED
          BY <3>2, <4>2, <4>3 DEF LogoutCheck
      <3>3. CASE c = d /\ ~LogoutCheck(c)
        <4>1. job[c] \in Jobs
          BY <2>0
        <4>2. CASE Closed(c)
          BY <4>2 DEF Closed
        <4>3. CASE job' = [job EXCEPT ![c] = Idle]
          BY <1>3, <2>0, <4>3 DEF Idle
        <4>4. CASE Take(c)
          BY <1>3, <2>0, <4>4 DEF Take
        <4>5. ASSUME NEW step \in {"bind", "rotate", "commit"}, NEW t, Go(c, step, t) PROVE FALSE
          BY <1>3, <2>0, <4>1, <4>5 DEF Go, Jobs
        <4> QED
          BY <2>2, <3>3, <4>2, <4>3, <4>4, <4>5 DEF Handler, Issue, ValidateAccess, Bind, RefreshCheck,
             RotateFind, RotateCommit, LogoutRevoke, Rotated, Reused, Refuse, Answer
      <3> QED
        BY <3>1, <3>2, <3>3
    <2>3. CASE Restart
      BY <1>3, <2>3 DEF Restart, Idle
    <2>4. ASSUME NEW s \in Sessions, AccessExpires(s) \/ RefreshExpires(s) PROVE job' = job
      BY <2>4 DEF AccessExpires, RefreshExpires, wires
    <2>5. ASSUME NEW r \in Requests, CacheExpires(r) PROVE job' = job
      BY <2>5 DEF CacheExpires, wires
    <2> QED
      BY <2>1, <2>2, <2>3, <2>4, <2>5 DEF Next
  <1>4. ASSUME NEW c \in Conns, job'[c].at = "revoke" PROVE gen'[job'[c].tok.s] > 0
    <2>1. CASE job'[c] = job[c]
      <3>1. job[c].tok \in Pairs /\ gen[job[c].tok.s] > 0
        BY <1>4, <2>1, JobFields DEF IInv, TypeOK, RevokedExist
      <3> QED
        BY <1>1, <2>1, <3>1, PairFields
    <2>2. CASE LogoutCheck(c) /\ job'[c].tok = job[c].tok /\ Good(job[c].tok)
      <3>1. job[c].tok \in Pairs
        BY <2>2, JobFields DEF LogoutCheck, At, IInv, TypeOK
      <3>2. gen[job[c].tok.s] > 0
        BY <2>2, <3>1, PairFields, TokensAssumption DEF Good, Holds
      <3> QED
        BY <1>1, <2>2, <3>1, <3>2, PairFields
    <2> QED
      BY <1>3, <1>4, <2>1, <2>2
  <1> QED
    BY <1>2, <1>4 DEF RevokedExist

-----------------------------------------------------------------------------
LEMMA InitIInv == Init => IInv
  <1> SUFFICES ASSUME Init PROVE IInv
    OBVIOUS
  <1> USE TokensAssumption
  <1>1. Idle \in Jobs /\ JobOK(Idle) /\ Idle.at = "idle"
    BY DEF Idle, Jobs, JobOK, Steps, Ops
  <1>2. WireType
    <2> HIDE DEF Idle
    <2> QED
      BY <1>1 DEF Init, WireType
  <1>3. RowType /\ LinkType /\ DeviceType
    BY DEF Init, RowType, LinkType, DeviceType
  <1>4. OneRotation /\ RevokedExist
    BY DEF Init, OneRotation, RevokedExist, Idle
  <1>5. HistoryComplete
    <2> SUFFICES ASSUME NEW s \in Sessions PROVE used[s] = {g \in 1..MaxGen : g < gen[s]}
      BY DEF HistoryComplete
    <2>1. used[s] = {} /\ gen[s] = 0
      BY DEF Init
    <2>2. \A g \in 1..MaxGen : ~(g < 0)
      OBVIOUS
    <2> QED
      BY <2>1, <2>2
  <1> QED
    BY <1>2, <1>3, <1>4, <1>5 DEF IInv, TypeOK

(* IInv is inductive. *)
THEOREM TokensInvariant == Spec => []IInv
  <1>1. IInv /\ [Next]_vars => IInv'
    BY TypeStep, MutexStep, HistoryStep, RevokedStep DEF IInv
  <1> QED
    BY InitIInv, <1>1, PTL DEF Spec

(* The state of tokens, handlers and device is typed (TypeOK). *)
THEOREM TokensTypeCorrect == Spec => []TypeOK
  <1>1. IInv => TypeOK
    BY DEF IInv
  <1> QED
    BY TokensInvariant, <1>1, PTL

(* auth_refresh_history holds exactly the tokens a row has had before, so  *)
(* every refresh token is exchanged at most once.                          *)
THEOREM TokensExchangedOnce == Spec => []HistoryComplete
  <1>1. IInv => HistoryComplete
    BY DEF IInv
  <1> QED
    BY TokensInvariant, <1>1, PTL

(* A revoked session stays revoked and gets no new tokens.                 *)
THEOREM RevocationFinal == Spec => RevokedIsFinal
  <1>1. IInv /\ [Next]_vars => [\A s \in revoked : s \in revoked' /\ gen'[s] = gen[s]]_vars
    <2> SUFFICES ASSUME IInv, [Next]_vars, NEW s \in revoked
                 PROVE  s \in revoked' /\ gen'[s] = gen[s]
      OBVIOUS
    <2>1. gen \in [Sessions -> 0..MaxGen] /\ s \in Sessions /\ gen[s] > 0
      BY DEF IInv, TypeOK, RowType, RevokedExist
    <2>2. CASE NewRow
      BY <2>1, <2>2 DEF NewRow
    <2>3. CASE Rotation
      BY <2>1, <2>3, PairFields DEF Rotation
    <2>4. CASE Revocation \/ UNCHANGED <<gen, used, revoked>>
      BY <2>4 DEF Revocation
    <2> QED
      BY <2>2, <2>3, <2>4, RowStep
  <1> QED
    BY TokensInvariant, <1>1, PTL DEF Spec, RevokedIsFinal

-----------------------------------------------------------------------------
(* Repeated refreshes: what keeps a retry from being taken for a replay.   *)

(* A refresh of token t under request id r is on its way from connection c *)
(* to the exchange.                                                        *)
Wants(c, t, r) ==
    \/ req[c] # None /\ req[c].op = "refresh" /\ req[c].tok = t /\ req[c].id = r
    \/ job[c].at # "idle" /\ job[c].op = "refresh" /\ job[c].tok = t /\ job[c].id = r

(* A connection carries a request, or its handler, or its answer. *)
SingleInv == \A c \in Conns :
    /\ req[c] # None => job[c].at = "idle" /\ ans[c] = None
    /\ ans[c] # None => job[c].at = "idle"

(* Tokens that anybody holds have been in their row. *)
IssuedInv ==
    /\ \A c \in Conns : \A t \in Pairs, r \in Requests : Wants(c, t, r) => t.g <= gen[t.s]
    /\ \A c \in Conns : job[c].at = "bind" => job[c].tok.g <= gen[job[c].tok.s]
    /\ \A c \in Conns : ans[c] # None /\ ans[c].ok /\ ans[c].op \in {"login", "refresh"}
                        => ans[c].tok.g <= gen[ans[c].tok.s]
    /\ ctok # None => ctok.g <= gen[ctok.s]
    /\ \A r \in Requests : cache[r] # None =>
          /\ cache[r].new.s = cache[r].old.s /\ cache[r].new.g = cache[r].old.g + 1
          /\ cache[r].new.g <= gen[cache[r].new.s]

(* What is under way on the device's connection is about the tokens that   *)
(* the device has: its login about none, its refresh about these, whose    *)
(* successors the answer brings; and nobody else knows a new session.      *)
Unknown(s) == \A c \in Conns : \A t \in Pairs, r \in Requests : Wants(c, t, r) => t.s # s

DeviceInv == ccon # None =>
    /\ req[ccon] # None /\ req[ccon].op = "login" => ctok = None
    /\ job[ccon].at # "idle" /\ job[ccon].op = "login" => ctok = None
    /\ job[ccon].at = "bind" /\ job[ccon].op = "login" => Unknown(job[ccon].tok.s)
    /\ \A t \in Pairs, r \in Requests : Wants(ccon, t, r) => ctok # None /\ t = ctok
    /\ ans[ccon] # None /\ ans[ccon].ok /\ ans[ccon].op = "login" =>
          ctok = None /\ Unknown(ans[ccon].tok.s)
    /\ ans[ccon] # None /\ ans[ccon].ok /\ ans[ccon].op = "refresh" =>
          ctok # None /\ ans[ccon].tok.s = ctok.s /\ ans[ccon].tok.g = ctok.g + 1

(* A token is asked to be exchanged under one request id only, and the     *)
(* device's own under the pending one.                                     *)
SameId ==
    /\ \A c \in Conns : \A t \in Pairs, r \in Requests :
          Wants(c, t, r) /\ ctok # None /\ ctok.s = t.s => t.g < ctok.g \/ (t = ctok /\ r = cid)
    /\ \A c, d \in Conns : \A t \in Pairs, r, q \in Requests :
          Wants(c, t, r) /\ Wants(d, t, q) => r = q

(* A handler that passed the look-up of the key finds its token in the     *)
(* row, or the result of the same request in the cache, or that result is  *)
(* lost.                                                                   *)
FoundInv == \A c \in Conns : job[c].at = "rotate" =>
    Holds(job[c].tok) \/ cache[job[c].id] # None \/ job[c].id \in gone

IdInv == dropped = {} => SameId /\ FoundInv

(* The row holds the token until the transaction that exchanges it. *)
CommitInv == \A c \in Conns : job[c].at = "commit" => Holds(job[c].tok)

RetryInv == SingleInv /\ IssuedInv /\ DeviceInv /\ IdInv /\ CommitInv

-----------------------------------------------------------------------------
(* What a step of a handler does to what its connection carries.           *)
Ends(c) ==
    /\ job[c].at # "idle" /\ job' = [job EXCEPT ![c] = Idle] /\ req' = req
    /\ \/ ans' = ans
       \/ \E ok \in BOOLEAN, t \in Pairs \cup {None} :
             /\ ans' = [ans EXCEPT ![c] = [op |-> job[c].op, ok |-> ok, tok |-> t]]
             /\ ok /\ job[c].op = "login" => job[c].at = "bind" /\ t = job[c].tok
             /\ ok /\ job[c].op = "refresh" =>
                   /\ t \in Pairs /\ t.s = job[c].tok.s /\ t.g = job[c].tok.g + 1
                   /\ t.g <= gen'[t.s]

Moves(c) ==
    /\ job[c].at # "idle" /\ req' = req /\ ans' = ans
    /\ \E step \in Steps \ {"idle", "check"}, t \in Pairs :
          /\ job' = [job EXCEPT ![c].at = step, ![c].tok = t]
          /\ job[c].op # "login" => t = job[c].tok
          /\ job[c].op = "login" => gen[t.s] = 0
          /\ step = "bind" => t.g <= gen'[t.s]
          /\ step \in {"rotate", "commit"} => Holds(t) /\ UNCHANGED gen

LEMMA RefuseEnds ==
    ASSUME TypeOK, NEW c \in Conns, job[c].at # "idle", Refuse(c)
    PROVE  Ends(c)
  <1>1. ans' = ans \/ ans' = [ans EXCEPT ![c] = [op |-> job[c].op, ok |-> FALSE, tok |-> None]]
    BY DEF Refuse, Answer
  <1>2. job' = [job EXCEPT ![c] = Idle] /\ req' = req
    BY DEF Refuse, Answer
  <1> QED
    BY <1>1, <1>2 DEF Ends

LEMMA RotatedEnds ==
    ASSUME TypeOK, NEW c \in Conns, job[c].at # "idle", job[c].op = "refresh", NEW t \in Pairs,
           t.s = job[c].tok.s, t.g = job[c].tok.g + 1, t.g <= gen'[t.s], Rotated(c, t)
    PROVE  Ends(c)
  <1>1. ans' = ans \/ ans' = [ans EXCEPT ![c] = [op |-> job[c].op, ok |-> TRUE, tok |-> t]]
    BY DEF Rotated, Answer
  <1>2. job' = [job EXCEPT ![c] = Idle] /\ req' = req
    BY DEF Rotated, Answer
  <1> QED
    BY <1>1, <1>2 DEF Ends

LEMMA GoMoves ==
    ASSUME NEW c \in Conns, job[c].at # "idle", NEW step \in Steps \ {"idle", "check"},
           NEW t \in Pairs, Go(c, step, t),
           job[c].op # "login" => t = job[c].tok,
           job[c].op = "login" => gen[t.s] = 0,
           step = "bind" => t.g <= gen'[t.s],
           step \in {"rotate", "commit"} => Holds(t) /\ UNCHANGED gen
    PROVE  Moves(c)
  <1>1. job' = [job EXCEPT ![c].at = step, ![c].tok = t] /\ req' = req /\ ans' = ans
    BY DEF Go
  <1> QED
    BY <1>1 DEF Moves

LEMMA HandlerKind ==
    ASSUME TypeOK, IssuedInv, NEW c \in Conns, Handler(c)
    PROVE  UNCHANGED device /\ (Take(c) \/ Ends(c) \/ Moves(c) \/ Closed(c))
  <1> USE TokensAssumption
  <1>1. UNCHANGED device
    BY DEF Handler, Take, Issue, ValidateAccess, Bind, RefreshCheck, RotateFind, RotateCommit,
           LogoutCheck, LogoutRevoke, Closed, Go, Refuse, Answer, Rotated, Reused
  <1>2. CASE Issue(c)
    <2>1. job[c].at # "idle" /\ job[c].op = "login"
      BY <1>2 DEF Issue, At
    <2>2. ASSUME NEW s \in Sessions, gen[s] = 0, gen' = [gen EXCEPT ![s] = 1],
                 Go(c, "bind", [s |-> s, g |-> 1])
          PROVE  Moves(c)
      <3>1. [s |-> s, g |-> 1] \in Pairs /\ gen'[s] = 1
        BY <2>2 DEF Pairs, TypeOK, RowType
      <3>2. Moves(c)
        BY <2>1, <2>2, <3>1, GoMoves DEF Steps
      <3> QED
        BY <3>2
    <2> QED
      BY <1>1, <1>2, <2>1, <2>2, RefuseEnds DEF Issue
  <1>3. CASE ValidateAccess(c)
    <2>1. job[c].at # "idle" /\ job[c].op = "token" /\ job[c].tok \in Pairs
      BY <1>3, JobFields DEF ValidateAccess, At, TypeOK
    <2>2. CASE Good(job[c].tok) /\ Go(c, "bind", job[c].tok)
      <3>1. gen'[job[c].tok.s] = job[c].tok.g /\ job[c].tok.g \in Nat
        BY <1>3, <2>1, <2>2, PairFields DEF ValidateAccess, Good, Holds, rows
      <3> QED
        BY <1>1, <2>1, <2>2, <3>1, GoMoves DEF Steps
    <2> QED
      BY <1>1, <1>3, <2>1, <2>2, RefuseEnds DEF ValidateAccess
  <1>4. CASE Bind(c)
    <2>1. job[c].at = "bind" /\ job[c].op \in {"login", "token"} /\ job[c].tok \in Pairs
      BY <1>4 DEF Bind, TypeOK, WireType, JobOK
    <2>2. ans' = ans \/ ans' = [ans EXCEPT ![c] = [op |-> job[c].op, ok |-> TRUE, tok |-> job[c].tok]]
      BY <1>4 DEF Bind, Answer
    <2>3. job' = [job EXCEPT ![c] = Idle] /\ req' = req
      BY <1>4 DEF Bind, Answer
    <2>4. Ends(c)
      BY <2>1, <2>2, <2>3 DEF Ends
    <2> QED
      BY <1>1, <2>4
  <1>5. CASE RefreshCheck(c)
    <2>1. job[c].at # "idle" /\ job[c].op = "refresh" /\ job[c].tok \in Pairs
      BY <1>5, JobFields DEF RefreshCheck, At, TypeOK
    <2>2. CASE Good(job[c].tok) /\ Go(c, "rotate", job[c].tok)
      BY <1>1, <1>5, <2>1, <2>2, GoMoves DEF Steps, Good, RefreshCheck, rows
    <2> QED
      BY <1>1, <1>5, <2>1, <2>2, RefuseEnds DEF RefreshCheck
  <1>6. CASE RotateFind(c)
    <2>1. /\ job[c].at = "rotate" /\ job[c].op = "refresh" /\ job[c].tok \in Pairs
          /\ job[c].id \in Requests
      BY <1>6, JobFields DEF RotateFind, RotateReady, TypeOK
    <2>2. CASE Cached(c) # None /\ UNCHANGED rows /\ Cached(c).old = job[c].tok
               /\ Rotated(c, Cached(c).new)
      <3>1. /\ Cached(c).new \in Pairs /\ Cached(c).new.s = job[c].tok.s
            /\ Cached(c).new.g = job[c].tok.g + 1 /\ Cached(c).new.g <= gen'[Cached(c).new.s]
        BY <2>1, <2>2 DEF Cached, TypeOK, RowType, IssuedInv, rows
      <3> QED
        BY <1>1, <2>1, <2>2, <3>1, RotatedEnds
    <2>3. CASE Refuse(c)
      BY <1>1, <2>1, <2>3, RefuseEnds
    <2>4. CASE Holds(job[c].tok) /\ Go(c, "commit", job[c].tok) /\ UNCHANGED rows
      BY <1>1, <2>1, <2>4, GoMoves DEF Steps, rows
    <2> QED
      BY <1>6, <2>2, <2>3, <2>4 DEF RotateFind, Reused
  <1>7. CASE RotateCommit(c)
    <2>1. /\ job[c].at = "commit" /\ job[c].op = "refresh" /\ job[c].tok \in Pairs
      BY <1>7, JobFields DEF RotateCommit, TypeOK
    <2> DEFINE n == [job[c].tok EXCEPT !.g = @ + 1]
    <2>2. CASE /\ Committable(job[c].tok) /\ gen' = [gen EXCEPT ![job[c].tok.s] = n.g]
               /\ Rotated(c, n)
      <3>1. job[c].tok.g \in 1..MaxGen /\ job[c].tok.s \in Sessions /\ job[c].tok.g < MaxGen
        BY <2>1, <2>2, PairFields DEF Committable
      <3>2. n \in Pairs /\ n.s = job[c].tok.s /\ n.g = job[c].tok.g + 1
        BY <2>1, <3>1 DEF Pairs
      <3>3. gen'[n.s] = n.g
        BY <2>2, <3>1, <3>2 DEF TypeOK, RowType
      <3>4. n.g <= gen'[n.s]
        BY <3>1, <3>2, <3>3
      <3> HIDE DEF n
      <3> QED
        BY <1>1, <2>1, <2>2, <3>2, <3>4, RotatedEnds
    <2>3. CASE Refuse(c)
      BY <1>1, <2>1, <2>3, RefuseEnds
    <2> QED
      BY <1>7, <2>2, <2>3 DEF RotateCommit, Reused
  <1>8. CASE LogoutCheck(c)
    <2>1. job[c].at # "idle" /\ job[c].op = "logout" /\ job[c].tok \in Pairs
      BY <1>8, JobFields DEF LogoutCheck, At, TypeOK
    <2>2. CASE Go(c, "revoke", job[c].tok)
      BY <1>1, <2>1, <2>2, GoMoves DEF Steps
    <2> QED
      BY <1>1, <1>8, <2>1, <2>2, RefuseEnds DEF LogoutCheck
  <1>9. CASE LogoutRevoke(c)
    <2>1. job[c].at = "revoke" /\ job[c].op = "logout"
      BY <1>9, JobFields DEF LogoutRevoke, TypeOK
    <2>2. ans' = ans \/ ans' = [ans EXCEPT ![c] = [op |-> job[c].op, ok |-> TRUE, tok |-> None]]
      BY <1>9 DEF LogoutRevoke, Answer
    <2>3. job' = [job EXCEPT ![c] = Idle] /\ req' = req
      BY <1>9 DEF LogoutRevoke, Answer
    <2>4. Ends(c)
      BY <2>1, <2>2, <2>3 DEF Ends
    <2> QED
      BY <1>1, <2>4
  <1> QED
    BY <1>1, <1>2, <1>3, <1>4, <1>5, <1>6, <1>7, <1>8, <1>9 DEF Handler

(* What handlers leave alone, field by field. *)
LEMMA KindFrame ==
    ASSUME TypeOK, NEW c \in Conns, Take(c) \/ Ends(c) \/ Moves(c) \/ Closed(c)
    PROVE  \A d \in Conns \ {c} : job'[d] = job[d] /\ req'[d] = req[d] /\ ans'[d] = ans[d]
  BY DEF Take, Ends, Moves, Closed, TypeOK, WireType

LEMMA TakeFields ==
    ASSUME TypeOK, NEW c \in Conns, Take(c)
    PROVE  /\ req[c] # None /\ job[c].at = "idle" /\ req'[c] = None /\ ans'[c] = ans[c]
           /\ job'[c].at = "check" /\ job'[c].op = req[c].op
           /\ job'[c].tok = req[c].tok /\ job'[c].id = req[c].id
  BY DEF Take, TypeOK, WireType, Idle

LEMMA EndsFields ==
    ASSUME TypeOK, NEW c \in Conns, Ends(c)
    PROVE  /\ job[c].at # "idle" /\ job'[c].at = "idle" /\ req'[c] = req[c]
           /\ \/ ans'[c] = ans[c]
              \/ /\ ans'[c].op = job[c].op
                 /\ ans'[c].ok /\ job[c].op = "login"
                      => job[c].at = "bind" /\ ans'[c].tok = job[c].tok
                 /\ ans'[c].ok /\ job[c].op = "refresh" =>
                      /\ ans'[c].tok \in Pairs /\ ans'[c].tok.s = job[c].tok.s
                      /\ ans'[c].tok.g = job[c].tok.g + 1 /\ ans'[c].tok.g <= gen'[ans'[c].tok.s]
  <1>1. job[c].at # "idle" /\ job'[c].at = "idle" /\ req'[c] = req[c]
    BY DEF Ends, TypeOK, WireType, Idle
  <1>2. CASE ans' = ans
    BY <1>1, <1>2
  <1>3. ASSUME NEW ok \in BOOLEAN, NEW t \in Pairs \cup {None},
               ans' = [ans EXCEPT ![c] = [op |-> job[c].op, ok |-> ok, tok |-> t]],
               ok /\ job[c].op = "login" => job[c].at = "bind" /\ t = job[c].tok,
               ok /\ job[c].op = "refresh" =>
                   /\ t \in Pairs /\ t.s = job[c].tok.s /\ t.g = job[c].tok.g + 1
                   /\ t.g <= gen'[t.s]
        PROVE  /\ ans'[c].op = job[c].op
               /\ ans'[c].ok /\ job[c].op = "login"
                      => job[c].at = "bind" /\ ans'[c].tok = job[c].tok
               /\ ans'[c].ok /\ job[c].op = "refresh" =>
                      /\ ans'[c].tok \in Pairs /\ ans'[c].tok.s = job[c].tok.s
                      /\ ans'[c].tok.g = job[c].tok.g + 1 /\ ans'[c].tok.g <= gen'[ans'[c].tok.s]
    <2> DEFINE a == [op |-> job[c].op, ok |-> ok, tok |-> t]
    <2>1. ans'[c] = a
      BY <1>3 DEF TypeOK, WireType
    <2>2. a.op = job[c].op /\ a.ok = ok /\ a.tok = t
      OBVIOUS
    <2> HIDE DEF a
    <2> QED
      BY <1>3, <2>1, <2>2
  <1> QED
    BY <1>1, <1>2, <1>3 DEF Ends

LEMMA MovesFields ==
    ASSUME TypeOK, NEW c \in Conns, Moves(c)
    PROVE  /\ job[c].at # "idle" /\ req'[c] = req[c] /\ ans'[c] = ans[c]
           /\ job'[c].at \in Steps \ {"idle", "check"}
           /\ job'[c].op = job[c].op /\ job'[c].id = job[c].id /\ job'[c].tok \in Pairs
           /\ job[c].op # "login" => job'[c].tok = job[c].tok
           /\ job[c].op = "login" => gen[job'[c].tok.s] = 0
           /\ job'[c].at = "bind" => job'[c].tok.g <= gen'[job'[c].tok.s]
           /\ job'[c].at \in {"rotate", "commit"} => Holds(job'[c].tok) /\ UNCHANGED gen
  <1>1. PICK step \in Steps \ {"idle", "check"}, t \in Pairs :
          /\ job' = [job EXCEPT ![c].at = step, ![c].tok = t]
          /\ job[c].op # "login" => t = job[c].tok
          /\ job[c].op = "login" => gen[t.s] = 0
          /\ step = "bind" => t.g <= gen'[t.s]
          /\ step \in {"rotate", "commit"} => Holds(t) /\ UNCHANGED gen
    BY DEF Moves
  <1>2. job[c] \in Jobs /\ job' = [job EXCEPT ![c] = [job[c] EXCEPT !.at = step, !.tok = t]]
    BY <1>1 DEF TypeOK, WireType
  <1>3. job'[c].at = step /\ job'[c].tok = t /\ job'[c].op = job[c].op /\ job'[c].id = job[c].id
    BY <1>2 DEF Jobs, TypeOK, WireType
  <1> QED
    BY <1>1, <1>3 DEF Moves

LEMMA ClosedFields ==
    ASSUME TypeOK, NEW c \in Conns, Closed(c)
    PROVE  /\ c # ccon /\ job' = job /\ req'[c] = None /\ ans'[c] = None
  BY DEF Closed, TypeOK, WireType

(* Numbers of rows do not go back. *)
LEMMA GenUp ==
    ASSUME IInv, [Next]_vars
    PROVE  \A s \in Sessions : gen[s] <= gen'[s]
  <1>1. gen \in [Sessions -> 0..MaxGen] /\ MaxGen \in Nat
    BY TokensAssumption DEF IInv, TypeOK, RowType
  <1>2. CASE NewRow
    BY <1>1, <1>2 DEF NewRow
  <1>3. CASE Rotation
    BY <1>1, <1>3, PairFields DEF Rotation
  <1>4. CASE Revocation \/ UNCHANGED <<gen, used, revoked>>
    BY <1>1, <1>4 DEF Revocation
  <1> QED
    BY <1>2, <1>3, <1>4, RowStep

-----------------------------------------------------------------------------
(* What the steps of the device do to requests, jobs and answers.          *)
AskPlain == AskLogin \/ AskToken \/ AskLogout

LEMMA RequestFields ==
    ASSUME TypeOK, Free, NEW op, NEW r, Request(op, r)
    PROVE  /\ ccon \in Conns /\ req[ccon] = None /\ job[ccon].at = "idle" /\ ans[ccon] = None
           /\ job' = job /\ ans' = ans /\ ctok' = ctok /\ ccon' = ccon
           /\ \A d \in Conns \ {ccon} : req'[d] = req[d]
           /\ req'[ccon].op = op /\ req'[ccon].tok = ctok /\ req'[ccon].id = r
  BY DEF Free, Request, TypeOK, DeviceType, WireType, Idle

LEMMA PlainFields ==
    ASSUME TypeOK, AskPlain
    PROVE  /\ ccon \in Conns /\ req[ccon] = None /\ job[ccon].at = "idle" /\ ans[ccon] = None
           /\ job' = job /\ ans' = ans /\ ctok' = ctok /\ ccon' = ccon
           /\ \A d \in Conns \ {ccon} : req'[d] = req[d]
           /\ req'[ccon].op # "refresh" /\ cid' = cid /\ dropped' = dropped
           /\ req'[ccon].op = "login" => ctok = None
  <1>1. CASE AskLogin
    BY <1>1, RequestFields DEF AskLogin, asked
  <1>2. CASE AskToken
    BY <1>2, RequestFields DEF AskToken, asked
  <1>3. CASE AskLogout
    BY <1>3, RequestFields DEF AskLogout, asked
  <1> QED
    BY <1>1, <1>2, <1>3 DEF AskPlain

LEMMA RefreshFields ==
    ASSUME TypeOK, AskRefresh
    PROVE  /\ ccon \in Conns /\ req[ccon] = None /\ job[ccon].at = "idle" /\ ans[ccon] = None
           /\ job' = job /\ ans' = ans /\ ctok' = ctok /\ ccon' = ccon
           /\ \A d \in Conns \ {ccon} : req'[d] = req[d]
           /\ req'[ccon].op = "refresh" /\ req'[ccon].tok = ctok /\ req'[ccon].id = cid'
           /\ ctok # None /\ (cid # None => cid' = cid) /\ dropped' = dropped
  <1>1. CASE cid # None /\ Request("refresh", cid) /\ UNCHANGED <<cid, asked>>
    BY <1>1, RequestFields DEF AskRefresh, asked
  <1>2. ASSUME cid = None, UNCHANGED dropped,
               NEW r \in fresh, Request("refresh", r), cid' = r
        PROVE  /\ Free /\ ctok # None
               /\ req'[ccon].op = "refresh" /\ req'[ccon].tok = ctok /\ req'[ccon].id = cid'
    BY <1>2, RequestFields DEF AskRefresh
  <1>3. ASSUME NEW r, Request("refresh", r)
        PROVE  /\ ccon \in Conns /\ req[ccon] = None /\ job[ccon].at = "idle" /\ ans[ccon] = None
               /\ job' = job /\ ans' = ans /\ ctok' = ctok /\ ccon' = ccon
               /\ \A d \in Conns \ {ccon} : req'[d] = req[d]
    BY <1>3, RequestFields DEF AskRefresh
  <1> QED
    BY <1>1, <1>2, <1>3 DEF AskRefresh

(* The device reads an answer. *)
Adopts ==
    /\ ans[ccon].ok /\ ans[ccon].op \in {"login", "refresh"}
    /\ ctok' = ans[ccon].tok /\ cid' = None

LEMMA ReadFields ==
    ASSUME TypeOK, Read
    PROVE  /\ ccon \in Conns /\ ans[ccon] # None /\ ans'[ccon] = None
           /\ \A d \in Conns \ {ccon} : ans'[d] = ans[d]
           /\ job' = job /\ req' = req /\ ccon' = ccon /\ dropped' = dropped
           /\ Adopts \/ UNCHANGED <<ctok, cid>> \/ ctok' = None
  BY DEF Read, Adopts, asked, TypeOK, WireType, DeviceType

(* The device drops or takes a connection. *)
LEMMA SwitchFields ==
    ASSUME TypeOK, Lose \/ Cancel \/ ReadKick \/ Restart
    PROVE  /\ ccon' = None /\ dropped \subseteq dropped'
           /\ (\A c \in Conns : job'[c] = job[c] /\ req'[c] = req[c] /\ ans'[c] = ans[c])
                \/ (\A c \in Conns : job'[c].at = "idle" /\ req'[c] = None /\ ans'[c] = None)
           /\ ctok' = ctok \/ ctok' = None
           /\ dropped' = {} /\ ctok' # None => cid' = cid
  BY DEF Lose, Cancel, ReadKick, Restart, wires, asked, TypeOK, DeviceType, Idle

LEMMA ConnectFields ==
    ASSUME TypeOK, NEW c \in Conns, Connect(c)
    PROVE  /\ ccon' = c /\ job[c].at = "idle" /\ req[c] = None /\ ans[c] = None
           /\ UNCHANGED <<job, req, ans, ctok, cid, dropped>>
  BY DEF Connect, wires, asked, Idle

LEMMA QuietFields ==
    ASSUME (\E s \in Sessions : AccessExpires(s) \/ RefreshExpires(s))
             \/ (\E r \in Requests : CacheExpires(r)) \/ UNCHANGED vars
    PROVE  UNCHANGED <<job, req, ans, ctok, cid, ccon, dropped>>
  BY DEF AccessExpires, RefreshExpires, CacheExpires, vars, wires, device, asked

(* Every step is one of these. *)
Quiet == UNCHANGED <<job, req, ans, ctok, cid, ccon, dropped>>

LEMMA StepKinds ==
    ASSUME TypeOK, IssuedInv, [Next]_vars
    PROVE  \/ AskPlain \/ AskRefresh \/ Read
           \/ Lose \/ Cancel \/ ReadKick \/ Restart
           \/ \E c \in Conns : Connect(c)
           \/ \E c \in Conns : /\ Handler(c) /\ UNCHANGED <<ctok, cid, ccon, dropped>>
                               /\ Take(c) \/ Ends(c) \/ Moves(c) \/ Closed(c)
           \/ Quiet
  <1>1. ASSUME NEW c \in Conns, Handler(c)
        PROVE  /\ UNCHANGED <<ctok, cid, ccon, dropped>>
               /\ Take(c) \/ Ends(c) \/ Moves(c) \/ Closed(c)
    BY <1>1, HandlerKind DEF device, asked
  <1> QED
    BY <1>1, QuietFields DEF Next, Device, AskPlain, Quiet

-----------------------------------------------------------------------------
LEMMA SingleStep ==
    ASSUME TypeOK, IssuedInv, SingleInv, [Next]_vars
    PROVE  SingleInv'
  <1>1. CASE AskPlain \/ AskRefresh
    BY <1>1, PlainFields, RefreshFields DEF SingleInv
  <1>2. CASE Read
    BY <1>2, ReadFields DEF SingleInv
  <1>3. CASE Lose \/ Cancel \/ ReadKick \/ Restart
    BY <1>3, SwitchFields DEF SingleInv
  <1>4. ASSUME NEW c \in Conns, Connect(c)
        PROVE  SingleInv'
    BY <1>4, ConnectFields DEF SingleInv
  <1>5. ASSUME NEW c \in Conns, Take(c) \/ Ends(c) \/ Moves(c) \/ Closed(c)
        PROVE  SingleInv'
    <2>1. \A d \in Conns \ {c} : job'[d] = job[d] /\ req'[d] = req[d] /\ ans'[d] = ans[d]
      BY <1>5, KindFrame
    <2>2. /\ req'[c] # None => job'[c].at = "idle" /\ ans'[c] = None
          /\ ans'[c] # None => job'[c].at = "idle"
      BY <1>5, TakeFields, EndsFields, MovesFields, ClosedFields DEF SingleInv
    <2> QED
      BY <2>1, <2>2 DEF SingleInv
  <1>6. CASE Quiet
    BY <1>6 DEF Quiet, SingleInv
  <1> QED
    BY <1>1, <1>2, <1>3, <1>4, <1>5, <1>6, StepKinds

(* Only the device starts a refresh. *)
LEMMA WantsStep ==
    ASSUME TypeOK, IssuedInv, [Next]_vars, NEW c \in Conns, NEW t \in Pairs, NEW r \in Requests,
           Wants(c, t, r)'
    PROVE  Wants(c, t, r) \/ (AskRefresh /\ c = ccon /\ t = ctok /\ r = cid')
  <1>1. CASE AskPlain
    BY <1>1, PlainFields DEF Wants
  <1>2. CASE AskRefresh
    BY <1>2, RefreshFields DEF Wants
  <1>3. CASE Read
    BY <1>3, ReadFields DEF Wants
  <1>4. CASE Lose \/ Cancel \/ ReadKick \/ Restart
    BY <1>4, SwitchFields DEF Wants
  <1>5. ASSUME NEW d \in Conns, Connect(d)
        PROVE  Wants(c, t, r)
    BY <1>5, ConnectFields DEF Wants
  <1>6. ASSUME NEW d \in Conns, Take(d) \/ Ends(d) \/ Moves(d) \/ Closed(d)
        PROVE  Wants(c, t, r)
    <2>1. CASE c # d
      BY <1>6, <2>1, KindFrame DEF Wants
    <2>2. CASE c = d /\ Take(d)
      BY <2>2, TakeFields DEF Wants
    <2>3. CASE c = d /\ Ends(d)
      BY <2>3, EndsFields DEF Wants
    <2>4. CASE c = d /\ Moves(d)
      BY <2>4, MovesFields DEF Wants
    <2>5. CASE c = d /\ Closed(d)
      BY <2>5, ClosedFields DEF Wants
    <2> QED
      BY <1>6, <2>1, <2>2, <2>3, <2>4, <2>5
  <1>7. CASE Quiet
    BY <1>7 DEF Quiet, Wants
  <1> QED
    BY <1>1, <1>2, <1>3, <1>4, <1>5, <1>6, <1>7, StepKinds

(* What a step may put into the cache, and what it may remove from it. *)
LEMMA CacheStep ==
    ASSUME IInv, [Next]_vars, NEW r \in Requests
    PROVE  /\ gone \subseteq gone'
           /\ \/ cache'[r] = cache[r]
              \/ cache'[r] = None /\ (cache[r] # None => r \in gone')
              \/ \E c \in Conns :
                    /\ job[c].at = "commit" /\ job[c].id = r /\ Committable(job[c].tok)
                    /\ cache'[r] \in Results /\ cache'[r].old = job[c].tok
                    /\ cache'[r].new = [job[c].tok EXCEPT !.g = @ + 1]
                    /\ gen' = [gen EXCEPT ![job[c].tok.s] = job[c].tok.g + 1]
  <1> USE TokensAssumption DEF IInv
  <1>1. CASE Device \/ UNCHANGED vars
    BY <1>1 DEF Device, Connect, AskLogin, AskToken, AskRefresh, AskLogout, Request, Read, ReadKick,
                Lose, Cancel, service, vars
  <1>2. ASSUME NEW c \in Conns, Handler(c), ~RotateCommit(c)
        PROVE  UNCHANGED <<cache, gone>>
    BY <1>2 DEF Handler, Take, Issue, ValidateAccess, Bind, RefreshCheck, RotateFind, LogoutCheck,
                LogoutRevoke, Closed, service
  <1>3. ASSUME NEW c \in Conns, RotateCommit(c)
        PROVE  /\ gone \subseteq gone'
               /\ \/ cache'[r] = cache[r]
                  \/ cache'[r] = None /\ (cache[r] # None => r \in gone')
                  \/ /\ job[c].at = "commit" /\ job[c].id = r /\ Committable(job[c].tok)
                     /\ cache'[r] \in Results /\ cache'[r].old = job[c].tok
                     /\ cache'[r].new = [job[c].tok EXCEPT !.g = @ + 1]
                     /\ gen' = [gen EXCEPT ![job[c].tok.s] = job[c].tok.g + 1]
    <2>1. job[c].at = "commit" /\ job[c].tok \in Pairs /\ job[c].id \in Requests
      BY <1>3, JobFields DEF RotateCommit, TypeOK
    <2> DEFINE n == [job[c].tok EXCEPT !.g = @ + 1]
               e == [old |-> job[c].tok, new |-> n]
    <2>2. CASE /\ Committable(job[c].tok) /\ gen' = [gen EXCEPT ![job[c].tok.s] = n.g]
               /\ Keep(job[c].id, e)
      <3>1. n.g = job[c].tok.g + 1
        BY <2>1 DEF Pairs
      <3>2. e.old = job[c].tok /\ e.new = n
        OBVIOUS
      <3>3. e \in Results
        BY <2>1, <2>2, PairFields DEF Committable, Pairs, Results
      <3>4. /\ gone \subseteq gone' /\ cache'[job[c].id] = e
            /\ \A q \in Requests \ {job[c].id} :
                  cache'[q] = cache[q] \/ (cache'[q] = None /\ q \in gone')
        <4> HIDE DEF e
        <4> QED
          BY <2>1, <2>2, <3>3, KeepDoes DEF TypeOK
      <3>5. CASE r = job[c].id
        <4> HIDE DEF n, e
        <4> QED
          BY <2>1, <2>2, <3>1, <3>2, <3>3, <3>4, <3>5 DEF n
      <3>6. CASE r # job[c].id
        BY <3>4, <3>6
      <3> QED
        BY <3>5, <3>6
    <2> QED
      BY <1>3, <2>2 DEF RotateCommit
  <1>4. CASE Restart
    BY <1>4 DEF Restart, Forgets
  <1>5. ASSUME NEW s \in Sessions, AccessExpires(s) \/ RefreshExpires(s)
        PROVE  UNCHANGED <<cache, gone>>
    BY <1>5 DEF AccessExpires, RefreshExpires, service
  <1>6. ASSUME NEW q \in Requests, CacheExpires(q)
        PROVE  /\ gone \subseteq gone'
               /\ cache'[r] = cache[r] \/ (cache'[r] = None /\ (cache[r] # None => r \in gone'))
    BY <1>6 DEF CacheExpires, Forgets, TypeOK, RowType
  <1> QED
    BY <1>1, <1>2, <1>3, <1>4, <1>5, <1>6 DEF Next

-----------------------------------------------------------------------------
LEMMA Grown ==
    ASSUME IInv, [Next]_vars, NEW t \in Pairs, t.g <= gen[t.s]
    PROVE  t.g <= gen'[t.s]
  <1>1. /\ gen \in [Sessions -> 0..MaxGen] /\ gen' \in [Sessions -> 0..MaxGen]
        /\ t.s \in Sessions /\ t.g \in Nat /\ MaxGen \in Nat
    BY PairFields, TypeStep, TokensAssumption DEF IInv, TypeOK, RowType
  <1> QED
    BY <1>1, GenUp

LEMMA IssuedStep ==
    ASSUME IInv, IssuedInv, [Next]_vars
    PROVE  IssuedInv'
  <1> USE DEF IInv
  <1>1. ASSUME NEW c \in Conns, NEW t \in Pairs, NEW r \in Requests, Wants(c, t, r)'
        PROVE  t.g <= gen'[t.s]
    BY <1>1, WantsStep, Grown DEF IssuedInv, AskRefresh
  <1>2. ASSUME NEW c \in Conns, job'[c].at = "bind"
        PROVE  job'[c].tok.g <= gen'[job'[c].tok.s]
    <2>1. CASE job'[c] = job[c]
      <3>1. job[c].tok \in Pairs
        BY <1>2, <2>1, JobFields DEF TypeOK
      <3> QED
        BY <1>2, <2>1, <3>1, Grown DEF IssuedInv
    <2>2. CASE AskPlain \/ AskRefresh
      BY <2>1, <2>2, PlainFields, RefreshFields
    <2>3. CASE Read
      BY <2>1, <2>3, ReadFields
    <2>4. CASE Lose \/ Cancel \/ ReadKick \/ Restart
      BY <1>2, <2>1, <2>4, SwitchFields
    <2>5. ASSUME NEW d \in Conns, Connect(d)
          PROVE  job'[c] = job[c]
      BY <2>5, ConnectFields
    <2>6. ASSUME NEW d \in Conns, Take(d) \/ Ends(d) \/ Moves(d) \/ Closed(d)
          PROVE  job'[c].tok.g <= gen'[job'[c].tok.s]
      <3>1. CASE c # d
        BY <2>1, <2>6, <3>1, KindFrame
      <3>2. CASE c = d
        BY <1>2, <2>1, <2>6, <3>2, TakeFields, EndsFields, MovesFields, ClosedFields
      <3> QED
        BY <3>1, <3>2
    <2>7. CASE Quiet
      BY <2>1, <2>7 DEF Quiet
    <2> QED
      BY <2>1, <2>2, <2>3, <2>4, <2>5, <2>6, <2>7, StepKinds
  <1>3. ASSUME NEW c \in Conns, ans'[c] # None, ans'[c].ok, ans'[c].op \in {"login", "refresh"}
        PROVE  ans'[c].tok.g <= gen'[ans'[c].tok.s]
    <2>1. CASE ans'[c] = ans[c]
      <3>1. ans[c].tok \in Pairs
        BY <1>3, <2>1 DEF TypeOK, WireType
      <3> QED
        BY <1>3, <2>1, <3>1, Grown DEF IssuedInv
    <2>2. CASE AskPlain \/ AskRefresh
      BY <2>1, <2>2, PlainFields, RefreshFields
    <2>3. CASE Read
      BY <1>3, <2>1, <2>3, ReadFields
    <2>4. CASE Lose \/ Cancel \/ ReadKick \/ Restart
      BY <1>3, <2>1, <2>4, SwitchFields
    <2>5. ASSUME NEW d \in Conns, Connect(d)
          PROVE  ans'[c] = ans[c]
      BY <2>5, ConnectFields
    <2>6. ASSUME NEW d \in Conns, Take(d) \/ Ends(d) \/ Moves(d) \/ Closed(d)
          PROVE  ans'[c].tok.g <= gen'[ans'[c].tok.s]
      <3>1. CASE c # d
        BY <2>1, <2>6, <3>1, KindFrame
      <3>2. CASE c = d /\ (Take(d) \/ Moves(d) \/ Closed(d))
        BY <1>3, <2>1, <3>2, TakeFields, MovesFields, ClosedFields
      <3>3. CASE c = d /\ Ends(d) /\ job[c].op = "login" /\ ans'[c] # ans[c]
        <4>1. job[c].at = "bind" /\ ans'[c].tok = job[c].tok /\ job[c].tok \in Pairs
          BY <1>3, <3>3, EndsFields, JobFields DEF TypeOK
        <4> QED
          BY <4>1, Grown DEF IssuedInv
      <3>4. CASE c = d /\ Ends(d) /\ job[c].op # "login" /\ ans'[c] # ans[c]
        BY <1>3, <3>4, EndsFields
      <3> QED
        BY <2>1, <2>6, <3>1, <3>2, <3>3, <3>4
    <2>7. CASE Quiet
      BY <2>1, <2>7 DEF Quiet
    <2> QED
      BY <2>1, <2>2, <2>3, <2>4, <2>5, <2>6, <2>7, StepKinds
  <1>4. ctok' # None => ctok'.g <= gen'[ctok'.s]
    <2>1. CASE ctok' = ctok /\ ctok # None
      BY <2>1, Grown DEF IssuedInv, TypeOK, DeviceType
    <2>2. CASE Read /\ Adopts
      <3>1. ccon \in Conns /\ ans[ccon] # None
        BY <2>2, ReadFields
      <3>2. ctok' = ans[ccon].tok /\ ans[ccon].tok \in Pairs
        BY <2>2, <3>1 DEF Adopts, TypeOK, WireType
      <3> QED
        BY <2>2, <3>1, <3>2, Grown DEF IssuedInv, Adopts
    <2>3. ctok' = ctok \/ ctok' = None \/ (Read /\ Adopts)
      BY StepKinds, PlainFields, RefreshFields, ReadFields, SwitchFields, ConnectFields DEF Quiet
    <2> QED
      BY <2>1, <2>2, <2>3
  <1>5. ASSUME NEW r \in Requests, cache'[r] # None
        PROVE  /\ cache'[r].new.s = cache'[r].old.s /\ cache'[r].new.g = cache'[r].old.g + 1
               /\ cache'[r].new.g <= gen'[cache'[r].new.s]
    <2>1. CASE cache'[r] = cache[r]
      <3>1. cache[r].new \in Pairs
        BY <1>5, <2>1 DEF TypeOK, RowType
      <3> QED
        BY <1>5, <2>1, <3>1, Grown DEF IssuedInv
    <2>2. ASSUME NEW c \in Conns, job[c].at = "commit",
                 cache'[r].old = job[c].tok, cache'[r].new = [job[c].tok EXCEPT !.g = @ + 1],
                 gen' = [gen EXCEPT ![job[c].tok.s] = job[c].tok.g + 1]
          PROVE  /\ cache'[r].new.s = cache'[r].old.s /\ cache'[r].new.g = cache'[r].old.g + 1
                 /\ cache'[r].new.g <= gen'[cache'[r].new.s]
      <3>1. job[c].tok \in Pairs /\ job[c].tok.s \in Sessions /\ job[c].tok.g \in Nat
        BY <2>2, JobFields, PairFields DEF TypeOK
      <3>2. cache'[r].new.s = job[c].tok.s /\ cache'[r].new.g = job[c].tok.g + 1
        BY <2>2, <3>1 DEF Pairs
      <3>3. gen'[job[c].tok.s] = job[c].tok.g + 1
        BY <2>2, <3>1 DEF TypeOK, RowType
      <3> QED
        BY <2>2, <3>1, <3>2, <3>3
    <2> QED
      BY <1>5, <2>1, <2>2, CacheStep
  <1> QED
    BY <1>1, <1>2, <1>3, <1>4, <1>5 DEF IssuedInv

(* The transaction finds the token it looked up: the mutex keeps every     *)
(* other exchange out.                                                     *)
LEMMA CommitStep ==
    ASSUME IInv, IssuedInv, CommitInv, [Next]_vars
    PROVE  CommitInv'
  <1> USE DEF IInv
  <1> SUFFICES ASSUME NEW c \in Conns, job'[c].at = "commit"
               PROVE  gen'[job'[c].tok.s] = job'[c].tok.g
    BY DEF CommitInv, Holds
  <1>1. CASE job'[c] = job[c]
    <2>1. job[c].tok \in Pairs /\ lock = c /\ lock' = c /\ gen[job[c].tok.s] = job[c].tok.g
      BY <1>1, MutexStep, JobFields DEF OneRotation, TypeOK, CommitInv, Holds
    <2>2. job[c].tok.s \in Sessions /\ job[c].tok.g > 0
      BY <2>1, PairFields, TokensAssumption
    <2>3. ASSUME NEW d \in Conns, RotateCommit(d)
          PROVE  FALSE
      <3>1. d = c
        BY <2>1, <2>3 DEF RotateCommit, OneRotation
      <3>2. c # None
        BY TokensAssumption
      <3> QED
        BY <2>1, <2>3, <3>1, <3>2 DEF RotateCommit
    <2>4. gen'[job[c].tok.s] = gen[job[c].tok.s]
      <3>1. CASE Device \/ Restart \/ UNCHANGED vars
        BY <3>1 DEF Device, Connect, AskLogin, AskToken, AskRefresh, AskLogout, Request, Read,
                    ReadKick, Lose, Cancel, Restart, rows, vars
      <3>2. ASSUME NEW d \in Conns, Handler(d)
            PROVE  gen'[job[c].tok.s] = gen[job[c].tok.s]
        <4>1. CASE Issue(d)
          <5>1. gen' = gen \/ \E s \in Sessions : gen[s] = 0 /\ gen' = [gen EXCEPT ![s] = 1]
            BY <4>1 DEF Issue
          <5>2. job[c].tok.g \in 1..MaxGen /\ gen \in [Sessions -> 0..MaxGen]
            BY <2>1, PairFields DEF TypeOK, RowType
          <5> QED
            BY <2>1, <2>2, <5>1, <5>2
        <4>2. CASE ~Issue(d)
          BY <2>3, <3>2, <4>2 DEF Handler, Take, ValidateAccess, Bind, RefreshCheck, RotateFind,
             Reused, LogoutCheck, LogoutRevoke, Closed, rows
        <4> QED
          BY <4>1, <4>2
      <3>3. ASSUME NEW s \in Sessions, AccessExpires(s) \/ RefreshExpires(s) PROVE gen' = gen
        BY <3>3 DEF AccessExpires, RefreshExpires
      <3>4. ASSUME NEW r \in Requests, CacheExpires(r) PROVE gen' = gen
        BY <3>4 DEF CacheExpires, rows
      <3> QED
        BY <3>1, <3>2, <3>3, <3>4 DEF Next
    <2> QED
      BY <1>1, <2>1, <2>4 DEF Holds
  <1>2. CASE AskPlain \/ AskRefresh
    BY <1>1, <1>2, PlainFields, RefreshFields
  <1>3. CASE Read
    BY <1>1, <1>3, ReadFields
  <1>4. CASE Lose \/ Cancel \/ ReadKick \/ Restart
    <2>1. job'[c] = job[c] \/ job'[c].at = "idle"
      BY <1>4, SwitchFields
    <2> QED
      BY <1>1, <2>1
  <1>5. ASSUME NEW d \in Conns, Connect(d)
        PROVE  job'[c] = job[c]
    BY <1>5, ConnectFields
  <1>6. ASSUME NEW d \in Conns, Take(d) \/ Ends(d) \/ Moves(d) \/ Closed(d), job'[c] # job[c]
        PROVE  gen'[job'[c].tok.s] = job'[c].tok.g
    <2>1. c = d
      BY <1>6, KindFrame
    <2>2. Moves(c)
      BY <1>6, <2>1, TakeFields, EndsFields, ClosedFields
    <2> QED
      BY <2>2, MovesFields DEF Holds
  <1>7. CASE Quiet
    BY <1>1, <1>7 DEF Quiet
  <1> QED
    BY <1>1, <1>2, <1>3, <1>4, <1>5, <1>6, <1>7, StepKinds

-----------------------------------------------------------------------------
LEMMA DeviceInvStep ==
    ASSUME IInv, SingleInv, IssuedInv, DeviceInv, [Next]_vars
    PROVE  DeviceInv'
  <1> USE DEF IInv
  <1>1. CASE AskPlain
    <2>1. \A t \in Pairs, r \in Requests : ~Wants(ccon, t, r)'
      BY <1>1, PlainFields DEF Wants
    <2> QED
      BY <1>1, <2>1, PlainFields DEF DeviceInv, Wants
  <1>2. CASE AskRefresh
    <2>1. \A t \in Pairs, r \in Requests : Wants(ccon, t, r)' => t = ctok
      BY <1>2, RefreshFields DEF Wants
    <2> QED
      BY <1>2, <2>1, RefreshFields DEF DeviceInv, Wants
  <1>3. CASE Read
    <2>1. req'[ccon] = None /\ job'[ccon].at = "idle" /\ ans'[ccon] = None /\ ccon' = ccon
      BY <1>3, ReadFields DEF SingleInv
    <2> QED
      BY <2>1 DEF DeviceInv, Wants
  <1>4. CASE Lose \/ Cancel \/ ReadKick \/ Restart
    BY <1>4, SwitchFields DEF DeviceInv
  <1>5. ASSUME NEW c \in Conns, Connect(c)
        PROVE  DeviceInv'
    <2>1. req'[c] = None /\ job'[c].at = "idle" /\ ans'[c] = None /\ ccon' = c
      BY <1>5, ConnectFields
    <2> QED
      BY <2>1 DEF DeviceInv, Wants
  <1>6. ASSUME NEW c \in Conns, UNCHANGED <<ctok, cid, ccon, dropped>>, ccon # None,
               Take(c) \/ Ends(c) \/ Moves(c) \/ Closed(c)
        PROVE  DeviceInv'
    <2>1. ccon \in Conns
      BY <1>6 DEF TypeOK, DeviceType
    <2>2. ASSUME NEW d \in Conns, NEW t \in Pairs, NEW r \in Requests, Wants(d, t, r)'
          PROVE  Wants(d, t, r) \/ (AskRefresh /\ ctok # None /\ req[ccon] = None
                                    /\ job[ccon].at = "idle" /\ ans[ccon] = None)
      BY <2>2, WantsStep, RefreshFields
    <2>3. CASE c # ccon
      <3>1. job'[ccon] = job[ccon] /\ req'[ccon] = req[ccon] /\ ans'[ccon] = ans[ccon]
        BY <1>6, <2>1, <2>3, KindFrame
      <3>2. \A t \in Pairs, r \in Requests : Wants(ccon, t, r)' => Wants(ccon, t, r)
        BY <1>6, <3>1 DEF Wants
      <3>3. ASSUME ctok = None, NEW s, Unknown(s),
                   NEW d \in Conns, NEW t \in Pairs, NEW r \in Requests, Wants(d, t, r)'
            PROVE  t.s # s
        BY <2>2, <3>3 DEF Unknown
      <3> QED
        BY <1>6, <3>1, <3>2, <3>3 DEF DeviceInv, Unknown
    <2>4. CASE c = ccon /\ Take(c)
      <3>1. /\ req[c] # None /\ req'[c] = None /\ job'[c].at = "check" /\ job'[c].op = req[c].op
            /\ job'[c].tok = req[c].tok /\ job'[c].id = req[c].id /\ ans'[c] = None
        BY <2>1, <2>4, TakeFields DEF SingleInv
      <3>2. \A t \in Pairs, r \in Requests : Wants(c, t, r)' => Wants(c, t, r)
        BY <3>1 DEF Wants
      <3> QED
        BY <1>6, <2>4, <3>1, <3>2 DEF DeviceInv
    <2>5. CASE c = ccon /\ Ends(c)
      <3>1. job[c].at # "idle" /\ req'[c] = None /\ job'[c].at = "idle" /\ ans[c] = None
        BY <2>1, <2>5, EndsFields DEF SingleInv
      <3>2. \A t \in Pairs, r \in Requests : ~Wants(c, t, r)'
        BY <3>1 DEF Wants
      <3>3. ASSUME ans'[c] # None, ans'[c].ok, ans'[c].op = "login"
            PROVE  /\ ctok = None
                   /\ \A d \in Conns : \A t \in Pairs, r \in Requests :
                         Wants(d, t, r)' => t.s # ans'[c].tok.s
        <4>1. job[c].op = "login" /\ job[c].at = "bind" /\ ans'[c].tok = job[c].tok
          BY <2>1, <2>5, <3>1, <3>3, EndsFields
        <4>2. ctok = None /\ Unknown(job[c].tok.s)
          BY <1>6, <2>5, <3>1, <4>1 DEF DeviceInv
        <4> QED
          BY <2>2, <4>1, <4>2 DEF Unknown
      <3>4. ASSUME ans'[c] # None, ans'[c].ok, ans'[c].op = "refresh"
            PROVE  ctok # None /\ ans'[c].tok.s = ctok.s /\ ans'[c].tok.g = ctok.g + 1
        <4>1. /\ job[c].op = "refresh" /\ ans'[c].tok.s = job[c].tok.s
              /\ ans'[c].tok.g = job[c].tok.g + 1
          BY <2>1, <2>5, <3>1, <3>4, EndsFields
        <4>2. Wants(c, job[c].tok, job[c].id) /\ job[c].tok \in Pairs /\ job[c].id \in Requests
          BY <2>1, <2>5, <3>1, <4>1, JobFields DEF Wants, TypeOK
        <4> QED
          BY <1>6, <2>5, <4>1, <4>2 DEF DeviceInv
      <3> QED
        BY <1>6, <2>5, <3>1, <3>2, <3>3, <3>4 DEF DeviceInv, Unknown
    <2>6. CASE c = ccon /\ Moves(c)
      <3>1. /\ job[c].at # "idle" /\ req'[c] = None /\ ans'[c] = None
            /\ job'[c].op = job[c].op /\ job'[c].id = job[c].id /\ job'[c].tok \in Pairs
            /\ job[c].op # "login" => job'[c].tok = job[c].tok
            /\ job[c].op = "login" => gen[job'[c].tok.s] = 0
        BY <2>1, <2>6, MovesFields DEF SingleInv
      <3>2. \A t \in Pairs, r \in Requests : Wants(c, t, r)' => Wants(c, t, r)
        BY <3>1 DEF Wants
      <3>3. ASSUME job[c].op = "login", ctok = None,
                   NEW d \in Conns, NEW t \in Pairs, NEW r \in Requests, Wants(d, t, r)'
            PROVE  t.s # job'[c].tok.s
        <4>1. Wants(d, t, r)
          BY <2>2, <3>3
        <4>2. t.g <= gen[t.s] /\ t.g \in 1..MaxGen
          BY <4>1, PairFields DEF IssuedInv
        <4> QED
          BY <3>1, <3>3, <4>2, TokensAssumption
      <3> QED
        BY <1>6, <2>6, <3>1, <3>2, <3>3 DEF DeviceInv, Unknown
    <2> QED
      BY <1>6, <2>1, <2>3, <2>4, <2>5, <2>6, ClosedFields
  <1>7. CASE Quiet
    BY <1>7 DEF Quiet, DeviceInv, Unknown, Wants
  <1>8. CASE ccon = None /\ ccon' = ccon
    BY <1>8 DEF DeviceInv
  <1> QED
    BY <1>1, <1>2, <1>3, <1>4, <1>5, <1>6, <1>7, <1>8, StepKinds

-----------------------------------------------------------------------------
LEMMA DroppedGrows ==
    ASSUME TypeOK, IssuedInv, [Next]_vars
    PROVE  dropped \subseteq dropped'
  BY StepKinds, PlainFields, RefreshFields, ReadFields, SwitchFields, ConnectFields DEF Quiet

(* What may happen to the device's tokens as long as it forgets no pending *)
(* request id.                                                             *)
LEMMA TokenStep ==
    ASSUME TypeOK, IssuedInv, [Next]_vars, dropped' = {}
    PROVE  \/ ctok' = ctok /\ cid' = cid
           \/ AskRefresh
           \/ Read /\ Adopts
           \/ ctok' = None
  BY StepKinds, PlainFields, ReadFields, SwitchFields, ConnectFields DEF Quiet

LEMMA SameIdStep ==
    ASSUME IInv, SingleInv, IssuedInv, DeviceInv, SameId, [Next]_vars, dropped' = {}
    PROVE  SameId'
  <1> USE DEF IInv
  <1>1. ASSUME NEW c \in Conns, NEW t \in Pairs, NEW r \in Requests, Wants(c, t, r),
               ctok' # None, ctok'.s = t.s
        PROVE  t.g < ctok'.g \/ (t = ctok' /\ r = cid')
    <2>0. r # None
      BY TokensAssumption
    <2>1. CASE ctok' = ctok /\ cid' = cid
      BY <1>1, <2>1 DEF SameId
    <2>2. CASE AskRefresh
      BY <1>1, <2>0, <2>2, RefreshFields DEF SameId
    <2>3. CASE Read /\ Adopts
      <3>1. ccon \in Conns /\ ans[ccon] # None
        BY <2>3, ReadFields
      <3>2. ccon # None
        BY <3>1, TokensAssumption
      <3>3. CASE ans[ccon].op = "login"
        BY <1>1, <2>3, <3>1, <3>2, <3>3 DEF Adopts, DeviceInv, Unknown
      <3>4. CASE ans[ccon].op = "refresh"
        <4>1. ctok # None /\ ctok'.s = ctok.s /\ ctok'.g = ctok.g + 1
          BY <2>3, <3>1, <3>2, <3>4 DEF Adopts, DeviceInv
        <4>2. t.g < ctok.g \/ t = ctok
          BY <1>1, <4>1 DEF SameId
        <4>3. ctok \in Pairs /\ t.g \in Nat /\ ctok.g \in Nat
          BY <4>1, PairFields DEF TypeOK, DeviceType
        <4> QED
          BY <4>1, <4>2, <4>3
      <3> QED
        BY <2>3, <3>3, <3>4 DEF Adopts
    <2> QED
      BY <1>1, <2>1, <2>2, <2>3, TokenStep
  <1>2. ASSUME NEW c \in Conns, NEW t \in Pairs, NEW r \in Requests, Wants(c, t, r)',
               ctok' # None, ctok'.s = t.s
        PROVE  t.g < ctok'.g \/ (t = ctok' /\ r = cid')
    BY <1>1, <1>2, WantsStep, RefreshFields
  <1>3. ASSUME NEW c \in Conns, NEW t \in Pairs, NEW r \in Requests, AskRefresh,
               Wants(c, t, r), t = ctok
        PROVE  r = cid'
    <2>1. t.g \in Nat /\ r # None /\ ctok # None
      BY <1>3, PairFields, TokensAssumption, RefreshFields
    <2>2. r = cid
      BY <1>3, <2>1 DEF SameId
    <2> QED
      BY <1>3, <2>1, <2>2, RefreshFields
  <1>4. ASSUME NEW c \in Conns, NEW d \in Conns, NEW t \in Pairs, NEW r \in Requests,
               NEW q \in Requests, Wants(c, t, r)', Wants(d, t, q)'
        PROVE  r = q
    <2>1. CASE Wants(c, t, r) /\ Wants(d, t, q)
      BY <2>1 DEF SameId
    <2> QED
      BY <1>3, <1>4, <2>1, WantsStep
  <1> QED
    BY <1>2, <1>4 DEF SameId

(* What is kept is not None. *)
LEMMA NotNone ==
    ASSUME NEW t \in Pairs, t.g + 1 <= MaxGen
    PROVE  [old |-> t, new |-> [t EXCEPT !.g = @ + 1]] # None
  <1>1. [t EXCEPT !.g = @ + 1] \in Pairs
    BY PairFields, TokensAssumption DEF Pairs
  <1> QED
    BY <1>1, TokensAssumption DEF Results

(* Who changes the number of a row. *)
LEMMA GenStep ==
    ASSUME IInv, [Next]_vars, NEW t \in Pairs, gen[t.s] = t.g, gen'[t.s] # t.g
    PROVE  \E c \in Conns : /\ job[c].at = "commit" /\ job[c].tok = t
                            /\ cache'[job[c].id] = [old |-> t, new |-> [t EXCEPT !.g = @ + 1]]
                            /\ gen'[t.s] = t.g + 1
  <1> USE TokensAssumption DEF IInv
  <1>1. CASE Device \/ Restart \/ UNCHANGED vars
    BY <1>1 DEF Device, Connect, AskLogin, AskToken, AskRefresh, AskLogout, Request, Read,
                ReadKick, Lose, Cancel, Restart, rows, vars
  <1>2. ASSUME NEW d \in Conns, Handler(d), ~RotateCommit(d)
        PROVE  FALSE
    <2>1. CASE Issue(d)
      <3>1. gen' = gen \/ \E s \in Sessions : gen[s] = 0 /\ gen' = [gen EXCEPT ![s] = 1]
        BY <2>1 DEF Issue
      <3>2. t.g \in 1..MaxGen /\ t.s \in Sessions /\ gen \in [Sessions -> 0..MaxGen]
        BY PairFields DEF TypeOK, RowType
      <3> QED
        BY <3>1, <3>2
    <2>2. CASE ~Issue(d)
      BY <1>2, <2>2 DEF Handler, Take, ValidateAccess, Bind, RefreshCheck, RotateFind,
         Reused, LogoutCheck, LogoutRevoke, Closed, rows
    <2> QED
      BY <2>1, <2>2
  <1>3. ASSUME NEW d \in Conns, RotateCommit(d)
        PROVE  /\ job[d].at = "commit" /\ job[d].tok = t
               /\ cache'[job[d].id] = [old |-> t, new |-> [t EXCEPT !.g = @ + 1]]
               /\ gen'[t.s] = t.g + 1
    <2>1. job[d].at = "commit" /\ job[d].tok \in Pairs /\ job[d].id \in Requests
      BY <1>3, JobFields DEF RotateCommit, TypeOK
    <2> DEFINE n == [job[d].tok EXCEPT !.g = @ + 1]
               e == [old |-> job[d].tok, new |-> n]
    <2>2. /\ Committable(job[d].tok) /\ gen' = [gen EXCEPT ![job[d].tok.s] = n.g]
          /\ Keep(job[d].id, e)
      BY <1>3 DEF RotateCommit, Reused
    <2>3. job[d].tok.g \in 1..MaxGen /\ job[d].tok.s \in Sessions /\ job[d].tok.g < MaxGen
      BY <2>1, <2>2, PairFields DEF Committable
    <2>4. n \in Pairs /\ n.g = job[d].tok.g + 1
      BY <2>1, <2>3 DEF Pairs
    <2>5. e \in Results
      BY <2>1, <2>4 DEF Results
    <2>6. job[d].tok.s = t.s /\ job[d].tok.g = t.g
      <3> HIDE DEF n, e
      <3> QED
        BY <2>2, <2>3, PairFields DEF Committable, Good, Holds, TypeOK, RowType
    <2>7. job[d].tok = t
      BY <2>1, <2>6 DEF Pairs
    <2>8. cache'[job[d].id] = e
      <3> HIDE DEF n, e
      <3> QED
        BY <2>1, <2>2, <2>5, KeepDoes DEF TypeOK
    <2>9. gen'[t.s] = t.g + 1
      <3> HIDE DEF n, e
      <3> QED
        BY <2>2, <2>3, <2>4, <2>6 DEF TypeOK, RowType
    <2> QED
      BY <2>1, <2>7, <2>8, <2>9
  <1>4. ASSUME NEW s \in Sessions, AccessExpires(s) \/ RefreshExpires(s) PROVE gen' = gen
    BY <1>4 DEF AccessExpires, RefreshExpires
  <1>5. ASSUME NEW r \in Requests, CacheExpires(r) PROVE gen' = gen
    BY <1>5 DEF CacheExpires, rows
  <1> QED
    BY <1>1, <1>2, <1>3, <1>4, <1>5 DEF Next

LEMMA FoundStep ==
    ASSUME IInv, IssuedInv, SameId, FoundInv, [Next]_vars
    PROVE  FoundInv'
  <1> USE DEF IInv
  <1> SUFFICES ASSUME NEW c \in Conns, job'[c].at = "rotate"
               PROVE  \/ gen'[job'[c].tok.s] = job'[c].tok.g
                      \/ cache'[job'[c].id] # None \/ job'[c].id \in gone'
    BY DEF FoundInv, Holds
  <1>1. CASE job'[c] = job[c]
    <2> DEFINE t == job[c].tok
               r == job[c].id
    <2>1. t \in Pairs /\ r \in Requests /\ job[c].op = "refresh" /\ Wants(c, t, r)
      BY <1>1, JobFields DEF TypeOK, Wants
    <2>2. CASE cache[r] # None \/ r \in gone
      <3>1. cache'[r] # None \/ r \in gone'
        <4>1. None \notin Results
          BY TokensAssumption DEF Results
        <4> HIDE DEF r, t
        <4>2. /\ gone \subseteq gone'
              /\ \/ cache'[r] = cache[r]
                 \/ cache'[r] = None /\ (cache[r] # None => r \in gone')
                 \/ cache'[r] \in Results
          BY <2>1, CacheStep
        <4> QED
          BY <2>2, <4>1, <4>2
      <3> QED
        BY <1>1, <3>1
    <2>3. CASE gen[t.s] = t.g /\ gen'[t.s] # t.g
      <3>1. PICK d \in Conns : /\ job[d].at = "commit" /\ job[d].tok = t
                               /\ cache'[job[d].id] = [old |-> t, new |-> [t EXCEPT !.g = @ + 1]]
                               /\ gen'[t.s] = t.g + 1
        BY <2>1, <2>3, GenStep
      <3>2. job[d].id \in Requests /\ Wants(d, t, job[d].id)
        BY <3>1, JobFields DEF TypeOK, Wants
      <3>3. job[d].id = r
        BY <2>1, <3>2 DEF SameId
      <3>4. cache'[r] # None
        <4>1. t.g + 1 <= MaxGen
          BY <2>1, <3>1, PairFields, TypeStep, TokensAssumption DEF TypeOK, RowType
        <4> QED
          BY <2>1, <3>1, <3>3, <4>1, NotNone
      <3> QED
        BY <1>1, <3>4
    <2> QED
      BY <1>1, <2>2, <2>3 DEF FoundInv, Holds
  <1>2. CASE AskPlain \/ AskRefresh
    BY <1>1, <1>2, PlainFields, RefreshFields
  <1>3. CASE Read
    BY <1>1, <1>3, ReadFields
  <1>4. CASE Lose \/ Cancel \/ ReadKick \/ Restart
    <2>1. job'[c] = job[c] \/ job'[c].at = "idle"
      BY <1>4, SwitchFields
    <2> QED
      BY <1>1, <2>1
  <1>5. ASSUME NEW d \in Conns, Connect(d)
        PROVE  job'[c] = job[c]
    BY <1>5, ConnectFields
  <1>6. ASSUME NEW d \in Conns, Take(d) \/ Ends(d) \/ Moves(d) \/ Closed(d), job'[c] # job[c]
        PROVE  gen'[job'[c].tok.s] = job'[c].tok.g
    <2>1. c = d
      BY <1>6, KindFrame
    <2>2. Moves(c)
      BY <1>6, <2>1, TakeFields, EndsFields, ClosedFields
    <2> QED
      BY <2>2, MovesFields DEF Holds
  <1>7. CASE Quiet
    BY <1>1, <1>7 DEF Quiet
  <1> QED
    BY <1>1, <1>2, <1>3, <1>4, <1>5, <1>6, <1>7, StepKinds

LEMMA InitRetryInv == Init => RetryInv
  <1> SUFFICES ASSUME Init PROVE RetryInv
    OBVIOUS
  <1>1. \A c \in Conns : job[c].at = "idle" /\ req[c] = None /\ ans[c] = None
    BY DEF Init, Idle
  <1>2. \A c \in Conns : \A t \in Pairs, r \in Requests : ~Wants(c, t, r)
    BY <1>1 DEF Wants
  <1>3. ctok = None /\ ccon = None /\ \A r \in Requests : cache[r] = None
    BY DEF Init
  <1>4. IssuedInv
    BY <1>1, <1>2, <1>3 DEF IssuedInv
  <1>5. SingleInv /\ DeviceInv /\ CommitInv
    BY <1>1, <1>3 DEF SingleInv, DeviceInv, CommitInv
  <1>6. IdInv
    BY <1>1, <1>2 DEF IdInv, SameId, FoundInv
  <1> QED
    BY <1>4, <1>5, <1>6 DEF RetryInv

LEMMA RetryStep == IInv /\ RetryInv /\ [Next]_vars => RetryInv'
  <1> SUFFICES ASSUME IInv, RetryInv, [Next]_vars PROVE RetryInv'
    OBVIOUS
  <1>1. TypeOK /\ SingleInv /\ IssuedInv /\ DeviceInv /\ IdInv /\ CommitInv
    BY DEF IInv, RetryInv
  <1>2. SingleInv' /\ IssuedInv' /\ DeviceInv' /\ CommitInv'
    BY <1>1, SingleStep, IssuedStep, DeviceInvStep, CommitStep
  <1>3. IdInv'
    <2> SUFFICES ASSUME dropped' = {} PROVE SameId' /\ FoundInv'
      BY DEF IdInv
    <2>1. dropped = {}
      BY <1>1, DroppedGrows
    <2> QED
      BY <1>1, <2>1, SameIdStep, FoundStep DEF IdInv
  <1> QED
    BY <1>2, <1>3 DEF RetryInv

LEMMA RetryInvariant == Spec => [](IInv /\ RetryInv)
  <1>1. IInv /\ RetryInv /\ [Next]_vars => RetryInv'
    BY RetryStep
  <1> QED
    BY TokensInvariant, InitRetryInv, <1>1, PTL DEF Spec

(* Repeating an unanswered refresh revokes the device's own session only   *)
(* when the kept result is erased while the repetition waits for the       *)
(* mutex: while the device forgets no pending request id, everything else  *)
(* that revokes is a logout (beginRefresh's pending id, m_refreshResults   *)
(* under m_refreshMtx).                                                    *)
THEOREM RetryIsNoReplay == Spec => NoSelfRevocation
  <1>1. IInv /\ RetryInv /\ [Next]_vars =>
          [dropped = {} /\ revoked' # revoked =>
             \E c \in Conns : /\ job'[c] # job[c]
                              /\ job[c].at = "revoke" \/ job[c].id \in gone]_vars
    <2> SUFFICES ASSUME IInv, RetryInv, [Next]_vars, dropped = {}, revoked' # revoked
                 PROVE  \E c \in Conns : /\ job'[c] # job[c]
                                         /\ job[c].at = "revoke" \/ job[c].id \in gone
      OBVIOUS
    <2>0. job \in [Conns -> Jobs]
      BY DEF IInv, TypeOK, WireType
    <2>1. CASE Device \/ Restart \/ UNCHANGED vars
      BY <2>1 DEF Device, Connect, AskLogin, AskToken, AskRefresh, AskLogout, Request, Read,
                  ReadKick, Lose, Cancel, Restart, rows, vars
    <2>2. ASSUME NEW c \in Conns, job[c].at \in {"rotate", "commit"}, Holds(job[c].tok),
                 Reused(c, job[c].tok)
          PROVE  FALSE
      <3>1. job[c].tok \in Pairs
        BY <2>2, JobFields DEF IInv, TypeOK
      <3>2. job[c].tok.g \notin used[job[c].tok.s]
        BY <2>2, <3>1, PairFields, TokensAssumption DEF Holds, IInv, HistoryComplete
      <3> QED
        BY <2>2, <3>2 DEF Reused
    <2>3. ASSUME NEW c \in Conns, Handler(c), ~LogoutRevoke(c)
          PROVE  job'[c] # job[c] /\ job[c].id \in gone
      <3>1. CASE RotateFind(c)
        <4>1. Holds(job[c].tok) \/ Cached(c) # None \/ job[c].id \in gone
          BY <3>1 DEF RetryInv, IdInv, FoundInv, RotateFind, RotateReady, Cached
        <4>2. job[c].at = "rotate" /\ ~Holds(job[c].tok) /\ Cached(c) = None /\ Reused(c, job[c].tok)
          BY <3>1 DEF RotateFind, RotateReady, Rotated, Refuse, Answer, Go, rows
        <4>3. job'[c].at = "idle"
          BY <2>0, <4>2 DEF Reused, Refuse, Answer, Idle
        <4> QED
          BY <4>1, <4>2, <4>3
      <3>2. CASE RotateCommit(c)
        <4>1. job[c].at = "commit" /\ Holds(job[c].tok)
          BY <3>2 DEF RetryInv, CommitInv, RotateCommit
        <4>2. Reused(c, job[c].tok)
          BY <3>2 DEF RotateCommit
        <4> QED
          BY <2>2, <4>1, <4>2
      <3>3. CASE ~RotateFind(c) /\ ~RotateCommit(c)
        BY <2>3, <3>3 DEF Handler, Take, Issue, ValidateAccess, Bind, RefreshCheck, LogoutCheck,
                          Closed, rows
      <3> QED
        BY <3>1, <3>2, <3>3
    <2>4. ASSUME NEW s \in Sessions, AccessExpires(s) \/ RefreshExpires(s) PROVE revoked' = revoked
      BY <2>4 DEF AccessExpires, RefreshExpires
    <2>5. ASSUME NEW r \in Requests, CacheExpires(r) PROVE revoked' = revoked
      BY <2>5 DEF CacheExpires, rows
    <2>6. ASSUME NEW c \in Conns, LogoutRevoke(c) PROVE job[c].at = "revoke" /\ job'[c].at = "idle"
      BY <2>0, <2>6 DEF LogoutRevoke, Answer, Idle
    <2>7. ASSUME NEW c \in Conns, Handler(c)
          PROVE  job'[c] # job[c] /\ (job[c].at = "revoke" \/ job[c].id \in gone)
      BY <2>3, <2>6, <2>7
    <2> QED
      BY <2>1, <2>4, <2>5, <2>7 DEF Next
  <1> QED
    BY RetryInvariant, <1>1, PTL DEF Spec, NoSelfRevocation

-----------------------------------------------------------------------------
(* What the device has stored never falls behind for good.                 *)

(* The pending request id is one that nobody gets again, and it goes with  *)
(* the tokens that the device has.                                         *)
PendingInv ==
    /\ cid # None => cid \notin fresh /\ ctok # None
    /\ \A c \in Conns : \A t \in Pairs, r \in Requests :
          Wants(c, t, r) => r \notin fresh /\ (r = cid => t = ctok)

(* The tokens of a login on its way to the device are still in their row.  *)
LoginInv == ccon # None =>
    /\ job[ccon].at = "bind" /\ job[ccon].op = "login" => Holds(job[ccon].tok)
    /\ ans[ccon] # None /\ ans[ccon].ok /\ ans[ccon].op = "login" => Holds(ans[ccon].tok)

(* What a refresh and an answer do to the pending request id. *)
LEMMA PendingFields ==
    ASSUME TypeOK, IssuedInv, [Next]_vars
    PROVE  \/ UNCHANGED <<ctok, cid, fresh>>
           \/ cid' = None /\ fresh' = fresh
           \/ /\ AskRefresh /\ ctok # None /\ ctok' = ctok /\ cid = None
              /\ cid' \in fresh /\ fresh' = fresh \ {cid'}
  <1>1. CASE Device
    <2>1. CASE AskRefresh
      <3>1. ctok' = ctok /\ ctok # None
        BY <2>1, RefreshFields
      <3> QED
        BY <2>1, <3>1 DEF AskRefresh, asked
    <2>2. CASE ~AskRefresh
      BY <1>1, <2>2 DEF Device, Connect, AskLogin, AskToken, AskLogout, Request, Read, ReadKick,
                        Lose, Cancel, asked
    <2> QED
      BY <2>1, <2>2
  <1>2. ASSUME NEW c \in Conns, Handler(c)
        PROVE  UNCHANGED <<ctok, cid, fresh>>
    BY <1>2, HandlerKind DEF device, asked
  <1>3. CASE Restart
    BY <1>3 DEF Restart, asked
  <1>4. ASSUME NEW s \in Sessions, AccessExpires(s) \/ RefreshExpires(s)
        PROVE  UNCHANGED <<ctok, cid, fresh>>
    BY <1>4 DEF AccessExpires, RefreshExpires, device, asked
  <1>5. ASSUME NEW r \in Requests, CacheExpires(r)
        PROVE  UNCHANGED <<ctok, cid, fresh>>
    BY <1>5 DEF CacheExpires, device, asked
  <1>6. CASE UNCHANGED vars
    BY <1>6 DEF vars, device, asked
  <1> QED
    BY <1>1, <1>2, <1>3, <1>4, <1>5, <1>6 DEF Next

LEMMA PendingStep ==
    ASSUME IInv, IssuedInv, PendingInv, [Next]_vars
    PROVE  PendingInv'
  <1> USE DEF IInv
  <1>1. cid' # None => cid' \notin fresh' /\ ctok' # None
    BY PendingFields DEF PendingInv
  <1>2. ASSUME NEW c \in Conns, NEW t \in Pairs, NEW r \in Requests, Wants(c, t, r)'
        PROVE  r \notin fresh' /\ (r = cid' => t = ctok')
    <2>0. r # None
      BY TokensAssumption
    <2>1. CASE Wants(c, t, r)
      BY <2>0, <2>1, PendingFields DEF PendingInv
    <2>2. CASE AskRefresh /\ t = ctok /\ r = cid'
      BY <2>0, <2>2, <1>1, RefreshFields
    <2> QED
      BY <1>2, <2>1, <2>2, WantsStep
  <1> QED
    BY <1>1, <1>2 DEF PendingInv

(* Nobody exchanges a token of a session that nobody knows. *)
LEMMA UnknownHolds ==
    ASSUME IInv, [Next]_vars, NEW t \in Pairs, Holds(t), Unknown(t.s)
    PROVE  gen'[t.s] = t.g
  <1> USE DEF IInv
  <1> SUFFICES ASSUME gen'[t.s] # t.g PROVE FALSE
    OBVIOUS
  <1>1. PICK c \in Conns : job[c].at = "commit" /\ job[c].tok = t
    BY GenStep DEF Holds
  <1>2. job[c].id \in Requests /\ Wants(c, t, job[c].id)
    BY <1>1, JobFields DEF TypeOK, Wants
  <1> QED
    BY <1>2 DEF Unknown

LEMMA LoginStep ==
    ASSUME IInv, SingleInv, IssuedInv, DeviceInv, LoginInv, [Next]_vars
    PROVE  LoginInv'
  <1> USE DEF IInv
  <1>1. CASE AskPlain \/ AskRefresh \/ Read
    <2>1. ccon' = ccon /\ ccon \in Conns /\ job'[ccon].at = "idle" /\ ans'[ccon] = None
      BY <1>1, PlainFields, RefreshFields, ReadFields DEF SingleInv
    <2> QED
      BY <2>1 DEF LoginInv, Holds
  <1>2. CASE Lose \/ Cancel \/ ReadKick \/ Restart
    BY <1>2, SwitchFields DEF LoginInv, Holds
  <1>3. ASSUME NEW c \in Conns, Connect(c)
        PROVE  LoginInv'
    BY <1>3, ConnectFields DEF LoginInv, Holds
  <1>4. ASSUME ccon # None, ccon' = ccon, ccon \in Conns,
               job'[ccon].at = "bind", job'[ccon].op = "login", job'[ccon] = job[ccon]
        PROVE  gen'[job'[ccon].tok.s] = job'[ccon].tok.g
    <2>1. job[ccon].tok \in Pairs /\ Holds(job[ccon].tok) /\ Unknown(job[ccon].tok.s)
      BY <1>4, JobFields DEF LoginInv, DeviceInv, TypeOK
    <2> QED
      BY <1>4, <2>1, UnknownHolds DEF Holds
  <1>5. ASSUME ccon # None, ccon' = ccon, ccon \in Conns, ans[ccon] # None,
               ans'[ccon].ok, ans'[ccon].op = "login", ans'[ccon] = ans[ccon]
        PROVE  gen'[ans'[ccon].tok.s] = ans'[ccon].tok.g
    <2>1. ans[ccon].tok \in Pairs /\ Holds(ans[ccon].tok) /\ Unknown(ans[ccon].tok.s)
      BY <1>5 DEF LoginInv, DeviceInv, TypeOK, WireType
    <2> QED
      BY <1>5, <2>1, UnknownHolds DEF Holds
  <1>6. ASSUME NEW c \in Conns, Handler(c), UNCHANGED <<ctok, cid, ccon, dropped>>, ccon # None,
               Take(c) \/ Ends(c) \/ Moves(c) \/ Closed(c)
        PROVE  LoginInv'
    <2>1. ccon \in Conns /\ ccon' = ccon
      BY <1>6 DEF TypeOK, DeviceType
    <2>2. CASE c # ccon
      <3>1. job'[ccon] = job[ccon] /\ ans'[ccon] = ans[ccon]
        BY <1>6, <2>1, <2>2, KindFrame
      <3> QED
        BY <1>4, <1>5, <1>6, <2>1, <3>1 DEF LoginInv, Holds
    <2>3. CASE c = ccon /\ Take(c)
      <3>1. job'[ccon].at = "check" /\ ans'[ccon] = None
        BY <2>1, <2>3, TakeFields DEF SingleInv
      <3> QED
        BY <2>1, <3>1 DEF LoginInv, Holds
    <2>4. CASE c = ccon /\ Ends(c)
      <3>1. job'[ccon].at = "idle" /\ ans[ccon] = None
        BY <2>1, <2>4, EndsFields DEF SingleInv
      <3>2. ASSUME ans'[ccon] # None, ans'[ccon].ok, ans'[ccon].op = "login"
            PROVE  gen'[ans'[ccon].tok.s] = ans'[ccon].tok.g
        <4>1. /\ job[ccon].at = "bind" /\ job[ccon].op = "login"
              /\ ans'[ccon].tok = job[ccon].tok
          BY <2>1, <2>4, <3>1, <3>2, EndsFields
        <4>2. job[ccon].tok \in Pairs /\ Holds(job[ccon].tok) /\ Unknown(job[ccon].tok.s)
          BY <1>6, <2>1, <4>1, JobFields DEF LoginInv, DeviceInv, TypeOK
        <4> QED
          BY <4>1, <4>2, UnknownHolds DEF Holds
      <3> QED
        BY <2>1, <3>1, <3>2 DEF LoginInv, Holds
    <2>5. CASE c = ccon /\ Moves(c)
      <3>1. job[ccon].at # "idle" /\ job'[ccon].op = job[ccon].op /\ ans'[ccon] = None
        BY <2>1, <2>5, MovesFields DEF SingleInv
      <3>2. ASSUME job'[ccon].at = "bind", job'[ccon].op = "login"
            PROVE  gen'[job'[ccon].tok.s] = job'[ccon].tok.g
        <4>1. /\ job'[ccon].tok \in Pairs /\ gen[job'[ccon].tok.s] = 0
              /\ job'[ccon].tok.g <= gen'[job'[ccon].tok.s]
          BY <2>1, <2>5, <3>1, <3>2, MovesFields
        <4>2. gen'[job'[ccon].tok.s] <= 1
          <5>1. gen \in [Sessions -> 0..MaxGen] /\ job'[ccon].tok.s \in Sessions
            BY <4>1, PairFields DEF TypeOK, RowType
          <5>2. CASE Rotation
            <6>1. PICK t \in Pairs : gen[t.s] = t.g /\ gen' = [gen EXCEPT ![t.s] = t.g + 1]
              BY <5>2 DEF Rotation
            <6>2. t.g > 0
              BY PairFields, TokensAssumption
            <6> QED
              BY <4>1, <5>1, <6>1, <6>2
          <5> QED
            BY <4>1, <5>1, <5>2, RowStep DEF NewRow, Revocation
        <4>3. job'[ccon].tok.g \in Nat /\ job'[ccon].tok.g >= 1 /\ gen'[job'[ccon].tok.s] \in Nat
          BY <4>1, PairFields, TypeStep, TokensAssumption DEF TypeOK, RowType
        <4> QED
          BY <4>1, <4>2, <4>3 DEF Holds
      <3> QED
        BY <2>1, <3>1, <3>2 DEF LoginInv, Holds
    <2> QED
      BY <1>6, <2>1, <2>2, <2>3, <2>4, <2>5, ClosedFields
  <1>7. CASE Quiet /\ ccon # None
    <2>1. ccon \in Conns
      BY <1>7 DEF TypeOK, DeviceType
    <2> QED
      BY <1>4, <1>5, <1>7, <2>1 DEF Quiet, LoginInv, Holds
  <1>8. CASE ccon = None /\ ccon' = ccon
    BY <1>8 DEF LoginInv, Holds
  <1> QED
    BY <1>1, <1>2, <1>3, <1>6, <1>7, <1>8, StepKinds DEF Quiet

LEMMA SuccessorPair ==
    ASSUME TypeOK, NEW t \in Pairs, gen[t.s] = t.g + 1
    PROVE  /\ [t EXCEPT !.g = @ + 1] \in Pairs
           /\ [t EXCEPT !.g = @ + 1].s = t.s /\ [t EXCEPT !.g = @ + 1].g = t.g + 1
  <1>1. t.s \in Sessions /\ t.g \in 1..MaxGen /\ gen[t.s] \in 0..MaxGen
    BY PairFields DEF TypeOK, RowType
  <1> QED
    BY <1>1, TokensAssumption DEF Pairs

(* What the device has stays within reach of what the row holds. *)
LEMMA ReachStep ==
    ASSUME IInv, RetryInv, PendingInv, LoginInv, RetryWillDo, [Next]_vars
    PROVE  RetryWillDo'
  <1> DEFINE Successor(t) == [t EXCEPT !.g = @ + 1]
             Result(t) == [old |-> t, new |-> Successor(t)]
  <1>0. TypeOK /\ IssuedInv /\ DeviceInv
    BY DEF IInv, RetryInv
  <1> SUFFICES ASSUME dropped' = {}, ctok' # None
               PROVE  \/ gen'[ctok'.s] = ctok'.g
                      \/ /\ gen'[ctok'.s] = ctok'.g + 1 /\ cid' # None
                         /\ cache'[cid'] = Result(ctok') \/ cid' \in gone'
    BY DEF RetryWillDo, Holds
  <1>1. dropped = {} /\ SameId
    BY <1>0, DroppedGrows DEF RetryInv, IdInv
  <1>2. CASE ctok' = ctok /\ cid' = cid
    <2>1. ctok \in Pairs
      BY <1>0, <1>2 DEF TypeOK, DeviceType
    <2>2. ASSUME Holds(ctok), gen'[ctok.s] # ctok.g
          PROVE  gen'[ctok.s] = ctok.g + 1 /\ cid # None /\ cache'[cid] = Result(ctok)
      <3>1. PICK d \in Conns : /\ job[d].at = "commit" /\ job[d].tok = ctok
                               /\ cache'[job[d].id] = Result(ctok) /\ gen'[ctok.s] = ctok.g + 1
        BY <2>1, <2>2, GenStep DEF Holds
      <3>2. job[d].id \in Requests /\ Wants(d, ctok, job[d].id)
        BY <1>0, <3>1, JobFields DEF TypeOK, Wants
      <3>3. job[d].id = cid
        BY <1>1, <1>2, <2>1, <3>2, PairFields DEF SameId
      <3> QED
        BY <3>1, <3>2, <3>3, TokensAssumption
    <2>3. ASSUME gen[ctok.s] = ctok.g + 1, cid # None, cache[cid] = Result(ctok) \/ cid \in gone
          PROVE  /\ gen'[ctok.s] = ctok.g + 1
                 /\ cache'[cid] = Result(ctok) \/ cid \in gone'
      <3>0. cid \in Requests /\ ctok.g \in Nat
        BY <1>0, <2>1, <2>3, PairFields, TokensAssumption DEF TypeOK, DeviceType
      <3>1. Successor(ctok) \in Pairs /\ Successor(ctok).s = ctok.s /\ Successor(ctok).g = ctok.g + 1
        BY <1>0, <2>1, <2>3, SuccessorPair
      <3>2. gen'[ctok.s] = ctok.g + 1
        <4> SUFFICES ASSUME gen'[ctok.s] # ctok.g + 1 PROVE FALSE
          OBVIOUS
        <4> HIDE DEF Successor
        <4>1. PICK d \in Conns : job[d].at = "commit" /\ job[d].tok = Successor(ctok)
          BY <2>3, <3>1, GenStep
        <4>2. job[d].id \in Requests /\ Wants(d, Successor(ctok), job[d].id)
          BY <1>0, <4>1, JobFields DEF TypeOK, Wants
        <4>3. Successor(ctok).g < ctok.g \/ Successor(ctok) = ctok
          BY <1>1, <1>2, <3>1, <4>2 DEF SameId
        <4> QED
          BY <3>0, <3>1, <4>3
      <3>3. ASSUME NEW d \in Conns, job[d].at = "commit", job[d].id = cid, Committable(job[d].tok)
            PROVE  FALSE
        <4>1. job[d].tok \in Pairs /\ Wants(d, job[d].tok, cid)
          BY <1>0, <3>3, JobFields DEF TypeOK, Wants
        <4>2. job[d].tok = ctok
          BY <3>0, <4>1 DEF PendingInv
        <4> QED
          BY <2>3, <3>0, <3>3, <4>2 DEF Committable, Good, Holds
      <3>4. Result(ctok) # None
        <4>1. ctok.g + 1 <= MaxGen
          BY <1>0, <2>1, <2>3, PairFields DEF TypeOK, RowType
        <4> QED
          BY <2>1, <4>1, NotNone
      <3>5. gone \subseteq gone' /\ (cache'[cid] = cache[cid]
                                      \/ (cache'[cid] = None /\ (cache[cid] # None => cid \in gone')))
        BY <3>0, <3>3, CacheStep
      <3> HIDE DEF Result
      <3> QED
        BY <2>3, <3>2, <3>4, <3>5
    <2> QED
      BY <1>1, <1>2, <2>2, <2>3 DEF RetryWillDo, Holds
  <1>3. CASE AskRefresh
    <2>1. ctok' = ctok /\ UNCHANGED <<gen, cache, gone>> /\ (cid # None => cid' = cid)
      BY <1>0, <1>3, RefreshFields DEF AskRefresh, Request, rows, service
    <2> QED
      BY <1>1, <2>1 DEF RetryWillDo, Holds
  <1>4. CASE Read /\ Adopts
    <2>1. /\ ccon \in Conns /\ ccon # None /\ ans[ccon] # None /\ ans[ccon].ok
          /\ ans[ccon].op \in {"login", "refresh"} /\ ctok' = ans[ccon].tok /\ gen' = gen
      BY <1>0, <1>4, ReadFields, TokensAssumption DEF Read, Adopts, rows
    <2>2. CASE ans[ccon].op = "login"
      BY <2>1, <2>2 DEF LoginInv, Holds
    <2>3. CASE ans[ccon].op = "refresh"
      <3>1. ctok # None /\ ctok'.s = ctok.s /\ ctok'.g = ctok.g + 1 /\ ctok'.g <= gen[ctok'.s]
        BY <1>0, <2>1, <2>3 DEF DeviceInv, IssuedInv
      <3>2. ctok \in Pairs /\ ctok.g \in Nat
        BY <1>0, <3>1, PairFields DEF TypeOK, DeviceType
      <3>3. gen[ctok.s] = ctok.g \/ gen[ctok.s] = ctok.g + 1
        BY <1>1, <3>1 DEF RetryWillDo, Holds
      <3> QED
        BY <2>1, <3>1, <3>2, <3>3
    <2> QED
      BY <2>1, <2>2, <2>3
  <1> QED
    BY <1>0, <1>2, <1>3, <1>4, TokenStep

(* The tokens a device has stored are those of its row, or the ones before *)
(* them, exchanged under the request id that is still pending, as long as  *)
(* the device forgets no pending id; the result for the retry is kept      *)
(* until age, the limit or a restart erases it (beginRefresh, rotate,      *)
(* m_refreshResults).                                                      *)
THEOREM RetryFindsResult == Spec => []RetryWillDo
  <1>1. Init => PendingInv /\ LoginInv /\ RetryWillDo
    <2> SUFFICES ASSUME Init PROVE PendingInv /\ LoginInv /\ RetryWillDo
      OBVIOUS
    <2>1. \A c \in Conns : job[c].at = "idle" /\ req[c] = None
      BY DEF Init, Idle
    <2> QED
      BY <2>1 DEF Init, PendingInv, LoginInv, RetryWillDo, Wants
  <1>2. IInv /\ RetryInv /\ PendingInv /\ LoginInv /\ RetryWillDo /\ [Next]_vars
          => PendingInv' /\ LoginInv' /\ RetryWillDo'
    BY PendingStep, LoginStep, ReachStep DEF RetryInv
  <1> QED
    BY RetryInvariant, <1>1, <1>2, PTL DEF Spec
=============================================================================
