------------------------- MODULE AccountSessionProofs -------------------------
(***************************************************************************)
(* What holds of the account session for every number of operations and    *)
(* every platform.                                                         *)
(***************************************************************************)
EXTENDS AccountSession, TLAPS

-----------------------------------------------------------------------------
(* The inductive invariant.                                                *)

(* The parts of TypeOK, each preserved by itself. *)
MachineType ==
  st \in States /\ method \in {"None", "Password", "Token"} /\ autoRe \in BOOLEAN

GenType == gen \in 0 .. MaxGen

SessionType == reauth \in BOOLEAN /\ afterRefresh \in BOOLEAN /\ policy \in BOOLEAN

CredType == tok \in {"none", "fresh", "stale"} /\ inflight \in BOOLEAN

LineType ==
  /\ open \in BOOLEAN /\ notified \in BOOLEAN /\ bound \in BOOLEAN
  /\ wire \subseteq Kinds

SentType == sent \in [Kinds -> 0 .. MaxGen]

ThreadType ==
  /\ cth \in {"idle", "connecting", "dialing", "ok", "fail"}
  /\ rth \in {"idle", "sleeping", "firing"}
  /\ io \in Replies

FateType == stuck \in BOOLEAN /\ crossed \in BOOLEAN /\ world \in Worlds

LEMMA TypeParts ==
  TypeOK <=> /\ MachineType /\ GenType /\ SessionType /\ CredType /\ LineType
             /\ SentType /\ ThreadType /\ FateType
  BY DEF TypeOK, MachineType, GenType, SessionType, CredType, LineType,
     SentType, ThreadType, FateType

(* A request of kind k is unanswered, or its answer not yet delivered. *)
Pending(k) == k \in wire \/ io.kind = k

(* A closed connection carries nothing; who has it open has not been told  *)
(* that it closed; the server binds a connection before it says so.        *)
LineInv ==
  /\ ~open => wire = {} /\ io = Quiet
  /\ cth = "dialing" => ~open
  /\ open \/ cth = "dialing" => ~notified
  /\ io.kind \in {"login", "token"} /\ io.ok => bound

SentInv ==
  /\ \A k \in Kinds : sent[k] <= gen
  /\ InFlight => gen # 0

Works == world.saves = {TRUE} /\ ~stuck

(* Who is logged in and has lost the connection logs in again; a new       *)
(* connection on which that is not due has no login to answer.             *)
ReauthInv ==
  Works =>
    /\ st = "Authenticated" /\ ~open /\ notified => reauth
    /\ cth \in {"dialing", "ok"} /\ ~reauth =>
         st # "Authenticated" /\ \A k \in {"login", "token", "refresh"} : ~Pending(k)

(* One login and one refresh at a time, and not both. *)
OnceInv ==
  Works =>
    /\ \A k \in {"login", "refresh"} :
         /\ ~(k \in wire /\ io.kind = k)
         /\ Pending(k) => sent[k] # 0
    /\ Pending("login") => st # "Authenticated" /\ ~Pending("refresh") /\ ~Pending("token")
    /\ Pending("refresh") /\ tok # "none" => inflight

(* A kicked account has no credentials, and every answer that could bring  *)
(* new ones is of an older operation.                                      *)
KickedInv ==
  world.saves = {TRUE} /\ st = "Kicked" =>
    /\ tok = "none"
    /\ ~stuck => \A k \in {"login", "refresh"} : Pending(k) => sent[k] # gen

(* Where nobody calls tick(), a refresh is one that a login waits for. *)
RefreshInv ==
  Works /\ ~world.ticks /\ st = "Refreshing" =>
    /\ afterRefresh /\ tok # "fresh"
    /\ Pending("login") => sent["login"] # gen

Asking == {"login", "token", "refresh"}

(* Where nobody calls tick(), one answer about the credentials is under    *)
(* way at a time, with its generation; a new connection starts with none.  *)
AskInv ==
  ~world.ticks =>
    /\ \A k \in Asking : Pending(k) => sent[k] # 0 /\ ~(k \in wire /\ io.kind = k)
    /\ \A k \in Asking, j \in Asking : Pending(k) /\ Pending(j) => k = j
    /\ cth = "ok" => \A k \in Asking : ~Pending(k)

(* Where nothing crossed either, an answer that still counts finds the     *)
(* account waiting for it, and a logout is the last that was asked.        *)
StraightInv ==
  ~world.ticks /\ ~crossed =>
    /\ Pending("logout") => cth # "ok" /\ \A k \in Asking : Pending(k) => sent[k] # gen
    /\ Pending("login") /\ sent["login"] = gen =>
         st = "Authenticating" /\ method = "Password" /\ cth = "idle"
    /\ Pending("refresh") /\ sent["refresh"] = gen => st = "Refreshing"
    /\ st = "Authenticating" => method # "None" /\ (method = "Password" => rth = "idle")

IInv ==
  /\ TypeOK /\ LineInv /\ SentInv /\ ReauthInv /\ OnceInv /\ KickedInv /\ RefreshInv
  /\ AskInv /\ StraightInv /\ AuthenticatedIsBound

-----------------------------------------------------------------------------
(* The parts of the invariant, one lemma each.                             *)

(* The generation goes up by one or stays, and no request is sent under a  *)
(* generation that is yet to come.                                         *)
LEMMA GenMoves ==
  ASSUME TRUE, [Next]_vars
  PROVE  gen' = gen \/ (gen < MaxGen /\ gen' = gen + 1)
  <1>1. CASE \/ StartWithPassword \/ StartWithSavedToken
    BY <1>1 DEF StartWithPassword, InFlight, ConnectBlocks, Hang, Begin,
       creds, conn, fate, still, machine, session, threads, StartWithSavedToken
  <1>2. CASE \/ StartWithSavedTokenAgain \/ SavedTokenExpired
    BY <1>2 DEF StartWithSavedTokenAgain, InFlight, machine, creds, conn,
       threads, fate, still, SavedTokenExpired, Revoke, session
  <1>3. CASE Logout
    BY <1>3 DEF Logout, ReconnectBlocks, Hang, Send, creds, Revoke, conn,
       fate, still, machine, session, threads
  <1>4. CASE Cancel
    BY <1>4 DEF Cancel, ReconnectBlocks, CloseBlocks, Hang, fate, still,
       machine, session, creds, conn, threads
  <1>5. CASE Tick
    BY <1>5 DEF Tick, SendRefresh, session, threads, fate, still, creds, conn,
       Send, Revoke
  <1>6. CASE \/ Expire \/ ReconnectDue \/ ReconnectFired \/ ConnectRefused
             \/ DialOk \/ DialFail
    BY <1>6 DEF Expire, machine, session, conn, threads, fate, still,
       ReconnectDue, creds, ReconnectFired, ConnectBlocks, Hang,
       ConnectRefused, DialOk, DialFail
  <1>7. CASE ConnectStart
    BY <1>7 DEF ConnectStart, machine, session, creds, fate, still,
       DisconnectedBlocks, Disconnected, ReconnectBlocks
  <1>8. CASE DialAborted
    BY <1>8 DEF DialAborted, machine, session, creds, fate, still,
       DisconnectedBlocks, Disconnected, ReconnectBlocks
  <1>9. CASE ConnectOk
    BY <1>9 DEF ConnectOk, TokenLoginDue, CloseBlocks, Hang, Connected, fate,
       still, SendTokenLogin, creds, Send, machine, SendRefresh, InFlight,
       conn, Revoke, session, threads
  <1>10. CASE ConnectFail
    BY <1>10 DEF ConnectFail, DisconnectedBlocks, Hang, session, creds,
       conn, fate, still, machine, threads, ReconnectBlocks
  <1>11. CASE \/ (\E k \in Kinds, ok \in BOOLEAN : Answer(k, ok)) \/ Late
              \/ Kick
    BY <1>11 DEF Answer, machine, session, creds, fate, still, Late, Current,
       Took, Kick, conn
  <1>12. CASE LoginDone
    BY <1>12 DEF LoginDone, Current, creds, Took, session, fate, still
  <1>13. CASE RefreshDone
    BY <1>13 DEF RefreshDone, Current, creds, SendTokenLogin, Took, fate, still
  <1>14. CASE \/ RefreshRefused \/ LogoutDone
    BY <1>14 DEF RefreshRefused, Current, Took, Revoke, session, fate, still,
       creds, LogoutDone
  <1>15. CASE Kicked
    BY <1>15 DEF Kicked, ReconnectBlocks, Hang, Revoke, CloseOnIo, fate, still,
       creds, machine, session, conn, threads
  <1>16. CASE Lost
    BY <1>16 DEF Lost, machine, session, creds, fate, still,
       DisconnectedBlocks, Disconnected, ReconnectBlocks
  <1>17. CASE UNCHANGED vars
    BY <1>17 DEF vars, machine, session, creds, conn, threads, fate, still
  <1> QED
    BY <1>1, <1>2, <1>3, <1>4, <1>5, <1>6, <1>7, <1>8, <1>9, <1>10, <1>11,
       <1>12, <1>13, <1>14, <1>15, <1>16, <1>17 DEF Next, User, ConnectThread,
       IoThread

LEMMA SentMoves ==
  ASSUME ThreadType, [Next]_vars
  PROVE  sent' = sent \/ \E k \in Kinds : \/ sent' = [sent EXCEPT ![k] = 0]
                                          \/ sent' = [sent EXCEPT ![k] = gen']
                                          \/ sent' = [Took("refresh") EXCEPT ![k] = gen']
  <1>1. CASE \/ StartWithPassword \/ StartWithSavedToken
    BY <1>1 DEF StartWithPassword, InFlight, ConnectBlocks, Hang, Begin,
       creds, conn, fate, still, machine, session, threads,
       StartWithSavedToken, Kinds, ThreadType, Replies
  <1>2. CASE \/ StartWithSavedTokenAgain \/ SavedTokenExpired
    BY <1>2 DEF StartWithSavedTokenAgain, InFlight, machine, creds, conn,
       threads, fate, still, SavedTokenExpired, Revoke, session, Kinds,
       ThreadType, Replies
  <1>3. CASE Logout
    BY <1>3 DEF Logout, ReconnectBlocks, Hang, Send, creds, Revoke, conn,
       fate, still, machine, session, threads, Kinds, ThreadType, Replies
  <1>4. CASE Cancel
    BY <1>4 DEF Cancel, ReconnectBlocks, CloseBlocks, Hang, fate, still,
       machine, session, creds, conn, threads, Kinds, ThreadType, Replies
  <1>5. CASE Tick
    BY <1>5 DEF Tick, SendRefresh, session, threads, fate, still, creds, conn,
       Send, Revoke, Kinds, ThreadType, Replies
  <1>6. CASE \/ Expire \/ ReconnectDue \/ ReconnectFired \/ ConnectRefused
             \/ DialOk \/ DialFail
    BY <1>6 DEF Expire, machine, session, conn, threads, fate, still,
       ReconnectDue, creds, ReconnectFired, ConnectBlocks, Hang,
       ConnectRefused, DialOk, DialFail, Kinds, ThreadType, Replies
  <1>7. CASE ConnectStart
    BY <1>7 DEF ConnectStart, machine, session, creds, fate, still,
       DisconnectedBlocks, Disconnected, ReconnectBlocks, Kinds, ThreadType,
       Replies
  <1>8. CASE DialAborted
    BY <1>8 DEF DialAborted, machine, session, creds, fate, still,
       DisconnectedBlocks, Disconnected, ReconnectBlocks, Kinds, ThreadType,
       Replies
  <1>9. CASE ConnectOk
    BY <1>9 DEF ConnectOk, TokenLoginDue, CloseBlocks, Hang, Connected, fate,
       still, SendTokenLogin, creds, Send, machine, SendRefresh, InFlight,
       conn, Revoke, session, threads, Kinds, ThreadType, Replies
  <1>10. CASE ConnectFail
    BY <1>10 DEF ConnectFail, DisconnectedBlocks, Hang, session, creds,
       conn, fate, still, machine, threads, ReconnectBlocks, Kinds, ThreadType,
       Replies
  <1>11. CASE \/ (\E k \in Kinds, ok \in BOOLEAN : Answer(k, ok)) \/ Late
              \/ Kick
    BY <1>11 DEF Answer, machine, session, creds, fate, still, Late, Current,
       Took, Kick, conn, Kinds, ThreadType, Replies
  <1>12. CASE LoginDone
    BY <1>12 DEF LoginDone, Current, creds, Took, session, fate, still, Kinds,
       ThreadType, Replies
  <1>13. CASE RefreshDone
    BY <1>13 DEF RefreshDone, Current, creds, SendTokenLogin, Took, fate,
       still, Kinds, ThreadType, Replies
  <1>14. CASE \/ RefreshRefused \/ LogoutDone
    BY <1>14 DEF RefreshRefused, Current, Took, Revoke, session, fate, still,
       creds, LogoutDone, Kinds, ThreadType, Replies
  <1>15. CASE Kicked
    BY <1>15 DEF Kicked, ReconnectBlocks, Hang, Revoke, CloseOnIo, fate, still,
       creds, machine, session, conn, threads, Kinds, ThreadType, Replies
  <1>16. CASE Lost
    BY <1>16 DEF Lost, machine, session, creds, fate, still,
       DisconnectedBlocks, Disconnected, ReconnectBlocks, Kinds, ThreadType,
       Replies
  <1>17. CASE UNCHANGED vars
    BY <1>17 DEF vars, machine, session, creds, conn, threads, fate, still,
       Kinds, ThreadType, Replies
  <1> QED
    BY <1>1, <1>2, <1>3, <1>4, <1>5, <1>6, <1>7, <1>8, <1>9, <1>10, <1>11,
       <1>12, <1>13, <1>14, <1>15, <1>16, <1>17 DEF Next, User, ConnectThread,
       IoThread

LEMMA FlightMoves ==
  ASSUME MachineType, [Next]_vars
  PROVE  InFlight' => InFlight \/ gen' = gen + 1
  <1>1. CASE \/ StartWithPassword \/ StartWithSavedToken
    BY <1>1 DEF StartWithPassword, InFlight, ConnectBlocks, Hang, Begin,
       creds, conn, fate, still, machine, session, threads,
       StartWithSavedToken, MachineType, States
  <1>2. CASE \/ StartWithSavedTokenAgain \/ SavedTokenExpired
    BY <1>2 DEF StartWithSavedTokenAgain, InFlight, machine, creds, conn,
       threads, fate, still, SavedTokenExpired, Revoke, session, MachineType,
       States
  <1>3. CASE Logout
    BY <1>3 DEF Logout, ReconnectBlocks, Hang, Send, creds, Revoke, conn,
       fate, still, machine, session, threads, InFlight, MachineType, States
  <1>4. CASE Cancel
    BY <1>4 DEF Cancel, ReconnectBlocks, CloseBlocks, Hang, fate, still,
       machine, session, creds, conn, threads, InFlight, MachineType, States
  <1>5. CASE Tick
    BY <1>5 DEF Tick, SendRefresh, session, threads, fate, still, creds, conn,
       Send, Revoke, InFlight, MachineType, States
  <1>6. CASE \/ Expire \/ ReconnectDue \/ ReconnectFired \/ ConnectRefused
             \/ DialOk \/ DialFail
    BY <1>6 DEF Expire, machine, session, conn, threads, fate, still,
       ReconnectDue, creds, ReconnectFired, ConnectBlocks, Hang,
       ConnectRefused, DialOk, DialFail, InFlight, MachineType, States
  <1>7. CASE ConnectStart
    BY <1>7 DEF ConnectStart, machine, session, creds, fate, still,
       DisconnectedBlocks, Disconnected, ReconnectBlocks, InFlight,
       MachineType, States
  <1>8. CASE DialAborted
    BY <1>8 DEF DialAborted, machine, session, creds, fate, still,
       DisconnectedBlocks, Disconnected, ReconnectBlocks, InFlight,
       MachineType, States
  <1>9. CASE ConnectOk
    BY <1>9 DEF ConnectOk, TokenLoginDue, CloseBlocks, Hang, Connected, fate,
       still, SendTokenLogin, creds, Send, machine, SendRefresh, InFlight,
       conn, Revoke, session, threads, MachineType, States
  <1>10. CASE ConnectFail
    BY <1>10 DEF ConnectFail, DisconnectedBlocks, Hang, session, creds, conn,
       fate, still, machine, threads, ReconnectBlocks, InFlight, MachineType,
       States
  <1>11. CASE \/ (\E k \in Kinds, ok \in BOOLEAN : Answer(k, ok)) \/ Late
              \/ Kick
    BY <1>11 DEF Answer, machine, session, creds, fate, still, Late, Current,
       Took, Kick, conn, InFlight, MachineType, States
  <1>12. CASE LoginDone
    BY <1>12 DEF LoginDone, Current, creds, Took, session, fate, still,
       InFlight, MachineType, States
  <1>13. CASE RefreshDone
    BY <1>13 DEF RefreshDone, Current, creds, SendTokenLogin, Took, fate,
       still, InFlight, MachineType, States
  <1>14. CASE \/ RefreshRefused \/ LogoutDone
    BY <1>14 DEF RefreshRefused, Current, Took, Revoke, session, fate, still,
       creds, LogoutDone, InFlight, MachineType, States
  <1>15. CASE Kicked
    BY <1>15 DEF Kicked, ReconnectBlocks, Hang, Revoke, CloseOnIo, fate, still,
       creds, machine, session, conn, threads, InFlight, MachineType, States
  <1>16. CASE Lost
    BY <1>16 DEF Lost, machine, session, creds, fate, still,
       DisconnectedBlocks, Disconnected, ReconnectBlocks, InFlight,
       MachineType, States
  <1>17. CASE UNCHANGED vars
    BY <1>17 DEF vars, machine, session, creds, conn, threads, fate, still,
       InFlight, MachineType, States
  <1> QED
    BY <1>1, <1>2, <1>3, <1>4, <1>5, <1>6, <1>7, <1>8, <1>9, <1>10, <1>11,
       <1>12, <1>13, <1>14, <1>15, <1>16, <1>17 DEF Next, User, ConnectThread,
       IoThread

LEMMA GenTypeStep ==
  ASSUME GenType, [Next]_vars
  PROVE  GenType'
  BY GenMoves, AccountAssumption DEF GenType

LEMMA SentStep ==
  ASSUME MachineType, ThreadType, GenType, SentType, SentInv, [Next]_vars
  PROVE  SentType' /\ SentInv'
  <1>1. gen' \in 0 .. MaxGen /\ gen <= gen'
    BY GenMoves, AccountAssumption DEF GenType
  <1>2. /\ Took("refresh") \in [Kinds -> 0 .. MaxGen]
        /\ \A k \in Kinds : Took("refresh")[k] <= gen
    <2>1. 0 \in 0 .. MaxGen /\ 0 <= gen
      BY AccountAssumption DEF GenType
    <2>2. Took("refresh") \in [Kinds -> 0 .. MaxGen]
      BY <2>1 DEF Took, SentType
    <2>3. \A k \in Kinds : Took("refresh")[k] = 0 \/ Took("refresh")[k] = sent[k]
      BY DEF Took, SentType
    <2> QED
      BY <2>1, <2>2, <2>3 DEF SentInv
  <1>3. SentType'
    BY <1>1, <1>2, SentMoves, AccountAssumption DEF SentType
  <1>4. SentInv'
    <2>1. \A k \in Kinds : sent'[k] <= gen'
      BY <1>1, <1>2, SentMoves, AccountAssumption DEF SentType, SentInv,
         GenType
    <2>2. InFlight' => gen' # 0
      BY <1>1, FlightMoves, GenMoves DEF SentInv, GenType
    <2> QED
      BY <2>1, <2>2 DEF SentInv
  <1> QED
    BY <1>3, <1>4

LEMMA MachineTypeStep ==
  ASSUME MachineType, [Next]_vars
  PROVE  MachineType'
  <1>1. CASE \/ StartWithPassword \/ StartWithSavedToken
    BY <1>1 DEF StartWithPassword, InFlight, ConnectBlocks, Hang, Begin,
       creds, conn, fate, still, machine, session, threads,
       StartWithSavedToken, MachineType, States
  <1>2. CASE \/ StartWithSavedTokenAgain \/ SavedTokenExpired
    BY <1>2 DEF StartWithSavedTokenAgain, InFlight, machine, creds, conn,
       threads, fate, still, SavedTokenExpired, Revoke, session, MachineType,
       States
  <1>3. CASE Logout
    BY <1>3 DEF Logout, ReconnectBlocks, Hang, Send, creds, Revoke, conn,
       fate, still, machine, session, threads, MachineType, States
  <1>4. CASE Cancel
    BY <1>4 DEF Cancel, ReconnectBlocks, CloseBlocks, Hang, fate, still,
       machine, session, creds, conn, threads, MachineType, States
  <1>5. CASE Tick
    BY <1>5 DEF Tick, SendRefresh, session, threads, fate, still, creds, conn,
       Send, Revoke, MachineType, States
  <1>6. CASE \/ Expire \/ ReconnectDue \/ ReconnectFired \/ ConnectRefused
             \/ DialOk \/ DialFail
    BY <1>6 DEF Expire, machine, session, conn, threads, fate, still,
       ReconnectDue, creds, ReconnectFired, ConnectBlocks, Hang,
       ConnectRefused, DialOk, DialFail, MachineType, States
  <1>7. CASE ConnectStart
    BY <1>7 DEF ConnectStart, machine, session, creds, fate, still,
       DisconnectedBlocks, Disconnected, ReconnectBlocks, MachineType,
       States
  <1>8. CASE DialAborted
    BY <1>8 DEF DialAborted, machine, session, creds, fate, still,
       DisconnectedBlocks, Disconnected, ReconnectBlocks, MachineType,
       States
  <1>9. CASE ConnectOk
    <2>1. /\ st' \in States \cup {st}
          /\ method' \in {method, "Token"}
          /\ autoRe' \in BOOLEAN
      BY <1>9 DEF ConnectOk, Hang, Connected, fate, still, SendTokenLogin,
         creds, Send, machine, SendRefresh, States, MachineType
    <2> QED
      BY <2>1 DEF MachineType
  <1>10. CASE ConnectFail
    BY <1>10 DEF ConnectFail, DisconnectedBlocks, Hang, session, creds, conn,
       fate, still, machine, threads, ReconnectBlocks, MachineType, States
  <1>11. CASE \/ (\E k \in Kinds, ok \in BOOLEAN : Answer(k, ok)) \/ Late
              \/ Kick
    BY <1>11 DEF Answer, machine, session, creds, fate, still, Late, Current,
       Took, Kick, conn, MachineType, States
  <1>12. CASE LoginDone
    BY <1>12 DEF LoginDone, Current, creds, Took, session, fate, still,
       MachineType, States
  <1>13. CASE RefreshDone
    BY <1>13 DEF RefreshDone, Current, creds, SendTokenLogin, Took, fate,
       still, MachineType, States
  <1>14. CASE \/ RefreshRefused \/ LogoutDone
    BY <1>14 DEF RefreshRefused, Current, Took, Revoke, session, fate, still,
       creds, LogoutDone, MachineType, States
  <1>15. CASE Kicked
    BY <1>15 DEF Kicked, ReconnectBlocks, Hang, Revoke, CloseOnIo, fate, still,
       creds, machine, session, conn, threads, MachineType, States
  <1>16. CASE Lost
    BY <1>16 DEF Lost, machine, session, creds, fate, still,
       DisconnectedBlocks, Disconnected, ReconnectBlocks, MachineType, States
  <1>17. CASE UNCHANGED vars
    BY <1>17 DEF vars, machine, session, creds, conn, threads, fate, still,
       MachineType, States
  <1> QED
    BY <1>1, <1>2, <1>3, <1>4, <1>5, <1>6, <1>7, <1>8, <1>9, <1>10, <1>11,
       <1>12, <1>13, <1>14, <1>15, <1>16, <1>17 DEF Next, User, ConnectThread,
       IoThread

LEMMA SessionTypeStep ==
  ASSUME MachineType, SessionType, CredType, [Next]_vars
  PROVE  SessionType'
  <1>1. CASE \/ StartWithPassword \/ StartWithSavedToken
    BY <1>1 DEF StartWithPassword, InFlight, ConnectBlocks, Hang, Begin,
       creds, conn, fate, still, machine, session, threads,
       StartWithSavedToken, SessionType
  <1>2. CASE \/ StartWithSavedTokenAgain \/ SavedTokenExpired
    BY <1>2 DEF StartWithSavedTokenAgain, InFlight, machine, creds, conn,
       threads, fate, still, SavedTokenExpired, Revoke, session, SessionType
  <1>3. CASE Logout
    BY <1>3 DEF Logout, ReconnectBlocks, Hang, Send, creds, Revoke, conn,
       fate, still, machine, session, threads, SessionType
  <1>4. CASE Cancel
    BY <1>4 DEF Cancel, ReconnectBlocks, CloseBlocks, Hang, fate, still,
       machine, session, creds, conn, threads, SessionType
  <1>5. CASE Tick
    BY <1>5 DEF Tick, SendRefresh, session, threads, fate, still, creds, conn,
       Send, Revoke, SessionType
  <1>6. CASE \/ Expire \/ ReconnectDue \/ ReconnectFired \/ ConnectRefused
             \/ DialOk \/ DialFail
    BY <1>6 DEF Expire, machine, session, conn, threads, fate, still,
       ReconnectDue, creds, ReconnectFired, ConnectBlocks, Hang,
       ConnectRefused, DialOk, DialFail, SessionType
  <1>7. CASE ConnectStart
    BY <1>7 DEF ConnectStart, machine, session, creds, fate, still,
       DisconnectedBlocks, Disconnected, ReconnectBlocks, SessionType
  <1>8. CASE DialAborted
    BY <1>8 DEF DialAborted, machine, session, creds, fate, still,
       DisconnectedBlocks, Disconnected, ReconnectBlocks, SessionType
  <1>9. CASE ConnectOk
    <2>1. \/ UNCHANGED session
          \/ policy' = TRUE /\ reauth' = FALSE /\ UNCHANGED afterRefresh
      BY <1>9 DEF ConnectOk, Hang, Connected
    <2> QED
      BY <2>1 DEF session, SessionType
  <1>10. CASE ConnectFail
    BY <1>10 DEF ConnectFail, DisconnectedBlocks, Hang, session, creds,
       conn, fate, still, machine, threads, ReconnectBlocks, SessionType
  <1>11. CASE \/ (\E k \in Kinds, ok \in BOOLEAN : Answer(k, ok)) \/ Late
              \/ Kick
    BY <1>11 DEF Answer, machine, session, creds, fate, still, Late, Current,
       Took, Kick, conn, SessionType
  <1>12. CASE LoginDone
    BY <1>12 DEF LoginDone, Current, creds, Took, session, fate, still,
       SessionType
  <1>13. CASE RefreshDone
    BY <1>13 DEF RefreshDone, Current, creds, SendTokenLogin, Took, fate,
       still, SessionType
  <1>14. CASE \/ RefreshRefused \/ LogoutDone
    BY <1>14 DEF RefreshRefused, Current, Took, Revoke, session, fate, still,
       creds, LogoutDone, SessionType
  <1>15. CASE Kicked
    BY <1>15 DEF Kicked, ReconnectBlocks, Hang, Revoke, CloseOnIo, fate, still,
       creds, machine, session, conn, threads, SessionType
  <1>16. CASE Lost
    BY <1>16 DEF Lost, machine, session, creds, fate, still,
       DisconnectedBlocks, Disconnected, ReconnectBlocks, SessionType
  <1>17. CASE UNCHANGED vars
    BY <1>17 DEF vars, machine, session, creds, conn, threads, fate, still,
       SessionType
  <1> QED
    BY <1>1, <1>2, <1>3, <1>4, <1>5, <1>6, <1>7, <1>8, <1>9, <1>10, <1>11,
       <1>12, <1>13, <1>14, <1>15, <1>16, <1>17 DEF Next, User, ConnectThread,
       IoThread

LEMMA CredTypeStep ==
  ASSUME CredType, [Next]_vars
  PROVE  CredType'
  <1>1. CASE \/ StartWithPassword \/ StartWithSavedToken
    BY <1>1 DEF StartWithPassword, InFlight, ConnectBlocks, Hang, Begin,
       creds, conn, fate, still, machine, session, threads,
       StartWithSavedToken, CredType
  <1>2. CASE \/ StartWithSavedTokenAgain \/ SavedTokenExpired
    BY <1>2 DEF StartWithSavedTokenAgain, InFlight, machine, creds, conn,
       threads, fate, still, SavedTokenExpired, Revoke, session, CredType
  <1>3. CASE Logout
    BY <1>3 DEF Logout, ReconnectBlocks, Hang, Send, creds, Revoke, conn,
       fate, still, machine, session, threads, CredType
  <1>4. CASE Cancel
    BY <1>4 DEF Cancel, ReconnectBlocks, CloseBlocks, Hang, fate, still,
       machine, session, creds, conn, threads, CredType
  <1>5. CASE Tick
    BY <1>5 DEF Tick, SendRefresh, session, threads, fate, still, creds, conn,
       Send, Revoke, CredType
  <1>6. CASE \/ Expire \/ ReconnectDue \/ ReconnectFired \/ ConnectRefused
             \/ DialOk \/ DialFail
    BY <1>6 DEF Expire, machine, session, conn, threads, fate, still,
       ReconnectDue, creds, ReconnectFired, ConnectBlocks, Hang,
       ConnectRefused, DialOk, DialFail, CredType
  <1>7. CASE ConnectStart
    BY <1>7 DEF ConnectStart, machine, session, creds, fate, still,
       DisconnectedBlocks, Disconnected, ReconnectBlocks, CredType
  <1>8. CASE DialAborted
    BY <1>8 DEF DialAborted, machine, session, creds, fate, still,
       DisconnectedBlocks, Disconnected, ReconnectBlocks, CredType
  <1>9. CASE ConnectOk
    <2>1. \/ UNCHANGED creds
          \/ \E saved \in world.saves, signed \in world.signs : SendRefresh(gen, saved, signed)
      BY <1>9 DEF ConnectOk, Hang, Connected, creds
    <2> QED
      BY <2>1 DEF SendRefresh, Revoke, creds, CredType
  <1>10. CASE ConnectFail
    BY <1>10 DEF ConnectFail, DisconnectedBlocks, Hang, session, creds,
       conn, fate, still, machine, threads, ReconnectBlocks, CredType
  <1>11. CASE \/ (\E k \in Kinds, ok \in BOOLEAN : Answer(k, ok)) \/ Late
              \/ Kick
    BY <1>11 DEF Answer, machine, session, creds, fate, still, Late, Current,
       Took, Kick, conn, CredType
  <1>12. CASE LoginDone
    BY <1>12 DEF LoginDone, Current, creds, Took, session, fate, still,
       CredType
  <1>13. CASE RefreshDone
    BY <1>13 DEF RefreshDone, Current, creds, SendTokenLogin, Took, fate,
       still, CredType
  <1>14. CASE \/ RefreshRefused \/ LogoutDone
    BY <1>14 DEF RefreshRefused, Current, Took, Revoke, session, fate, still,
       creds, LogoutDone, CredType
  <1>15. CASE Kicked
    BY <1>15 DEF Kicked, ReconnectBlocks, Hang, Revoke, CloseOnIo, fate, still,
       creds, machine, session, conn, threads, CredType
  <1>16. CASE Lost
    BY <1>16 DEF Lost, machine, session, creds, fate, still,
       DisconnectedBlocks, Disconnected, ReconnectBlocks, CredType
  <1>17. CASE UNCHANGED vars
    BY <1>17 DEF vars, machine, session, creds, conn, threads, fate, still,
       CredType
  <1> QED
    BY <1>1, <1>2, <1>3, <1>4, <1>5, <1>6, <1>7, <1>8, <1>9, <1>10, <1>11,
       <1>12, <1>13, <1>14, <1>15, <1>16, <1>17 DEF Next, User, ConnectThread,
       IoThread

LEMMA LineTypeStep ==
  ASSUME SessionType, LineType, [Next]_vars
  PROVE  LineType'
  <1>1. CASE \/ StartWithPassword \/ StartWithSavedToken
    BY <1>1 DEF StartWithPassword, InFlight, ConnectBlocks, Hang, Begin,
       creds, conn, fate, still, machine, session, threads,
       StartWithSavedToken, LineType, Kinds, SessionType
  <1>2. CASE \/ StartWithSavedTokenAgain \/ SavedTokenExpired
    BY <1>2 DEF StartWithSavedTokenAgain, InFlight, machine, creds, conn,
       threads, fate, still, SavedTokenExpired, Revoke, session, LineType,
       Kinds, SessionType
  <1>3. CASE Logout
    BY <1>3 DEF Logout, ReconnectBlocks, Hang, Send, creds, Revoke, conn,
       fate, still, machine, session, threads, LineType, Kinds, SessionType
  <1>4. CASE Cancel
    BY <1>4 DEF Cancel, ReconnectBlocks, CloseBlocks, Hang, fate, still,
       machine, session, creds, conn, threads, LineType, Kinds, SessionType
  <1>5. CASE Tick
    BY <1>5 DEF Tick, SendRefresh, session, threads, fate, still, creds, conn,
       Send, Revoke, LineType, Kinds, SessionType
  <1>6. CASE \/ Expire \/ ReconnectDue \/ ReconnectFired \/ ConnectRefused
             \/ DialOk \/ DialFail
    BY <1>6 DEF Expire, machine, session, conn, threads, fate, still,
       ReconnectDue, creds, ReconnectFired, ConnectBlocks, Hang,
       ConnectRefused, DialOk, DialFail, LineType, Kinds, SessionType
  <1>7. CASE ConnectStart
    BY <1>7 DEF ConnectStart, machine, session, creds, fate, still,
       DisconnectedBlocks, Disconnected, ReconnectBlocks, LineType, Kinds,
       SessionType
  <1>8. CASE DialAborted
    BY <1>8 DEF DialAborted, machine, session, creds, fate, still,
       DisconnectedBlocks, Disconnected, ReconnectBlocks, LineType, Kinds,
       SessionType
  <1>9. CASE ConnectOk
    <2>1. \/ UNCHANGED conn
          \/ \E signed \in world.signs : SendTokenLogin(gen', signed, TRUE, sent)
          \/ Send("login", gen)
          \/ \E saved \in world.saves, signed \in world.signs : SendRefresh(gen, saved, signed)
      BY <1>9 DEF ConnectOk, Hang, Connected, conn
    <2> QED
      BY <2>1 DEF SendTokenLogin, Send, SendRefresh, conn, LineType, Kinds
  <1>10. CASE ConnectFail
    BY <1>10 DEF ConnectFail, DisconnectedBlocks, Hang, session, creds,
       conn, fate, still, machine, threads, ReconnectBlocks, LineType, Kinds,
       SessionType
  <1>11. CASE \/ (\E k \in Kinds, ok \in BOOLEAN : Answer(k, ok)) \/ Late
              \/ Kick
    BY <1>11 DEF Answer, machine, session, creds, fate, still, Late, Current,
       Took, Kick, conn, LineType, Kinds, SessionType
  <1>12. CASE LoginDone
    BY <1>12 DEF LoginDone, Current, creds, Took, session, fate, still,
       LineType, Kinds, SessionType
  <1>13. CASE RefreshDone
    BY <1>13 DEF RefreshDone, Current, creds, SendTokenLogin, Took, fate,
       still, LineType, Kinds, SessionType
  <1>14. CASE \/ RefreshRefused \/ LogoutDone
    BY <1>14 DEF RefreshRefused, Current, Took, Revoke, session, fate, still,
       creds, LogoutDone, LineType, Kinds, SessionType
  <1>15. CASE Kicked
    BY <1>15 DEF Kicked, ReconnectBlocks, Hang, Revoke, CloseOnIo, fate, still,
       creds, machine, session, conn, threads, LineType, Kinds, SessionType
  <1>16. CASE Lost
    BY <1>16 DEF Lost, machine, session, creds, fate, still,
       DisconnectedBlocks, Disconnected, ReconnectBlocks, LineType, Kinds,
       SessionType
  <1>17. CASE UNCHANGED vars
    BY <1>17 DEF vars, machine, session, creds, conn, threads, fate, still,
       LineType, Kinds, SessionType
  <1> QED
    BY <1>1, <1>2, <1>3, <1>4, <1>5, <1>6, <1>7, <1>8, <1>9, <1>10, <1>11,
       <1>12, <1>13, <1>14, <1>15, <1>16, <1>17 DEF Next, User, ConnectThread,
       IoThread

LEMMA ThreadTypeStep ==
  ASSUME ThreadType, [Next]_vars
  PROVE  ThreadType'
  <1>1. CASE \/ StartWithPassword \/ StartWithSavedToken
    BY <1>1 DEF StartWithPassword, InFlight, ConnectBlocks, Hang, Begin,
       creds, conn, fate, still, machine, session, threads,
       StartWithSavedToken, ThreadType, Replies, Quiet, Kinds
  <1>2. CASE \/ StartWithSavedTokenAgain \/ SavedTokenExpired
    BY <1>2 DEF StartWithSavedTokenAgain, InFlight, machine, creds, conn,
       threads, fate, still, SavedTokenExpired, Revoke, session, ThreadType,
       Replies, Quiet, Kinds
  <1>3. CASE Logout
    BY <1>3 DEF Logout, ReconnectBlocks, Hang, Send, creds, Revoke, conn,
       fate, still, machine, session, threads, ThreadType, Replies, Quiet,
       Kinds
  <1>4. CASE Cancel
    BY <1>4 DEF Cancel, ReconnectBlocks, CloseBlocks, Hang, fate, still,
       machine, session, creds, conn, threads, ThreadType, Replies, Quiet,
       Kinds
  <1>5. CASE Tick
    BY <1>5 DEF Tick, SendRefresh, session, threads, fate, still, creds, conn,
       Send, Revoke, ThreadType, Replies, Quiet, Kinds
  <1>6. CASE \/ Expire \/ ReconnectDue \/ ReconnectFired \/ ConnectRefused
             \/ DialOk \/ DialFail
    BY <1>6 DEF Expire, machine, session, conn, threads, fate, still,
       ReconnectDue, creds, ReconnectFired, ConnectBlocks, Hang,
       ConnectRefused, DialOk, DialFail, ThreadType, Replies, Quiet, Kinds
  <1>7. CASE ConnectStart
    BY <1>7 DEF ConnectStart, machine, session, creds, fate, still,
       DisconnectedBlocks, Disconnected, ReconnectBlocks, ThreadType,
       Replies, Quiet, Kinds
  <1>8. CASE DialAborted
    BY <1>8 DEF DialAborted, machine, session, creds, fate, still,
       DisconnectedBlocks, Disconnected, ReconnectBlocks, ThreadType,
       Replies, Quiet, Kinds
  <1>9. CASE ConnectOk
    BY <1>9 DEF ConnectOk, TokenLoginDue, CloseBlocks, Hang, Connected, fate,
       still, SendTokenLogin, creds, Send, machine, SendRefresh, InFlight,
       conn, Revoke, session, threads, ThreadType, Replies, Quiet, Kinds
  <1>10. CASE ConnectFail
    BY <1>10 DEF ConnectFail, DisconnectedBlocks, Hang, session, creds, conn,
       fate, still, machine, threads, ReconnectBlocks, ThreadType, Replies,
       Quiet, Kinds
  <1>11. CASE \/ (\E k \in Kinds, ok \in BOOLEAN : Answer(k, ok)) \/ Late
              \/ Kick
    <2>1. io' = io \/ io' = Quiet \/ \E k \in Kinds, ok \in BOOLEAN : io' = [kind |-> k, ok |-> ok]
      BY <1>11 DEF Answer, Late, Kick, Kinds
    <2>2. io' \in Replies
      BY <2>1 DEF ThreadType, Replies
    <2> QED
      BY <1>11, <2>2 DEF Answer, Late, Kick, ThreadType
  <1>12. CASE LoginDone
    BY <1>12 DEF LoginDone, Current, creds, Took, session, fate, still,
       ThreadType, Replies, Quiet, Kinds
  <1>13. CASE RefreshDone
    BY <1>13 DEF RefreshDone, Current, creds, SendTokenLogin, Took, fate,
       still, ThreadType, Replies, Quiet, Kinds
  <1>14. CASE \/ RefreshRefused \/ LogoutDone
    BY <1>14 DEF RefreshRefused, Current, Took, Revoke, session, fate, still,
       creds, LogoutDone, ThreadType, Replies, Quiet, Kinds
  <1>15. CASE Kicked
    BY <1>15 DEF Kicked, ReconnectBlocks, Hang, Revoke, CloseOnIo, fate, still,
       creds, machine, session, conn, threads, ThreadType, Replies, Quiet,
       Kinds
  <1>16. CASE Lost
    BY <1>16 DEF Lost, machine, session, creds, fate, still,
       DisconnectedBlocks, Disconnected, ReconnectBlocks, ThreadType, Replies,
       Quiet, Kinds
  <1>17. CASE UNCHANGED vars
    BY <1>17 DEF vars, machine, session, creds, conn, threads, fate, still,
       ThreadType, Replies, Quiet, Kinds
  <1> QED
    BY <1>1, <1>2, <1>3, <1>4, <1>5, <1>6, <1>7, <1>8, <1>9, <1>10, <1>11,
       <1>12, <1>13, <1>14, <1>15, <1>16, <1>17 DEF Next, User, ConnectThread,
       IoThread

LEMMA FateTypeStep ==
  ASSUME FateType, [Next]_vars
  PROVE  FateType'
  <1>1. CASE \/ StartWithPassword \/ StartWithSavedToken
    BY <1>1 DEF StartWithPassword, InFlight, ConnectBlocks, Hang, Begin,
       creds, conn, fate, still, machine, session, threads,
       StartWithSavedToken, FateType
  <1>2. CASE \/ StartWithSavedTokenAgain \/ SavedTokenExpired
    BY <1>2 DEF StartWithSavedTokenAgain, InFlight, machine, creds, conn,
       threads, fate, still, SavedTokenExpired, Revoke, session, FateType
  <1>3. CASE Logout
    BY <1>3 DEF Logout, ReconnectBlocks, Hang, Send, creds, Revoke, conn,
       fate, still, machine, session, threads, FateType
  <1>4. CASE Cancel
    BY <1>4 DEF Cancel, ReconnectBlocks, CloseBlocks, Hang, fate, still,
       machine, session, creds, conn, threads, FateType
  <1>5. CASE Tick
    BY <1>5 DEF Tick, SendRefresh, session, threads, fate, still, creds, conn,
       Send, Revoke, FateType
  <1>6. CASE \/ Expire \/ ReconnectDue \/ ReconnectFired \/ ConnectRefused
             \/ DialOk \/ DialFail
    BY <1>6 DEF Expire, machine, session, conn, threads, fate, still,
       ReconnectDue, creds, ReconnectFired, ConnectBlocks, Hang,
       ConnectRefused, DialOk, DialFail, FateType
  <1>7. CASE ConnectStart
    BY <1>7 DEF ConnectStart, machine, session, creds, fate, still,
       DisconnectedBlocks, Disconnected, ReconnectBlocks, FateType
  <1>8. CASE DialAborted
    BY <1>8 DEF DialAborted, machine, session, creds, fate, still,
       DisconnectedBlocks, Disconnected, ReconnectBlocks, FateType
  <1>9. CASE ConnectOk
    BY <1>9 DEF ConnectOk, TokenLoginDue, CloseBlocks, Hang, Connected, fate,
       still, SendTokenLogin, creds, Send, machine, SendRefresh, InFlight,
       conn, Revoke, session, threads, FateType
  <1>10. CASE ConnectFail
    BY <1>10 DEF ConnectFail, DisconnectedBlocks, Hang, session, creds,
       conn, fate, still, machine, threads, ReconnectBlocks, FateType
  <1>11. CASE \/ (\E k \in Kinds, ok \in BOOLEAN : Answer(k, ok)) \/ Late
              \/ Kick
    BY <1>11 DEF Answer, machine, session, creds, fate, still, Late, Current,
       Took, Kick, conn, FateType
  <1>12. CASE LoginDone
    BY <1>12 DEF LoginDone, Current, creds, Took, session, fate, still,
       FateType
  <1>13. CASE RefreshDone
    BY <1>13 DEF RefreshDone, Current, creds, SendTokenLogin, Took, fate,
       still, FateType
  <1>14. CASE \/ RefreshRefused \/ LogoutDone
    BY <1>14 DEF RefreshRefused, Current, Took, Revoke, session, fate, still,
       creds, LogoutDone, FateType
  <1>15. CASE Kicked
    BY <1>15 DEF Kicked, ReconnectBlocks, Hang, Revoke, CloseOnIo, fate, still,
       creds, machine, session, conn, threads, FateType
  <1>16. CASE Lost
    BY <1>16 DEF Lost, machine, session, creds, fate, still,
       DisconnectedBlocks, Disconnected, ReconnectBlocks, FateType
  <1>17. CASE UNCHANGED vars
    BY <1>17 DEF vars, machine, session, creds, conn, threads, fate, still,
       FateType
  <1> QED
    BY <1>1, <1>2, <1>3, <1>4, <1>5, <1>6, <1>7, <1>8, <1>9, <1>10, <1>11,
       <1>12, <1>13, <1>14, <1>15, <1>16, <1>17 DEF Next, User, ConnectThread,
       IoThread

(* onConnectResult(true): the mutex is never given back, or one thing is   *)
(* sent, or the device key does not sign, or nothing is due.               *)
LEMMA ConnectOkDoes ==
  ASSUME ConnectOk, LineType
  PROVE  /\ UNCHANGED <<rth, io, world, crossed, afterRefresh>> /\ ~stuck /\ cth = "ok"
         /\ \/ stuck' /\ UNCHANGED <<machine, session, creds, conn, cth>>
            \/ /\ cth' = "idle" /\ ~reauth' /\ ~stuck'
               /\ \/ /\ ~TokenLoginDue /\ (reauth \/ ~InFlight)
                     /\ UNCHANGED <<machine, creds, conn>>
                  \/ /\ ~reauth /\ st = "Authenticating" /\ method # "Token"
                     /\ Send("login", gen) /\ UNCHANGED <<machine, creds>>
                  \/ /\ TokenLoginDue /\ st' = "Authenticating" /\ method' = "Token"
                     /\ gen' = (IF reauth THEN gen + 1 ELSE gen)
                     /\ sent' = [sent EXCEPT !["token"] = gen']
                     /\ wire' = (IF open THEN wire \cup {"token"} ELSE wire)
                     /\ UNCHANGED <<open, bound, notified, creds>>
                  \/ /\ TokenLoginDue /\ st' = "LoggedOut" /\ gen' \in {gen, gen + 1}
                     /\ wire' = {} /\ ~open' /\ ~bound' /\ notified' /\ io = Quiet
                     /\ UNCHANGED <<sent, creds>>
                  \/ /\ ~reauth /\ st = "Refreshing" /\ UNCHANGED gen
                     /\ \E saved \in world.saves, signed \in world.signs :
                           SendRefresh(gen, saved, signed)
  <1>1. PICK saved \in world.saves, signed \in world.signs :
          IF TokenLoginDue /\ ~signed /\ CloseBlocks THEN Hang
          ELSE /\ Connected(saved, signed)
               /\ cth' = "idle"
               /\ UNCHANGED <<rth, io, fate>>
    BY DEF ConnectOk
  <1>2. cth = "ok" /\ ~stuck
    BY DEF ConnectOk
  <1>3. CASE TokenLoginDue /\ ~signed /\ CloseBlocks
    BY <1>1, <1>2, <1>3 DEF Hang, still, machine, session, creds, conn, threads
  <1>4. CASE ~(TokenLoginDue /\ ~signed /\ CloseBlocks)
    <2>1. /\ Connected(saved, signed) /\ cth' = "idle" /\ ~stuck' /\ ~reauth'
          /\ UNCHANGED <<rth, io, world, crossed, afterRefresh>>
      BY <1>1, <1>2, <1>4 DEF fate, still, Connected
    <2>2. CASE TokenLoginDue /\ SendTokenLogin(gen', signed, TRUE, sent) /\ UNCHANGED creds
               /\ method' = "Token" /\ gen' = IF reauth THEN gen + 1 ELSE gen
      <3>1. CASE signed
        BY <1>2, <2>1, <2>2, <3>1 DEF SendTokenLogin, LineType
      <3>2. CASE ~signed
        BY <1>2, <1>4, <2>1, <2>2, <3>2 DEF SendTokenLogin, CloseBlocks
      <3> QED
        BY <3>1, <3>2
    <2>3. CASE ~TokenLoginDue \/ ~SendTokenLogin(gen', signed, TRUE, sent) \/ ~UNCHANGED creds
               \/ method' # "Token" \/ gen' # IF reauth THEN gen + 1 ELSE gen
      BY <1>2, <2>1, <2>3 DEF Connected
    <2> QED
      BY <2>2, <2>3
  <1> QED
    BY <1>3, <1>4

LEMMA LineInvStep ==
  ASSUME LineType, ThreadType, LineInv, [Next]_vars
  PROVE  LineInv'
  <1>1. CASE \/ StartWithPassword \/ StartWithSavedToken
    BY <1>1 DEF StartWithPassword, InFlight, ConnectBlocks, Hang, Begin,
       creds, conn, fate, still, machine, session, threads,
       StartWithSavedToken, LineInv, LineType, ThreadType, Quiet
  <1>2. CASE \/ StartWithSavedTokenAgain \/ SavedTokenExpired
    BY <1>2 DEF StartWithSavedTokenAgain, InFlight, machine, creds, conn,
       threads, fate, still, SavedTokenExpired, Revoke, session, LineInv,
       LineType, ThreadType, Quiet
  <1>3. CASE Logout
    BY <1>3 DEF Logout, ReconnectBlocks, Hang, Send, creds, Revoke, conn,
       fate, still, machine, session, threads, LineInv, LineType, ThreadType,
       Quiet
  <1>4. CASE Cancel
    BY <1>4 DEF Cancel, ReconnectBlocks, CloseBlocks, Hang, fate, still,
       machine, session, creds, conn, threads, LineInv, LineType, ThreadType,
       Quiet
  <1>5. CASE Tick
    BY <1>5 DEF Tick, SendRefresh, session, threads, fate, still, creds, conn,
       Send, Revoke, LineInv, LineType, ThreadType, Quiet
  <1>6. CASE \/ Expire \/ ReconnectDue \/ ReconnectFired \/ ConnectRefused
             \/ DialOk \/ DialFail
    BY <1>6 DEF Expire, machine, session, conn, threads, fate, still,
       ReconnectDue, creds, ReconnectFired, ConnectBlocks, Hang,
       ConnectRefused, DialOk, DialFail, LineInv, LineType, ThreadType, Quiet
  <1>7. CASE ConnectStart
    BY <1>7 DEF ConnectStart, machine, session, creds, fate, still,
       DisconnectedBlocks, Disconnected, ReconnectBlocks, LineInv, LineType,
       ThreadType, Quiet
  <1>8. CASE DialAborted
    BY <1>8 DEF DialAborted, machine, session, creds, fate, still,
       DisconnectedBlocks, Disconnected, ReconnectBlocks, LineInv, LineType,
       ThreadType, Quiet
  <1>9. CASE ConnectOk
    <2>1. /\ UNCHANGED io /\ cth' # "dialing"
          /\ \/ UNCHANGED <<open, notified, bound>> /\ (open \/ wire' = wire)
             \/ ~open' /\ wire' = {} /\ io = Quiet
      BY <1>9, ConnectOkDoes DEF Send, SendRefresh, conn
    <2> QED
      BY <1>9, <2>1 DEF LineInv, Quiet
  <1>10. CASE ConnectFail
    BY <1>10 DEF ConnectFail, DisconnectedBlocks, Hang, session, creds,
       conn, fate, still, machine, threads, ReconnectBlocks, LineInv, LineType,
       ThreadType, Quiet
  <1>11. CASE \/ (\E k \in Kinds, ok \in BOOLEAN : Answer(k, ok)) \/ Late
              \/ Kick
    BY <1>11 DEF Answer, machine, session, creds, fate, still, Late, Current,
       Took, Kick, conn, LineInv, LineType, ThreadType, Quiet
  <1>12. CASE LoginDone
    BY <1>12 DEF LoginDone, Current, creds, Took, session, fate, still,
       LineInv, LineType, ThreadType, Quiet
  <1>13. CASE RefreshDone
    BY <1>13 DEF RefreshDone, Current, creds, SendTokenLogin, Took, fate,
       still, LineInv, LineType, ThreadType, Quiet
  <1>14. CASE \/ RefreshRefused \/ LogoutDone
    BY <1>14 DEF RefreshRefused, Current, Took, Revoke, session, fate, still,
       creds, LogoutDone, LineInv, LineType, ThreadType, Quiet
  <1>15. CASE Kicked
    BY <1>15 DEF Kicked, ReconnectBlocks, Hang, Revoke, CloseOnIo, fate, still,
       creds, machine, session, conn, threads, LineInv, LineType,
       ThreadType, Quiet
  <1>16. CASE Lost
    BY <1>16 DEF Lost, machine, session, creds, fate, still,
       DisconnectedBlocks, Disconnected, ReconnectBlocks, LineInv, LineType,
       ThreadType, Quiet
  <1>17. CASE UNCHANGED vars
    BY <1>17 DEF vars, machine, session, creds, conn, threads, fate, still,
       LineInv
  <1> QED
    BY <1>1, <1>2, <1>3, <1>4, <1>5, <1>6, <1>7, <1>8, <1>9, <1>10, <1>11,
       <1>12, <1>13, <1>14, <1>15, <1>16, <1>17 DEF Next, User, ConnectThread,
       IoThread

LEMMA ReauthInvStep ==
  ASSUME MachineType, LineType, ThreadType, LineInv, ReauthInv, OnceInv, [Next]_vars
  PROVE  ReauthInv'
  <1>1. CASE \/ StartWithPassword \/ StartWithSavedToken
    BY <1>1 DEF StartWithPassword, InFlight, ConnectBlocks, Hang, Begin,
       creds, conn, fate, still, machine, session, threads,
       StartWithSavedToken, LineInv, LineType, ThreadType, ReauthInv, OnceInv,
       MachineType, Works, Pending, Quiet, Kinds
  <1>2. CASE \/ StartWithSavedTokenAgain \/ SavedTokenExpired
    BY <1>2 DEF StartWithSavedTokenAgain, InFlight, machine, creds, conn,
       threads, fate, still, SavedTokenExpired, Revoke, session, LineInv,
       LineType, ThreadType, ReauthInv, OnceInv, MachineType, Works, Pending,
       Quiet, Kinds
  <1>3. CASE Logout
    BY <1>3 DEF Logout, ReconnectBlocks, Hang, Send, creds, Revoke, conn,
       fate, still, machine, session, threads, LineInv, LineType, ThreadType,
       ReauthInv, OnceInv, MachineType, Works, Pending, Quiet, Kinds
  <1>4. CASE Cancel
    BY <1>4 DEF Cancel, ReconnectBlocks, CloseBlocks, Hang, fate, still,
       machine, session, creds, conn, threads, LineInv, LineType, ThreadType,
       ReauthInv, OnceInv, MachineType, Works, Pending, Quiet, Kinds
  <1>5. CASE Tick
    BY <1>5 DEF Tick, SendRefresh, session, threads, fate, still, creds, conn,
       Send, Revoke, LineInv, LineType, ThreadType, ReauthInv, OnceInv,
       MachineType, Works, Pending, Quiet, Kinds
  <1>6. CASE \/ Expire \/ ReconnectDue \/ ReconnectFired \/ ConnectRefused
             \/ DialOk \/ DialFail
    BY <1>6 DEF Expire, machine, session, conn, threads, fate, still,
       ReconnectDue, creds, ReconnectFired, ConnectBlocks, Hang,
       ConnectRefused, DialOk, DialFail, LineInv, LineType, ThreadType,
       ReauthInv, OnceInv, MachineType, Works, Pending, Quiet, Kinds
  <1>7. CASE ConnectStart
    <2> SUFFICES ASSUME Works' PROVE ReauthInv'
      BY DEF ReauthInv
    <2>1. Works /\ UNCHANGED <<open, wire, io>> /\ ~notified' /\ cth' = "dialing"
      BY <1>7 DEF ConnectStart, Works, fate, still
    <2>2. ~open /\ wire = {} /\ io = Quiet
      BY <1>7 DEF ConnectStart, LineInv
    <2>3. st' = "Authenticated" => reauth'
      BY <1>7, <2>1, <2>2 DEF ConnectStart, Disconnected, machine, session,
         ReauthInv, LineType
    <2> QED
      BY <2>1, <2>2, <2>3 DEF ReauthInv, Pending, Quiet
  <1>8. CASE DialAborted
    BY <1>8 DEF DialAborted, machine, session, creds, fate, still,
       DisconnectedBlocks, Disconnected, ReconnectBlocks, LineInv, LineType,
       ThreadType, ReauthInv, OnceInv, MachineType, Works, Pending, Quiet,
       Kinds
  <1>9. CASE ConnectOk
    <2> SUFFICES ASSUME Works' PROVE ReauthInv'
      BY DEF ReauthInv
    <2>1. Works /\ cth' = "idle"
      BY <1>9, ConnectOkDoes DEF Works, session, conn
    <2>2. st # "Authenticated" \/ reauth
      BY <1>9, <2>1, ConnectOkDoes DEF ReauthInv
    <2>3. st' # "Authenticated"
      BY <1>9, <2>1, <2>2, ConnectOkDoes DEF Works, SendRefresh, machine,
         TokenLoginDue
    <2> QED
      BY <2>1, <2>3 DEF ReauthInv
  <1>10. CASE ConnectFail
    BY <1>10 DEF ConnectFail, DisconnectedBlocks, Hang, session, creds,
       conn, fate, still, machine, threads, ReconnectBlocks, LineInv, LineType,
       ThreadType, ReauthInv, OnceInv, MachineType, Works, Pending, Quiet,
       Kinds
  <1>11. CASE \/ (\E k \in Kinds, ok \in BOOLEAN : Answer(k, ok)) \/ Late
              \/ Kick
    <2>1. /\ UNCHANGED <<machine, session, creds, open, notified, cth, rth, stuck, world>>
          /\ \A k \in {"login", "token", "refresh"} : Pending(k)' => Pending(k)
      BY <1>11 DEF Answer, Late, Kick, fate, still, conn, Pending, Quiet
    <2> QED
      BY <2>1 DEF ReauthInv, Works, machine, session
  <1>12. CASE LoginDone
    BY <1>12 DEF LoginDone, Current, creds, Took, session, fate, still,
       LineInv, LineType, ThreadType, ReauthInv, OnceInv, MachineType, Works,
       Pending, Quiet, Kinds
  <1>13. CASE RefreshDone
    BY <1>13 DEF RefreshDone, Current, creds, SendTokenLogin, Took, fate,
       still, LineInv, LineType, ThreadType, ReauthInv, OnceInv, MachineType,
       Works, Pending, Quiet, Kinds
  <1>14. CASE \/ RefreshRefused \/ LogoutDone
    <2>1. /\ UNCHANGED <<reauth, open, notified, cth, stuck, world>>
          /\ st' = "Authenticated" => st = "Authenticated"
          /\ \A k \in {"login", "token", "refresh"} : Pending(k)' => Pending(k)
      BY <1>14 DEF RefreshRefused, LogoutDone, fate, still, session, Pending,
         Quiet
    <2> QED
      BY <2>1 DEF ReauthInv, Works
  <1>15. CASE Kicked
    BY <1>15 DEF Kicked, ReconnectBlocks, Hang, Revoke, CloseOnIo, fate, still,
       creds, machine, session, conn, threads, LineInv, LineType,
       ThreadType, ReauthInv, OnceInv, MachineType, Works, Pending, Quiet,
       Kinds
  <1>16. CASE Lost
    BY <1>16 DEF Lost, machine, session, creds, fate, still,
       DisconnectedBlocks, Disconnected, ReconnectBlocks, LineInv, LineType,
       ThreadType, ReauthInv, OnceInv, MachineType, Works, Pending, Quiet,
       Kinds
  <1>17. CASE UNCHANGED vars
    BY <1>17 DEF vars, machine, session, creds, conn, threads, fate, still,
       ReauthInv, Works, Pending
  <1> QED
    BY <1>1, <1>2, <1>3, <1>4, <1>5, <1>6, <1>7, <1>8, <1>9, <1>10, <1>11,
       <1>12, <1>13, <1>14, <1>15, <1>16, <1>17 DEF Next, User, ConnectThread,
       IoThread

(* What is sent on a new connection while the store works: nothing, a      *)
(* login, a login with the token, or a refresh.                            *)
OneSent ==
  \/ /\ UNCHANGED <<machine, creds, conn>> /\ ~TokenLoginDue /\ (reauth \/ ~InFlight)
  \/ /\ ~reauth /\ st = "Authenticating" /\ UNCHANGED <<machine, creds>>
     /\ sent' = [sent EXCEPT !["login"] = gen] /\ wire' \in {wire, wire \cup {"login"}}
  \/ /\ TokenLoginDue /\ st' = "Authenticating" /\ UNCHANGED creds
     /\ sent' = [sent EXCEPT !["token"] = gen'] /\ wire' \in {wire, wire \cup {"token"}}
  \/ TokenLoginDue /\ st' = "LoggedOut" /\ wire' = {} /\ io = Quiet
  \/ /\ ~reauth /\ st = "Refreshing" /\ st' = "Refreshing" /\ UNCHANGED <<gen, tok>>
     /\ sent' = [sent EXCEPT !["refresh"] = gen] /\ wire' \in {wire, wire \cup {"refresh"}}
     /\ inflight'
  \/ /\ ~reauth /\ st = "Refreshing" /\ st' = "Kicked" /\ tok' = "none"
     /\ UNCHANGED <<gen, conn>>

LEMMA ConnectOkWorks ==
  ASSUME ConnectOk, LineType, ReauthInv, Works'
  PROVE  /\ Works /\ UNCHANGED <<io, world, afterRefresh>> /\ OneSent
         /\ ~reauth => \A k \in {"login", "token", "refresh"} : ~Pending(k)
         /\ st # "Authenticated" \/ reauth
  <1>1. Works /\ UNCHANGED <<io, world, afterRefresh>> /\ cth = "ok" /\ ~stuck'
    BY ConnectOkDoes DEF Works
  <1>2. /\ ~reauth => \A k \in {"login", "token", "refresh"} : ~Pending(k)
        /\ st # "Authenticated" \/ reauth
    BY <1>1 DEF ReauthInv
  <1>3. CASE /\ ~reauth /\ st = "Refreshing" /\ UNCHANGED gen
             /\ \E saved \in world.saves, signed \in world.signs :
                   SendRefresh(gen, saved, signed)
    <2>1. PICK signed \in world.signs : SendRefresh(gen, TRUE, signed)
      BY <1>1, <1>3 DEF Works
    <2> QED
      BY <1>1, <1>2, <1>3, <2>1 DEF SendRefresh, Send, Revoke, Works, OneSent
  <1>4. CASE ~(/\ ~reauth /\ st = "Refreshing" /\ UNCHANGED gen
               /\ \E saved \in world.saves, signed \in world.signs :
                     SendRefresh(gen, saved, signed))
    BY <1>1, <1>2, <1>4, ConnectOkDoes DEF Send, OneSent
  <1> QED
    BY <1>3, <1>4

(* tick() sends a refresh; or the device key does not sign, and the        *)
(* credentials are gone.                                                   *)
OneRefresh ==
  \/ /\ st' = "Refreshing" /\ inflight' /\ UNCHANGED tok
     /\ sent' = [sent EXCEPT !["refresh"] = gen + 1]
     /\ wire' = IF open THEN wire \cup {"refresh"} ELSE wire
  \/ st' = "Kicked" /\ tok' = "none" /\ UNCHANGED <<wire, sent>>

LEMMA TickWorks ==
  ASSUME Tick, Works
  PROVE  OneRefresh /\ gen' = gen + 1 /\ UNCHANGED io /\ st = "Authenticated"
  <1>1. st = "Authenticated" /\ gen' = gen + 1 /\ UNCHANGED io
    BY DEF Tick, threads
  <1>2. PICK signed \in world.signs : SendRefresh(gen + 1, TRUE, signed)
    BY DEF Tick, Works
  <1> QED
    BY <1>1, <1>2 DEF SendRefresh, Send, Revoke, Works, conn, OneRefresh

(* Delivering, dropping and kicking bring nothing new under way. *)
LEMMA AnswersMove ==
  ASSUME (\E k \in Kinds, ok \in BOOLEAN : Answer(k, ok)) \/ Late \/ Kick,
         ThreadType, SentType, OnceInv
  PROVE  /\ UNCHANGED <<machine, session, creds, cth, fate>>
         /\ Works => \A k \in {"login", "refresh"} :
                       Pending(k)' => Pending(k) /\ sent'[k] = sent[k]
  <1>1. UNCHANGED <<machine, session, creds, cth, fate>>
    BY DEF Answer, Late, Kick
  <1>2. CASE Late
    <2>1. /\ io' = Quiet /\ UNCHANGED wire
          /\ \A k \in Kinds : sent'[k] = sent[k] \/ k = io.kind
      BY <1>2 DEF Late, Took, SentType
    <2> QED
      BY <1>1, <2>1 DEF OnceInv, Pending, Quiet, Kinds
  <1>3. CASE ~Late
    <2>1. \/ /\ \E k \in wire : io'.kind = k /\ wire' = wire \ {k}
             /\ UNCHANGED sent
          \/ io'.kind = "kick" /\ UNCHANGED <<wire, sent>>
      BY <1>3 DEF Answer, Kick, conn
    <2> QED
      BY <1>1, <2>1 DEF Pending
  <1> QED
    BY <1>2, <1>3

LEMMA OnceInvStep ==
  ASSUME MachineType, GenType, CredType, LineType, SentType, ThreadType,
         LineInv, SentInv, ReauthInv, OnceInv, [Next]_vars
  PROVE  OnceInv'
  <1>1. CASE \/ StartWithPassword \/ StartWithSavedToken
    <2> SUFFICES ASSUME Works' PROVE OnceInv'
      BY DEF OnceInv
    <2>1. /\ UNCHANGED <<wire, io, sent, tok, inflight, stuck, world>>
          /\ st' \in {"Authenticating", "Refreshing"}
      BY <1>1 DEF StartWithPassword, StartWithSavedToken, Hang, Begin, Works,
         conn, creds, fate, still
    <2> QED
      BY <2>1 DEF OnceInv, Works, Pending
  <1>2. CASE \/ StartWithSavedTokenAgain \/ SavedTokenExpired
    BY <1>2 DEF StartWithSavedTokenAgain, InFlight, machine, creds, conn,
       threads, fate, still, SavedTokenExpired, Revoke, session, LineInv,
       LineType, ThreadType, SentType, ReauthInv, OnceInv, GenType, CredType,
       Works, Pending, Quiet, Kinds
  <1>3. CASE Logout
    BY <1>3 DEF Logout, ReconnectBlocks, Hang, Send, creds, Revoke, conn,
       fate, still, machine, session, threads, LineInv, LineType, ThreadType,
       SentType, ReauthInv, OnceInv, GenType, CredType, Works, Pending,
       Quiet, Kinds
  <1>4. CASE Cancel
    BY <1>4 DEF Cancel, ReconnectBlocks, CloseBlocks, Hang, fate, still,
       machine, session, creds, conn, threads, LineInv, LineType, ThreadType,
       SentType, ReauthInv, OnceInv, GenType, CredType, Works, Pending, Quiet,
       Kinds
  <1>5. CASE Tick
    <2> SUFFICES ASSUME Works' PROVE OnceInv'
      BY DEF OnceInv
    <2>1. /\ Works /\ st = "Authenticated" /\ tok = "stale" /\ ~inflight /\ UNCHANGED io
          /\ gen' = gen + 1
      BY <1>5, TickWorks DEF Tick, Works, fate, still
    <2>3. OneRefresh
      BY <1>5, <2>1, TickWorks
    <2>4. ~Pending("login") /\ ~Pending("refresh")
      BY <2>1 DEF OnceInv
    <2>5. \A k \in Kinds : k # "refresh" => (Pending(k)' <=> Pending(k)) /\ sent'[k] = sent[k]
      BY <2>1, <2>3 DEF Pending, SentType, OneRefresh
    <2>6. io.kind # "refresh" /\ (Pending("refresh")' => sent'["refresh"] # 0 /\ (inflight' \/ tok' = "none"))
      BY <2>1, <2>3, <2>4 DEF OneRefresh, Pending, SentType, GenType, Kinds
    <2>7. \/ st' = "Refreshing" \/ st' = "Kicked"
      BY <2>3 DEF OneRefresh
    <2> QED
      BY <2>1, <2>4, <2>5, <2>6, <2>7 DEF OnceInv, Kinds, Pending
  <1>6. CASE \/ Expire \/ ReconnectDue \/ ReconnectFired \/ ConnectRefused
             \/ DialOk \/ DialFail
    BY <1>6 DEF Expire, machine, session, conn, threads, fate, still,
       ReconnectDue, creds, ReconnectFired, ConnectBlocks, Hang,
       ConnectRefused, DialOk, DialFail, LineInv, LineType, ThreadType,
       SentType, ReauthInv, OnceInv, GenType, CredType, Works, Pending, Quiet,
       Kinds
  <1>7. CASE ConnectStart
    BY <1>7 DEF ConnectStart, machine, session, creds, fate, still,
       DisconnectedBlocks, Disconnected, ReconnectBlocks, LineInv, LineType,
       ThreadType, SentType, ReauthInv, OnceInv, GenType, CredType, Works,
       Pending, Quiet, Kinds
  <1>8. CASE DialAborted
    BY <1>8 DEF DialAborted, machine, session, creds, fate, still,
       DisconnectedBlocks, Disconnected, ReconnectBlocks, LineInv, LineType,
       ThreadType, SentType, ReauthInv, OnceInv, GenType, CredType, Works,
       Pending, Quiet, Kinds
  <1>9. CASE ConnectOk
    <2> SUFFICES ASSUME Works' PROVE OnceInv'
      BY DEF OnceInv
    <2>1. Works /\ UNCHANGED io
      BY <1>9, ConnectOkWorks
    <2>2. /\ ~reauth => \A k \in {"login", "token", "refresh"} : ~Pending(k)
          /\ st # "Authenticated" \/ reauth
      BY <1>9, ConnectOkWorks
    <2>3. OneSent
      BY <1>9, ConnectOkWorks
    <2>4. TokenLoginDue => ~Pending("login")
      BY <2>1, <2>2 DEF TokenLoginDue, OnceInv
    <2>5. "login" \in Kinds /\ "refresh" \in Kinds /\ "token" \in Kinds
      BY DEF Kinds
    <2>6. st \in {"Authenticating", "Refreshing"} => gen # 0
      BY DEF InFlight, SentInv
    <2> QED
      BY <2>1, <2>2, <2>3, <2>4, <2>5, <2>6 DEF OneSent, OnceInv, Pending,
         Quiet, SentType, machine, creds, conn
  <1>10. CASE ConnectFail
    BY <1>10 DEF ConnectFail, DisconnectedBlocks, Hang, session, creds,
       conn, fate, still, machine, threads, ReconnectBlocks, LineInv, LineType,
       ThreadType, SentType, ReauthInv, OnceInv, GenType, CredType, Works,
       Pending, Quiet, Kinds
  <1>11. CASE \/ (\E k \in Kinds, ok \in BOOLEAN : Answer(k, ok)) \/ Late
              \/ Kick
    <2> SUFFICES ASSUME Works' PROVE OnceInv'
      BY DEF OnceInv
    <2>1. Works /\ UNCHANGED <<st, tok, inflight>>
      <3>1. UNCHANGED <<stuck, world, st, tok, inflight>>
        BY <1>11 DEF Answer, Late, Kick, machine, creds, fate, still
      <3> QED
        BY <3>1 DEF Works
    <2>2. CASE Late
      <3>1. /\ io' = Quiet /\ UNCHANGED wire
            /\ \A k \in Kinds : sent'[k] = sent[k] \/ k = io.kind
        BY <2>2 DEF Late, Took, SentType
      <3> QED
        BY <2>1, <3>1 DEF OnceInv, Pending, Quiet, Kinds
    <2>3. CASE ~Late
      <3>1. \/ /\ \E k \in wire : io'.kind = k /\ wire' = wire \ {k}
               /\ UNCHANGED sent /\ io = Quiet
            \/ io'.kind = "kick" /\ UNCHANGED <<wire, sent>> /\ io = Quiet
        BY <1>11, <2>3 DEF Answer, Kick, conn
      <3> QED
        BY <2>1, <3>1 DEF OnceInv, Pending, Quiet
    <2> QED
      BY <2>2, <2>3
  <1>12. CASE LoginDone
    BY <1>12 DEF LoginDone, Current, creds, Took, session, fate, still,
       LineInv, LineType, ThreadType, SentType, ReauthInv, OnceInv, GenType,
       CredType, Works, Pending, Quiet, Kinds
  <1>13. CASE RefreshDone
    BY <1>13 DEF RefreshDone, Current, creds, SendTokenLogin, Took, fate,
       still, LineInv, LineType, ThreadType, SentType, ReauthInv, OnceInv,
       GenType, CredType, Works, Pending, Quiet, Kinds
  <1>14. CASE \/ RefreshRefused \/ LogoutDone
    <2> SUFFICES ASSUME Works' PROVE OnceInv'
      BY DEF OnceInv
    <2>1. /\ Works /\ io' = Quiet /\ UNCHANGED wire /\ tok' = "none"
          /\ st' = "Authenticated" => st = "Authenticated"
      <3>1. /\ UNCHANGED <<stuck, world, wire>> /\ io' = Quiet
            /\ \E removed \in world.saves : Revoke(removed)
            /\ st' = "Authenticated" => st = "Authenticated"
        BY <1>14 DEF RefreshRefused, LogoutDone, fate, still
      <3>2. Works
        BY <3>1 DEF Works
      <3>3. Revoke(TRUE)
        BY <3>1, <3>2 DEF Works
      <3> QED
        BY <3>1, <3>2, <3>3 DEF Revoke
    <2>2. \A k \in Kinds : sent'[k] = sent[k] \/ k = io.kind
      BY <1>14 DEF RefreshRefused, LogoutDone, Took, SentType
    <2> QED
      BY <2>1, <2>2 DEF OnceInv, Pending, Quiet, Kinds
  <1>15. CASE Kicked
    BY <1>15 DEF Kicked, ReconnectBlocks, Hang, Revoke, CloseOnIo, fate, still,
       creds, machine, session, conn, threads, LineInv, LineType,
       ThreadType, SentType, ReauthInv, OnceInv, GenType, CredType, Works,
       Pending, Quiet, Kinds
  <1>16. CASE Lost
    BY <1>16 DEF Lost, machine, session, creds, fate, still,
       DisconnectedBlocks, Disconnected, ReconnectBlocks, LineInv, LineType,
       ThreadType, SentType, ReauthInv, OnceInv, GenType, CredType, Works,
       Pending, Quiet, Kinds
  <1>17. CASE UNCHANGED vars
    BY <1>17 DEF vars, machine, session, creds, conn, threads, fate, still,
       OnceInv, Works, Pending
  <1> QED
    BY <1>1, <1>2, <1>3, <1>4, <1>5, <1>6, <1>7, <1>8, <1>9, <1>10, <1>11,
       <1>12, <1>13, <1>14, <1>15, <1>16, <1>17 DEF Next, User, ConnectThread,
       IoThread

LEMMA KickedInvStep ==
  ASSUME MachineType, GenType, CredType, LineType, SentType, ThreadType,
         LineInv, SentInv, ReauthInv, OnceInv, KickedInv, [Next]_vars
  PROVE  KickedInv'
  <1>1. CASE \/ StartWithPassword \/ StartWithSavedToken
    BY <1>1 DEF StartWithPassword, InFlight, ConnectBlocks, Hang, Begin,
       creds, conn, fate, still, machine, session, threads,
       StartWithSavedToken, LineInv, ThreadType, SentType, SentInv, OnceInv,
       KickedInv, GenType, Works, Pending, Quiet, Kinds
  <1>2. CASE \/ StartWithSavedTokenAgain \/ SavedTokenExpired
    BY <1>2 DEF StartWithSavedTokenAgain, InFlight, machine, creds, conn,
       threads, fate, still, SavedTokenExpired, Revoke, session, LineInv,
       ThreadType, SentType, SentInv, OnceInv, KickedInv, GenType, Works,
       Pending, Quiet, Kinds
  <1>3. CASE Logout
    <2> SUFFICES ASSUME world'.saves = {TRUE}, st' = "Kicked" PROVE KickedInv'
      BY DEF KickedInv
    <2>1. CASE ReconnectBlocks
      <3>1. stuck' /\ UNCHANGED <<st, tok, world>>
        BY <1>3, <2>1 DEF Logout, Hang, still, machine, creds
      <3> QED
        BY <3>1 DEF KickedInv
    <2>2. CASE ~ReconnectBlocks
      <3>1. PICK signed \in world.signs :
              IF signed
              THEN Send("logout", gen + 1) /\ UNCHANGED <<st, method, creds>>
              ELSE st' = "LoggedOut"
        BY <1>3, <2>2 DEF Logout
      <3>2. UNCHANGED <<io, stuck, world>> /\ gen' = gen + 1
        BY <1>3, <2>2 DEF Logout, fate, still
      <3>3. Send("logout", gen + 1) /\ UNCHANGED <<st, tok>>
        BY <3>1 DEF creds
      <3>4. \A k \in {"login", "refresh"} : (k \in wire' => k \in wire) /\ sent'[k] = sent[k]
        BY <3>3 DEF Send, SentType
      <3>5. \A k \in {"login", "refresh"} : sent[k] # gen + 1
        BY DEF SentInv, SentType, GenType, Kinds
      <3> QED
        BY <3>2, <3>3, <3>4, <3>5 DEF KickedInv, Pending
    <2> QED
      BY <2>1, <2>2
  <1>4. CASE Cancel
    BY <1>4 DEF Cancel, ReconnectBlocks, CloseBlocks, Hang, fate, still,
       machine, session, creds, conn, threads, LineInv, ThreadType, SentType,
       SentInv, OnceInv, KickedInv, GenType, Works, Pending, Quiet, Kinds
  <1>5. CASE Tick
    <2> SUFFICES ASSUME world'.saves = {TRUE}, st' = "Kicked" PROVE KickedInv'
      BY DEF KickedInv
    <2>1. Works
      BY <1>5 DEF Tick, fate, still, Works
    <2>2. /\ tok' = "none" /\ UNCHANGED <<wire, sent, io>> /\ gen' = gen + 1
      BY <1>5, <2>1, TickWorks DEF OneRefresh
    <2>3. \A k \in {"login", "refresh"} : sent[k] # gen + 1
      BY DEF SentInv, SentType, GenType, Kinds
    <2> QED
      BY <2>2, <2>3 DEF KickedInv
  <1>6. CASE \/ Expire \/ ReconnectDue \/ ReconnectFired \/ ConnectRefused
             \/ DialOk \/ DialFail
    BY <1>6 DEF Expire, machine, session, conn, threads, fate, still,
       ReconnectDue, creds, ReconnectFired, ConnectBlocks, Hang,
       ConnectRefused, DialOk, DialFail, LineInv, ThreadType, SentType,
       SentInv, OnceInv, KickedInv, GenType, Works, Pending, Quiet, Kinds
  <1>7. CASE ConnectStart
    BY <1>7 DEF ConnectStart, machine, session, creds, fate, still,
       DisconnectedBlocks, Disconnected, ReconnectBlocks, LineInv,
       ThreadType, SentType, SentInv, OnceInv, KickedInv, GenType, Works,
       Pending, Quiet, Kinds
  <1>8. CASE DialAborted
    BY <1>8 DEF DialAborted, machine, session, creds, fate, still,
       DisconnectedBlocks, Disconnected, ReconnectBlocks, LineInv,
       ThreadType, SentType, SentInv, OnceInv, KickedInv, GenType, Works,
       Pending, Quiet, Kinds
  <1>9. CASE ConnectOk
    <2> SUFFICES ASSUME world'.saves = {TRUE}, st' = "Kicked" PROVE KickedInv'
      BY DEF KickedInv
    <2>1. UNCHANGED world
      BY <1>9, ConnectOkDoes
    <2>2. CASE stuck'
      <3>1. UNCHANGED <<st, tok>>
        BY <1>9, <2>2, ConnectOkDoes DEF machine, creds
      <3> QED
        BY <2>1, <2>2, <3>1 DEF KickedInv
    <2>3. CASE ~stuck'
      <3>1. Works'
        BY <2>3 DEF Works
      <3>2. /\ Works /\ UNCHANGED io /\ OneSent
            /\ ~reauth => \A k \in {"login", "refresh"} : ~Pending(k)
        BY <1>9, <3>1, ConnectOkWorks
      <3>3. \/ UNCHANGED <<machine, creds, conn>>
            \/ /\ \A k \in {"login", "refresh"} : ~Pending(k)
               /\ tok' = "none" /\ UNCHANGED conn
        BY <3>2 DEF OneSent, machine
      <3> QED
        BY <2>1, <3>2, <3>3 DEF KickedInv, Pending, conn, machine, creds, Works
    <2> QED
      BY <2>2, <2>3
  <1>10. CASE ConnectFail
    BY <1>10 DEF ConnectFail, DisconnectedBlocks, Hang, session, creds, conn,
       fate, still, machine, threads, ReconnectBlocks, LineInv, ThreadType,
       SentType, SentInv, OnceInv, KickedInv, GenType, Works, Pending, Quiet,
       Kinds
  <1>11. CASE \/ (\E k \in Kinds, ok \in BOOLEAN : Answer(k, ok)) \/ Late
              \/ Kick
    <2>1. /\ UNCHANGED <<machine, session, creds, cth, fate>>
          /\ Works => \A k \in {"login", "refresh"} :
                        Pending(k)' => Pending(k) /\ sent'[k] = sent[k]
      BY <1>11, AnswersMove
    <2>2. UNCHANGED <<st, gen, tok, stuck, world>>
      BY <2>1 DEF machine, creds, fate, still
    <2> QED
      BY <2>1, <2>2 DEF KickedInv, Works
  <1>12. CASE LoginDone
    BY <1>12 DEF LoginDone, Current, creds, Took, session, fate, still,
       LineInv, ThreadType, SentType, SentInv, OnceInv, KickedInv, GenType,
       Works, Pending, Quiet, Kinds
  <1>13. CASE RefreshDone
    BY <1>13 DEF RefreshDone, Current, creds, SendTokenLogin, Took, fate,
       still, LineInv, ThreadType, SentType, SentInv, OnceInv, KickedInv,
       GenType, Works, Pending, Quiet, Kinds
  <1>14. CASE \/ RefreshRefused \/ LogoutDone
    <2> SUFFICES ASSUME world'.saves = {TRUE}, st' = "Kicked" PROVE KickedInv'
      BY DEF KickedInv
    <2>1. /\ RefreshRefused /\ ~stuck /\ io' = Quiet /\ io.kind = "refresh"
          /\ UNCHANGED <<wire, world, stuck, gen>>
      BY <1>14 DEF RefreshRefused, LogoutDone, fate, still
    <2>2. Works /\ Revoke(TRUE)
      BY <2>1 DEF RefreshRefused, Works
    <2>3. \A k \in {"login", "refresh"} : k \notin wire
      BY <2>1, <2>2 DEF OnceInv, Pending
    <2> QED
      BY <2>1, <2>2, <2>3 DEF KickedInv, Revoke, Pending, Quiet
  <1>15. CASE Kicked
    <2> SUFFICES ASSUME world'.saves = {TRUE}, st' = "Kicked" PROVE KickedInv'
      BY DEF KickedInv
    <2>1. \/ stuck' /\ UNCHANGED <<st, tok, world>>
          \/ /\ wire' = {} /\ io' = Quiet /\ UNCHANGED <<world, stuck>>
             /\ \E removed \in world.saves : Revoke(removed)
      BY <1>15 DEF Kicked, Hang, CloseOnIo, machine, creds, fate, still
    <2>2. CASE stuck' /\ UNCHANGED <<st, tok, world>>
      BY <2>2 DEF KickedInv
    <2>3. CASE /\ wire' = {} /\ io' = Quiet /\ UNCHANGED <<world, stuck>>
               /\ \E removed \in world.saves : Revoke(removed)
      <3>1. Revoke(TRUE)
        BY <2>3
      <3> QED
        BY <2>3, <3>1 DEF Revoke, KickedInv, Pending, Quiet
    <2> QED
      BY <2>1, <2>2, <2>3
  <1>16. CASE Lost
    BY <1>16 DEF Lost, machine, session, creds, fate, still,
       DisconnectedBlocks, Disconnected, ReconnectBlocks, LineInv, ThreadType,
       SentType, SentInv, OnceInv, KickedInv, GenType, Works, Pending, Quiet,
       Kinds
  <1>17. CASE UNCHANGED vars
    BY <1>17 DEF vars, machine, session, creds, conn, threads, fate, still,
       KickedInv, Pending
  <1> QED
    BY <1>1, <1>2, <1>3, <1>4, <1>5, <1>6, <1>7, <1>8, <1>9, <1>10, <1>11,
       <1>12, <1>13, <1>14, <1>15, <1>16, <1>17 DEF Next, User, ConnectThread,
       IoThread

LEMMA RefreshInvStep ==
  ASSUME MachineType, GenType, CredType, SessionType, SentType, ThreadType,
         LineType, LineInv, SentInv, ReauthInv, OnceInv, RefreshInv, [Next]_vars
  PROVE  RefreshInv'
  <1>1. CASE \/ StartWithPassword \/ StartWithSavedToken
    <2> SUFFICES ASSUME Works', ~world'.ticks, st' = "Refreshing" PROVE RefreshInv'
      BY DEF RefreshInv
    <2>1. /\ tok = "stale" /\ afterRefresh' /\ UNCHANGED <<tok, sent>> /\ gen' = gen + 1
      BY <1>1 DEF StartWithPassword, StartWithSavedToken, Begin, Hang, Works,
         creds, conn, CredType
    <2>2. sent["login"] # gen + 1
      BY DEF SentInv, SentType, GenType, Kinds
    <2> QED
      BY <2>1, <2>2 DEF RefreshInv
  <1>2. CASE \/ StartWithSavedTokenAgain \/ SavedTokenExpired
    BY <1>2 DEF StartWithSavedTokenAgain, InFlight, machine, creds, conn,
       threads, fate, still, SavedTokenExpired, Revoke, session, LineInv,
       ThreadType, SentType, SentInv, OnceInv, RefreshInv, GenType,
       CredType, Works, Pending, Quiet, Kinds
  <1>3. CASE Logout
    <2> SUFFICES ASSUME Works', ~world'.ticks, st' = "Refreshing" PROVE RefreshInv'
      BY DEF RefreshInv
    <2>1. ~ReconnectBlocks
      BY <1>3 DEF Logout, Hang, Works
    <2>2. PICK signed \in world.signs :
            IF signed
            THEN Send("logout", gen + 1) /\ UNCHANGED <<st, method, creds>>
            ELSE st' = "LoggedOut"
      BY <1>3, <2>1 DEF Logout
    <2>3. UNCHANGED <<io, stuck, world, afterRefresh>> /\ gen' = gen + 1
      BY <1>3, <2>1 DEF Logout, fate, still
    <2>4. Send("logout", gen + 1) /\ UNCHANGED <<st, tok>>
      BY <2>2 DEF creds
    <2>5. sent'["login"] = sent["login"]
      BY <2>4 DEF Send, SentType
    <2>6. sent["login"] # gen + 1
      BY DEF SentInv, SentType, GenType, Kinds
    <2> QED
      BY <2>3, <2>4, <2>5, <2>6 DEF RefreshInv, Works
  <1>4. CASE Cancel
    BY <1>4 DEF Cancel, ReconnectBlocks, CloseBlocks, Hang, fate, still,
       machine, session, creds, conn, threads, LineInv, ThreadType, SentType,
       SentInv, OnceInv, RefreshInv, GenType, CredType, Works, Pending, Quiet,
       Kinds
  <1>5. CASE Tick
    BY <1>5 DEF Tick, SendRefresh, session, threads, fate, still, creds, conn,
       Send, Revoke, LineInv, ThreadType, SentType, SentInv, OnceInv,
       RefreshInv, GenType, CredType, Works, Pending, Quiet, Kinds
  <1>6. CASE \/ Expire \/ ReconnectDue \/ ReconnectFired \/ ConnectRefused
             \/ DialOk \/ DialFail
    BY <1>6 DEF Expire, machine, session, conn, threads, fate, still,
       ReconnectDue, creds, ReconnectFired, ConnectBlocks, Hang,
       ConnectRefused, DialOk, DialFail, LineInv, ThreadType, SentType,
       SentInv, OnceInv, RefreshInv, GenType, CredType, Works, Pending, Quiet,
       Kinds
  <1>7. CASE ConnectStart
    BY <1>7 DEF ConnectStart, machine, session, creds, fate, still,
       DisconnectedBlocks, Disconnected, ReconnectBlocks, LineInv,
       ThreadType, SentType, SentInv, OnceInv, RefreshInv, GenType,
       CredType, Works, Pending, Quiet, Kinds
  <1>8. CASE DialAborted
    BY <1>8 DEF DialAborted, machine, session, creds, fate, still,
       DisconnectedBlocks, Disconnected, ReconnectBlocks, LineInv,
       ThreadType, SentType, SentInv, OnceInv, RefreshInv, GenType,
       CredType, Works, Pending, Quiet, Kinds
  <1>9. CASE ConnectOk
    <2> SUFFICES ASSUME Works', ~world'.ticks, st' = "Refreshing" PROVE RefreshInv'
      BY DEF RefreshInv
    <2>1. Works /\ ~world.ticks /\ UNCHANGED <<io, afterRefresh>>
      BY <1>9, ConnectOkDoes DEF Works
    <2>2. CASE UNCHANGED <<machine, creds, conn>>
      BY <2>1, <2>2 DEF RefreshInv, Works, Pending, machine, creds, conn
    <2>3. CASE ~UNCHANGED <<machine, creds, conn>>
      <3>1. st = "Refreshing" /\ UNCHANGED <<gen, tok>> /\ Send("refresh", gen)
        BY <1>9, <2>3, ConnectOkDoes DEF Works, SendRefresh, Send, machine, creds, conn
      <3> QED
        BY <2>1, <3>1 DEF RefreshInv, Works, Pending, Send, SentType, Kinds
    <2> QED
      BY <2>2, <2>3
  <1>10. CASE ConnectFail
    BY <1>10 DEF ConnectFail, DisconnectedBlocks, Hang, session, creds, conn,
       fate, still, machine, threads, ReconnectBlocks, LineInv, ThreadType,
       SentType, SentInv, OnceInv, RefreshInv, GenType, CredType, Works,
       Pending, Quiet, Kinds
  <1>11. CASE \/ (\E k \in Kinds, ok \in BOOLEAN : Answer(k, ok)) \/ Late
              \/ Kick
    <2>1. /\ UNCHANGED <<machine, session, creds, cth, fate>>
          /\ Works => \A k \in {"login", "refresh"} :
                        Pending(k)' => Pending(k) /\ sent'[k] = sent[k]
      BY <1>11, AnswersMove
    <2>2. UNCHANGED <<st, gen, tok, stuck, world, afterRefresh>>
      BY <2>1 DEF machine, creds, fate, still, session
    <2> QED
      BY <2>1, <2>2 DEF RefreshInv, Works
  <1>12. CASE LoginDone
    BY <1>12 DEF LoginDone, Current, creds, Took, session, fate, still,
       LineInv, ThreadType, SentType, SentInv, OnceInv, RefreshInv, GenType,
       CredType, Works, Pending, Quiet, Kinds
  <1>13. CASE RefreshDone
    BY <1>13 DEF RefreshDone, Current, creds, SendTokenLogin, Took, fate,
       still, LineInv, ThreadType, SentType, SentInv, OnceInv, RefreshInv,
       GenType, CredType, Works, Pending, Quiet, Kinds
  <1>14. CASE \/ RefreshRefused \/ LogoutDone
    BY <1>14 DEF RefreshRefused, Current, Took, Revoke, session, fate, still,
       creds, LogoutDone, LineInv, ThreadType, SentType, SentInv, OnceInv,
       RefreshInv, GenType, CredType, Works, Pending, Quiet, Kinds
  <1>15. CASE Kicked
    BY <1>15 DEF Kicked, ReconnectBlocks, Hang, Revoke, CloseOnIo, fate, still,
       creds, machine, session, conn, threads, LineInv, ThreadType,
       SentType, SentInv, OnceInv, RefreshInv, GenType, CredType, Works,
       Pending, Quiet, Kinds
  <1>16. CASE Lost
    BY <1>16 DEF Lost, machine, session, creds, fate, still,
       DisconnectedBlocks, Disconnected, ReconnectBlocks, LineInv, ThreadType,
       SentType, SentInv, OnceInv, RefreshInv, GenType, CredType, Works,
       Pending, Quiet, Kinds
  <1>17. CASE UNCHANGED vars
    BY <1>17 DEF vars, machine, session, creds, conn, threads, fate, still,
       RefreshInv, Works, Pending
  <1> QED
    BY <1>1, <1>2, <1>3, <1>4, <1>5, <1>6, <1>7, <1>8, <1>9, <1>10, <1>11,
       <1>12, <1>13, <1>14, <1>15, <1>16, <1>17 DEF Next, User, ConnectThread,
       IoThread

LEMMA BoundStep ==
  ASSUME MachineType, SessionType, LineType, ThreadType,
         LineInv, ReauthInv, RefreshInv, AuthenticatedIsBound, [Next]_vars
  PROVE  AuthenticatedIsBound'
  <1>1. CASE \/ StartWithPassword \/ StartWithSavedToken
    BY <1>1 DEF StartWithPassword, InFlight, ConnectBlocks, Hang, Begin,
       creds, conn, fate, still, machine, session, threads,
       StartWithSavedToken, LineInv, LineType, ThreadType, ReauthInv,
       RefreshInv, AuthenticatedIsBound, MachineType, Works, Pending, Quiet,
       Kinds
  <1>2. CASE \/ StartWithSavedTokenAgain \/ SavedTokenExpired
    BY <1>2 DEF StartWithSavedTokenAgain, InFlight, machine, creds, conn,
       threads, fate, still, SavedTokenExpired, Revoke, session, LineInv,
       LineType, ThreadType, ReauthInv, RefreshInv, AuthenticatedIsBound,
       MachineType, Works, Pending, Quiet, Kinds
  <1>3. CASE Logout
    BY <1>3 DEF Logout, ReconnectBlocks, Hang, Send, creds, Revoke, conn,
       fate, still, machine, session, threads, LineInv, LineType, ThreadType,
       ReauthInv, RefreshInv, AuthenticatedIsBound, MachineType, Works,
       Pending, Quiet, Kinds
  <1>4. CASE Cancel
    BY <1>4 DEF Cancel, ReconnectBlocks, CloseBlocks, Hang, fate, still,
       machine, session, creds, conn, threads, LineInv, LineType, ThreadType,
       ReauthInv, RefreshInv, AuthenticatedIsBound, MachineType, Works,
       Pending, Quiet, Kinds
  <1>5. CASE Tick
    BY <1>5 DEF Tick, SendRefresh, session, threads, fate, still, creds, conn,
       Send, Revoke, LineInv, LineType, ThreadType, ReauthInv, RefreshInv,
       AuthenticatedIsBound, MachineType, Works, Pending, Quiet, Kinds
  <1>6. CASE \/ Expire \/ ReconnectDue \/ ReconnectFired \/ ConnectRefused
             \/ DialOk \/ DialFail
    BY <1>6 DEF Expire, machine, session, conn, threads, fate, still,
       ReconnectDue, creds, ReconnectFired, ConnectBlocks, Hang,
       ConnectRefused, DialOk, DialFail, LineInv, LineType, ThreadType,
       ReauthInv, RefreshInv, AuthenticatedIsBound, MachineType, Works,
       Pending, Quiet, Kinds
  <1>7. CASE ConnectStart
    BY <1>7 DEF ConnectStart, machine, session, creds, fate, still,
       DisconnectedBlocks, Disconnected, ReconnectBlocks, LineInv, LineType,
       ThreadType, ReauthInv, RefreshInv, AuthenticatedIsBound, MachineType,
       Works, Pending, Quiet, Kinds
  <1>8. CASE DialAborted
    BY <1>8 DEF DialAborted, machine, session, creds, fate, still,
       DisconnectedBlocks, Disconnected, ReconnectBlocks, LineInv, LineType,
       ThreadType, ReauthInv, RefreshInv, AuthenticatedIsBound, MachineType,
       Works, Pending, Quiet, Kinds
  <1>9. CASE ConnectOk
    <2> SUFFICES ASSUME ~world'.ticks, world'.saves = {TRUE}, st' = "Authenticated", open'
                 PROVE  bound' \/ cth' = "ok"
      BY DEF AuthenticatedIsBound
    <2>1. CASE stuck'
      BY <1>9, <2>1, ConnectOkDoes
    <2>2. CASE ~stuck'
      <3>1. Works'
        BY <2>2 DEF Works
      <3>2. OneSent /\ (st # "Authenticated" \/ reauth)
        BY <1>9, <3>1, ConnectOkWorks
      <3> QED
        BY <3>2 DEF OneSent, TokenLoginDue, machine
    <2> QED
      BY <2>1, <2>2
  <1>10. CASE ConnectFail
    BY <1>10 DEF ConnectFail, DisconnectedBlocks, Hang, session, creds,
       conn, fate, still, machine, threads, ReconnectBlocks, LineInv, LineType,
       ThreadType, ReauthInv, RefreshInv, AuthenticatedIsBound, MachineType,
       Works, Pending, Quiet, Kinds
  <1>11. CASE \/ (\E k \in Kinds, ok \in BOOLEAN : Answer(k, ok)) \/ Late
              \/ Kick
    BY <1>11 DEF Answer, machine, session, creds, fate, still, Late, Current,
       Took, Kick, conn, LineInv, LineType, ThreadType, ReauthInv, RefreshInv,
       AuthenticatedIsBound, MachineType, Works, Pending, Quiet, Kinds
  <1>12. CASE LoginDone
    BY <1>12 DEF LoginDone, Current, creds, Took, session, fate, still,
       LineInv, LineType, ThreadType, ReauthInv, RefreshInv,
       AuthenticatedIsBound, MachineType, Works, Pending, Quiet, Kinds
  <1>13. CASE RefreshDone
    <2> SUFFICES ASSUME ~world'.ticks, world'.saves = {TRUE}, st' = "Authenticated", open'
                 PROVE  bound' \/ cth' = "ok"
      BY DEF AuthenticatedIsBound
    <2>1. Works /\ ~world.ticks /\ UNCHANGED cth
      BY <1>13 DEF RefreshDone, Works, fate, still
    <2>2. st = "Refreshing" => afterRefresh
      BY <2>1 DEF RefreshInv
    <2>3. st = "Authenticated" /\ UNCHANGED <<open, bound>>
      BY <1>13, <2>1, <2>2 DEF RefreshDone, SendTokenLogin, Works
    <2> QED
      BY <2>1, <2>3 DEF AuthenticatedIsBound, Works
  <1>14. CASE \/ RefreshRefused \/ LogoutDone
    BY <1>14 DEF RefreshRefused, Current, Took, Revoke, session, fate, still,
       creds, LogoutDone, LineInv, LineType, ThreadType, ReauthInv,
       RefreshInv, AuthenticatedIsBound, MachineType, Works, Pending, Quiet,
       Kinds
  <1>15. CASE Kicked
    BY <1>15 DEF Kicked, ReconnectBlocks, Hang, Revoke, CloseOnIo, fate, still,
       creds, machine, session, conn, threads, LineInv, LineType,
       ThreadType, ReauthInv, RefreshInv, AuthenticatedIsBound, MachineType,
       Works, Pending, Quiet, Kinds
  <1>16. CASE Lost
    BY <1>16 DEF Lost, machine, session, creds, fate, still,
       DisconnectedBlocks, Disconnected, ReconnectBlocks, LineInv, LineType,
       ThreadType, ReauthInv, RefreshInv, AuthenticatedIsBound, MachineType,
       Works, Pending, Quiet, Kinds
  <1>17. CASE UNCHANGED vars
    BY <1>17 DEF vars, machine, session, creds, conn, threads, fate, still,
       AuthenticatedIsBound
  <1> QED
    BY <1>1, <1>2, <1>3, <1>4, <1>5, <1>6, <1>7, <1>8, <1>9, <1>10, <1>11,
       <1>12, <1>13, <1>14, <1>15, <1>16, <1>17 DEF Next, User, ConnectThread,
       IoThread

-----------------------------------------------------------------------------
(* What one step does to a kicked account.                                  *)

LEMMA KickedStays ==
  ASSUME MachineType, GenType, LineType, [Next]_vars
  PROVE  st = "Kicked" =>
         /\ rth' = "sleeping" => rth = "sleeping"
         /\ st' = "Kicked" \/ gen' > gen \/ io.kind = "logout"
  <1>1. CASE \/ StartWithPassword \/ StartWithSavedToken
    BY <1>1 DEF StartWithPassword, InFlight, ConnectBlocks, Hang, Begin,
       creds, conn, fate, still, machine, session, threads,
       StartWithSavedToken, GenType
  <1>2. CASE \/ StartWithSavedTokenAgain \/ SavedTokenExpired
    BY <1>2 DEF StartWithSavedTokenAgain, InFlight, machine, creds, conn,
       threads, fate, still, SavedTokenExpired, Revoke, session, GenType
  <1>3. CASE Logout
    BY <1>3 DEF Logout, ReconnectBlocks, Hang, Send, creds, Revoke, conn,
       fate, still, machine, session, threads, GenType
  <1>4. CASE Cancel
    BY <1>4 DEF Cancel, ReconnectBlocks, CloseBlocks, Hang, fate, still,
       machine, session, creds, conn, threads, GenType
  <1>5. CASE Tick
    BY <1>5 DEF Tick, SendRefresh, session, threads, fate, still, creds, conn,
       Send, Revoke, GenType
  <1>6. CASE \/ Expire \/ ReconnectDue \/ ReconnectFired \/ ConnectRefused
             \/ DialOk \/ DialFail
    BY <1>6 DEF Expire, machine, session, conn, threads, fate, still,
       ReconnectDue, creds, ReconnectFired, ConnectBlocks, Hang,
       ConnectRefused, DialOk, DialFail, GenType
  <1>7. CASE ConnectStart
    BY <1>7 DEF ConnectStart, machine, session, creds, fate, still,
       DisconnectedBlocks, Disconnected, ReconnectBlocks, GenType
  <1>8. CASE DialAborted
    BY <1>8 DEF DialAborted, machine, session, creds, fate, still,
       DisconnectedBlocks, Disconnected, ReconnectBlocks, GenType
  <1>9. CASE ConnectOk
    <2>1. UNCHANGED rth
      BY <1>9, ConnectOkDoes
    <2>2. st = "Kicked" => UNCHANGED machine
      BY <1>9, ConnectOkDoes DEF TokenLoginDue
    <2> QED
      BY <2>1, <2>2 DEF machine
  <1>10. CASE ConnectFail
    BY <1>10 DEF ConnectFail, DisconnectedBlocks, Hang, session, creds,
       conn, fate, still, machine, threads, ReconnectBlocks, GenType
  <1>11. CASE \/ (\E k \in Kinds, ok \in BOOLEAN : Answer(k, ok)) \/ Late
              \/ Kick
    BY <1>11 DEF Answer, Late, Kick, machine
  <1>12. CASE LoginDone
    BY <1>12 DEF LoginDone, Current, creds, Took, session, fate, still, GenType
  <1>13. CASE RefreshDone
    BY <1>13 DEF RefreshDone, Current, creds, SendTokenLogin, Took, fate,
       still, GenType
  <1>14. CASE \/ RefreshRefused \/ LogoutDone
    BY <1>14 DEF RefreshRefused, Current, Took, Revoke, session, fate, still,
       creds, LogoutDone, GenType
  <1>15. CASE Kicked
    BY <1>15 DEF Kicked, ReconnectBlocks, Hang, Revoke, CloseOnIo, fate, still,
       creds, machine, session, conn, threads, GenType
  <1>16. CASE Lost
    BY <1>16 DEF Lost, machine, session, creds, fate, still,
       DisconnectedBlocks, Disconnected, ReconnectBlocks, GenType
  <1>17. CASE UNCHANGED vars
    BY <1>17 DEF vars, machine, session, creds, conn, threads, fate, still,
       GenType
  <1> QED
    BY <1>1, <1>2, <1>3, <1>4, <1>5, <1>6, <1>7, <1>8, <1>9, <1>10, <1>11,
       <1>12, <1>13, <1>14, <1>15, <1>16, <1>17 DEF Next, User, ConnectThread,
       IoThread

LEMMA AskInvStep ==
  ASSUME LineType, ThreadType, GenType, SentType, LineInv, SentInv, AskInv, [Next]_vars
  PROVE  AskInv'
  <1>1. CASE \/ StartWithPassword \/ StartWithSavedToken
    BY <1>1 DEF StartWithPassword, InFlight, ConnectBlocks, Hang, Begin,
       creds, conn, fate, still, machine, session, threads,
       StartWithSavedToken, AskInv, Asking, Pending, LineInv, LineType,
       ThreadType, Replies, SentInv, SentType, GenType, Kinds, Quiet
  <1>2. CASE \/ StartWithSavedTokenAgain \/ SavedTokenExpired
    BY <1>2 DEF StartWithSavedTokenAgain, InFlight, machine, creds, conn,
       threads, fate, still, SavedTokenExpired, Revoke, session, AskInv,
       Asking, Pending, LineInv, LineType, ThreadType, Replies, SentInv,
       SentType, GenType, Kinds, Quiet
  <1>3. CASE Logout
    BY <1>3 DEF Logout, ReconnectBlocks, Hang, Send, creds, Revoke, conn,
       fate, still, machine, session, threads, AskInv, Asking, Pending,
       LineInv, LineType, ThreadType, Replies, SentInv, SentType, GenType,
       Kinds, Quiet
  <1>4. CASE Cancel
    BY <1>4 DEF Cancel, ReconnectBlocks, CloseBlocks, Hang, fate, still,
       machine, session, creds, conn, threads, AskInv, Asking, Pending,
       LineInv, LineType, ThreadType, Replies, SentInv, SentType, GenType,
       Kinds, Quiet
  <1>5. CASE Tick
    BY <1>5 DEF Tick, session, threads, fate, still, AskInv, Asking,
       Pending, LineInv, LineType, ThreadType, Replies, SentInv, SentType,
       GenType, Kinds, Quiet
  <1>6. CASE \/ Expire \/ ReconnectDue \/ ReconnectFired \/ ConnectRefused
             \/ DialOk \/ DialFail
    BY <1>6 DEF Expire, machine, session, conn, threads, fate, still,
       ReconnectDue, creds, ReconnectFired, ConnectBlocks, Hang,
       ConnectRefused, DialOk, DialFail, AskInv, Asking, Pending, LineInv,
       LineType, ThreadType, Replies, SentInv, SentType, GenType, Kinds,
       Quiet
  <1>7. CASE ConnectStart
    BY <1>7 DEF ConnectStart, machine, session, creds, fate, still,
       DisconnectedBlocks, Disconnected, ReconnectBlocks, AskInv, Asking,
       Pending, LineInv, LineType, ThreadType, Replies, SentInv, SentType,
       GenType, Kinds, Quiet
  <1>8. CASE DialAborted
    BY <1>8 DEF DialAborted, machine, session, creds, fate, still,
       DisconnectedBlocks, Disconnected, ReconnectBlocks, AskInv, Asking,
       Pending, LineInv, LineType, ThreadType, Replies, SentInv, SentType,
       GenType, Kinds, Quiet
  <1>9. CASE ConnectOk
    <2>1. CASE stuck' /\ UNCHANGED <<machine, session, creds, conn, cth>>
      BY <1>9, <2>1, ConnectOkDoes DEF AskInv, Asking, Pending, LineInv,
         LineType, ThreadType, Replies, SentInv, SentType, GenType, Kinds,
         Quiet, machine, conn
    <2>2. CASE cth' = "idle" /\ UNCHANGED <<machine, creds, conn>>
      BY <1>9, <2>2, ConnectOkDoes DEF AskInv, Asking, Pending, LineInv,
         LineType, ThreadType, Replies, SentInv, SentType, GenType, Kinds,
         Quiet, machine, conn
    <2>3. CASE cth' = "idle" /\ ~UNCHANGED <<machine, creds, conn>>
      <3>1. /\ UNCHANGED <<rth, io, world, crossed>> /\ cth = "ok"
        BY <1>9, ConnectOkDoes
      <3>2. CASE ~reauth /\ st = "Authenticating" /\ method # "Token" /\ Send("login", gen)
                 /\ UNCHANGED machine
        BY <2>3, <3>1, <3>2 DEF Send, machine, InFlight, AskInv, Asking,
           Pending, LineInv, LineType, SentInv, SentType, GenType, Kinds,
           Quiet
      <3>3. CASE /\ TokenLoginDue /\ st' = "Authenticating" /\ method' = "Token"
                 /\ gen' = (IF reauth THEN gen + 1 ELSE gen)
                 /\ sent' = [sent EXCEPT !["token"] = gen']
                 /\ wire' = (IF open THEN wire \cup {"token"} ELSE wire)
        BY <2>3, <3>1, <3>3 DEF TokenLoginDue, InFlight, AskInv, Asking,
           Pending, LineInv, LineType, SentInv, SentType, GenType, Kinds,
           Quiet
      <3>4. CASE TokenLoginDue /\ st' = "LoggedOut" /\ wire' = {} /\ io = Quiet /\ UNCHANGED sent
        BY <2>3, <3>1, <3>4 DEF AskInv, Asking, Pending, LineInv, LineType,
           SentInv, SentType, GenType, Kinds, Quiet
      <3>5. CASE st = "Refreshing" /\ UNCHANGED gen /\
                 \E saved \in world.saves, signed \in world.signs : SendRefresh(gen, saved, signed)
        BY <2>3, <3>1, <3>5 DEF SendRefresh, Send, conn, InFlight, AskInv,
           Asking, Pending, LineInv, LineType, SentInv, SentType, GenType,
           Kinds, Quiet
      <3> QED
        BY <1>9, <2>3, <3>2, <3>3, <3>4, <3>5, ConnectOkDoes
    <2> QED
      BY <1>9, <2>1, <2>2, <2>3, ConnectOkDoes
  <1>10. CASE ConnectFail
    BY <1>10 DEF ConnectFail, DisconnectedBlocks, Hang, session, creds,
       conn, fate, still, machine, threads, ReconnectBlocks, AskInv, Asking,
       Pending, LineInv, LineType, ThreadType, Replies, SentInv, SentType,
       GenType, Kinds, Quiet
  <1>11. CASE \/ (\E k \in Kinds, ok \in BOOLEAN : Answer(k, ok)) \/ Late
              \/ Kick
    BY <1>11 DEF Answer, machine, session, creds, fate, still, Late,
       Current, Took, Kick, conn, AskInv, Asking, Pending, LineInv,
       LineType, ThreadType, Replies, SentInv, SentType, GenType, Kinds,
       Quiet
  <1>12. CASE LoginDone
    BY <1>12 DEF LoginDone, Current, creds, Took, session, fate, still,
       AskInv, Asking, Pending, LineInv, LineType, ThreadType, Replies,
       SentInv, SentType, GenType, Kinds, Quiet
  <1>13. CASE RefreshDone
    BY <1>13 DEF RefreshDone, Current, creds, SendTokenLogin, Took, fate,
       still, AskInv, Asking, Pending, LineInv, LineType, ThreadType,
       Replies, SentInv, SentType, GenType, Kinds, Quiet
  <1>14. CASE \/ RefreshRefused \/ LogoutDone
    BY <1>14 DEF RefreshRefused, Current, Took, Revoke, session, fate,
       still, creds, LogoutDone, AskInv, Asking, Pending, LineInv, LineType,
       ThreadType, Replies, SentInv, SentType, GenType, Kinds, Quiet
  <1>15. CASE Kicked
    BY <1>15 DEF Kicked, ReconnectBlocks, Hang, Revoke, CloseOnIo, fate,
       still, creds, machine, session, conn, threads, AskInv, Asking,
       Pending, LineInv, LineType, ThreadType, Replies, SentInv, SentType,
       GenType, Kinds, Quiet
  <1>16. CASE Lost
    BY <1>16 DEF Lost, machine, session, creds, fate, still,
       DisconnectedBlocks, Disconnected, ReconnectBlocks, AskInv, Asking,
       Pending, LineInv, LineType, ThreadType, Replies, SentInv, SentType,
       GenType, Kinds, Quiet
  <1>17. CASE UNCHANGED vars
    BY <1>17 DEF vars, machine, session, creds, conn, threads, fate, still,
       AskInv, Asking, Pending, LineInv, LineType, ThreadType, Replies,
       SentInv, SentType, GenType, Kinds, Quiet
  <1> QED
    BY <1>1, <1>2, <1>3, <1>4, <1>5, <1>6, <1>7, <1>8, <1>9, <1>10, <1>11,
       <1>12, <1>13, <1>14, <1>15, <1>16, <1>17 DEF Next, User, ConnectThread,
       IoThread

LEMMA StraightInvStep ==
  ASSUME MachineType, LineType, ThreadType, GenType, SentType, LineInv, SentInv, AskInv,
         StraightInv, [Next]_vars
  PROVE  StraightInv'
  <1>1. CASE \/ StartWithPassword \/ StartWithSavedToken
    <2>1. CASE ConnectBlocks
      BY <1>1, <2>1 DEF StartWithPassword, StartWithSavedToken, Hang, still,
         machine, conn, threads, StraightInv, Pending
    <2>2. CASE ~ConnectBlocks
      <3>1. /\ gen' = gen + 1 /\ UNCHANGED <<wire, io, sent, rth, world>>
            /\ crossed' = (rth # "idle") /\ cth' = "connecting" /\ method' # "None"
        BY <1>1, <2>2 DEF StartWithPassword, StartWithSavedToken, Begin, conn
      <3>2. \A k \in Asking \cup {"logout"} : sent[k] # gen'
        BY <3>1 DEF SentInv, SentType, GenType, Kinds, Asking
      <3> QED
        BY <3>1, <3>2 DEF StraightInv, Pending, Asking
    <2> QED
      BY <2>1, <2>2
  <1>2. CASE \/ StartWithSavedTokenAgain \/ SavedTokenExpired
    BY <1>2 DEF StartWithSavedTokenAgain, InFlight, machine, creds, conn,
       threads, fate, still, SavedTokenExpired, Revoke, session,
       StraightInv, AskInv, Asking, Pending, LineInv, LineType, ThreadType,
       Replies, SentInv, SentType, GenType, Kinds, Quiet, MachineType,
       States
  <1>3. CASE Logout
    <2>1. CASE ReconnectBlocks
      BY <1>3, <2>1 DEF Logout, Hang, still, machine, conn, threads,
         StraightInv, Pending
    <2>2. CASE ~ReconnectBlocks
      <3>1. /\ gen' = gen + 1 /\ UNCHANGED <<cth, io, world>> /\ rth' = "idle"
            /\ crossed' = (crossed \/ cth # "idle")
            /\ \/ UNCHANGED <<st, method>> \/ st' = "LoggedOut"
            /\ \/ UNCHANGED <<wire, sent>>
               \/ /\ sent' = [sent EXCEPT !["logout"] = gen + 1]
                  /\ wire' \in {wire, wire \cup {"logout"}}
        BY <1>3, <2>2 DEF Logout, Send, conn
      <3>2. \A k \in Asking : sent'[k] # gen'
        BY <3>1 DEF SentInv, SentType, GenType, Kinds, Asking
      <3> QED
        BY <3>1, <3>2 DEF StraightInv, Pending, Asking
    <2> QED
      BY <2>1, <2>2
  <1>4. CASE Cancel
    BY <1>4 DEF Cancel, ReconnectBlocks, CloseBlocks, Hang, fate, still,
       machine, session, creds, conn, threads, StraightInv, AskInv, Asking,
       Pending, LineInv, LineType, ThreadType, Replies, SentInv, SentType,
       GenType, Kinds, Quiet, MachineType, States
  <1>5. CASE Tick
    BY <1>5 DEF Tick, session, threads, fate, still, StraightInv, AskInv,
       Asking, Pending, LineInv, LineType, ThreadType, Replies, SentInv,
       SentType, GenType, Kinds, Quiet, MachineType, States
  <1>6. CASE \/ Expire \/ ReconnectDue \/ ReconnectFired \/ ConnectRefused
             \/ DialOk \/ DialFail
    BY <1>6 DEF Expire, machine, session, conn, threads, fate, still,
       ReconnectDue, creds, ReconnectFired, ConnectBlocks, Hang,
       ConnectRefused, DialOk, DialFail, StraightInv, AskInv, Asking,
       Pending, LineInv, LineType, ThreadType, Replies, SentInv, SentType,
       GenType, Kinds, Quiet, MachineType, States
  <1>7. CASE ConnectStart
    BY <1>7 DEF ConnectStart, machine, session, creds, fate, still,
       DisconnectedBlocks, Disconnected, ReconnectBlocks, StraightInv,
       AskInv, Asking, Pending, LineInv, LineType, ThreadType, Replies,
       SentInv, SentType, GenType, Kinds, Quiet, MachineType, States
  <1>8. CASE DialAborted
    BY <1>8 DEF DialAborted, machine, session, creds, fate, still,
       DisconnectedBlocks, Disconnected, ReconnectBlocks, StraightInv,
       AskInv, Asking, Pending, LineInv, LineType, ThreadType, Replies,
       SentInv, SentType, GenType, Kinds, Quiet, MachineType, States
  <1>9. CASE ConnectOk
    <2>1. CASE stuck' /\ UNCHANGED <<machine, session, creds, conn, cth>>
      BY <1>9, <2>1, ConnectOkDoes DEF StraightInv, AskInv, Asking, Pending,
         LineInv, LineType, ThreadType, Replies, SentInv, SentType, GenType,
         Kinds, Quiet, machine, conn
    <2>2. CASE cth' = "idle" /\ UNCHANGED <<machine, creds, conn>>
      BY <1>9, <2>2, ConnectOkDoes DEF StraightInv, AskInv, Asking, Pending,
         LineInv, LineType, ThreadType, Replies, SentInv, SentType, GenType,
         Kinds, Quiet, machine, conn
    <2>3. CASE cth' = "idle" /\ ~UNCHANGED <<machine, creds, conn>>
      <3>1. /\ UNCHANGED <<rth, io, world, crossed>> /\ cth = "ok"
        BY <1>9, ConnectOkDoes
      <3>2. CASE ~reauth /\ st = "Authenticating" /\ method # "Token" /\ Send("login", gen)
                 /\ UNCHANGED machine
        BY <2>3, <3>1, <3>2 DEF Send, machine, MachineType, InFlight,
           StraightInv, AskInv, Asking, Pending, LineInv, LineType, SentInv,
           SentType, GenType, Kinds, Quiet
      <3>3. CASE /\ TokenLoginDue /\ st' = "Authenticating" /\ method' = "Token"
                 /\ gen' = (IF reauth THEN gen + 1 ELSE gen)
                 /\ sent' = [sent EXCEPT !["token"] = gen']
                 /\ wire' = (IF open THEN wire \cup {"token"} ELSE wire)
        BY <2>3, <3>1, <3>3 DEF TokenLoginDue, InFlight, StraightInv, AskInv,
           Asking, Pending, LineInv, LineType, SentInv, SentType, GenType,
           Kinds, Quiet
      <3>4. CASE TokenLoginDue /\ st' = "LoggedOut" /\ wire' = {} /\ io = Quiet /\ UNCHANGED sent
        BY <2>3, <3>1, <3>4 DEF StraightInv, AskInv, Asking, Pending, LineInv,
           LineType, SentInv, SentType, GenType, Kinds, Quiet
      <3>5. CASE st = "Refreshing" /\ UNCHANGED gen /\
                 \E saved \in world.saves, signed \in world.signs : SendRefresh(gen, saved, signed)
        BY <2>3, <3>1, <3>5 DEF SendRefresh, Send, conn, InFlight,
           StraightInv, AskInv, Asking, Pending, LineInv, LineType, SentInv,
           SentType, GenType, Kinds, Quiet
      <3> QED
        BY <1>9, <2>3, <3>2, <3>3, <3>4, <3>5, ConnectOkDoes
    <2> QED
      BY <1>9, <2>1, <2>2, <2>3, ConnectOkDoes
  <1>10. CASE ConnectFail
    BY <1>10 DEF ConnectFail, DisconnectedBlocks, Hang, session, creds,
       conn, fate, still, machine, threads, ReconnectBlocks, StraightInv,
       AskInv, Asking, Pending, LineInv, LineType, ThreadType, Replies,
       SentInv, SentType, GenType, Kinds, Quiet, MachineType, States
  <1>11. CASE \/ (\E k \in Kinds, ok \in BOOLEAN : Answer(k, ok)) \/ Late
              \/ Kick
    BY <1>11 DEF Answer, machine, session, creds, fate, still, Late,
       Current, Took, Kick, conn, StraightInv, AskInv, Asking, Pending,
       LineInv, LineType, ThreadType, Replies, SentInv, SentType, GenType,
       Kinds, Quiet, MachineType, States
  <1>12. CASE LoginDone
    BY <1>12 DEF LoginDone, Current, creds, Took, session, fate, still,
       StraightInv, AskInv, Asking, Pending, LineInv, LineType, ThreadType,
       Replies, SentInv, SentType, GenType, Kinds, Quiet, MachineType,
       States
  <1>13. CASE RefreshDone
    BY <1>13 DEF RefreshDone, Current, creds, SendTokenLogin, Took, fate,
       still, StraightInv, AskInv, Asking, Pending, LineInv, LineType,
       ThreadType, Replies, SentInv, SentType, GenType, Kinds, Quiet,
       MachineType, States
  <1>14. CASE \/ RefreshRefused \/ LogoutDone
    BY <1>14 DEF RefreshRefused, Current, Took, Revoke, session, fate,
       still, creds, LogoutDone, StraightInv, AskInv, Asking, Pending,
       LineInv, LineType, ThreadType, Replies, SentInv, SentType, GenType,
       Kinds, Quiet, MachineType, States
  <1>15. CASE Kicked
    BY <1>15 DEF Kicked, ReconnectBlocks, Hang, Revoke, CloseOnIo, fate,
       still, creds, machine, session, conn, threads, StraightInv, AskInv,
       Asking, Pending, LineInv, LineType, ThreadType, Replies, SentInv,
       SentType, GenType, Kinds, Quiet, MachineType, States
  <1>16. CASE Lost
    BY <1>16 DEF Lost, machine, session, creds, fate, still,
       DisconnectedBlocks, Disconnected, ReconnectBlocks, StraightInv,
       AskInv, Asking, Pending, LineInv, LineType, ThreadType, Replies,
       SentInv, SentType, GenType, Kinds, Quiet, MachineType, States
  <1>17. CASE UNCHANGED vars
    BY <1>17 DEF vars, machine, session, creds, conn, threads, fate, still,
       StraightInv, AskInv, Asking, Pending, LineInv, LineType, ThreadType,
       Replies, SentInv, SentType, GenType, Kinds, Quiet, MachineType,
       States
  <1> QED
    BY <1>1, <1>2, <1>3, <1>4, <1>5, <1>6, <1>7, <1>8, <1>9, <1>10, <1>11,
       <1>12, <1>13, <1>14, <1>15, <1>16, <1>17 DEF Next, User, ConnectThread,
       IoThread

(* Credentials are stored for an answer the account waits for. *)
LEMMA StoredWhenAwaited ==
  ASSUME AskInv, StraightInv, CredType, LineType, [Next]_vars
  PROVE  ~world.ticks /\ ~crossed /\ st \in {"LoggedOut", "Kicked"} /\ tok = "none"
         => tok' = "none"
  <1>1. CASE \/ StartWithPassword \/ StartWithSavedToken
    BY <1>1 DEF StartWithPassword, InFlight, ConnectBlocks, Hang, Begin,
       creds, conn, fate, still, machine, session, threads,
       StartWithSavedToken, StraightInv, AskInv, Asking, Pending
  <1>2. CASE \/ StartWithSavedTokenAgain \/ SavedTokenExpired
    BY <1>2 DEF StartWithSavedTokenAgain, InFlight, machine, creds, conn,
       threads, fate, still, SavedTokenExpired, Revoke, session,
       StraightInv, AskInv, Asking, Pending
  <1>3. CASE Logout
    BY <1>3 DEF Logout, ReconnectBlocks, Hang, Send, creds, Revoke, conn,
       fate, still, machine, session, threads, StraightInv, AskInv, Asking,
       Pending
  <1>4. CASE Cancel
    BY <1>4 DEF Cancel, ReconnectBlocks, CloseBlocks, Hang, fate, still,
       machine, session, creds, conn, threads, StraightInv, AskInv, Asking,
       Pending
  <1>5. CASE Tick
    BY <1>5 DEF Tick, session, threads, fate, still, StraightInv, AskInv,
       Asking, Pending
  <1>6. CASE \/ Expire \/ ReconnectDue \/ ReconnectFired \/ ConnectRefused
             \/ DialOk \/ DialFail
    BY <1>6 DEF Expire, machine, session, conn, threads, fate, still,
       ReconnectDue, creds, ReconnectFired, ConnectBlocks, Hang,
       ConnectRefused, DialOk, DialFail, StraightInv, AskInv, Asking,
       Pending
  <1>7. CASE ConnectStart
    BY <1>7 DEF ConnectStart, machine, session, creds, fate, still,
       DisconnectedBlocks, Disconnected, ReconnectBlocks, StraightInv,
       AskInv, Asking, Pending
  <1>8. CASE DialAborted
    BY <1>8 DEF DialAborted, machine, session, creds, fate, still,
       DisconnectedBlocks, Disconnected, ReconnectBlocks, StraightInv,
       AskInv, Asking, Pending
  <1>9. CASE ConnectOk
    BY <1>9, ConnectOkDoes DEF creds, SendRefresh, Revoke, TokenLoginDue
  <1>10. CASE ConnectFail
    BY <1>10 DEF ConnectFail, DisconnectedBlocks, Hang, session, creds,
       conn, fate, still, machine, threads, ReconnectBlocks, StraightInv,
       AskInv, Asking, Pending
  <1>11. CASE \/ (\E k \in Kinds, ok \in BOOLEAN : Answer(k, ok)) \/ Late
              \/ Kick
    BY <1>11 DEF Answer, machine, session, creds, fate, still, Late,
       Current, Took, Kick, conn, StraightInv, AskInv, Asking, Pending
  <1>12. CASE LoginDone
    BY <1>12 DEF LoginDone, Current, creds, Took, session, fate, still,
       StraightInv, AskInv, Asking, Pending
  <1>13. CASE RefreshDone
    BY <1>13 DEF RefreshDone, Current, creds, SendTokenLogin, Took, fate,
       still, StraightInv, AskInv, Asking, Pending
  <1>14. CASE \/ RefreshRefused \/ LogoutDone
    BY <1>14 DEF RefreshRefused, Current, Took, Revoke, session, fate,
       still, creds, LogoutDone, StraightInv, AskInv, Asking, Pending
  <1>15. CASE Kicked
    BY <1>15 DEF Kicked, ReconnectBlocks, Hang, Revoke, CloseOnIo, fate,
       still, creds, machine, session, conn, threads, StraightInv, AskInv,
       Asking, Pending
  <1>16. CASE Lost
    BY <1>16 DEF Lost, machine, session, creds, fate, still,
       DisconnectedBlocks, Disconnected, ReconnectBlocks, StraightInv,
       AskInv, Asking, Pending
  <1>17. CASE UNCHANGED vars
    BY <1>17 DEF vars, machine, session, creds, conn, threads, fate, still,
       StraightInv, AskInv, Asking, Pending
  <1> QED
    BY <1>1, <1>2, <1>3, <1>4, <1>5, <1>6, <1>7, <1>8, <1>9, <1>10, <1>11,
       <1>12, <1>13, <1>14, <1>15, <1>16, <1>17 DEF Next, User, ConnectThread,
       IoThread

-----------------------------------------------------------------------------
(* The invariant holds of every behaviour.                                 *)

LEMMA Start_IInv ==
  ASSUME Init
  PROVE  IInv
  <1>1. TypeOK
    <2>1. gen \in 0 .. MaxGen /\ sent \in [Kinds -> 0 .. MaxGen]
      BY AccountAssumption DEF Init
    <2>2. io \in Replies /\ world \in Worlds
      BY DEF Init, Replies
    <2> QED
      BY <2>1, <2>2 DEF Init, TypeOK, States
  <1>2. LineInv /\ SentInv /\ ReauthInv /\ OnceInv /\ KickedInv /\ RefreshInv
        /\ AskInv /\ StraightInv /\ AuthenticatedIsBound
    BY DEF Init, LineInv, SentInv, ReauthInv, OnceInv, KickedInv, RefreshInv,
       AskInv, Asking, StraightInv, AuthenticatedIsBound, Pending, Quiet,
       InFlight, Kinds
  <1> QED
    BY <1>1, <1>2 DEF IInv

LEMMA Step_IInv ==
  ASSUME IInv, [Next]_vars
  PROVE  IInv'
  <1>1. /\ MachineType /\ GenType /\ SessionType /\ CredType /\ LineType
        /\ SentType /\ ThreadType /\ FateType
    BY TypeParts DEF IInv
  <1>2. LineInv /\ SentInv /\ ReauthInv /\ OnceInv /\ KickedInv /\ RefreshInv
        /\ AskInv /\ StraightInv /\ AuthenticatedIsBound
    BY DEF IInv
  <1>3. TypeOK'
    <2>1. MachineType' /\ GenType' /\ SessionType' /\ CredType' /\ LineType'
      BY <1>1, MachineTypeStep, GenTypeStep, SessionTypeStep, CredTypeStep, LineTypeStep
    <2>2. SentType' /\ ThreadType' /\ FateType'
      BY <1>1, <1>2, SentStep, ThreadTypeStep, FateTypeStep
    <2>3. TypeOK' <=> (/\ MachineType /\ GenType /\ SessionType /\ CredType /\ LineType
                       /\ SentType /\ ThreadType /\ FateType)'
      BY TypeParts, PTL
    <2> QED
      BY <2>1, <2>2, <2>3
  <1>4. LineInv' /\ SentInv'
    BY <1>1, <1>2, LineInvStep, SentStep
  <1>5. ReauthInv' /\ OnceInv'
    BY <1>1, <1>2, ReauthInvStep, OnceInvStep
  <1>6. KickedInv' /\ RefreshInv'
    BY <1>1, <1>2, KickedInvStep, RefreshInvStep
  <1>7. AuthenticatedIsBound'
    BY <1>1, <1>2, BoundStep
  <1>8. AskInv' /\ StraightInv'
    BY <1>1, <1>2, AskInvStep, StraightInvStep
  <1> QED
    BY <1>3, <1>4, <1>5, <1>6, <1>7, <1>8 DEF IInv

LEMMA Always_IInv == Spec => []IInv
  BY Start_IInv, Step_IInv, PTL DEF Spec

-----------------------------------------------------------------------------
(* The theorems.                                                           *)

(* Every variable keeps its type: the states and methods of                *)
(* AuthStateMachine, the thread states, the answers under way.             *)
THEOREM TypeCorrect == Spec => []TypeOK
  <1>1. IInv => TypeOK
    BY DEF IInv
  <1> QED
    BY <1>1, Always_IInv, PTL

(* Without refreshes in between, whoever is logged in on an open           *)
(* connection is known to the server on that connection, or is about to    *)
(* log in on it (onReconnectFired, requestTokenLoginOnConnected).          *)
THEOREM LoggedInMeansBound == Spec => []AuthenticatedIsBound
  <1>1. IInv => AuthenticatedIsBound
    BY DEF IInv
  <1> QED
    BY <1>1, Always_IInv, PTL

(* No answer that was under way brings credentials back to an account that *)
(* another device has pushed out (revokeFamily).                           *)
THEOREM KickedLosesCredentials == Spec => []KickedHasNothing
  <1>1. IInv => KickedHasNothing
    BY DEF IInv, KickedInv, KickedHasNothing
  <1> QED
    BY <1>1, Always_IInv, PTL

(* Only the user, or the answer to his logout, leaves the kicked state,    *)
(* and nothing schedules a reconnect in it (onKicked).                     *)
THEOREM KickedUntilLogin == Spec => KickedIsFinal
  <1>1. IInv /\ [Next]_vars => [st = "Kicked" =>
          /\ rth' = "sleeping" => rth = "sleeping"
          /\ st' = "Kicked" \/ gen' > gen \/ io.kind = "logout"]_vars
    <2> SUFFICES ASSUME IInv, [Next]_vars
                 PROVE  st = "Kicked" =>
                          /\ rth' = "sleeping" => rth = "sleeping"
                          /\ st' = "Kicked" \/ gen' > gen \/ io.kind = "logout"
      OBVIOUS
    <2>1. MachineType /\ GenType /\ LineType
      BY TypeParts DEF IInv
    <2> QED
      BY <2>1, KickedStays
  <1> QED
    BY <1>1, Always_IInv, PTL DEF Spec, KickedIsFinal

(* Nothing that is still under way brings credentials back to an account   *)
(* that is out, where the newest operation crossed no earlier connect and  *)
(* no timer (isStaleGeneration, and the states in which each answer is     *)
(* awaited).                                                               *)
THEOREM CredentialsStayGone == Spec => OutStaysOut
  <1>1. IInv /\ [Next]_vars =>
          [~world.ticks /\ ~crossed /\ st \in {"LoggedOut", "Kicked"} /\ tok = "none"
             => tok' = "none"]_vars
    <2> SUFFICES ASSUME IInv, [Next]_vars
                 PROVE  ~world.ticks /\ ~crossed /\ st \in {"LoggedOut", "Kicked"} /\ tok = "none"
                          => tok' = "none"
      OBVIOUS
    <2>1. CredType /\ LineType
      BY TypeParts DEF IInv
    <2> QED
      BY <2>1, StoredWhenAwaited DEF IInv
  <1> QED
    BY <1>1, Always_IInv, PTL DEF Spec, OutStaysOut

===============================================================================
