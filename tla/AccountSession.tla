--------------------------- MODULE AccountSession ---------------------------
(***************************************************************************)
(* The account session of the client: the decisions of                     *)
(* account/AuthStateMachine.cpp, the orchestration of AccountSession.cpp,  *)
(* the credentials of TokenManager.cpp, and the threads underneath it      *)
(* (ClientCoreAuthTransport.cpp, TcpTransport.cpp): the thread that        *)
(* connects, the thread that waits before a reconnect, and the I/O thread  *)
(* that delivers answers and closes.                                       *)
(*                                                                         *)
(* Every entry of AccountSession runs under its mutex, so one entry is one *)
(* action.  Some of them wait for a thread to end while they hold the      *)
(* mutex; when that thread is itself about to enter AccountSession, nobody *)
(* ever continues: stuck.                                                  *)
(***************************************************************************)
EXTENDS Naturals

CONSTANTS
    Worlds,     \* what a behaviour may meet, see WorldType
    MaxGen      \* bound: authentication operations

(* saves, signs: the outcomes of writing to the token store and of signing *)
(* with the device key; ticks: somebody calls tick(), which refreshes      *)
(* tokens in time.                                                         *)
WorldType == [saves : SUBSET BOOLEAN, signs : SUBSET BOOLEAN, ticks : BOOLEAN]

ASSUME AccountAssumption == Worlds \subseteq WorldType /\ MaxGen \in Nat

VARIABLES
    st,           \* AuthStateMachine::m_state
    method,       \* m_authMethod
    gen,          \* m_generation (and, with it, m_operationId)
    autoRe,       \* m_autoReconnectAllowed
    reauth,       \* AccountSession::m_reauthenticateAfterReconnect
    afterRefresh, \* m_tokenLoginAfterRefresh
    policy,       \* ReconnectPolicy::m_enabled
    tok,          \* the stored credentials: "none", "fresh", "stale" access token
    inflight,     \* TokenManager: a refresh request_id is pending
    open,         \* TcpTransport::m_open
    notified,     \* TcpTransport::m_notified
    bound,        \* the server has logged this connection in
    wire,         \* requests of this connection the server has not answered
    sent,         \* the generation each kind of request was sent with, 0: taken
    cth,          \* the connect thread
    rth,          \* the reconnect thread
    io,           \* the answer the I/O thread is about to deliver
    stuck,        \* the mutex is held for ever
    world,        \* the platform of this behaviour; it never changes
    crossed       \* history: the newest login or logout crossed the connect
                  \* of an earlier one, or the timer of a reconnect

machine == <<st, method, gen, autoRe>>
session == <<reauth, afterRefresh, policy>>
creds == <<tok, inflight>>
conn == <<open, notified, bound, wire, sent>>
threads == <<cth, rth, io>>
still == <<world, crossed>>
fate == <<stuck, still>>
vars == <<machine, session, creds, conn, threads, fate>>

States == {"LoggedOut", "Authenticating", "Authenticated", "Refreshing", "Kicked"}
Kinds == {"login", "token", "refresh", "logout", "kick"}
Quiet == [kind |-> "none", ok |-> FALSE]
Replies == {Quiet} \cup [kind : Kinds, ok : BOOLEAN]

Init ==
    /\ st = "LoggedOut" /\ method = "None" /\ gen = 0 /\ autoRe = FALSE
    /\ reauth = FALSE /\ afterRefresh = FALSE /\ policy = TRUE
    /\ tok \in {"none", "fresh", "stale"} /\ inflight = FALSE
    /\ open = FALSE /\ notified = TRUE /\ bound = FALSE
    /\ wire = {} /\ sent = [k \in Kinds |-> 0]
    /\ cth = "idle" /\ rth = "idle" /\ io = Quiet
    /\ stuck = FALSE /\ crossed = FALSE
    /\ world \in Worlds

InFlight == st \in {"Authenticating", "Refreshing"}

-----------------------------------------------------------------------------
(* What the threads underneath do for an entry that holds the mutex.       *)

(* join() on a thread that needs the mutex: the entry never ends. *)
Hang == stuck' = TRUE /\ UNCHANGED <<still, machine, session, creds, conn, threads>>

ConnectBlocks == cth # "idle"       \* joinConnectThread
ReconnectBlocks == rth = "firing"   \* joinReconnectThread
CloseBlocks == io # Quiet           \* stopIoThread, called by another thread

(* A request on the open connection, tagged with the operation's generation. *)
Send(k, g) ==
    /\ sent' = [sent EXCEPT ![k] = g]
    /\ wire' = IF open THEN wire \cup {k} ELSE wire
    /\ UNCHANGED <<open, notified, bound>>

(* TcpTransport::close on the I/O thread: nobody is told. *)
CloseOnIo ==
    /\ open' = FALSE /\ wire' = {} /\ bound' = FALSE
    /\ UNCHANGED <<notified, sent>>

(* SendTokenLogin.  When the device key does not sign, the login is over   *)
(* and the connection is closed; told: by a thread that says so.           *)
SendTokenLogin(g, signed, told, before) ==
    /\ st' = IF signed THEN "Authenticating" ELSE "LoggedOut"
    /\ sent' = IF signed THEN [before EXCEPT !["token"] = g] ELSE before
    /\ wire' = IF ~signed THEN {} ELSE IF open THEN wire \cup {"token"} ELSE wire
    /\ open' = (open /\ signed) /\ bound' = (bound /\ signed)
    /\ notified' = (notified \/ (told /\ ~signed))

(* TokenManager::revokeFamily: when the store fails, what is in it stays.  *)
Revoke(removed) ==
    IF removed THEN tok' = "none" /\ inflight' = FALSE ELSE UNCHANGED creds

(* SendRefresh: under the pending request_id, or under a new one that is   *)
(* stored first.  Not signed, it counts as refused by the server.          *)
SendRefresh(g, saved, signed) ==
    CASE ~(saved \/ inflight) ->
            st' = "Authenticated" /\ UNCHANGED <<autoRe, creds, conn>>
      [] (saved \/ inflight) /\ signed ->
            /\ st' = "Refreshing" /\ inflight' = TRUE
            /\ Send("refresh", g)
            /\ UNCHANGED <<autoRe, tok>>
      [] (saved \/ inflight) /\ ~signed ->
            /\ st' = "Kicked" /\ autoRe' = FALSE
            /\ \E removed \in world.saves : Revoke(removed)
            /\ UNCHANGED conn

(* Mutant: the account that was logged out by the server reconnects. *)
DisconnectedAlways ==
    /\ reauth' = (reauth \/ st = "Authenticated")
    /\ UNCHANGED <<afterRefresh, policy, method, gen, autoRe, creds>>
    /\ IF st \in {"Authenticated", "Refreshing", "Kicked"}
       THEN rth' = "sleeping" /\ UNCHANGED st
       ELSE st' = (IF st = "Authenticating" THEN "LoggedOut" ELSE st) /\ UNCHANGED rth

(* AccountSession::onDisconnected(false) with what the state machine does  *)
(* then: reconnect later, or give the login up.                            *)
Disconnected ==
    /\ reauth' = (reauth \/ st = "Authenticated")
    /\ UNCHANGED <<afterRefresh, policy, method, gen, autoRe, creds>>
    /\ IF autoRe /\ st \in {"Authenticated", "Refreshing"}
       THEN rth' = (IF policy THEN "sleeping" ELSE "idle") /\ UNCHANGED st
       ELSE st' = (IF autoRe /\ st = "Authenticating" THEN "LoggedOut" ELSE st) /\ UNCHANGED rth

DisconnectedBlocks == ReconnectBlocks /\ autoRe /\ st \in {"Authenticated", "Refreshing"}

-----------------------------------------------------------------------------
(* The user.                                                               *)

(* requestLogin / requestRefreshForLogin, then Connect. *)
Begin(next, how) ==
    /\ gen < MaxGen
    /\ st' = next /\ method' = how /\ gen' = gen + 1 /\ autoRe' = TRUE
    /\ cth' = "connecting"
    /\ crossed' = (rth # "idle")
    /\ UNCHANGED <<creds, conn, rth, io, reauth, stuck, world>>

StartWithPassword ==
    /\ ~stuck /\ ~InFlight
    /\ IF ConnectBlocks THEN Hang
       ELSE Begin("Authenticating", "Password") /\ afterRefresh' = FALSE /\ policy' = TRUE

(* A login with the saved credentials: at once, or after a refresh. *)
StartWithSavedToken ==
    /\ ~stuck /\ tok # "none"
    /\ ~InFlight /\ ~(st = "Authenticated" /\ tok = "fresh")
    /\ IF ConnectBlocks THEN Hang
       ELSE /\ Begin(IF tok = "fresh" THEN "Authenticating" ELSE "Refreshing", "Token")
            /\ afterRefresh' = (tok = "stale") /\ policy' = TRUE

(* The same call while an operation is in flight, or when logged in: it is *)
(* answered without a new operation, but the flags are set all the same.   *)
StartWithSavedTokenAgain ==
    /\ ~stuck /\ tok # "none"
    /\ InFlight \/ (st = "Authenticated" /\ tok = "fresh")
    /\ afterRefresh' = (tok = "stale") /\ policy' = TRUE
    /\ UNCHANGED <<machine, reauth, creds, conn, threads, fate>>

(* The same call when the refresh token has expired, too. *)
SavedTokenExpired ==
    /\ ~stuck /\ tok = "stale"
    /\ \E removed \in world.saves : Revoke(removed)
    /\ UNCHANGED <<machine, session, conn, threads, fate>>

(* logout: operations in flight become stale, the server is asked. *)
Logout ==
    /\ ~stuck /\ gen < MaxGen
    /\ IF ReconnectBlocks THEN Hang
       ELSE \E signed \in world.signs :
            /\ gen' = gen + 1 /\ autoRe' = FALSE
            /\ policy' = FALSE /\ rth' = "idle"
            /\ IF signed
               THEN Send("logout", gen + 1) /\ UNCHANGED <<st, method, creds>>
               ELSE /\ st' = "LoggedOut" /\ method' = "None"
                    /\ \E removed \in world.saves : Revoke(removed)
                    /\ UNCHANGED conn
            /\ crossed' = (crossed \/ cth # "idle")
            /\ UNCHANGED <<reauth, afterRefresh, cth, io, stuck, world>>

(* cancel: everything is dropped and the connection closed; a dial under   *)
(* way finds its generation gone and fails.                                *)
Cancel ==
    /\ ~stuck /\ gen < MaxGen
    /\ IF ReconnectBlocks \/ CloseBlocks THEN Hang
       ELSE /\ st' = "LoggedOut" /\ method' = "None" /\ gen' = gen + 1 /\ autoRe' = FALSE
            /\ afterRefresh' = FALSE /\ policy' = FALSE
            /\ \E removed \in world.saves : inflight' = (inflight /\ ~removed)
            /\ rth' = "idle" /\ cth' = IF cth = "dialing" THEN "fail" ELSE cth
            /\ open' = FALSE /\ notified' = TRUE /\ bound' = FALSE /\ wire' = {}
            /\ UNCHANGED <<reauth, tok, sent, io, fate>>

(* tick: an access token that is about to expire is refreshed. *)
Tick ==
    /\ world.ticks /\ ~stuck /\ gen < MaxGen
    /\ st = "Authenticated" /\ tok = "stale" /\ ~inflight
    /\ gen' = gen + 1
    /\ \E saved \in world.saves, signed \in world.signs : SendRefresh(gen + 1, saved, signed)
    /\ UNCHANGED <<method, session, threads, fate>>

(* The access token comes near its end. *)
Expire ==
    /\ tok = "fresh"
    /\ tok' = "stale"
    /\ UNCHANGED <<machine, session, inflight, conn, threads, fate>>

-----------------------------------------------------------------------------
(* The connect thread: ClientCoreAuthTransport::connect and                *)
(* ClientCore::connectToServer.                                            *)

(* TcpTransport::connect refuses when a connection is open. *)
ConnectRefused ==
    /\ cth = "connecting" /\ open
    /\ cth' = "fail"
    /\ UNCHANGED <<machine, session, creds, conn, rth, io, fate>>

(* Otherwise it closes what is left of the last connection first; a close  *)
(* that nobody was told of is told now.                                    *)
ConnectStart ==
    /\ cth = "connecting" /\ ~open
    /\ IF notified
       THEN UNCHANGED <<machine, session, creds, rth, fate>> /\ cth' = "dialing"
       ELSE /\ ~stuck
            /\ IF DisconnectedBlocks
               THEN /\ stuck' = TRUE /\ UNCHANGED still
                    /\ UNCHANGED <<machine, session, creds, cth, rth>>
               ELSE Disconnected /\ cth' = "dialing" /\ UNCHANGED fate
    /\ notified' = FALSE
    /\ UNCHANGED <<open, bound, wire, sent, io>>

DialOk ==
    /\ cth = "dialing"
    /\ cth' = "ok"
    /\ open' = TRUE /\ bound' = FALSE /\ wire' = {}
    /\ UNCHANGED <<machine, session, creds, notified, sent, rth, io, fate>>

(* The server cannot be reached: connect returns false, nobody is told. *)
DialFail ==
    /\ cth = "dialing"
    /\ cth' = "fail"
    /\ UNCHANGED <<machine, session, creds, conn, rth, io, fate>>

(* Timeout, or the security handshake fails: the connection is closed. *)
DialAborted ==
    /\ cth = "dialing" /\ ~stuck
    /\ IF notified
       THEN UNCHANGED <<machine, session, creds, rth, notified, fate>> /\ cth' = "fail"
       ELSE IF DisconnectedBlocks
            THEN stuck' = TRUE /\ UNCHANGED <<still, machine, session, creds, cth, rth, notified>>
            ELSE Disconnected /\ notified' = TRUE /\ cth' = "fail" /\ UNCHANGED fate
    /\ UNCHANGED <<open, bound, wire, sent, io>>

(* Mutant: the login after a reconnect is forgotten. *)
TokenLoginDueOnce == ~reauth /\ st = "Authenticating" /\ method = "Token"

(* A login with the token is due on the new connection. *)
TokenLoginDue ==
    IF reauth THEN st = "Authenticated" ELSE st = "Authenticating" /\ method = "Token"

(* onConnectResult(true): after a lost connection a login with the token,  *)
(* otherwise what the state machine's state calls for.                     *)
Connected(saved, signed) ==
    /\ policy' = TRUE /\ reauth' = FALSE
    /\ UNCHANGED afterRefresh
    /\ \/ /\ TokenLoginDue
          /\ gen' = IF reauth THEN gen + 1 ELSE gen
          /\ method' = "Token"
          /\ SendTokenLogin(gen', signed, TRUE, sent)
          /\ UNCHANGED <<autoRe, creds>>
       \/ /\ ~reauth /\ st = "Authenticating" /\ method # "Token"
          /\ Send("login", gen)
          /\ UNCHANGED <<machine, creds>>
       \/ /\ ~reauth /\ st = "Refreshing"
          /\ SendRefresh(gen, saved, signed)
          /\ UNCHANGED <<method, gen>>
       \/ /\ ~TokenLoginDue /\ (reauth \/ ~InFlight)
          /\ UNCHANGED <<machine, creds, conn>>

ConnectOk ==
    /\ cth = "ok" /\ ~stuck /\ gen < MaxGen
    /\ \E saved \in world.saves, signed \in world.signs :
          IF TokenLoginDue /\ ~signed /\ CloseBlocks THEN Hang
          ELSE /\ Connected(saved, signed)
               /\ cth' = "idle"
               /\ UNCHANGED <<rth, io, fate>>

(* onConnectResult(false): only the state machine is told. *)
ConnectFail ==
    /\ cth = "fail" /\ ~stuck
    /\ IF DisconnectedBlocks THEN Hang
       ELSE /\ cth' = "idle"
            /\ IF autoRe /\ st \in {"Authenticated", "Refreshing"}
               THEN rth' = (IF policy THEN "sleeping" ELSE "idle") /\ UNCHANGED st
               ELSE st' = (IF autoRe /\ st = "Authenticating" THEN "LoggedOut" ELSE st)
                    /\ UNCHANGED rth
            /\ UNCHANGED <<method, gen, autoRe, session, creds, conn, io, fate>>

-----------------------------------------------------------------------------
(* The reconnect thread.                                                   *)

ReconnectDue ==
    /\ rth = "sleeping"
    /\ rth' = "firing"
    /\ UNCHANGED <<machine, session, creds, conn, cth, io, fate>>

(* onReconnectFired *)
ReconnectFired ==
    /\ rth = "firing" /\ ~stuck
    /\ IF policy /\ ConnectBlocks THEN Hang
       ELSE /\ rth' = "idle"
            /\ cth' = IF policy THEN "connecting" ELSE cth
            /\ UNCHANGED <<machine, session, creds, conn, io, fate>>

-----------------------------------------------------------------------------
(* The I/O thread.                                                         *)

(* The server answers; a login binds the connection. *)
Answer(k, ok) ==
    /\ k \in wire /\ io = Quiet /\ open
    /\ io' = [kind |-> k, ok |-> ok]
    /\ wire' = wire \ {k}
    /\ bound' = (bound \/ (ok /\ k \in {"login", "token"}))
    /\ UNCHANGED <<machine, session, creds, open, notified, sent, cth, rth, fate>>

(* Another device logs in: the server says so before it closes. *)
Kick ==
    /\ open /\ bound /\ io = Quiet
    /\ io' = [kind |-> "kick", ok |-> TRUE]
    /\ UNCHANGED <<machine, session, creds, conn, cth, rth, fate>>

(* Mutant: the generation of an answer is not compared. *)
CurrentAny(k) == TRUE

(* m_xxxGeneration.exchange(0), and the comparison with the current one. *)
Current(k) == sent[k] \in {0, gen}

Took(k) == [sent EXCEPT ![k] = 0]

(* An answer of an operation that was replaced meanwhile. *)
Late ==
    /\ io.kind \in {"login", "token", "refresh", "logout"} /\ ~Current(io.kind) /\ ~stuck
    /\ sent' = Took(io.kind) /\ io' = Quiet
    /\ UNCHANGED <<machine, session, creds, open, notified, bound, wire, cth, rth, fate>>

(* onLoginResult and onTokenLoginResult.  Credentials are stored before    *)
(* the state machine is asked; a failure closes the connection.            *)
LoginDone ==
    /\ io.kind \in {"login", "token"} /\ Current(io.kind) /\ ~stuck
    /\ io' = Quiet
    /\ \E saved \in world.saves :
          LET good == io.ok /\ (saved \/ io.kind = "token") IN
          /\ IF good /\ io.kind = "login"
             THEN tok' = "fresh" /\ inflight' = FALSE ELSE UNCHANGED creds
          /\ IF st = "Authenticating"
             THEN st' = IF good THEN "Authenticated" ELSE "LoggedOut"
             ELSE UNCHANGED st
          /\ IF good \/ st # "Authenticating"
             THEN sent' = Took(io.kind) /\ UNCHANGED <<open, notified, bound, wire>>
             ELSE /\ open' = FALSE /\ bound' = FALSE /\ wire' = {} /\ sent' = Took(io.kind)
                  /\ UNCHANGED notified
    /\ UNCHANGED <<method, gen, autoRe, session, cth, rth, fate>>

(* onRefreshResult: new credentials, then the login that waited for them. *)
RefreshDone ==
    /\ io.kind = "refresh" /\ io.ok /\ Current("refresh") /\ ~stuck /\ gen < MaxGen
    /\ io' = Quiet
    /\ \E saved \in world.saves, signed \in world.signs :
          /\ IF saved THEN tok' = "fresh" /\ inflight' = FALSE ELSE UNCHANGED creds
          /\ afterRefresh' = (afterRefresh /\ ~saved)
          /\ IF saved /\ afterRefresh /\ st \in {"Refreshing", "Authenticated"}
             THEN /\ method' = "Token" /\ gen' = gen + 1
                  /\ SendTokenLogin(gen + 1, signed, FALSE, Took("refresh"))
             ELSE /\ st' = IF st = "Refreshing" THEN "Authenticated" ELSE st
                  /\ sent' = Took("refresh")
                  /\ UNCHANGED <<method, gen, open, notified, bound, wire>>
    /\ UNCHANGED <<autoRe, reauth, policy, cth, rth, fate>>

(* Mutant: the credentials a refused refresh used are kept. *)
RefreshRefusedKeeps ==
    /\ io.kind = "refresh" /\ ~io.ok /\ Current("refresh") /\ ~stuck
    /\ io' = Quiet /\ sent' = Took("refresh")
    /\ st' = IF st = "Refreshing" THEN "Kicked" ELSE st
    /\ autoRe' = (autoRe /\ st # "Refreshing")
    /\ UNCHANGED <<method, gen, session, creds, open, notified, bound, wire, cth, rth, fate>>

(* The refresh token is refused: the credentials go, the account is out. *)
RefreshRefused ==
    /\ io.kind = "refresh" /\ ~io.ok /\ Current("refresh") /\ ~stuck
    /\ io' = Quiet /\ sent' = Took("refresh")
    /\ \E removed \in world.saves : Revoke(removed)
    /\ st' = IF st = "Refreshing" THEN "Kicked" ELSE st
    /\ autoRe' = (autoRe /\ st # "Refreshing")
    /\ UNCHANGED <<method, gen, session, open, notified, bound, wire, cth, rth, fate>>

(* onLogoutResult, whatever the server said. *)
LogoutDone ==
    /\ io.kind = "logout" /\ Current("logout") /\ ~stuck
    /\ io' = Quiet /\ sent' = Took("logout")
    /\ \E removed \in world.saves : Revoke(removed)
    /\ st' = "LoggedOut" /\ method' = "None" /\ autoRe' = FALSE
    /\ UNCHANGED <<gen, session, open, notified, bound, wire, cth, rth, fate>>

(* onKicked *)
Kicked ==
    /\ io.kind = "kick" /\ ~stuck
    /\ IF ReconnectBlocks THEN Hang
       ELSE /\ io' = Quiet
            /\ \E removed \in world.saves : Revoke(removed)
            /\ st' = "Kicked" /\ autoRe' = FALSE /\ policy' = FALSE
            /\ rth' = "idle"
            /\ CloseOnIo
            /\ UNCHANGED <<method, gen, reauth, afterRefresh, cth, fate>>

(* The connection breaks, or the server closes it. *)
Lost ==
    /\ open /\ io = Quiet /\ ~stuck
    /\ IF notified
       THEN UNCHANGED <<machine, session, creds, rth, fate>>
       ELSE IF DisconnectedBlocks
            THEN stuck' = TRUE /\ UNCHANGED <<still, machine, session, creds, rth>>
            ELSE Disconnected /\ UNCHANGED fate
    /\ open' = FALSE /\ notified' = TRUE /\ bound' = FALSE /\ wire' = {}
    /\ UNCHANGED <<sent, cth, io>>

-----------------------------------------------------------------------------
User ==
    \/ StartWithPassword \/ StartWithSavedToken \/ StartWithSavedTokenAgain
    \/ SavedTokenExpired \/ Logout \/ Cancel

ConnectThread ==
    ConnectRefused \/ ConnectStart \/ DialOk \/ DialFail \/ DialAborted \/ ConnectOk \/ ConnectFail

IoThread == Late \/ LoginDone \/ RefreshDone \/ RefreshRefused \/ LogoutDone \/ Kicked

Next ==
    \/ User \/ Tick \/ Expire
    \/ ConnectThread
    \/ ReconnectDue \/ ReconnectFired
    \/ \E k \in Kinds, ok \in BOOLEAN : Answer(k, ok)
    \/ IoThread
    \/ Kick \/ Lost

Spec == Init /\ [][Next]_vars

-----------------------------------------------------------------------------
TypeOK ==
    /\ st \in States /\ method \in {"None", "Password", "Token"}
    /\ gen \in 0..MaxGen /\ autoRe \in BOOLEAN
    /\ reauth \in BOOLEAN /\ afterRefresh \in BOOLEAN /\ policy \in BOOLEAN
    /\ tok \in {"none", "fresh", "stale"} /\ inflight \in BOOLEAN
    /\ open \in BOOLEAN /\ notified \in BOOLEAN /\ bound \in BOOLEAN
    /\ wire \subseteq Kinds /\ sent \in [Kinds -> 0..MaxGen]
    /\ cth \in {"idle", "connecting", "dialing", "ok", "fail"}
    /\ rth \in {"idle", "sleeping", "firing"}
    /\ io \in Replies /\ stuck \in BOOLEAN
    /\ crossed \in BOOLEAN /\ world \in Worlds

(* Nothing but a new operation of the user (or the answer to his logout)   *)
(* leaves the kicked state, and no reconnect is scheduled in it: no late   *)
(* answer, timer or second connection revives the account (onKicked,       *)
(* onRefreshFailed, m_autoReconnectAllowed).                               *)
KickedIsFinal ==
    [][st = "Kicked" =>
          /\ rth' = "sleeping" => rth = "sleeping"
          /\ st' = "Kicked" \/ gen' > gen \/ io.kind = "logout"]_vars

(* While the store works, the kicked account has no credentials left on    *)
(* the device, whatever answers were under way (revokeFamily in onKicked   *)
(* and onRefreshResult).                                                   *)
KickedHasNothing == world.saves = {TRUE} /\ st = "Kicked" => tok = "none"

(* Credentials that are gone while the account is logged out or kicked     *)
(* stay gone: no login or refresh answer that is still under way stores    *)
(* new ones (requestLogout and cancel make the answers in flight stale;    *)
(* the others end the operation they answer).  Not where somebody calls    *)
(* tick(), and not where the newest operation crossed the connect of an    *)
(* earlier one or a reconnect timer: there the code does store them.       *)
OutStaysOut ==
    [][~world.ticks /\ ~crossed /\ st \in {"LoggedOut", "Kicked"} /\ tok = "none" => tok' = "none"]_vars

(* While the store works and nobody refreshes tokens in between, logged in *)
(* on an open connection means that the server has logged this connection  *)
(* in, or that the login on it is about to be sent (onReconnectFired,      *)
(* requestTokenLoginOnConnected).                                          *)
AuthenticatedIsBound ==
    ~world.ticks /\ world.saves = {TRUE} /\ st = "Authenticated" /\ open => bound \/ cth = "ok"

(* No entry of AccountSession waits for a thread that waits for            *)
(* AccountSession (joinConnectThread, joinReconnectThread, stopIoThread    *)
(* under m_mutex).                                                         *)
NeverStuck == ~stuck
=============================================================================
