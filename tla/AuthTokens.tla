----------------------------- MODULE AuthTokens -----------------------------
(***************************************************************************)
(* The tokens of the server: auth/TokenService.cpp, the token handlers of  *)
(* handlers/AuthHandler.cpp, the tables auth_sessions and                  *)
(* auth_refresh_history, and one device that logs in, refreshes, retries   *)
(* what was not answered and logs out.                                     *)
(*                                                                         *)
(* Every password login makes an auth session with a token family of its   *)
(* own.  The access and the refresh token of a session are replaced        *)
(* together, so a token pair is the session and the generation of its row. *)
(* A handler reads and writes the database in several steps; handlers of   *)
(* different connections run at the same time.                             *)
(***************************************************************************)
EXTENDS Naturals

CONSTANTS
    Sessions,   \* rows of auth_sessions the logins can make
    Conns,      \* connections of the device
    Requests,   \* request_ids of refreshes
    None,
    MaxGen      \* bound: token pairs of a session

Pairs == [s : Sessions, g : 1..MaxGen]

ASSUME TokensAssumption ==
    /\ None \notin Sessions \cup Conns \cup Requests
    /\ None \notin Pairs \cup [old : Pairs, new : Pairs]
    /\ MaxGen \in Nat \ {0}

VARIABLES
    gen,        \* auth_sessions.generation, 0: no row
    revoked,    \* auth_sessions.revoked: set of sessions
    used,       \* auth_refresh_history: used generations of each session
    stale,      \* sessions whose access token has expired
    ended,      \* sessions whose refresh token has expired
    cache,      \* TokenService::m_refreshResults
    gone,       \* history: request_ids whose result was kept and is lost
    lock,       \* who holds m_refreshMtx
    open,       \* connections the server can write to
    bound,      \* Session::authSessionId of each connection
    online,     \* the connection Presence names
    job,        \* what each connection's strand is doing
    req, ans,   \* the request and the answer on each connection
    kicked,     \* connections with a KICKED_OFFLINE to be read
    ctok, cid,  \* device: stored token pair and pending request_id
    ccon,       \* device: its connection
    fresh,      \* request_ids not used yet
    dropped     \* history: pending request_ids the user made it forget

rows == <<gen, revoked, used, stale, ended>>
service == <<cache, gone, lock>>
links == <<open, bound, online, kicked>>
wires == <<job, req, ans>>
asked == <<fresh, dropped>>
device == <<ctok, cid, ccon, asked>>
vars == <<rows, service, links, wires, device>>

Ops == {"login", "token", "refresh", "logout"}
Steps == {"idle", "check", "bind", "rotate", "commit", "revoke"}
Idle == [at |-> "idle", op |-> "login", tok |-> None, id |-> None]

Init ==
    /\ gen = [s \in Sessions |-> 0] /\ revoked = {} /\ used = [s \in Sessions |-> {}]
    /\ stale = {} /\ ended = {}
    /\ cache = [r \in Requests |-> None] /\ gone = {} /\ lock = None
    /\ open = {} /\ bound = [c \in Conns |-> None] /\ online = None /\ kicked = {}
    /\ job = [c \in Conns |-> Idle]
    /\ req = [c \in Conns |-> None] /\ ans = [c \in Conns |-> None]
    /\ ctok = None /\ cid = None /\ ccon = None /\ fresh = Requests
    /\ dropped = {}

-----------------------------------------------------------------------------
(* The device.                                                             *)

(* A connection is used once: open of an unused one. *)
Connect(c) ==
    /\ ccon = None /\ c \notin open
    /\ bound[c] = None /\ job[c] = Idle /\ req[c] = None /\ ans[c] = None /\ c \notin kicked
    /\ ccon' = c /\ open' = open \cup {c}
    /\ UNCHANGED <<rows, service, bound, online, kicked, wires, ctok, cid, asked>>

(* One request at a time; the answer is waited for. *)
Free == ccon # None /\ req[ccon] = None /\ job[ccon] = Idle /\ ans[ccon] = None

Request(op, r) ==
    /\ req' = [req EXCEPT ![ccon] = [op |-> op, tok |-> ctok, id |-> r]]
    /\ UNCHANGED <<rows, service, links, job, ans, ctok, ccon>>

AskLogin == Free /\ ctok = None /\ Request("login", None) /\ UNCHANGED <<cid, asked>>

AskToken ==
    /\ Free /\ ctok # None /\ bound[ccon] = None
    /\ Request("token", None) /\ UNCHANGED <<cid, asked>>

(* Mutant: every refresh gets a request_id of its own. *)
AskRefreshAnew ==
    /\ Free /\ ctok # None
    /\ \E r \in fresh : Request("refresh", r) /\ cid' = r /\ fresh' = fresh \ {r}
    /\ UNCHANGED dropped

(* Mutant: a pending request_id is taken for none. *)
AskRefreshNoId ==
    /\ Free /\ ctok # None
    /\ Request("refresh", cid) /\ UNCHANGED <<cid, asked>>

(* TokenManager::beginRefresh: the pending request_id, or a new one. *)
AskRefresh ==
    /\ Free /\ ctok # None
    /\ \/ cid # None /\ Request("refresh", cid) /\ UNCHANGED <<cid, asked>>
       \/ /\ cid = None
          /\ \E r \in fresh : Request("refresh", r) /\ cid' = r /\ fresh' = fresh \ {r}
          /\ UNCHANGED dropped

AskLogout == Free /\ ctok # None /\ Request("logout", None) /\ UNCHANGED <<cid, asked>>

(* The answer: new tokens are stored, or lost when the store fails; a      *)
(* refused refresh and a logout empty the store.                           *)
Read ==
    /\ ccon # None /\ ccon \notin kicked /\ ans[ccon] # None
    /\ ans' = [ans EXCEPT ![ccon] = None]
    /\ LET a == ans[ccon] IN
       \/ a.ok /\ a.op \in {"login", "refresh"} /\ ctok' = a.tok /\ cid' = None
       \/ a.ok /\ a.op \in {"login", "refresh"} /\ UNCHANGED <<ctok, cid>>
       \/ (a.op = "logout" \/ (a.op = "refresh" /\ ~a.ok)) /\ ctok' = None /\ cid' = None
       \/ (a.op = "token" \/ (a.op = "login" /\ ~a.ok)) /\ UNCHANGED <<ctok, cid>>
    /\ UNCHANGED <<rows, service, links, job, req, ccon, asked>>

ReadKick ==
    /\ ccon \in kicked
    /\ kicked' = kicked \ {ccon} /\ ctok' = None /\ cid' = None /\ ccon' = None
    /\ UNCHANGED <<rows, service, open, bound, online, wires, asked>>

(* The connection is gone for the device, or the device restarts: what is  *)
(* stored stays, the pending request_id included.                          *)
Lose ==
    /\ ccon # None
    /\ ccon' = None
    /\ UNCHANGED <<rows, service, links, wires, ctok, cid, asked>>

(* AccountSession::cancel forgets the pending request_id. *)
Cancel ==
    /\ ccon # None
    /\ ccon' = None /\ cid' = None /\ dropped' = dropped \cup ({cid} \ {None})
    /\ UNCHANGED <<rows, service, links, wires, ctok, fresh>>

-----------------------------------------------------------------------------
(* The server.                                                             *)

Answer(c, ok, t) ==
    /\ ans' = IF c \in open THEN [ans EXCEPT ![c] = [op |-> job[c].op, ok |-> ok, tok |-> t]]
              ELSE ans
    /\ job' = [job EXCEPT ![c] = Idle]
    /\ UNCHANGED <<req, device>>

Refuse(c) == Answer(c, FALSE, None)

Go(c, step, t) ==
    /\ job' = [job EXCEPT ![c].at = step, ![c].tok = t]
    /\ UNCHANGED <<req, ans, device>>

Take(c) ==
    /\ req[c] # None /\ job[c] = Idle
    /\ req' = [req EXCEPT ![c] = None]
    /\ job' = [job EXCEPT ![c] = [at |-> "check", op |-> req[c].op,
                                  tok |-> req[c].tok, id |-> req[c].id]]
    /\ UNCHANGED <<rows, service, links, ans, device>>

(* findByRefreshHash and findByAccessHash: the row that holds the token. *)
Holds(t) == gen[t.s] = t.g
Good(t) == Holds(t) /\ t.s \notin revoked

At(c, op, step) == job[c].at = step /\ job[c].op = op

(* onLogin: TokenService::issue writes the row, or fails. *)
Issue(c) ==
    /\ At(c, "login", "check")
    /\ \/ /\ bound[c] = None
          /\ \E s \in {x \in Sessions : gen[x] = 0} :
                /\ gen' = [gen EXCEPT ![s] = 1]
                /\ Go(c, "bind", [s |-> s, g |-> 1])
       \/ Refuse(c) /\ UNCHANGED gen
    /\ UNCHANGED <<revoked, used, stale, ended, service, links>>

(* onTokenLogin: validateAccess. *)
ValidateAccess(c) ==
    /\ At(c, "token", "check")
    /\ LET t == job[c].tok IN
       IF bound[c] = None /\ Good(t) /\ t.s \notin stale
       THEN Go(c, "bind", t) ELSE Refuse(c)
    /\ UNCHANGED <<rows, service, links>>

(* bindAuth, then activateSession: the connection before this one goes. *)
Bind(c) ==
    /\ job[c].at = "bind"
    /\ bound' = [bound EXCEPT ![c] = job[c].tok.s]
    /\ online' = c
    /\ kicked' = kicked \cup (({online} \ {c}) \cap open)
    /\ open' = open \ ({online} \ {c})
    /\ Answer(c, TRUE, job[c].tok)
    /\ UNCHANGED <<rows, service>>

(* onTokenRefresh looks for the device's key first: under the row that     *)
(* holds the refresh token now.                                            *)
RefreshCheck(c) ==
    /\ At(c, "refresh", "check")
    /\ IF Good(job[c].tok) THEN Go(c, "rotate", job[c].tok) ELSE Refuse(c)
    /\ UNCHANGED <<rows, service, links>>

(* A successful refresh binds a logged-in connection to the new pair. *)
Rotated(c, t) ==
    /\ Answer(c, TRUE, t)
    /\ bound' = [bound EXCEPT ![c] = IF @ = None THEN None ELSE t.s]
    /\ UNCHANGED <<open, online, kicked>>

(* A used refresh token: the family is revoked and its user kicked. *)
Reused(c, t) ==
    /\ Refuse(c)
    /\ IF t.g \in used[t.s]
       THEN /\ revoked' = revoked \cup {t.s}
            /\ kicked' = kicked \cup ({online} \cap open)
            /\ open' = open \ {online}
       ELSE UNCHANGED <<revoked, kicked, open>>
    /\ UNCHANGED <<gen, used, stale, ended, bound, online>>

(* Mutant: the results of finished requests are not looked up. *)
CachedNever(c) == None

Cached(c) == cache[job[c].id]

RotateReady(c) == job[c].at = "rotate" /\ lock = None

(* rotateRefresh under m_refreshMtx: the result of the same request, or    *)
(* the row that holds the token.                                           *)
RotateFind(c) ==
    /\ RotateReady(c)
    /\ LET t == job[c].tok IN
       \/ /\ Cached(c) # None
          /\ IF Cached(c).old = t THEN Rotated(c, Cached(c).new)
             ELSE Refuse(c) /\ UNCHANGED links
          /\ UNCHANGED <<rows, lock>>
       \/ /\ Cached(c) = None /\ ~Holds(t)
          /\ Reused(c, t)
          /\ UNCHANGED lock
       \/ /\ Cached(c) = None /\ Holds(t)
          /\ IF t.s \in revoked \cup ended THEN Refuse(c) /\ UNCHANGED lock
             ELSE Go(c, "commit", t) /\ lock' = c
          /\ UNCHANGED <<rows, links>>
    /\ UNCHANGED <<cache, gone>>

(* Mutant: the UPDATE has no AND revoked=0. *)
CommittableRevoked(t) == Holds(t) /\ t.g < MaxGen

Committable(t) == Good(t) /\ t.g < MaxGen

(* Mutant: the old token does not enter auth_refresh_history. *)
HistoryForgets(t) == used[t.s]

History(t) == used[t.s] \cup {t.g}

(* Results that this step throws away. *)
Forgets == gone' = gone \cup {r \in Requests : cache[r] # None /\ cache'[r] = None}

(* The result of a request is kept; when there are 1024 of them, an        *)
(* arbitrary other one goes.  Most are those of other users' devices, so   *)
(* the limit may be reached whenever this device's refresh ends.           *)
Keep(id, result) ==
    /\ \E kept \in {cache} \cup {[cache EXCEPT ![r] = None] : r \in Requests} :
          cache' = [kept EXCEPT ![id] = result]
    /\ Forgets

(* rotateRefreshToken: one transaction that keeps the old token in the     *)
(* history and replaces it in the row, if it is still there; or it fails.  *)
RotateCommit(c) ==
    /\ job[c].at = "commit"
    /\ lock' = None
    /\ LET t == job[c].tok  n == [t EXCEPT !.g = @ + 1] IN
       \/ /\ Committable(t)
          /\ gen' = [gen EXCEPT ![t.s] = n.g]
          /\ used' = [used EXCEPT ![t.s] = History(t)]
          /\ stale' = stale \ {t.s} /\ ended' = ended \ {t.s}
          /\ Keep(job[c].id, [old |-> t, new |-> n])
          /\ Rotated(c, n)
          /\ UNCHANGED revoked
       \/ Reused(c, t) /\ UNCHANGED <<cache, gone>>

(* onLogout: the refresh token must be this connection's. *)
LogoutCheck(c) ==
    /\ At(c, "logout", "check")
    /\ IF Good(job[c].tok) /\ bound[c] = job[c].tok.s
       THEN Go(c, "revoke", job[c].tok) ELSE Refuse(c)
    /\ UNCHANGED <<rows, service, links>>

(* revokeSession, or revokeAllUserSessions; the connection is closed after *)
(* the answer.                                                             *)
LogoutRevoke(c) ==
    /\ job[c].at = "revoke"
    /\ \E all \in BOOLEAN :
          revoked' = revoked \cup (IF all THEN {s \in Sessions : gen[s] > 0} ELSE {job[c].tok.s})
    /\ Answer(c, TRUE, None)
    /\ open' = open \ {c}
    /\ UNCHANGED <<gen, used, stale, ended, service, bound, online, kicked>>

(* The server sees the end of a connection; a handler of it goes on. *)
Closed(c) ==
    /\ c # ccon /\ (c \in open \/ online = c)
    /\ open' = open \ {c} /\ online' = IF online = c THEN None ELSE online
    /\ req' = [req EXCEPT ![c] = None] /\ ans' = [ans EXCEPT ![c] = None]
    /\ UNCHANGED <<rows, service, bound, kicked, job, device>>

(* Tokens run out. *)
AccessExpires(s) ==
    /\ gen[s] > 0 /\ s \notin stale
    /\ stale' = stale \cup {s}
    /\ UNCHANGED <<gen, revoked, used, ended, service, links, wires, device>>

RefreshExpires(s) ==
    /\ gen[s] > 0 /\ s \notin ended
    /\ ended' = ended \cup {s}
    /\ UNCHANGED <<gen, revoked, used, stale, service, links, wires, device>>

(* Another device's refresh takes the mutex and erases a result older than *)
(* 120 seconds, or an arbitrary one at the limit; a handler of this device *)
(* that passed the check may be waiting for it.                            *)
CacheExpires(r) ==
    /\ cache[r] # None /\ lock = None
    /\ cache' = [cache EXCEPT ![r] = None]
    /\ Forgets
    /\ UNCHANGED <<rows, lock, links, wires, device>>

(* The process restarts: the tables stay. *)
Restart ==
    /\ cache' = [r \in Requests |-> None] /\ Forgets /\ lock' = None
    /\ open' = {} /\ bound' = [c \in Conns |-> None] /\ online' = None /\ kicked' = {}
    /\ job' = [c \in Conns |-> Idle]
    /\ req' = [c \in Conns |-> None] /\ ans' = [c \in Conns |-> None]
    /\ ccon' = None
    /\ UNCHANGED <<rows, ctok, cid, asked>>

-----------------------------------------------------------------------------
Device ==
    \/ \E c \in Conns : Connect(c)
    \/ AskLogin \/ AskToken \/ AskRefresh \/ AskLogout
    \/ Read \/ ReadKick \/ Lose \/ Cancel

Handler(c) ==
    \/ Take(c) \/ Issue(c) \/ ValidateAccess(c) \/ Bind(c)
    \/ RefreshCheck(c) \/ RotateFind(c) \/ RotateCommit(c)
    \/ LogoutCheck(c) \/ LogoutRevoke(c) \/ Closed(c)

Next ==
    \/ Device
    \/ \E c \in Conns : Handler(c)
    \/ \E s \in Sessions : AccessExpires(s) \/ RefreshExpires(s)
    \/ \E r \in Requests : CacheExpires(r)
    \/ Restart

Spec == Init /\ [][Next]_vars

-----------------------------------------------------------------------------
Frames == [op : Ops, tok : Pairs \cup {None}, id : Requests \cup {None}]
Jobs == [at : Steps, op : Ops, tok : Pairs \cup {None}, id : Requests \cup {None}]
Answers == [op : Ops, ok : BOOLEAN, tok : Pairs \cup {None}]

(* What comes with an operation, and with a step of it. *)
Complete(f) ==
    /\ f.op # "login" => f.tok \in Pairs
    /\ f.op = "refresh" => f.id \in Requests

JobOK(j) ==
    /\ j.at # "idle" => Complete(j)
    /\ j.at = "bind" => j.op \in {"login", "token"} /\ j.tok \in Pairs
    /\ j.at \in {"rotate", "commit"} => j.op = "refresh"
    /\ j.at = "revoke" => j.op = "logout"

RowType ==
    /\ gen \in [Sessions -> 0..MaxGen] /\ revoked \subseteq Sessions
    /\ used \in [Sessions -> SUBSET (1..MaxGen)]
    /\ stale \subseteq Sessions /\ ended \subseteq Sessions
    /\ cache \in [Requests -> [old : Pairs, new : Pairs] \cup {None}]
    /\ gone \subseteq Requests
    /\ lock \in Conns \cup {None}

LinkType ==
    /\ open \subseteq Conns /\ kicked \subseteq Conns
    /\ bound \in [Conns -> Sessions \cup {None}] /\ online \in Conns \cup {None}

WireType ==
    /\ job \in [Conns -> Jobs] /\ \A c \in Conns : JobOK(job[c])
    /\ req \in [Conns -> Frames \cup {None}]
    /\ \A c \in Conns : req[c] # None => Complete(req[c])
    /\ ans \in [Conns -> Answers \cup {None}]
    /\ \A c \in Conns : ans[c] # None /\ ans[c].ok /\ ans[c].op \in {"login", "refresh"}
                         => ans[c].tok \in Pairs

DeviceType ==
    /\ ctok \in Pairs \cup {None} /\ cid \in Requests \cup {None}
    /\ ccon \in Conns \cup {None} /\ fresh \subseteq Requests /\ dropped \subseteq Requests

TypeOK == RowType /\ LinkType /\ WireType /\ DeviceType

(* The history holds exactly the refresh tokens a row has had before: no   *)
(* token is exchanged twice, and none leaves without a trace, whatever     *)
(* refreshes and revocations race (rotateRefreshToken's transaction).      *)
HistoryComplete == \A s \in Sessions : used[s] = {g \in 1..MaxGen : g < gen[s]}

(* A revoked session stays revoked and gets no new tokens, even when the   *)
(* revocation falls between the steps of a refresh (UPDATE ... revoked=0). *)
RevokedIsFinal ==
    [][\A s \in revoked : s \in revoked' /\ gen'[s] = gen[s]]_vars

(* A device that repeats an unanswered refresh under its pending           *)
(* request_id is not taken for a replay: as long as the user does not make *)
(* it forget that id, a session is revoked by a logout, or by a handler    *)
(* that passed the check and whose result was erased while it waited for   *)
(* m_refreshMtx (1024 results, or 120 seconds).                            *)
NoSelfRevocation ==
    [][dropped = {} /\ revoked' # revoked =>
          \E c \in Conns : /\ job'[c] # job[c]
                           /\ job[c].at = "revoke" \/ job[c].id \in gone]_vars

(* The device never falls behind for good: the tokens it has stored are    *)
(* those of the row, or the ones before them, exchanged under the          *)
(* request_id that is still pending, whose result is kept for the retry    *)
(* until age, the limit or a restart erases it (beginRefresh, rotate).     *)
RetryWillDo ==
    dropped = {} /\ ctok # None =>
        \/ Holds(ctok)
        \/ /\ gen[ctok.s] = ctok.g + 1 /\ cid # None
           /\ \/ cache[cid] = [old |-> ctok, new |-> [ctok EXCEPT !.g = @ + 1]]
              \/ cid \in gone

RefusedNow(c) == ans'[c] # ans[c] /\ ans'[c] # None /\ ~ans'[c].ok

(* The retry of a refresh whose answer was lost gets the pair of the first *)
(* time while it is kept (rotateRefresh).                                  *)
RetryGetsSamePair ==
    [][\A c \in Conns :
          job[c].op = "refresh" /\ job[c].at # "idle" /\ RefusedNow(c)
          => cache[job[c].id] = None]_vars
=============================================================================
