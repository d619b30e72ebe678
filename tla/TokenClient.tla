----------------------------- MODULE TokenClient -----------------------------
(***************************************************************************)
(* The life of the token pair in the Flutter client: the interceptor that  *)
(* attaches it and refreshes it after a 401, the token store, and login,   *)
(* logout and session restoration                                          *)
(* (frontend/lib/core/network/auth_interceptor.dart, core/storage/         *)
(* secure_token_store.dart, features/auth).                                *)
(*                                                                         *)
(* The client is one isolate: what interleaves are its asynchronous calls, *)
(* at their awaits.  The server appears through its answers; the sessions  *)
(* it keeps are those of AuthSessions, each of its calls one step here.    *)
(***************************************************************************)
EXTENDS Naturals

CONSTANTS
    Requests,  \* HTTP requests of the application, each made once
    NoRequest, \* "nobody"
    MaxPairs,  \* bound: token pairs the server issues
    Exposures  \* the sets of events, see EventKinds, to expose the client to

(***************************************************************************)
(* network  a request fails without reaching the server                    *)
(* lost     the server serves it and the answer is lost                    *)
(* restart  the application is killed and started again                    *)
(* revoke   the server ends a session: logout of all devices elsewhere, or *)
(*          the lifetime of the refresh token                              *)
(* logout   the user logs out on this device                               *)
(* leaveAll the user logs out on all devices                               *)
(***************************************************************************)
EventKinds == {"network", "lost", "restart", "revoke", "logout", "leaveAll"}

ASSUME ClientAssumption ==
    /\ NoRequest \notin Requests
    /\ MaxPairs \in Nat
    /\ Exposures \subseteq SUBSET EventKinds

VARIABLES
    events,    \* the events this behaviour is exposed to
    issued,    \* server: the number of token pairs issued
    row,       \* server: the refresh session of each pair
    expired,   \* server: access tokens up to this pair have expired
    reused,    \* server: families revoked because a replaced token came back
    mem,       \* SecureTokenStore._memoryCache
    disk,      \* what the platform's secure storage holds
    session,   \* AuthController's state: loading, error, in (a user), out (null)
    kind,      \* what each request is
    pc,        \* where each request is
    carried,   \* the pair whose access token it was sent with
    flight,    \* _refreshInFlight: the request whose handler started it
    inHand,    \* the pair the refresh of a request presents, then the one it got
    entering,  \* login: the pair it was answered with, and how far it is
    leaving    \* logout: the pair it revokes, and how far it is

server == <<issued, row, expired, reused>>
store == <<mem, disk>>
requests == <<kind, pc, carried>>
refresh == <<flight, inHand>>
vars == <<events, server, store, session, requests, refresh, entering, leaving>>

None == 0
Pairs == 1..MaxPairs
MaybePair == Pairs \union {None}

\* A row of refresh_sessions; family is the pair its login issued.
Rows == [state: {"absent", "live", "replaced", "revoked"}, family: MaybePair]
Live(p) == p \in Pairs /\ row[p].state = "live"

Kinds == {"page", "restore", "logoutAll"}
Refreshing == {"posting", "answered", "stored", "expiring"}
Locations == {"idle", "sent", "refused", "waiting", "retrying", "ok",
              "unauthorized", "error", "clearing", "done"} \union Refreshing
Stages == {"idle", "sent", "stored", "clearing"}

\* The application starts, with the session of an earlier login or without.
Init ==
    /\ events \in Exposures
    /\ issued \in 0..1 /\ issued <= MaxPairs
    /\ row = [p \in Pairs |-> IF p <= issued THEN [state |-> "live", family |-> p]
                              ELSE [state |-> "absent", family |-> None]]
    /\ expired = 0 /\ reused = {}
    /\ mem = issued /\ disk = issued
    /\ session = "loading"
    /\ kind = [r \in Requests |-> "page"]
    /\ pc = [r \in Requests |-> "idle"]
    /\ carried = [r \in Requests |-> None]
    /\ flight = NoRequest
    /\ inHand = [r \in Requests |-> None]
    /\ entering = [stage |-> "idle", pair |-> None]
    /\ leaving = [stage |-> "idle", pair |-> None]

Goto(r, from, to) == pc[r] = from /\ pc' = [pc EXCEPT ![r] = to]

-----------------------------------------------------------------------------
(* The server, one call at a time.                                         *)

\* A new pair for a login, or replacing the pair p.
Issue(p) ==
    /\ issued < MaxPairs
    /\ issued' = issued + 1
    /\ row' = [q \in Pairs |->
                 IF q = issued + 1
                 THEN [state |-> "live", family |-> IF p = None THEN q ELSE row[p].family]
                 ELSE IF q = p THEN [row[q] EXCEPT !.state = "replaced"] ELSE row[q]]
    /\ UNCHANGED <<expired, reused>>

\* The live rows of a set are revoked.
Revoke(pairs) ==
    /\ row' = [q \in Pairs |-> IF q \in pairs /\ Live(q)
                               THEN [row[q] EXCEPT !.state = "revoked"] ELSE row[q]]
    /\ UNCHANGED <<issued, expired>>

\* A token that was replaced costs its family; a revoked one is refused.
RefuseToken(p) ==
    IF row[p].state = "replaced"
    THEN /\ Revoke({q \in Pairs : row[q].family = row[p].family})
         /\ reused' = reused \union {row[p].family}
    ELSE UNCHANGED server

\* The access token of a pair is accepted until it expires, whatever became
\* of the session.
Accepted(p) == p > expired

-----------------------------------------------------------------------------
(* Requests and the interceptor.                                           *)

\* onRequest attaches the access token the store holds.
Send(r, k) ==
    /\ Goto(r, "idle", "sent")
    /\ kind' = [kind EXCEPT ![r] = k]
    /\ carried' = [carried EXCEPT ![r] = mem]

\* A page, or the user ending all sessions, while the router shows the home.
Request(r) ==
    /\ session = "in"
    /\ Send(r, "page") \/ ("leaveAll" \in events /\ Send(r, "logoutAll"))
    /\ UNCHANGED <<events, server, store, session, refresh, entering, leaving>>

Restoring == \E r \in Requests : kind[r] = "restore"

\* restoreSession: without tokens the user is out; else ask who it is.
Restore(r) ==
    /\ session = "loading" /\ ~Restoring
    /\ \/ /\ mem = None
          /\ session' = "out"
          /\ UNCHANGED requests
       \/ /\ mem # None
          /\ Send(r, "restore")
          /\ UNCHANGED session
    /\ UNCHANGED <<events, server, store, refresh, entering, leaving>>

\* The button of the splash page.
RetryRestore ==
    /\ session = "error"
    /\ session' = "loading"
    /\ UNCHANGED <<events, server, store, requests, refresh, entering, leaving>>

\* The access token is accepted and the request served.
ServeRequest(r) ==
    /\ Accepted(carried[r])
    /\ Goto(r, "sent", "ok") \/ Goto(r, "retrying", "ok")
    /\ IF kind[r] = "logoutAll" THEN Revoke(Pairs) /\ UNCHANGED reused
       ELSE UNCHANGED server
    /\ UNCHANGED <<events, store, session, kind, carried, refresh, entering, leaving>>

\* 401: the first one is handled, that of the retry goes to the caller.
RefuseRequest(r) ==
    /\ ~Accepted(carried[r])
    /\ Goto(r, "sent", "refused") \/ Goto(r, "retrying", "unauthorized")
    /\ UNCHANGED <<events, server, store, session, kind, carried, refresh, entering, leaving>>

\* It fails otherwise, served or not.
RequestFails(r) ==
    /\ Goto(r, "sent", "error") \/ Goto(r, "retrying", "error")
    /\ \/ "network" \in events /\ UNCHANGED server
       \/ /\ "lost" \in events /\ Accepted(carried[r])
          /\ IF kind[r] = "logoutAll" THEN Revoke(Pairs) /\ UNCHANGED reused
             ELSE UNCHANGED server
    /\ UNCHANGED <<events, store, session, kind, carried, refresh, entering, leaving>>

\* MUTANT: each refused request refreshes for itself.
RefreshAlone(r) ==
    /\ mem # None
    /\ Goto(r, "refused", "posting")
    /\ inHand' = [inHand EXCEPT ![r] = mem]
    /\ flight' = r
    /\ UNCHANGED <<events, server, store, session, kind, carried, entering, leaving>>

\* _singleFlightRefresh when none is in flight: present the stored token, or
\* end the local session if there is none.
StartRefresh(r) ==
    /\ flight = NoRequest
    /\ \/ mem # None /\ Goto(r, "refused", "posting")
       \/ mem = None /\ Goto(r, "refused", "expiring")
    /\ inHand' = [inHand EXCEPT ![r] = mem]
    /\ flight' = r
    /\ UNCHANGED <<events, server, store, session, kind, carried, entering, leaving>>

\* ... and when one is: await its result.
JoinRefresh(r) ==
    /\ flight # NoRequest
    /\ Goto(r, "refused", "waiting")
    /\ UNCHANGED <<events, server, store, session, kind, carried, refresh, entering, leaving>>

\* The server rotates the pair that is presented ...
Rotated(r) == Live(inHand[r]) /\ Issue(inHand[r])

RefreshAnswered(r) ==
    /\ Goto(r, "posting", "answered")
    /\ Rotated(r)
    /\ inHand' = [inHand EXCEPT ![r] = issued']
    /\ UNCHANGED <<events, store, session, kind, carried, flight, entering, leaving>>

\* ... or refuses it: _expireLocalSession clears the store.
RefreshRefused(r) ==
    /\ ~Live(inHand[r])
    /\ Goto(r, "posting", "expiring")
    /\ RefuseToken(inHand[r])
    /\ mem' = None
    /\ UNCHANGED <<events, disk, session, kind, carried, refresh, entering, leaving>>

\* MUTANT: those that await the refresh of r are forgotten.
CompleteAlone(r, to) ==
    /\ flight' = NoRequest
    /\ inHand' = [inHand EXCEPT ![r] = None]
    /\ pc' = [pc EXCEPT ![r] = to]

\* The future of the refresh of r completes: r and all that await it go on.
Complete(r, to) ==
    /\ flight' = NoRequest
    /\ inHand' = [inHand EXCEPT ![r] = None]
    /\ pc' = [q \in Requests |-> IF q = r \/ pc[q] = "waiting" THEN to ELSE pc[q]]

\* Any other failure is rethrown; the tokens are kept.  At the bound of
\* MaxPairs every refresh fails this way.
RefreshFails(r) ==
    /\ pc[r] = "posting"
    /\ \/ ("network" \in events \/ issued = MaxPairs) /\ UNCHANGED server
       \/ "lost" \in events /\ Rotated(r)
       \/ "lost" \in events /\ ~Live(inHand[r]) /\ RefuseToken(inHand[r])
    /\ Complete(r, "error")
    /\ UNCHANGED <<events, store, session, kind, carried, entering, leaving>>

\* SecureTokenStore.write: the platform first, then the memory cache.
StoreTokens(r) ==
    /\ Goto(r, "answered", "stored")
    /\ disk' = inHand[r]
    /\ UNCHANGED <<events, server, mem, session, kind, carried, refresh, entering, leaving>>

\* MUTANT: write does not renew the memory cache.
RefreshedUncached(r) ==
    /\ pc[r] = "stored"
    /\ UNCHANGED mem
    /\ Complete(r, "retrying")
    /\ carried' = [q \in Requests |-> IF q = r \/ pc[q] = "waiting" THEN mem ELSE carried[q]]
    /\ UNCHANGED <<events, server, disk, session, kind, entering, leaving>>

\* Every request that was refused meanwhile is sent again; onRequest attaches
\* the new access token to it.
Refreshed(r) ==
    /\ pc[r] = "stored"
    /\ mem' = inHand[r]
    /\ Complete(r, "retrying")
    /\ carried' = [q \in Requests |-> IF q = r \/ pc[q] = "waiting" THEN mem' ELSE carried[q]]
    /\ UNCHANGED <<events, server, disk, session, kind, entering, leaving>>

\* MUTANT: AuthController keeps the event as its state.
ExpireToEvent(r) ==
    /\ pc[r] = "expiring"
    /\ disk' = None
    /\ session' = "expired"
    /\ Complete(r, "unauthorized")
    /\ UNCHANGED <<events, server, mem, kind, carried, entering, leaving>>

\* The stored pair is deleted and AuthController told.
ExpireLocalSession(r) ==
    /\ pc[r] = "expiring"
    /\ disk' = None
    /\ session' = "out"
    /\ Complete(r, "unauthorized")
    /\ UNCHANGED <<events, server, mem, kind, carried, entering, leaving>>

\* A request is over, and its local variables with it.
Over(r) ==
    /\ pc' = [pc EXCEPT ![r] = "done"]
    /\ kind' = [kind EXCEPT ![r] = "page"]
    /\ carried' = [carried EXCEPT ![r] = None]

\* The caller goes on; SecureTokenStore.clear empties the memory cache first.
Deliver(r) ==
    /\ \/ /\ \/ kind[r] = "page" /\ pc[r] \in {"ok", "unauthorized", "error"}
             \/ kind[r] = "logoutAll" /\ pc[r] \in {"unauthorized", "error"}
          /\ Over(r)
          /\ UNCHANGED <<mem, session>>
       \/ /\ kind[r] = "restore"
          /\ \/ pc[r] = "ok" /\ session' = "in"
             \/ pc[r] = "error" /\ session' = "error"
          /\ Over(r)
          /\ UNCHANGED mem
       \/ /\ \/ kind[r] = "restore" /\ Goto(r, "unauthorized", "clearing")
             \/ kind[r] = "logoutAll" /\ Goto(r, "ok", "clearing")
          /\ mem' = None
          /\ UNCHANGED <<session, kind, carried>>
    /\ UNCHANGED <<events, server, disk, refresh, entering, leaving>>

\* ... and deletes the stored pair.
Cleared(r) ==
    /\ pc[r] = "clearing"
    /\ Over(r)
    /\ disk' = None
    /\ session' = "out"
    /\ UNCHANGED <<events, server, mem, refresh, entering, leaving>>

-----------------------------------------------------------------------------
(* Login and logout.                                                       *)

Login ==
    /\ session = "out"
    /\ entering.stage = "idle"
    /\ Issue(None)
    /\ entering' = [stage |-> "sent", pair |-> issued']
    /\ UNCHANGED <<events, store, session, requests, refresh, leaving>>

LoginStores ==
    /\ entering.stage = "sent"
    /\ disk' = entering.pair
    /\ entering' = [entering EXCEPT !.stage = "stored"]
    /\ UNCHANGED <<events, server, mem, session, requests, refresh, leaving>>

LoggedIn ==
    /\ entering.stage = "stored"
    /\ mem' = entering.pair
    /\ session' = "in"
    /\ entering' = [stage |-> "idle", pair |-> None]
    /\ UNCHANGED <<events, server, disk, requests, refresh, leaving>>

Logout ==
    /\ "logout" \in events
    /\ session = "in"
    /\ leaving.stage = "idle"
    /\ leaving' = [stage |-> "sent", pair |-> mem]
    /\ UNCHANGED <<events, server, store, session, requests, refresh, entering>>

\* Whatever becomes of the request, the store is cleared.
LogoutClears ==
    /\ leaving.stage = "sent"
    /\ \/ leaving.pair # None /\ Revoke({leaving.pair}) /\ UNCHANGED reused
       \/ (leaving.pair = None \/ "network" \in events) /\ UNCHANGED server
    /\ mem' = None
    /\ leaving' = [leaving EXCEPT !.stage = "clearing"]
    /\ UNCHANGED <<events, disk, session, requests, refresh, entering>>

LoggedOut ==
    /\ leaving.stage = "clearing"
    /\ disk' = None
    /\ session' = "out"
    /\ leaving' = [stage |-> "idle", pair |-> None]
    /\ UNCHANGED <<events, server, mem, requests, refresh, entering>>

-----------------------------------------------------------------------------
(* The environment.                                                        *)

\* Access tokens have one lifetime: they expire in the order of their issue.
ExpireAccess ==
    /\ expired < issued
    /\ expired' = expired + 1
    /\ UNCHANGED <<events, issued, row, reused, store, session, requests, refresh,
                   entering, leaving>>

RevokeElsewhere(p) ==
    /\ "revoke" \in events
    /\ Live(p)
    /\ Revoke({p}) /\ UNCHANGED reused
    /\ UNCHANGED <<events, store, session, requests, refresh, entering, leaving>>

\* The first read after a restart loads what the platform holds.
Restart ==
    /\ "restart" \in events
    /\ mem' = disk
    /\ session' = "loading"
    /\ pc' = [r \in Requests |-> IF pc[r] = "idle" THEN "idle" ELSE "done"]
    /\ kind' = [r \in Requests |-> "page"]
    /\ carried' = [r \in Requests |-> None]
    /\ flight' = NoRequest
    /\ inHand' = [r \in Requests |-> None]
    /\ entering' = [stage |-> "idle", pair |-> None]
    /\ leaving' = [stage |-> "idle", pair |-> None]
    /\ UNCHANGED <<events, server, disk>>

-----------------------------------------------------------------------------
\* What is bound to happen to a request once it was sent.
Proceed(r) ==
    \/ ServeRequest(r) \/ RefuseRequest(r)
    \/ StartRefresh(r) \/ JoinRefresh(r)
    \/ RefreshAnswered(r) \/ RefreshRefused(r)
    \/ StoreTokens(r) \/ Refreshed(r) \/ ExpireLocalSession(r)
    \/ Deliver(r) \/ Cleared(r)

Next ==
    \/ \E r \in Requests :
          Request(r) \/ Restore(r) \/ Proceed(r) \/ RequestFails(r) \/ RefreshFails(r)
    \/ RetryRestore
    \/ Login \/ LoginStores \/ LoggedIn
    \/ Logout \/ LogoutClears \/ LoggedOut
    \/ ExpireAccess \/ Restart
    \/ \E p \in Pairs : RevokeElsewhere(p)

Spec == Init /\ [][Next]_vars

\* Every request is answered or runs into Dio's timeouts, and the isolate and
\* the platform's storage make progress.
FairSpec == Spec /\ \A r \in Requests : WF_vars(Proceed(r) \/ RequestFails(r) \/ RefreshFails(r))

-----------------------------------------------------------------------------
(* Properties.                                                             *)

\* Every variable keeps its type.
TypeOK ==
    /\ events \in Exposures
    /\ issued \in 0..MaxPairs
    /\ row \in [Pairs -> Rows]
    /\ expired \in 0..MaxPairs /\ reused \subseteq MaybePair
    /\ mem \in MaybePair /\ disk \in MaybePair
    /\ session \in {"loading", "error", "in", "out"}
    /\ kind \in [Requests -> Kinds]
    /\ pc \in [Requests -> Locations]
    /\ carried \in [Requests -> MaybePair]
    /\ flight \in Requests \union {NoRequest}
    /\ inHand \in [Requests -> MaybePair]
    /\ entering \in [stage: Stages, pair: MaybePair]
    /\ leaving \in [stage: Stages, pair: MaybePair]

\* However many requests are refused at once, there is one refresh at a time,
\* the one in flight, and nobody awaits one that is not.
SingleFlight == \A r \in Requests :
    /\ pc[r] \in Refreshing <=> flight = r
    /\ pc[r] = "waiting" => flight # NoRequest

\* The client never presents a refresh token it has already exchanged, which
\* would cost the user the session; unless it could not learn of the exchange.
NoSelfReuse == events \intersect {"lost", "restart"} = {} => reused = {}

\* A request is retried with another access token than the refused one, even
\* if it was refused after the refresh it joined had been answered.
RetryIsFresh ==
    [][\A r \in Requests :
          pc[r] # "retrying" /\ pc'[r] = "retrying" => carried'[r] # carried[r]]_vars

\* Expiring access tokens and requests that do not reach the server never
\* sign the user out.
SignedInStays ==
    [][events \subseteq {"network"} /\ session = "in" => session' = "in"]_vars

\* Nor does an answer that is lost.
NetworkFailureKeepsSession ==
    [][events \subseteq {"network", "lost"} /\ session = "in" => session' = "in"]_vars

\* Every request comes to an end: it is retried once at most, and nobody waits
\* for a refresh that never completes.
EveryRequestEnds == \A r \in Requests : pc[r] = "sent" ~> pc[r] = "done"
-----------------------------------------------------------------------------
(* The inductive invariant behind the theorems of TokenProofs.             *)

\* Nothing refers to a pair the server has not issued.
IssuedInv ==
    /\ \A p \in Pairs : row[p].state = "absent" <=> p > issued
    /\ mem <= issued /\ disk <= issued
    /\ entering.pair <= issued /\ leaving.pair <= issued
    /\ entering.stage # "idle" => entering.pair # None
    /\ \A r \in Requests :
          /\ carried[r] <= issued /\ inHand[r] <= issued
          /\ pc[r] \in {"posting", "answered", "stored"} => inHand[r] # None

\* Until its refresh completes nobody else has the new pair.
FreshInv == \A r \in Requests :
    /\ pc[r] \in {"answered", "stored"} =>
          /\ inHand[r] # mem
          /\ \A q \in Requests : carried[q] # inHand[r]
    /\ pc[r] \in {"posting", "answered", "stored"} /\ entering.stage # "idle" =>
          inHand[r] # entering.pair
    /\ entering.stage # "idle" => mem # entering.pair

\* A replaced pair is in the store only until the refresh that replaced it
\* has stored the new one; one that is to be presented or stored is not.
Replaced(p) == p \in Pairs /\ row[p].state = "replaced"

StoreInv == events \intersect {"lost", "restart"} = {} =>
    /\ reused = {}
    /\ Replaced(mem) => \E r \in Requests : pc[r] \in {"answered", "stored"}
    /\ entering.stage # "idle" => ~Replaced(entering.pair)
    /\ \A r \in Requests :
          pc[r] \in {"posting", "answered", "stored"} => ~Replaced(inHand[r])

\* Without logouts and revocations, what the client holds stays exchangeable,
\* and a user who is in is not taken for one whose session is being restored.
QuietInv == events \subseteq {"network"} =>
    /\ \A p \in Pairs : row[p].state # "revoked"
    /\ leaving.stage = "idle"
    /\ session = "in" => mem # None /\ entering.stage = "idle"
    /\ entering.stage # "idle" => session = "out"
    /\ \A r \in Requests :
          /\ kind[r] # "logoutAll"
          /\ pc[r] # "expiring"
          /\ pc[r] = "clearing" => kind[r] = "restore"
          /\ kind[r] = "restore" =>
                /\ session = "loading"
                /\ pc[r] \notin {"idle", "done"}
                /\ pc[r] # "clearing" => mem # None
                /\ \A q \in Requests : q # r => pc[q] \in {"idle", "done"}
          /\ kind[r] = "page" /\ pc[r] \notin {"idle", "done"} => session = "in"

\* What the client holds, and what the server made of it, agree at every await.
ClientInv == SingleFlight /\ IssuedInv /\ FreshInv /\ StoreInv /\ QuietInv
=============================================================================
