---------------------------- MODULE AuthSessions ----------------------------
(***************************************************************************)
(* The refresh sessions of one user: login, token rotation with reuse      *)
(* detection, logout and logout of all devices                             *)
(* (backend/app/domains/auth/service.py and repository.py).                *)
(*                                                                         *)
(* A row of refresh_sessions stands for the refresh token issued with it.  *)
(* Rows made by rotating one login's token form a family.  A call is one   *)
(* service call; each runs one transaction under READ COMMITTED, and what  *)
(* happens between its statements is the subject of this module.  Tokens   *)
(* presented are ones the service issued: their signature is valid and     *)
(* they match the row they name, so the branches for a forged token or a   *)
(* missing row do not arise.                                               *)
(***************************************************************************)
EXTENDS Naturals, FiniteSets

CONSTANTS
    Calls,     \* service calls, each made once
    Sessions,  \* ids for rows of refresh_sessions
    Families,  \* ids for token families
    Nobody     \* no call, no session, no family

ASSUME AuthAssumption == Nobody \notin Calls \union Sessions \union Families

VARIABLES
    row,      \* refresh_sessions as committed
    expired,  \* rows whose expires_at has passed
    lock,     \* the call whose transaction locks each row
    pc,       \* where each call is
    token,    \* the session whose token a refresh or logout presents
    snap,     \* rows an UPDATE ... WHERE revoked_at IS NULL found in its snapshot
    todo,     \* those of them it has yet to lock and update
    reused    \* families a call reported as reused, with the reporting call

vars == <<row, expired, lock, pc, token, snap, todo, reused>>

\* revoked_at IS NULL is "live"; replaced_by_session_id is next.
Rows == [state: {"absent", "live", "revoked"}, family: Families \union {Nobody},
         next: Sessions \union {Nobody}]
NoRow == [state |-> "absent", family |-> Nobody, next |-> Nobody]

Locations == {"idle", "refresh", "rotate", "reuse", "logout", "logoutAll",
              "sweepFamily", "sweepAll", "sweptFamily", "sweptAll", "done"}

Live(s) == row[s].state = "live"

Init ==
    /\ row = [s \in Sessions |-> NoRow]
    /\ expired = {}
    /\ lock = [s \in Sessions |-> Nobody]
    /\ pc = [c \in Calls |-> "idle"]
    /\ token = [c \in Calls |-> Nobody]
    /\ snap = [c \in Calls |-> {}]
    /\ todo = [c \in Calls |-> {}]
    /\ reused = [c \in Calls |-> Nobody]

Goto(c, from, to) == pc[c] = from /\ pc' = [pc EXCEPT ![c] = to]

\* The end of c's transaction.
ReleaseLocks(c) == lock' = [s \in Sessions |-> IF lock[s] = c THEN Nobody ELSE lock[s]]

Family(f) == {s \in Sessions : row[s].state # "absent" /\ row[s].family = f}


-----------------------------------------------------------------------------
Issued == {s \in Sessions : row[s].state # "absent"}

\* A call arrives: a refresh or a logout with some issued token, which decode
\* refuses once it has expired, or a logout of all devices.
Begin(c) ==
    /\ \/ /\ \E s \in Issued \ expired : token' = [token EXCEPT ![c] = s]
          /\ Goto(c, "idle", "refresh") \/ Goto(c, "idle", "logout")
       \/ /\ \E s \in Issued \intersect expired : token' = [token EXCEPT ![c] = s]
          /\ Goto(c, "idle", "done")
       \/ Goto(c, "idle", "logoutAll") /\ UNCHANGED token
    /\ UNCHANGED <<row, expired, lock, snap, todo, reused>>

\* _create_session: row s starts the new family f.
NewSession(s, f) ==
    [row EXCEPT ![s] = [state |-> "live", family |-> f, next |-> Nobody]]

\* login, or register for a new account, which differs only in the user row.
Login(c) ==
    /\ Goto(c, "idle", "done")
    /\ \E s \in Sessions, f \in Families :
          /\ row[s].state = "absent"
          /\ Family(f) = {}
          /\ row' = NewSession(s, f)
    /\ UNCHANGED <<expired, lock, token, snap, todo, reused>>

\* MUTANT: the row is read without FOR UPDATE.
ReadForRotation(c) ==
    /\ Goto(c, "refresh", "rotate")
    /\ Live(token[c]) /\ token[c] \notin expired
    /\ UNCHANGED <<row, expired, lock, token, snap, todo, reused>>

\* refresh_tokens, row locked and its session active: insert the replacement.
LockForRotation(c) ==
    /\ Goto(c, "refresh", "rotate")
    /\ lock[token[c]] = Nobody
    /\ Live(token[c]) /\ token[c] \notin expired
    /\ lock' = [lock EXCEPT ![token[c]] = c]
    /\ UNCHANGED <<row, expired, token, snap, todo, reused>>

\* ... replaced before: the token is used again, its family is to be revoked.
DetectReuse(c) ==
    /\ Goto(c, "refresh", "reuse")
    /\ lock[token[c]] = Nobody
    /\ row[token[c]].state = "revoked" /\ row[token[c]].next # Nobody
    /\ lock' = [lock EXCEPT ![token[c]] = c]
    /\ UNCHANGED <<row, expired, token, snap, todo, reused>>

\* ... revoked by a logout, or expired: refused, nothing changes.
RefuseRefresh(c) ==
    /\ Goto(c, "refresh", "done")
    /\ lock[token[c]] = Nobody
    /\ \/ row[token[c]].state = "revoked" /\ row[token[c]].next = Nobody
       \/ Live(token[c]) /\ token[c] \in expired
    /\ UNCHANGED <<row, expired, lock, token, snap, todo, reused>>

\* MUTANT: the replacement is given its own id as its family.
ReplaceFamily(s, n) ==
    [row EXCEPT ![s].state = "revoked", ![s].next = n,
                ![n] = [state |-> "live", family |-> n, next |-> Nobody]]

\* MUTANT: the old session is not revoked.
Replace(s, n) ==
    [row EXCEPT ![s].next = n,
                ![n] = [state |-> "live", family |-> row[s].family, next |-> Nobody]]

\* The committed effect of a rotation of s into n.
Rotated(s, n) ==
    [row EXCEPT ![s].state = "revoked", ![s].next = n,
                ![n] = [state |-> "live", family |-> row[s].family, next |-> Nobody]]

\* The replacement and the revocation become visible together.
CommitRotation(c) ==
    /\ Goto(c, "rotate", "done")
    /\ \E n \in Sessions : row[n].state = "absent" /\ row' = Rotated(token[c], n)
    /\ ReleaseLocks(c)
    /\ UNCHANGED <<expired, token, snap, todo, reused>>

\* logout: lock, revoke if still active, commit; repeated logout is a no-op.
Logout(c) ==
    /\ Goto(c, "logout", "done")
    /\ lock[token[c]] = Nobody
    /\ row' = [row EXCEPT ![token[c]].state = "revoked"]
    /\ UNCHANGED <<expired, lock, token, snap, todo, reused>>

-----------------------------------------------------------------------------
(* UPDATE refresh_sessions SET revoked_at WHERE ... AND revoked_at IS NULL:*)
(* the statement's snapshot fixes the rows; each is locked in turn, after  *)
(* waiting for the transaction that holds it, and tested again.            *)

\* revoke_family, of the family of the reused token.
SweepFamily(c) ==
    /\ Goto(c, "reuse", "sweepFamily")
    /\ snap' = [snap EXCEPT ![c] = {s \in Family(row[token[c]].family) : Live(s)}]
    /\ todo' = [todo EXCEPT ![c] = snap'[c]]
    /\ UNCHANGED <<row, expired, lock, token, reused>>

\* revoke_all_for_user.
SweepAll(c) ==
    /\ Goto(c, "logoutAll", "sweepAll")
    /\ snap' = [snap EXCEPT ![c] = {s \in Sessions : Live(s)}]
    /\ todo' = [todo EXCEPT ![c] = snap'[c]]
    /\ UNCHANGED <<row, expired, lock, token, reused>>

\* The UPDATE locks the rows it found one by one, in any order, and looks at
\* each again once it has it.
SweepRow(c) ==
    /\ pc[c] \in {"sweepFamily", "sweepAll"}
    /\ \E s \in todo[c] :
          /\ lock[s] \in {Nobody, c}
          /\ todo' = [todo EXCEPT ![c] = @ \ {s}]
          /\ lock' = IF Live(s) THEN [lock EXCEPT ![s] = c] ELSE lock
    /\ UNCHANGED <<row, expired, pc, token, snap, reused>>

\* MUTANT: the reuse is raised without the commit before it.
RevokedUncommitted(c) == row

\* The rows the UPDATE of c locked are revoked.
Revoked(c) ==
    [s \in Sessions |-> IF lock[s] = c /\ Live(s)
                        THEN [row[s] EXCEPT !.state = "revoked"] ELSE row[s]]

\* Commit; a reuse is then reported to the client.
CommitSweep(c) ==
    /\ todo[c] = {}
    /\ \/ /\ Goto(c, "sweepFamily", "sweptFamily")
          /\ reused' = [reused EXCEPT ![c] = row[token[c]].family]
       \/ Goto(c, "sweepAll", "sweptAll") /\ UNCHANGED reused
    /\ row' = Revoked(c)
    /\ ReleaseLocks(c)
    /\ UNCHANGED <<expired, token, snap, todo>>

-----------------------------------------------------------------------------
\* A session's lifetime ends.
Expire(s) ==
    /\ s \in Issued \ expired
    /\ expired' = expired \union {s}
    /\ UNCHANGED <<row, lock, pc, token, snap, todo, reused>>

\* A transaction fails: an error, a cancelled task, the victim of a deadlock.
Abort(c) ==
    /\ pc[c] \notin {"idle", "done", "sweptFamily", "sweptAll"}
    /\ pc' = [pc EXCEPT ![c] = "done"]
    /\ ReleaseLocks(c)
    /\ UNCHANGED <<row, expired, token, snap, todo, reused>>

Next ==
    \/ \E c \in Calls :
          \/ Begin(c) \/ Login(c)
          \/ LockForRotation(c) \/ DetectReuse(c) \/ RefuseRefresh(c) \/ CommitRotation(c)
          \/ Logout(c)
          \/ SweepFamily(c) \/ SweepAll(c) \/ SweepRow(c) \/ CommitSweep(c)
          \/ Abort(c)
    \/ \E s \in Sessions : Expire(s)

Spec == Init /\ [][Next]_vars

-----------------------------------------------------------------------------
(* Properties.                                                             *)

\* Every variable keeps the type its column or local gives it.
TypeOK ==
    /\ row \in [Sessions -> Rows]
    /\ expired \subseteq Sessions
    /\ lock \in [Sessions -> Calls \union {Nobody}]
    /\ pc \in [Calls -> Locations]
    /\ token \in [Calls -> Sessions \union {Nobody}]
    /\ snap \in [Calls -> SUBSET Sessions]
    /\ todo \in [Calls -> SUBSET Sessions]
    /\ reused \in [Calls -> Families \union {Nobody}]

\* However refreshes, reuses and logouts of one device interleave, a family has
\* at most one token that can still be exchanged.
OneLivePerFamily ==
    \A s, t \in Sessions : Live(s) /\ Live(t) /\ row[s].family = row[t].family => s = t

\* The rows of a family form a chain: a token is exchanged at most once, for
\* one that nothing else was exchanged for, of its family; and it is revoked.
ChainLinear ==
    \A s \in Sessions : row[s].next # Nobody =>
        /\ row[s].state = "revoked"
        /\ row[row[s].next].family = row[s].family
        /\ row[row[s].next].state # "absent"
        /\ \A t \in Sessions : row[t].next = row[s].next => t = s

\* A family whose every token is revoked, by whatever calls, never has a live
\* one again: no rotation that is under way brings it back.
DeadFamilyStaysDead ==
    [][\A f \in Families :
          Family(f) # {} /\ (\A s \in Family(f) : ~Live(s)) =>
              \A s \in Sessions : Live(s)' => row'[s].family # f]_vars

\* When a reuse report or a logout of all devices ends, every token that could
\* be exchanged when its UPDATE began cannot be exchanged any more.
SweepRevokesSnapshot ==
    \A c \in Calls : pc[c] \in {"sweptFamily", "sweptAll"} =>
        \A s \in snap[c] : row[s].state = "revoked"

\* After a reuse was reported its family has no active session.
ReuseRevokesFamily ==
    \A c \in Calls : reused[c] # Nobody => \A s \in Family(reused[c]) : ~Live(s)

-----------------------------------------------------------------------------
(* The inductive invariant behind the theorems of AuthProofs.              *)

\* A rotation under way holds the row it replaces, which is live; an UPDATE
\* holds those of its rows that are live and that it has been through.
HoldersInv == \A c \in Calls :
    /\ pc[c] \in {"refresh", "logout", "rotate", "reuse", "sweepFamily"} => token[c] \in Issued
    /\ pc[c] = "rotate" => lock[token[c]] = c /\ Live(token[c])
    /\ todo[c] \subseteq snap[c]
    /\ pc[c] \in {"sweepFamily", "sweepAll"} =>
          \A s \in snap[c] :
             /\ row[s].state # "absent"
             /\ s \notin todo[c] => lock[s] = c \/ row[s].state = "revoked"

\* Rows that exist belong to a family; a replaced row is revoked.
RowsInv == \A s \in Sessions :
    /\ row[s].state # "absent" => row[s].family \in Families
    /\ row[s].state # "revoked" => row[s].next = Nobody

\* What a transaction has read of the rows it is about to write stays true
\* until it commits, and rows are well formed.
SessionInv == HoldersInv /\ RowsInv /\ OneLivePerFamily
=============================================================================
