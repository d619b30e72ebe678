---------------------------- MODULE TokenProofs ----------------------------
(***************************************************************************)
(* Proofs about TokenClient, for any number of requests and token pairs    *)
(* and any combination of events.                                          *)
(***************************************************************************)
EXTENDS TokenClient, TLAPS

\* What the calls of the server do to the rows: revocations ...
LEMMA RevokeRows ==
    ASSUME TypeOK, NEW S, Revoke(S)
    PROVE  /\ row' \in [Pairs -> Rows] /\ issued' = issued /\ expired' = expired
           /\ \A q \in Pairs :
                 \/ row'[q] = row[q]
                 \/ /\ Live(q) /\ row'[q].state = "revoked"
                    /\ row'[q].family = row[q].family
  BY DEF TypeOK, Revoke, Rows, Live

\* ... a new pair ...
LEMMA IssueRows ==
    ASSUME TypeOK, IssuedInv, NEW p \in MaybePair, p <= issued, Issue(p)
    PROVE  /\ row' \in [Pairs -> Rows]
           /\ issued' = issued + 1 /\ issued' \in Pairs
           /\ expired' = expired /\ reused' = reused
           /\ row'[issued'].state = "live"
           /\ p \in Pairs => row'[p].state = "replaced"
           /\ \A q \in Pairs \ {p, issued'} : row'[q] = row[q]
           /\ \A q \in Pairs : row'[q].state = "absent" <=> q > issued'
<1> USE ClientAssumption
    DEF TypeOK, IssuedInv, Issue, Rows, MaybePair, Pairs, None
<1>1. issued' = issued + 1 /\ issued' \in Pairs /\ p <= MaxPairs
  OBVIOUS
<1>2. \A q \in Pairs : row'[q] \in Rows
  OBVIOUS
<1>3. row' \in [Pairs -> Rows]
  BY <1>2
<1>4. row'[issued'].state = "live" /\ (p \in Pairs => row'[p].state = "replaced")
  BY <1>1
<1>5. \A q \in Pairs \ {p, issued'} : row'[q] = row[q]
  BY <1>1
<1>6. \A q \in Pairs : row'[q].state = "absent" <=> q > issued'
  BY <1>1, <1>4, <1>5
<1> QED
  BY <1>1, <1>3, <1>4, <1>5, <1>6

\* ... and a token that is refused.
LEMMA RefuseRows ==
    ASSUME TypeOK, NEW p \in Pairs, RefuseToken(p)
    PROVE  /\ row' \in [Pairs -> Rows] /\ issued' = issued /\ expired' = expired
           /\ reused' \subseteq MaybePair
           /\ row[p].state # "replaced" => UNCHANGED server
           /\ \A q \in Pairs :
                 \/ row'[q] = row[q]
                 \/ Live(q) /\ row'[q].state = "revoked"
<1>1. CASE row[p].state = "replaced"
  <2>1. Revoke({q \in Pairs : row[q].family = row[p].family})
    BY <1>1 DEF RefuseToken
  <2>2. reused' \subseteq MaybePair
    BY <1>1 DEF RefuseToken, TypeOK, Rows
  <2> QED
    BY <1>1, <2>1, <2>2, RevokeRows
<1>2. CASE row[p].state # "replaced"
  BY <1>2 DEF RefuseToken, server, TypeOK
<1> QED
  BY <1>1, <1>2

\* A request that is sent keeps the types of the requests.
LEMMA SendTypes ==
    ASSUME TypeOK, NEW r \in Requests, NEW k \in Kinds, Send(r, k)
    PROVE  /\ kind' \in [Requests -> Kinds] /\ pc' \in [Requests -> Locations]
           /\ carried' \in [Requests -> MaybePair]
  BY DEF TypeOK, Send, Goto, Locations

\* Every step preserves the types.
LEMMA TypeStep == TypeOK /\ IssuedInv /\ [Next]_vars => TypeOK'
<1> SUFFICES ASSUME TypeOK, IssuedInv, [Next]_vars PROVE TypeOK'
  OBVIOUS
<1> USE ClientAssumption
    DEF None, Pairs, MaybePair, Goto, server, store, requests, refresh, TypeOK,
        Rows, Kinds, Locations, Refreshing, Stages, IssuedInv
<1>1. ASSUME NEW r \in Requests, Request(r) PROVE TypeOK'
  BY <1>1, SendTypes DEF Request
<1>2. ASSUME NEW r \in Requests, Restore(r) PROVE TypeOK'
  BY <1>2, SendTypes DEF Restore
<1>3. ASSUME NEW r \in Requests, ServeRequest(r) PROVE TypeOK'
  <2>1. row' \in [Pairs -> Rows] /\ UNCHANGED <<issued, expired, reused>>
    BY <1>3, RevokeRows DEF ServeRequest
  <2> QED
    BY <1>3, <2>1 DEF ServeRequest
<1>4. ASSUME NEW r \in Requests, RefuseRequest(r) PROVE TypeOK'
  BY <1>4 DEF RefuseRequest
<1>5. ASSUME NEW r \in Requests, RequestFails(r) PROVE TypeOK'
  <2>1. row' \in [Pairs -> Rows] /\ UNCHANGED <<issued, expired, reused>>
    BY <1>5, RevokeRows DEF RequestFails
  <2> QED
    <3>1. pc' \in [Requests -> Locations]
      BY <1>5 DEF RequestFails
    <3> QED
      BY <1>5, <2>1, <3>1 DEF RequestFails
<1>6. ASSUME NEW r \in Requests, StartRefresh(r) PROVE TypeOK'
  <2>1. pc' \in [Requests -> Locations] /\ inHand' \in [Requests -> MaybePair]
    BY <1>6 DEF StartRefresh
  <2> QED
    BY <1>6, <2>1 DEF StartRefresh
<1>7. ASSUME NEW r \in Requests, JoinRefresh(r) PROVE TypeOK'
  BY <1>7 DEF JoinRefresh
<1>8. ASSUME NEW r \in Requests, RefreshAnswered(r) PROVE TypeOK'
  <2>1. Issue(inHand[r]) /\ inHand[r] \in MaybePair /\ inHand[r] <= issued
    BY <1>8 DEF RefreshAnswered, Rotated
  <2>2. /\ issued' \in Pairs /\ UNCHANGED <<expired, reused>>
        /\ row' \in [Pairs -> Rows]
    BY <2>1, IssueRows
  <2> QED
    BY <1>8, <2>2 DEF RefreshAnswered
<1>9. ASSUME NEW r \in Requests, RefreshRefused(r) PROVE TypeOK'
  <2>1. inHand[r] \in Pairs /\ RefuseToken(inHand[r])
    BY <1>9 DEF RefreshRefused
  <2> QED
    BY <1>9, <2>1, RefuseRows DEF RefreshRefused
<1>10. ASSUME NEW r \in Requests, RefreshFails(r) PROVE TypeOK'
  <2>1. inHand[r] \in MaybePair /\ inHand[r] \in Pairs /\ inHand[r] <= issued
    BY <1>10 DEF RefreshFails
  <2>2. /\ issued' \in 0..MaxPairs /\ expired' \in 0..MaxPairs
        /\ row' \in [Pairs -> Rows] /\ reused' \subseteq MaybePair
    <3>1. CASE UNCHANGED server
      BY <3>1
    <3>2. CASE Issue(inHand[r])
      <4>1. /\ issued' \in Pairs /\ expired' = expired
            /\ row' \in [Pairs -> Rows] /\ reused' = reused
        BY <2>1, <3>2, IssueRows
      <4> QED
        BY <4>1
    <3>3. CASE RefuseToken(inHand[r])
      BY <2>1, <3>3, RefuseRows
    <3> QED
      BY <1>10, <3>1, <3>2, <3>3 DEF RefreshFails, Rotated
  <2> QED
    BY <1>10, <2>2 DEF RefreshFails, Complete
<1>11. ASSUME NEW r \in Requests, StoreTokens(r) PROVE TypeOK'
  BY <1>11 DEF StoreTokens
<1>12. ASSUME NEW r \in Requests, Refreshed(r) PROVE TypeOK'
  BY <1>12 DEF Refreshed, Complete
<1>13. ASSUME NEW r \in Requests, ExpireLocalSession(r) PROVE TypeOK'
  BY <1>13 DEF ExpireLocalSession, Complete
<1>14. ASSUME NEW r \in Requests, Deliver(r) PROVE TypeOK'
  <2>1. CASE Over(r)
    BY <1>14, <2>1 DEF Deliver, Over
  <2>2. CASE pc' = [pc EXCEPT ![r] = "clearing"]
    BY <1>14, <2>2 DEF Deliver, Over
  <2> QED
    BY <1>14, <2>1, <2>2 DEF Deliver
<1>15. ASSUME NEW r \in Requests, Cleared(r) PROVE TypeOK'
  BY <1>15 DEF Cleared, Over
<1>16. CASE RetryRestore
  BY <1>16 DEF RetryRestore
<1>17. CASE Login
  BY <1>17 DEF Login, Issue
<1>18. CASE LoginStores
  BY <1>18 DEF LoginStores
<1>19. CASE LoggedIn
  BY <1>19 DEF LoggedIn
<1>20. CASE Logout
  BY <1>20 DEF Logout
<1>21. CASE LogoutClears
  <2>1. row' \in [Pairs -> Rows] /\ UNCHANGED <<issued, expired, reused>>
    BY <1>21, RevokeRows DEF LogoutClears
  <2> QED
    BY <1>21, <2>1 DEF LogoutClears
<1>22. CASE LoggedOut
  BY <1>22 DEF LoggedOut
<1>23. CASE ExpireAccess
  BY <1>23 DEF ExpireAccess
<1>24. CASE Restart
  BY <1>24 DEF Restart
<1>25. ASSUME NEW p \in Pairs, RevokeElsewhere(p) PROVE TypeOK'
  BY <1>25, RevokeRows DEF RevokeElsewhere
<1>26. CASE UNCHANGED vars
  BY <1>26 DEF vars, server, store, requests, refresh
<1> QED
  BY <1>1, <1>2, <1>3, <1>4, <1>5, <1>6, <1>7, <1>8, <1>9, <1>10, <1>11, <1>12, <1>13,
     <1>14, <1>15, <1>16, <1>17, <1>18, <1>19, <1>20, <1>21, <1>22, <1>23,
     <1>24, <1>25, <1>26 DEF Next, Proceed

\* The refresh in flight is that of the one request that refreshes.
LEMMA FlightStep == TypeOK /\ SingleFlight /\ [Next]_vars => SingleFlight'
<1> SUFFICES ASSUME TypeOK, SingleFlight, [Next]_vars PROVE SingleFlight'
  OBVIOUS
<1> USE ClientAssumption
    DEF None, Pairs, MaybePair, Goto, server, store, requests, refresh, TypeOK,
        SingleFlight, Refreshing
<1>1. ASSUME NEW r \in Requests, Request(r) PROVE SingleFlight'
  BY <1>1 DEF Request, Send
<1>2. ASSUME NEW r \in Requests, Restore(r) PROVE SingleFlight'
  BY <1>2 DEF Restore, Send
<1>3. ASSUME NEW r \in Requests, ServeRequest(r) PROVE SingleFlight'
  BY <1>3 DEF ServeRequest, Revoke
<1>4. ASSUME NEW r \in Requests, RefuseRequest(r) PROVE SingleFlight'
  BY <1>4 DEF RefuseRequest
<1>5. ASSUME NEW r \in Requests, RequestFails(r) PROVE SingleFlight'
  BY <1>5 DEF RequestFails, Revoke
<1>6. ASSUME NEW r \in Requests, StartRefresh(r) PROVE SingleFlight'
  BY <1>6 DEF StartRefresh
<1>7. ASSUME NEW r \in Requests, JoinRefresh(r) PROVE SingleFlight'
  BY <1>7 DEF JoinRefresh
<1>8. ASSUME NEW r \in Requests, RefreshAnswered(r) PROVE SingleFlight'
  BY <1>8 DEF RefreshAnswered, Rotated, Issue
<1>9. ASSUME NEW r \in Requests, RefreshRefused(r) PROVE SingleFlight'
  BY <1>9 DEF RefreshRefused, RefuseToken, Revoke
<1>10. ASSUME NEW r \in Requests, RefreshFails(r) PROVE SingleFlight'
  BY <1>10 DEF RefreshFails, Rotated, Issue, RefuseToken, Revoke, Complete
<1>11. ASSUME NEW r \in Requests, StoreTokens(r) PROVE SingleFlight'
  BY <1>11 DEF StoreTokens
<1>12. ASSUME NEW r \in Requests, Refreshed(r) PROVE SingleFlight'
  BY <1>12 DEF Refreshed, Complete
<1>13. ASSUME NEW r \in Requests, ExpireLocalSession(r) PROVE SingleFlight'
  BY <1>13 DEF ExpireLocalSession, Complete
<1>14. ASSUME NEW r \in Requests, Deliver(r) PROVE SingleFlight'
  BY <1>14 DEF Deliver, Over
<1>15. ASSUME NEW r \in Requests, Cleared(r) PROVE SingleFlight'
  BY <1>15 DEF Cleared, Over
<1>16. CASE RetryRestore
  BY <1>16 DEF RetryRestore
<1>17. CASE Login
  BY <1>17 DEF Login, Issue
<1>18. CASE LoginStores
  BY <1>18 DEF LoginStores
<1>19. CASE LoggedIn
  BY <1>19 DEF LoggedIn
<1>20. CASE Logout
  BY <1>20 DEF Logout
<1>21. CASE LogoutClears
  BY <1>21 DEF LogoutClears, Revoke
<1>22. CASE LoggedOut
  BY <1>22 DEF LoggedOut
<1>23. CASE ExpireAccess
  BY <1>23 DEF ExpireAccess
<1>24. CASE Restart
  BY <1>24 DEF Restart
<1>25. ASSUME NEW p \in Pairs, RevokeElsewhere(p) PROVE SingleFlight'
  BY <1>25 DEF RevokeElsewhere, Revoke
<1>26. CASE UNCHANGED vars
  BY <1>26 DEF vars, server, store, requests, refresh
<1> QED
  BY <1>1, <1>2, <1>3, <1>4, <1>5, <1>6, <1>7, <1>8, <1>9, <1>10, <1>11, <1>12, <1>13,
     <1>14, <1>15, <1>16, <1>17, <1>18, <1>19, <1>20, <1>21, <1>22, <1>23,
     <1>24, <1>25, <1>26 DEF Next, Proceed

\* Only the server makes pairs.
LEMMA IssuedStep == TypeOK /\ IssuedInv /\ [Next]_vars => IssuedInv'
<1> SUFFICES ASSUME TypeOK, IssuedInv, [Next]_vars PROVE IssuedInv'
  OBVIOUS
<1> USE ClientAssumption
    DEF None, Pairs, MaybePair, Goto, server, store, requests, refresh, TypeOK,
        Rows, IssuedInv, Live
<1>1. ASSUME NEW r \in Requests, Request(r) PROVE IssuedInv'
  BY <1>1 DEF Request, Send
<1>2. ASSUME NEW r \in Requests, Restore(r) PROVE IssuedInv'
  BY <1>2 DEF Restore, Send
<1>3. ASSUME NEW r \in Requests, ServeRequest(r) PROVE IssuedInv'
  BY <1>3, RevokeRows DEF ServeRequest
<1>4. ASSUME NEW r \in Requests, RefuseRequest(r) PROVE IssuedInv'
  BY <1>4 DEF RefuseRequest
<1>5. ASSUME NEW r \in Requests, RequestFails(r) PROVE IssuedInv'
  <2>1. /\ issued' = issued
        /\ \A q \in Pairs : row'[q].state = "absent" <=> row[q].state = "absent"
    BY <1>5, RevokeRows DEF RequestFails, Revoke
  <2> QED
    BY <1>5, <2>1 DEF RequestFails
<1>6. ASSUME NEW r \in Requests, StartRefresh(r) PROVE IssuedInv'
  BY <1>6 DEF StartRefresh
<1>7. ASSUME NEW r \in Requests, JoinRefresh(r) PROVE IssuedInv'
  BY <1>7 DEF JoinRefresh
<1>8. ASSUME NEW r \in Requests, RefreshAnswered(r) PROVE IssuedInv'
  <2>1. Issue(inHand[r]) /\ inHand[r] \in MaybePair /\ inHand[r] <= issued
    BY <1>8 DEF RefreshAnswered, Rotated
  <2>2. \A q \in Pairs : row'[q].state = "absent" <=> q > issued'
    BY <2>1, IssueRows
  <2> QED
    <3>1. issued' = issued + 1 /\ issued' \in Pairs
      BY <2>1, IssueRows
    <3>2. UNCHANGED <<mem, disk, carried, entering, leaving>>
      BY <1>8 DEF RefreshAnswered
    <3>3. \A q \in Requests :
             \/ inHand'[q] = issued'
             \/ q # r /\ inHand'[q] = inHand[q] /\ pc'[q] = pc[q]
      BY <1>8 DEF RefreshAnswered
    <3>4. mem' <= issued' /\ disk' <= issued'
      BY <3>1, <3>2
    <3>5. entering'.pair <= issued' /\ leaving'.pair <= issued'
      <4>1. entering.pair \in Nat /\ leaving.pair \in Nat
        OBVIOUS
      <4> QED
        BY <3>1, <3>2, <4>1
    <3>6. \A q \in Requests :
             /\ carried'[q] <= issued' /\ inHand'[q] <= issued'
             /\ pc'[q] \in {"posting", "answered", "stored"} => inHand'[q] # None
      BY <3>1, <3>2, <3>3
    <3>7. entering'.stage # "idle" => entering'.pair # None
      BY <3>2
    <3> QED
      BY <2>2, <3>4, <3>5, <3>6, <3>7
<1>9. ASSUME NEW r \in Requests, RefreshRefused(r) PROVE IssuedInv'
  BY <1>9, RefuseRows DEF RefreshRefused
<1>10. ASSUME NEW r \in Requests, RefreshFails(r) PROVE IssuedInv'
  <2>1. inHand[r] \in MaybePair /\ inHand[r] \in Pairs /\ inHand[r] <= issued
    BY <1>10 DEF RefreshFails
  <2>2. /\ issued' \in {issued, issued + 1}
        /\ \A q \in Pairs : row'[q].state = "absent" <=> q > issued'
    <3>1. CASE UNCHANGED server
      BY <3>1
    <3>2. CASE Issue(inHand[r])
      BY <2>1, <3>2, IssueRows
    <3>3. CASE RefuseToken(inHand[r])
      BY <2>1, <3>3, RefuseRows
    <3> QED
      BY <1>10, <3>1, <3>2, <3>3 DEF RefreshFails, Rotated
  <2>3. UNCHANGED <<mem, disk, carried, entering, leaving>>
    BY <1>10 DEF RefreshFails
  <2>4. \A q \in Requests :
           /\ inHand'[q] \in {None, inHand[q]}
           /\ pc'[q] \in {"posting", "answered", "stored"} =>
                 pc'[q] = pc[q] /\ inHand'[q] = inHand[q]
    BY <1>10 DEF RefreshFails, Complete
  <2>5. mem' <= issued' /\ disk' <= issued'
    BY <2>2, <2>3
  <2>6. entering'.pair <= issued' /\ leaving'.pair <= issued'
    <3>1. entering.pair \in Nat /\ leaving.pair \in Nat
      OBVIOUS
    <3> QED
      BY <2>2, <2>3, <3>1
  <2>7. \A q \in Requests :
           /\ carried'[q] <= issued' /\ inHand'[q] <= issued'
           /\ pc'[q] \in {"posting", "answered", "stored"} => inHand'[q] # None
    BY <2>2, <2>3, <2>4
  <2> QED
    BY <2>2, <2>3, <2>5, <2>6, <2>7
<1>11. ASSUME NEW r \in Requests, StoreTokens(r) PROVE IssuedInv'
  BY <1>11 DEF StoreTokens
<1>12. ASSUME NEW r \in Requests, Refreshed(r) PROVE IssuedInv'
  BY <1>12 DEF Refreshed, Complete
<1>13. ASSUME NEW r \in Requests, ExpireLocalSession(r) PROVE IssuedInv'
  BY <1>13 DEF ExpireLocalSession, Complete
<1>14. ASSUME NEW r \in Requests, Deliver(r) PROVE IssuedInv'
  BY <1>14 DEF Deliver, Over
<1>15. ASSUME NEW r \in Requests, Cleared(r) PROVE IssuedInv'
  BY <1>15 DEF Cleared, Over
<1>16. CASE RetryRestore
  BY <1>16 DEF RetryRestore
<1>17. CASE Login
  <2>1. Issue(None) /\ None <= issued
    BY <1>17 DEF Login
  <2>2. \A q \in Pairs : row'[q].state = "absent" <=> q > issued'
    BY <2>1, IssueRows
  <2> QED
    <3>1. issued' = issued + 1 /\ issued' \in Pairs
      BY <2>1, IssueRows
    <3>2. entering' = [stage |-> "sent", pair |-> issued']
      BY <1>17 DEF Login
    <3>3. UNCHANGED <<mem, disk, pc, carried, inHand, leaving>>
      BY <1>17 DEF Login
    <3>4. mem' <= issued' /\ disk' <= issued' /\ leaving'.pair <= issued'
      <4>1. leaving.pair \in Nat
        OBVIOUS
      <4> QED
        BY <3>1, <3>3, <4>1
    <3>5. entering'.pair = issued' /\ issued' # None
      BY <3>1, <3>2
    <3>6. \A q \in Requests :
             /\ carried'[q] <= issued' /\ inHand'[q] <= issued'
             /\ pc'[q] \in {"posting", "answered", "stored"} => inHand'[q] # None
      BY <3>1, <3>3
    <3> QED
      BY <2>2, <3>1, <3>4, <3>5, <3>6
<1>18. CASE LoginStores
  BY <1>18 DEF LoginStores
<1>19. CASE LoggedIn
  BY <1>19 DEF LoggedIn
<1>20. CASE Logout
  BY <1>20 DEF Logout
<1>21. CASE LogoutClears
  BY <1>21 DEF LogoutClears, Revoke
<1>22. CASE LoggedOut
  BY <1>22 DEF LoggedOut
<1>23. CASE ExpireAccess
  BY <1>23 DEF ExpireAccess
<1>24. CASE Restart
  BY <1>24 DEF Restart
<1>25. ASSUME NEW p \in Pairs, RevokeElsewhere(p) PROVE IssuedInv'
  BY <1>25 DEF RevokeElsewhere, Revoke
<1>26. CASE UNCHANGED vars
  BY <1>26 DEF vars, server, store, requests, refresh
<1> QED
  BY <1>1, <1>2, <1>3, <1>4, <1>5, <1>6, <1>7, <1>8, <1>9, <1>10, <1>11, <1>12, <1>13,
     <1>14, <1>15, <1>16, <1>17, <1>18, <1>19, <1>20, <1>21, <1>22, <1>23,
     <1>24, <1>25, <1>26 DEF Next, Proceed

\* A new pair is known to nobody but the request that awaits it.
LEMMA FreshStep ==
    TypeOK /\ SingleFlight /\ IssuedInv /\ FreshInv /\ [Next]_vars => FreshInv'
<1> SUFFICES ASSUME TypeOK, SingleFlight, IssuedInv, FreshInv, [Next]_vars
             PROVE  FreshInv'
  OBVIOUS
<1> USE ClientAssumption
    DEF None, Pairs, MaybePair, Goto, server, store, requests, refresh, TypeOK,
        SingleFlight, Refreshing, IssuedInv, FreshInv
<1>1. ASSUME NEW r \in Requests, Request(r) PROVE FreshInv'
  BY <1>1 DEF Request, Send
<1>2. ASSUME NEW r \in Requests, Restore(r) PROVE FreshInv'
  BY <1>2 DEF Restore, Send
<1>3. ASSUME NEW r \in Requests, ServeRequest(r) PROVE FreshInv'
  BY <1>3 DEF ServeRequest, Revoke
<1>4. ASSUME NEW r \in Requests, RefuseRequest(r) PROVE FreshInv'
  BY <1>4 DEF RefuseRequest
<1>5. ASSUME NEW r \in Requests, RequestFails(r) PROVE FreshInv'
  BY <1>5 DEF RequestFails, Revoke
<1>6. ASSUME NEW r \in Requests, StartRefresh(r) PROVE FreshInv'
  BY <1>6 DEF StartRefresh
<1>7. ASSUME NEW r \in Requests, JoinRefresh(r) PROVE FreshInv'
  BY <1>7 DEF JoinRefresh
<1>8. ASSUME NEW r \in Requests, RefreshAnswered(r) PROVE FreshInv'
  BY <1>8 DEF RefreshAnswered, Rotated, Issue
<1>9. ASSUME NEW r \in Requests, RefreshRefused(r) PROVE FreshInv'
  BY <1>9 DEF RefreshRefused, RefuseToken, Revoke
<1>10. ASSUME NEW r \in Requests, RefreshFails(r) PROVE FreshInv'
  BY <1>10 DEF RefreshFails, Rotated, Issue, RefuseToken, Revoke, Complete
<1>11. ASSUME NEW r \in Requests, StoreTokens(r) PROVE FreshInv'
  BY <1>11 DEF StoreTokens
<1>12. ASSUME NEW r \in Requests, Refreshed(r) PROVE FreshInv'
  BY <1>12 DEF Refreshed, Complete
<1>13. ASSUME NEW r \in Requests, ExpireLocalSession(r) PROVE FreshInv'
  BY <1>13 DEF ExpireLocalSession, Complete
<1>14. ASSUME NEW r \in Requests, Deliver(r) PROVE FreshInv'
  BY <1>14 DEF Deliver, Over
<1>15. ASSUME NEW r \in Requests, Cleared(r) PROVE FreshInv'
  BY <1>15 DEF Cleared, Over
<1>16. CASE RetryRestore
  BY <1>16 DEF RetryRestore
<1>17. CASE Login
  BY <1>17 DEF Login, Issue
<1>18. CASE LoginStores
  BY <1>18 DEF LoginStores
<1>19. CASE LoggedIn
  BY <1>19 DEF LoggedIn
<1>20. CASE Logout
  BY <1>20 DEF Logout
<1>21. CASE LogoutClears
  BY <1>21 DEF LogoutClears, Revoke
<1>22. CASE LoggedOut
  BY <1>22 DEF LoggedOut
<1>23. CASE ExpireAccess
  BY <1>23 DEF ExpireAccess
<1>24. CASE Restart
  BY <1>24 DEF Restart
<1>25. ASSUME NEW p \in Pairs, RevokeElsewhere(p) PROVE FreshInv'
  BY <1>25 DEF RevokeElsewhere, Revoke
<1>26. CASE UNCHANGED vars
  BY <1>26 DEF vars, server, store, requests, refresh
<1> QED
  BY <1>1, <1>2, <1>3, <1>4, <1>5, <1>6, <1>7, <1>8, <1>9, <1>10, <1>11, <1>12, <1>13,
     <1>14, <1>15, <1>16, <1>17, <1>18, <1>19, <1>20, <1>21, <1>22, <1>23,
     <1>24, <1>25, <1>26 DEF Next, Proceed

\* A replaced pair is never presented.
LEMMA StoreStep ==
    TypeOK /\ SingleFlight /\ IssuedInv /\ FreshInv /\ StoreInv /\ [Next]_vars => StoreInv'
<1> SUFFICES ASSUME TypeOK, SingleFlight, IssuedInv, FreshInv, StoreInv, [Next]_vars
             PROVE  StoreInv'
  OBVIOUS
<1> USE ClientAssumption
    DEF None, Pairs, MaybePair, Goto, server, store, requests, refresh, TypeOK,
        Rows, Refreshing, SingleFlight, IssuedInv, FreshInv, StoreInv, Replaced,
        Live
<1>1. ASSUME NEW r \in Requests, Request(r) PROVE StoreInv'
  BY <1>1 DEF Request, Send
<1>2. ASSUME NEW r \in Requests, Restore(r) PROVE StoreInv'
  BY <1>2 DEF Restore, Send
<1>3. ASSUME NEW r \in Requests, ServeRequest(r) PROVE StoreInv'
  <2>1. \A q \in Pairs : row'[q].state = "replaced" => row[q].state = "replaced"
    BY <1>3, RevokeRows DEF ServeRequest
  <2> QED
    <3>1. UNCHANGED <<events, reused, mem, inHand, entering>>
      BY <1>3 DEF ServeRequest
    <3>2. \A q \in Requests :
             \/ pc'[q] = pc[q]
             \/ pc'[q] = "ok" /\ pc[q] \in {"sent", "retrying"}
      BY <1>3 DEF ServeRequest
    <3> QED
      BY <2>1, <3>1, <3>2
<1>4. ASSUME NEW r \in Requests, RefuseRequest(r) PROVE StoreInv'
  BY <1>4 DEF RefuseRequest
<1>5. ASSUME NEW r \in Requests, RequestFails(r) PROVE StoreInv'
  BY <1>5 DEF RequestFails, Revoke
<1>6. ASSUME NEW r \in Requests, StartRefresh(r) PROVE StoreInv'
  BY <1>6 DEF StartRefresh
<1>7. ASSUME NEW r \in Requests, JoinRefresh(r) PROVE StoreInv'
  BY <1>7 DEF JoinRefresh
<1>8. ASSUME NEW r \in Requests, RefreshAnswered(r) PROVE StoreInv'
  BY <1>8 DEF RefreshAnswered, Rotated, Issue
<1>9. ASSUME NEW r \in Requests, RefreshRefused(r) PROVE StoreInv'
  BY <1>9 DEF RefreshRefused, RefuseToken, Revoke
<1>10. ASSUME NEW r \in Requests, RefreshFails(r) PROVE StoreInv'
  BY <1>10 DEF RefreshFails, Rotated, Issue, RefuseToken, Revoke, Complete
<1>11. ASSUME NEW r \in Requests, StoreTokens(r) PROVE StoreInv'
  BY <1>11 DEF StoreTokens
<1>12. ASSUME NEW r \in Requests, Refreshed(r) PROVE StoreInv'
  BY <1>12 DEF Refreshed, Complete
<1>13. ASSUME NEW r \in Requests, ExpireLocalSession(r) PROVE StoreInv'
  BY <1>13 DEF ExpireLocalSession, Complete
<1>14. ASSUME NEW r \in Requests, Deliver(r) PROVE StoreInv'
  BY <1>14 DEF Deliver, Over
<1>15. ASSUME NEW r \in Requests, Cleared(r) PROVE StoreInv'
  BY <1>15 DEF Cleared, Over
<1>16. CASE RetryRestore
  BY <1>16 DEF RetryRestore
<1>17. CASE Login
  BY <1>17 DEF Login, Issue
<1>18. CASE LoginStores
  BY <1>18 DEF LoginStores
<1>19. CASE LoggedIn
  BY <1>19 DEF LoggedIn
<1>20. CASE Logout
  BY <1>20 DEF Logout
<1>21. CASE LogoutClears
  <2>1. \A q \in Pairs : row'[q].state = "replaced" => row[q].state = "replaced"
    BY <1>21, RevokeRows DEF LogoutClears
  <2> QED
    BY <1>21, <2>1 DEF LogoutClears
<1>22. CASE LoggedOut
  BY <1>22 DEF LoggedOut
<1>23. CASE ExpireAccess
  BY <1>23 DEF ExpireAccess
<1>24. CASE Restart
  BY <1>24 DEF Restart
<1>25. ASSUME NEW p \in Pairs, RevokeElsewhere(p) PROVE StoreInv'
  BY <1>25 DEF RevokeElsewhere, Revoke
<1>26. CASE UNCHANGED vars
  BY <1>26 DEF vars, server, store, requests, refresh
<1> QED
  BY <1>1, <1>2, <1>3, <1>4, <1>5, <1>6, <1>7, <1>8, <1>9, <1>10, <1>11, <1>12, <1>13,
     <1>14, <1>15, <1>16, <1>17, <1>18, <1>19, <1>20, <1>21, <1>22, <1>23,
     <1>24, <1>25, <1>26 DEF Next, Proceed

\* Nothing the client meets by itself ends the session.
LEMMA QuietStep ==
    TypeOK /\ SingleFlight /\ IssuedInv /\ StoreInv /\ QuietInv /\ [Next]_vars => QuietInv'
<1> SUFFICES ASSUME TypeOK, SingleFlight, IssuedInv, StoreInv, QuietInv, [Next]_vars
             PROVE  QuietInv'
  OBVIOUS
<1> USE ClientAssumption
    DEF None, Pairs, MaybePair, Goto, server, store, requests, refresh, TypeOK,
        Rows, Kinds, Refreshing, SingleFlight, IssuedInv, StoreInv, QuietInv,
        Replaced, Live, Restoring
<1>1. ASSUME NEW r \in Requests, Request(r) PROVE QuietInv'
  BY <1>1 DEF Request, Send
<1>2. ASSUME NEW r \in Requests, Restore(r) PROVE QuietInv'
  BY <1>2 DEF Restore, Send
<1>3. ASSUME NEW r \in Requests, ServeRequest(r) PROVE QuietInv'
  BY <1>3 DEF ServeRequest, Revoke
<1>4. ASSUME NEW r \in Requests, RefuseRequest(r) PROVE QuietInv'
  BY <1>4 DEF RefuseRequest
<1>5. ASSUME NEW r \in Requests, RequestFails(r) PROVE QuietInv'
  BY <1>5 DEF RequestFails, Revoke
<1>6. ASSUME NEW r \in Requests, StartRefresh(r) PROVE QuietInv'
  BY <1>6 DEF StartRefresh
<1>7. ASSUME NEW r \in Requests, JoinRefresh(r) PROVE QuietInv'
  BY <1>7 DEF JoinRefresh
<1>8. ASSUME NEW r \in Requests, RefreshAnswered(r) PROVE QuietInv'
  BY <1>8 DEF RefreshAnswered, Rotated, Issue
<1>9. ASSUME NEW r \in Requests, RefreshRefused(r) PROVE QuietInv'
  BY <1>9 DEF RefreshRefused, RefuseToken, Revoke
<1>10. ASSUME NEW r \in Requests, RefreshFails(r) PROVE QuietInv'
  BY <1>10 DEF RefreshFails, Rotated, Issue, RefuseToken, Revoke, Complete
<1>11. ASSUME NEW r \in Requests, StoreTokens(r) PROVE QuietInv'
  BY <1>11 DEF StoreTokens
<1>12. ASSUME NEW r \in Requests, Refreshed(r) PROVE QuietInv'
  BY <1>12 DEF Refreshed, Complete
<1>13. ASSUME NEW r \in Requests, ExpireLocalSession(r) PROVE QuietInv'
  BY <1>13 DEF ExpireLocalSession, Complete
<1>14. ASSUME NEW r \in Requests, Deliver(r) PROVE QuietInv'
  BY <1>14 DEF Deliver, Over
<1>15. ASSUME NEW r \in Requests, Cleared(r) PROVE QuietInv'
  BY <1>15 DEF Cleared, Over
<1>16. CASE RetryRestore
  BY <1>16 DEF RetryRestore
<1>17. CASE Login
  BY <1>17 DEF Login, Issue
<1>18. CASE LoginStores
  BY <1>18 DEF LoginStores
<1>19. CASE LoggedIn
  BY <1>19 DEF LoggedIn
<1>20. CASE Logout
  BY <1>20 DEF Logout
<1>21. CASE LogoutClears
  BY <1>21 DEF LogoutClears, Revoke
<1>22. CASE LoggedOut
  BY <1>22 DEF LoggedOut
<1>23. CASE ExpireAccess
  BY <1>23 DEF ExpireAccess
<1>24. CASE Restart
  BY <1>24 DEF Restart
<1>25. ASSUME NEW p \in Pairs, RevokeElsewhere(p) PROVE QuietInv'
  BY <1>25 DEF RevokeElsewhere, Revoke
<1>26. CASE UNCHANGED vars
  BY <1>26 DEF vars, server, store, requests, refresh
<1> QED
  BY <1>1, <1>2, <1>3, <1>4, <1>5, <1>6, <1>7, <1>8, <1>9, <1>10, <1>11, <1>12, <1>13,
     <1>14, <1>15, <1>16, <1>17, <1>18, <1>19, <1>20, <1>21, <1>22, <1>23,
     <1>24, <1>25, <1>26 DEF Next, Proceed

-----------------------------------------------------------------------------
\* What the client holds and what the server made of it agree at every await.
THEOREM ClientSound == Spec => [](TypeOK /\ ClientInv)
<1> USE DEF ClientInv
<1>1. Init => TypeOK /\ ClientInv
  <2> SUFFICES ASSUME Init PROVE TypeOK /\ ClientInv
    OBVIOUS
  <2> USE ClientAssumption DEF Init, None, Pairs, MaybePair
  <2>1. TypeOK
    BY DEF TypeOK, Rows, Kinds, Locations, Stages
  <2>2. SingleFlight
    BY DEF SingleFlight, Refreshing
  <2>3. IssuedInv /\ FreshInv
    BY DEF IssuedInv, FreshInv
  <2>4. StoreInv /\ QuietInv
    BY DEF StoreInv, QuietInv, Replaced
  <2> QED
    BY <2>1, <2>2, <2>3, <2>4
<1>2. TypeOK /\ ClientInv /\ [Next]_vars => (TypeOK /\ ClientInv)'
  BY TypeStep, FlightStep, IssuedStep, FreshStep, StoreStep, QuietStep
<1> QED
  BY <1>1, <1>2, PTL DEF Spec

\* The client keeps its types, for any number of requests and pairs.
THEOREM TypeCorrect == Spec => []TypeOK
BY ClientSound, PTL

\* However many requests are refused at once, one refresh is in flight.
THEOREM Flight == Spec => []SingleFlight
<1>1. ClientInv => SingleFlight
  BY DEF ClientInv
<1> QED
  BY <1>1, ClientSound, PTL

\* While answers arrive and the application lives, no replaced refresh token
\* is ever presented.
THEOREM NoReuse == Spec => []NoSelfReuse
<1>1. ClientInv => NoSelfReuse
  BY DEF ClientInv, StoreInv, NoSelfReuse
<1> QED
  BY <1>1, ClientSound, PTL

\* A request is retried with another access token than the refused one.
THEOREM FreshRetry == Spec => RetryIsFresh
<1>1. TypeOK /\ ClientInv /\ [Next]_vars =>
        [\A r \in Requests :
            pc[r] # "retrying" /\ pc'[r] = "retrying" => carried'[r] # carried[r]]_vars
  <2> SUFFICES ASSUME TypeOK, ClientInv, [Next]_vars, NEW r \in Requests,
                      pc[r] # "retrying", pc'[r] = "retrying"
               PROVE  carried'[r] # carried[r]
    OBVIOUS
  <2>1. PICK q \in Requests : Refreshed(q)
    <3>1. pc' # pc
      OBVIOUS
    <3> USE DEF TypeOK, Goto
    <3>2. CASE \E q \in Requests : Request(q) \/ Restore(q)
      BY <3>2 DEF Request, Restore, Send, requests
    <3>3. CASE \E q \in Requests :
                  \/ ServeRequest(q) \/ RefuseRequest(q) \/ RequestFails(q)
                  \/ StartRefresh(q) \/ JoinRefresh(q)
                  \/ RefreshAnswered(q) \/ RefreshRefused(q) \/ StoreTokens(q)
      BY <3>3 DEF ServeRequest, RefuseRequest, RequestFails, StartRefresh, JoinRefresh,
         RefreshAnswered, RefreshRefused, StoreTokens
    <3>4. CASE \E q \in Requests :
                  \/ RefreshFails(q) \/ ExpireLocalSession(q) \/ Deliver(q) \/ Cleared(q)
      BY <3>4 DEF RefreshFails, ExpireLocalSession, Complete, Deliver, Over, Cleared
    <3>5. CASE Restart
      BY <3>5 DEF Restart
    <3> QED
      BY <3>1, <3>2, <3>3, <3>4, <3>5 DEF Next, Proceed, vars, requests, RetryRestore,
         Login, LoginStores, LoggedIn, Logout, LogoutClears, LoggedOut, ExpireAccess,
         RevokeElsewhere
  <2>2. carried'[r] = inHand[q] /\ pc[q] = "stored"
    BY <2>1 DEF Refreshed, Complete, TypeOK
  <2> QED
    BY <2>2 DEF ClientInv, FreshInv
<1> QED
  BY <1>1, ClientSound, PTL DEF Spec, RetryIsFresh

\* Expiring access tokens and requests that do not reach the server never sign
\* the user out.
THEOREM StaysSignedIn == Spec => SignedInStays
<1>1. TypeOK /\ ClientInv /\ [Next]_vars =>
        [events \subseteq {"network"} /\ session = "in" => session' = "in"]_vars
  <2> SUFFICES ASSUME TypeOK, ClientInv, [Next]_vars, events \subseteq {"network"},
                      session = "in"
               PROVE  session' = "in"
    OBVIOUS
  <2>1. /\ leaving.stage = "idle" /\ entering.stage = "idle"
        /\ \A r \in Requests : pc[r] \notin {"expiring", "clearing"} /\ kind[r] # "restore"
        /\ "restart" \notin events
    BY DEF ClientInv, QuietInv
  <2> QED
    BY <2>1
    DEF Next, Proceed, vars, requests, refresh, server, store, Goto, Request,
       Restore, Send, ServeRequest, RefuseRequest, RequestFails, StartRefresh, JoinRefresh,
       RefreshAnswered, RefreshRefused, RefreshFails, Complete, StoreTokens, Refreshed,
       ExpireLocalSession, Deliver, Over, Cleared, RetryRestore, Login, LoginStores,
       LoggedIn, Logout, LogoutClears, LoggedOut, ExpireAccess, Restart, RevokeElsewhere
<1> QED
  BY <1>1, ClientSound, PTL DEF Spec, SignedInStays
=============================================================================
