----------------------------- MODULE AuthProofs -----------------------------
(***************************************************************************)
(* Proofs about AuthSessions, for any number of calls, sessions and token  *)
(* families.                                                               *)
(***************************************************************************)
EXTENDS AuthSessions, TLAPS

\* Every step preserves the types.
LEMMA TypeStep == TypeOK /\ SessionInv /\ [Next]_vars => TypeOK'
<1> SUFFICES ASSUME TypeOK, SessionInv, [Next]_vars PROVE TypeOK'
  OBVIOUS
<1> USE DEF TypeOK, Locations, Goto, Issued
<1>1. ASSUME NEW c \in Calls, Begin(c) PROVE TypeOK'
  BY <1>1 DEF Begin
<1>2. ASSUME NEW c \in Calls, Login(c) PROVE TypeOK'
  BY <1>2 DEF Login, NewSession, Rows
<1>3. ASSUME NEW c \in Calls, LockForRotation(c) PROVE TypeOK'
  BY <1>3 DEF LockForRotation
<1>4. ASSUME NEW c \in Calls, DetectReuse(c) PROVE TypeOK'
  BY <1>4 DEF DetectReuse
<1>5. ASSUME NEW c \in Calls, RefuseRefresh(c) PROVE TypeOK'
  BY <1>5 DEF RefuseRefresh
<1>6. ASSUME NEW c \in Calls, CommitRotation(c) PROVE TypeOK'
  <2>1. PICK n \in Sessions : row' = Rotated(token[c], n)
    BY <1>6 DEF CommitRotation
  <2>2. token[c] \in Sessions /\ row[token[c]].family \in Families \union {Nobody}
    BY <1>6 DEF CommitRotation, SessionInv, HoldersInv, Rows
  <2>3. [row[token[c]] EXCEPT !.state = "revoked", !.next = n] \in Rows
    <3>1. row[token[c]] \in Rows
      BY <2>2
    <3> QED
      BY <3>1 DEF Rows
  <2>4. [state |-> "live", family |-> row[token[c]].family, next |-> Nobody] \in Rows
    BY <2>2 DEF Rows
  <2>5. row' \in [Sessions -> Rows]
    <3>1. row' = [[row EXCEPT ![token[c]] = [row[token[c]] EXCEPT !.state = "revoked", !.next = n]]
                     EXCEPT ![n] = [state |-> "live", family |-> row[token[c]].family,
                                    next |-> Nobody]]
      BY <2>1, <2>2 DEF Rotated
    <3> QED
      BY <2>3, <2>4, <3>1
  <2> QED
    BY <1>6, <2>5 DEF CommitRotation, ReleaseLocks
<1>7. ASSUME NEW c \in Calls, Logout(c) PROVE TypeOK'
  <2>1. token[c] \in Sessions
    BY <1>7 DEF Logout, SessionInv, HoldersInv
  <2>2. [row[token[c]] EXCEPT !.state = "revoked"] \in Rows
    BY <2>1 DEF Rows
  <2> QED
    BY <1>7, <2>1, <2>2 DEF Logout
<1>8. ASSUME NEW c \in Calls, SweepFamily(c) PROVE TypeOK'
  BY <1>8 DEF SweepFamily, Family
<1>9. ASSUME NEW c \in Calls, SweepAll(c) PROVE TypeOK'
  BY <1>9 DEF SweepAll
<1>10. ASSUME NEW c \in Calls, SweepRow(c) PROVE TypeOK'
  BY <1>10 DEF SweepRow
<1>11. ASSUME NEW c \in Calls, CommitSweep(c) PROVE TypeOK'
  <2>1. row' \in [Sessions -> Rows]
    BY <1>11 DEF CommitSweep, Revoked, Rows
  <2>2. reused' \in [Calls -> Families \union {Nobody}]
    BY <1>11 DEF CommitSweep, SessionInv, HoldersInv, Rows
  <2> QED
    BY <1>11, <2>1, <2>2 DEF CommitSweep, ReleaseLocks
<1>12. ASSUME NEW c \in Calls, Abort(c) PROVE TypeOK'
  BY <1>12 DEF Abort, ReleaseLocks
<1>13. ASSUME NEW s \in Sessions, Expire(s) PROVE TypeOK'
  BY <1>13 DEF Expire
<1>14. CASE UNCHANGED vars
  BY <1>14 DEF vars
<1> QED
  BY <1>1, <1>2, <1>3, <1>4, <1>5, <1>6, <1>7, <1>8, <1>9, <1>10, <1>11, <1>12,
     <1>13, <1>14 DEF Next

-----------------------------------------------------------------------------
\* The rows a step writes are rows nobody else is about to write.
LEMMA SessionStep == TypeOK /\ SessionInv /\ [Next]_vars => SessionInv'
<1> SUFFICES ASSUME TypeOK, SessionInv, [Next]_vars PROVE SessionInv'
  OBVIOUS
<1> USE AuthAssumption
    DEF TypeOK, Locations, Goto, Issued, Live, SessionInv, HoldersInv, RowsInv,
        OneLivePerFamily
<1>1. ASSUME NEW c \in Calls, Begin(c) PROVE SessionInv'
  BY <1>1 DEF Begin
<1>2. ASSUME NEW c \in Calls, Login(c) PROVE SessionInv'
  BY <1>2 DEF Login, NewSession, Family
<1>3. ASSUME NEW c \in Calls, LockForRotation(c) PROVE SessionInv'
  BY <1>3 DEF LockForRotation
<1>4. ASSUME NEW c \in Calls, DetectReuse(c) PROVE SessionInv'
  BY <1>4 DEF DetectReuse
<1>5. ASSUME NEW c \in Calls, RefuseRefresh(c) PROVE SessionInv'
  BY <1>5 DEF RefuseRefresh
<1>6. ASSUME NEW c \in Calls, CommitRotation(c) PROVE SessionInv'
  <2>1. PICK n \in Sessions : row[n].state = "absent" /\ row' = Rotated(token[c], n)
    BY <1>6 DEF CommitRotation
  <2>2. token[c] \in Sessions /\ lock[token[c]] = c /\ Live(token[c]) /\ token[c] # n
    BY <1>6, <2>1 DEF CommitRotation
  <2>3. /\ row'[token[c]].state = "revoked" /\ row'[token[c]].family = row[token[c]].family
        /\ row'[n] = [state |-> "live", family |-> row[token[c]].family, next |-> Nobody]
        /\ \A s \in Sessions \ {token[c], n} : row'[s] = row[s]
    BY <2>1, <2>2 DEF Rotated, Rows
  <2>4. /\ pc' = [pc EXCEPT ![c] = "done"]
        /\ \A s \in Sessions : lock[s] # c => lock'[s] = lock[s]
        /\ UNCHANGED <<token, snap, todo>>
    BY <1>6 DEF CommitRotation, ReleaseLocks
  <2>5. RowsInv' /\ OneLivePerFamily'
    BY <2>2, <2>3
  <2>6. HoldersInv'
    <3> SUFFICES ASSUME NEW d \in Calls, d # c
                 PROVE  /\ (pc[d] \in {"refresh", "logout", "rotate", "reuse", "sweepFamily"}
                                => token[d] \in Issued)'
                        /\ (pc[d] = "rotate" => lock[token[d]] = d /\ Live(token[d]))'
                        /\ (todo[d] \subseteq snap[d])'
                        /\ (pc[d] \in {"sweepFamily", "sweepAll"} =>
                               \A s \in snap[d] :
                                  /\ row[s].state # "absent"
                                  /\ s \notin todo[d] =>
                                        lock[s] = d \/ row[s].state = "revoked")'
      BY <2>4
    <3>1. pc'[d] = pc[d]
      BY <2>4
    <3>2. ASSUME pc[d] = "rotate"
          PROVE  lock'[token[d]] = d /\ row'[token[d]].state = "live"
      BY <2>1, <2>2, <2>3, <2>4, <3>2
    <3>3. ASSUME pc[d] \in {"sweepFamily", "sweepAll"}, NEW s \in snap[d]
          PROVE  /\ row'[s].state # "absent"
                 /\ s \notin todo[d] => lock'[s] = d \/ row'[s].state = "revoked"
      <4>1. s \in Sessions /\ s # n
        BY <2>1, <3>3
      <4> QED
        BY <2>2, <2>3, <2>4, <3>3, <4>1
    <3>4. token[d] \in Issued => row'[token[d]].state # "absent"
      BY <2>1, <2>2, <2>3
    <3>5. token[d] \in Issued => (token[d] \in Issued)'
      BY <2>4, <3>4
    <3>6. (pc[d] = "rotate" => lock[token[d]] = d /\ Live(token[d]))'
      BY <2>4, <3>1, <3>2
    <3>7. (pc[d] \in {"sweepFamily", "sweepAll"} =>
              \A s \in snap[d] :
                 /\ row[s].state # "absent"
                 /\ s \notin todo[d] => lock[s] = d \/ row[s].state = "revoked")'
      BY <2>4, <3>1, <3>3
    <3>8. (todo[d] \subseteq snap[d])'
      BY <2>4
    <3>9. (pc[d] \in {"refresh", "logout", "rotate", "reuse", "sweepFamily"}
              => token[d] \in Issued)'
      <4>1. pc[d] \in {"refresh", "logout", "rotate", "reuse", "sweepFamily"}
               => token[d] \in Issued
        OBVIOUS
      <4> QED
        BY <3>1, <3>5, <4>1
    <3> QED
      BY <3>6, <3>7, <3>8, <3>9
  <2> QED
    BY <2>5, <2>6
<1>7. ASSUME NEW c \in Calls, Logout(c) PROVE SessionInv'
  <2>1. /\ token[c] \in Sessions /\ lock[token[c]] = Nobody
        /\ row' = [row EXCEPT ![token[c]].state = "revoked"]
        /\ pc' = [pc EXCEPT ![c] = "done"]
        /\ UNCHANGED <<lock, token, snap, todo>>
    BY <1>7 DEF Logout
  <2>2. /\ row'[token[c]].state = "revoked"
        /\ \A s \in Sessions : row'[s].family = row[s].family /\ row'[s].next = row[s].next
        /\ \A s \in Sessions \ {token[c]} : row'[s] = row[s]
    BY <2>1 DEF Rows
  <2>3. row[token[c]].state # "absent"
    BY <1>7 DEF Logout, SessionInv
  <2>4. RowsInv' /\ OneLivePerFamily'
    BY <2>1, <2>2, <2>3
  <2>5. HoldersInv'
    BY <2>1, <2>2
  <2> QED
    BY <2>4, <2>5
<1>8. ASSUME NEW c \in Calls, SweepFamily(c) PROVE SessionInv'
  BY <1>8 DEF SweepFamily, Family
<1>9. ASSUME NEW c \in Calls, SweepAll(c) PROVE SessionInv'
  BY <1>9 DEF SweepAll
<1>10. ASSUME NEW c \in Calls, SweepRow(c) PROVE SessionInv'
  <2>1. PICK s \in todo[c] :
          /\ lock[s] \in {Nobody, c}
          /\ todo' = [todo EXCEPT ![c] = @ \ {s}]
          /\ lock' = IF Live(s) THEN [lock EXCEPT ![s] = c] ELSE lock
    BY <1>10 DEF SweepRow
  <2>2. /\ pc[c] \in {"sweepFamily", "sweepAll"}
        /\ UNCHANGED <<row, pc, token, snap>>
    BY <1>10 DEF SweepRow
  <2>3. s \in Sessions /\ s \in snap[c] /\ row[s].state # "absent"
    BY <2>2
  <2>4. \A t \in Sessions : lock'[t] = lock[t] \/ (lock[t] = Nobody /\ lock'[t] = c)
    BY <2>1, <2>3
  <2>5. lock'[s] = c \/ row[s].state = "revoked"
    BY <2>1, <2>3 DEF Rows
  <2>6. RowsInv' /\ OneLivePerFamily'
    BY <2>2
  <2>7. HoldersInv'
    <3> SUFFICES ASSUME NEW d \in Calls
                 PROVE  /\ pc[d] = "rotate" => lock'[token[d]] = d
                        /\ todo'[d] \subseteq snap[d]
                        /\ pc[d] \in {"sweepFamily", "sweepAll"} =>
                              \A t \in snap[d] : t \notin todo'[d] =>
                                 lock'[t] = d \/ row[t].state = "revoked"
      BY <2>2
    <3>1. todo'[d] = IF d = c THEN todo[c] \ {s} ELSE todo[d]
      BY <2>1
    <3>2. pc[d] = "rotate" => lock'[token[d]] = d
      BY <2>4
    <3>3. ASSUME pc[d] \in {"sweepFamily", "sweepAll"}, NEW t \in snap[d], t \notin todo'[d]
          PROVE  lock'[t] = d \/ row[t].state = "revoked"
      BY <2>4, <2>5, <3>1, <3>3
    <3> QED
      BY <3>1, <3>2, <3>3
  <2> QED
    BY <2>6, <2>7
<1>11. ASSUME NEW c \in Calls, CommitSweep(c) PROVE SessionInv'
  BY <1>11 DEF CommitSweep, Revoked, ReleaseLocks
<1>12. ASSUME NEW c \in Calls, Abort(c) PROVE SessionInv'
  BY <1>12 DEF Abort, ReleaseLocks
<1>13. ASSUME NEW s \in Sessions, Expire(s) PROVE SessionInv'
  BY <1>13 DEF Expire
<1>14. CASE UNCHANGED vars
  BY <1>14 DEF vars
<1> QED
  BY <1>1, <1>2, <1>3, <1>4, <1>5, <1>6, <1>7, <1>8, <1>9, <1>10, <1>11, <1>12,
     <1>13, <1>14 DEF Next

\* Reachable states are well typed, and what transactions hold stays true.
THEOREM SessionsSound == Spec => [](TypeOK /\ SessionInv)
<1>1. Init => TypeOK /\ SessionInv
  BY AuthAssumption DEF Init, TypeOK, SessionInv, HoldersInv, RowsInv, OneLivePerFamily,
     NoRow, Rows, Locations, Live
<1> QED
  BY <1>1, TypeStep, SessionStep, PTL DEF Spec

\* The rows, locks and coroutines keep their types, for any number of calls.
THEOREM TypeCorrect == Spec => []TypeOK
BY SessionsSound, PTL

\* No family ever has two tokens that can be exchanged, whatever rotations,
\* reuse reports and logouts race over it.
THEOREM OneLiveToken == Spec => []OneLivePerFamily
<1>1. SessionInv => OneLivePerFamily
  BY DEF SessionInv
<1> QED
  BY <1>1, SessionsSound, PTL

-----------------------------------------------------------------------------
\* What a step may do to a row: it stays, a login makes it, a rotation makes it
\* from a live row of its family, or it is revoked.
LEMMA RowStep ==
    ASSUME TypeOK, SessionInv, [Next]_vars, NEW s \in Sessions
    PROVE  \/ row'[s] = row[s]
           \/ /\ row[s].state = "absent"
              /\ row'[s].state = "live" /\ row'[s].next = Nobody
              /\ \/ Family(row'[s].family) = {}
                 \/ \E t \in Sessions :
                       /\ Live(t) /\ row[t].family = row'[s].family
                       /\ row'[t].next = s
           \/ /\ row[s].state # "absent"
              /\ row'[s].state = "revoked" /\ row'[s].family = row[s].family
              /\ \/ row'[s].next = row[s].next
                 \/ /\ row[s].next = Nobody
                    /\ row'[s].next \in Sessions
                    /\ row[row'[s].next].state = "absent"
                    /\ row'[row'[s].next].state = "live"
                    /\ row'[row'[s].next].family = row[s].family
                    /\ \A t \in Sessions \ {s, row'[s].next} : row'[t] = row[t]
<1>a. ASSUME NEW c \in Calls, Login(c)
      PROVE  \E n \in Sessions, f \in Families :
               /\ row[n].state = "absent" /\ Family(f) = {}
               /\ row' = [row EXCEPT ![n] = [state |-> "live", family |-> f, next |-> Nobody]]
  BY <1>a, Zenon DEF Login, NewSession
<1> USE AuthAssumption DEF TypeOK, Goto, Issued, Live, SessionInv, HoldersInv, RowsInv
<1> DEFINE Goal == \/ row'[s] = row[s]
                   \/ /\ row[s].state = "absent"
                      /\ row'[s].state = "live" /\ row'[s].next = Nobody
                      /\ \/ Family(row'[s].family) = {}
                         \/ \E t \in Sessions :
                               /\ Live(t) /\ row[t].family = row'[s].family
                               /\ row'[t].next = s
                   \/ /\ row[s].state # "absent"
                      /\ row'[s].state = "revoked" /\ row'[s].family = row[s].family
                      /\ \/ row'[s].next = row[s].next
                         \/ /\ row[s].next = Nobody
                            /\ row'[s].next \in Sessions
                            /\ row[row'[s].next].state = "absent"
                            /\ row'[row'[s].next].state = "live"
                            /\ row'[row'[s].next].family = row[s].family
                            /\ \A t \in Sessions \ {s, row'[s].next} : row'[t] = row[t]
<1>1. ASSUME NEW c \in Calls, Login(c) PROVE Goal
  <2>1. PICK n \in Sessions, f \in Families :
          /\ row[n].state = "absent" /\ Family(f) = {}
          /\ row' = [row EXCEPT ![n] = [state |-> "live", family |-> f, next |-> Nobody]]
    BY <1>1, <1>a, Zenon
  <2> QED
    BY <2>1
<1>2. ASSUME NEW c \in Calls, CommitRotation(c) PROVE Goal
  <2>1. PICK n \in Sessions : row[n].state = "absent" /\ row' = Rotated(token[c], n)
    BY <1>2 DEF CommitRotation
  <2>2. token[c] \in Sessions /\ Live(token[c]) /\ token[c] # n /\ row[token[c]].next = Nobody
    BY <1>2, <2>1 DEF CommitRotation
  <2>3. /\ row'[token[c]].state = "revoked" /\ row'[token[c]].family = row[token[c]].family
        /\ row'[token[c]].next = n
        /\ row'[n] = [state |-> "live", family |-> row[token[c]].family, next |-> Nobody]
        /\ \A t \in Sessions \ {token[c], n} : row'[t] = row[t]
    BY <2>1, <2>2 DEF Rotated, Rows
  <2>4. CASE s = n
    BY <2>1, <2>2, <2>3, <2>4
  <2>5. CASE s = token[c]
    BY <2>1, <2>2, <2>3, <2>5
  <2> QED
    BY <2>3, <2>4, <2>5
<1>3. ASSUME NEW c \in Calls, Logout(c) PROVE Goal
  <2>1. token[c] \in Issued /\ row' = [row EXCEPT ![token[c]].state = "revoked"]
    BY <1>3 DEF Logout
  <2> QED
    BY <2>1 DEF Rows
<1>4. ASSUME NEW c \in Calls, CommitSweep(c) PROVE Goal
  BY <1>4 DEF CommitSweep, Revoked, Rows
<1>5. ASSUME UNCHANGED row PROVE Goal
  BY <1>5
<1> QED
  BY <1>1, <1>2, <1>3, <1>4, <1>5
     DEF Next, vars, Begin, LockForRotation, DetectReuse, RefuseRefresh, SweepFamily,
         SweepAll, SweepRow, Abort, Expire

\* Each token is exchanged at most once, for one nothing else was exchanged for.
THEOREM LinearChains == Spec => []ChainLinear
<1>1. Init => ChainLinear
  BY DEF Init, ChainLinear, NoRow
<1>2. TypeOK /\ SessionInv /\ ChainLinear /\ [Next]_vars => ChainLinear'
  <2> SUFFICES ASSUME TypeOK, SessionInv, ChainLinear, [Next]_vars,
                      NEW s \in Sessions, row'[s].next # Nobody
               PROVE  /\ row'[s].state = "revoked"
                      /\ row'[row'[s].next].family = row'[s].family
                      /\ row'[row'[s].next].state # "absent"
                      /\ \A t \in Sessions : row'[t].next = row'[s].next => t = s
    BY DEF ChainLinear
  <2> USE AuthAssumption DEF TypeOK, SessionInv, RowsInv, ChainLinear
  <2> DEFINE new == row'[s].next
  <2>1. CASE row[s].next = Nobody
    <3>1. /\ row[s].state # "absent" /\ row'[s].state = "revoked"
          /\ row'[s].family = row[s].family
          /\ new \in Sessions /\ row[new].state = "absent"
          /\ row'[new].state = "live" /\ row'[new].family = row[s].family
          /\ \A t \in Sessions \ {s, new} : row'[t] = row[t]
      BY <2>1, RowStep
    <3>2. ASSUME NEW t \in Sessions, row'[t].next = new PROVE t = s
      <4>1. t # new
        BY <3>1, <3>2, RowStep
      <4> QED
        BY <3>1, <3>2, <4>1
    <3> QED
      BY <3>1, <3>2
  <2>2. CASE row[s].next # Nobody
    <3>1. /\ row[s].state = "revoked" /\ row[s].next \in Sessions
          /\ row[row[s].next].state # "absent"
          /\ row[row[s].next].family = row[s].family
      BY <2>2 DEF Rows
    <3>2. new = row[s].next /\ row'[s].state = "revoked" /\ row'[s].family = row[s].family
      BY <2>2, <3>1, RowStep
    <3>3. row'[new].state # "absent" /\ row'[new].family = row[new].family
      BY <3>1, <3>2, RowStep
    <3>4. ASSUME NEW t \in Sessions, row'[t].next = new PROVE t = s
      <4>1. row[t].next = new
        BY <3>1, <3>2, <3>4, RowStep
      <4> QED
        BY <2>2, <3>2, <4>1
    <3> QED
      BY <3>1, <3>2, <3>3, <3>4
  <2> QED
    BY <2>1, <2>2
<1> QED
  BY <1>1, <1>2, SessionsSound, PTL DEF Spec

\* A family whose tokens are all revoked is never live again: no rotation that
\* is under way can bring it back.
THEOREM DeadFamilies == Spec => DeadFamilyStaysDead
<1>1. TypeOK /\ SessionInv /\ [Next]_vars =>
        [\A f \in Families :
            Family(f) # {} /\ (\A s \in Family(f) : ~Live(s)) =>
                \A s \in Sessions : Live(s)' => row'[s].family # f]_vars
  <2> SUFFICES ASSUME TypeOK, SessionInv, [Next]_vars, NEW f \in Families,
                      Family(f) # {}, \A s \in Family(f) : ~Live(s),
                      NEW s \in Sessions, Live(s)', row'[s].family = f
               PROVE  FALSE
    OBVIOUS
  <2>1. row[s].state = "absent" \/ row'[s] = row[s]
    BY RowStep DEF Live
  <2>2. row'[s] # row[s]
    BY DEF Family, Live
  <2>3. \E t \in Sessions : Live(t) /\ row[t].family = f
    BY <2>1, <2>2, RowStep DEF Live
  <2> QED
    BY <2>3 DEF Family, Live
<1> QED
  BY <1>1, SessionsSound, PTL DEF Spec, DeadFamilyStaysDead

\* A row that an UPDATE found live is revoked once that UPDATE has committed.
THEOREM Sweeps == Spec => []SweepRevokesSnapshot
<1>1. Init => SweepRevokesSnapshot
  BY DEF Init, SweepRevokesSnapshot
<1>2. TypeOK /\ SessionInv /\ SweepRevokesSnapshot /\ [Next]_vars => SweepRevokesSnapshot'
  <2> SUFFICES ASSUME TypeOK, SessionInv, SweepRevokesSnapshot, [Next]_vars,
                      NEW c \in Calls, pc'[c] \in {"sweptFamily", "sweptAll"},
                      NEW s \in snap'[c]
               PROVE  row'[s].state = "revoked"
    BY DEF SweepRevokesSnapshot
  <2> USE AuthAssumption DEF TypeOK, Goto
  <2>1. snap'[c] = snap[c] /\ s \in Sessions
    BY ZenonT(40) DEF Next, vars, Begin, Login, LockForRotation, DetectReuse, RefuseRefresh,
           CommitRotation, Logout, SweepFamily, SweepAll, SweepRow, CommitSweep, Abort, Expire
  <2>2. CASE pc[c] \in {"sweptFamily", "sweptAll"}
    BY <2>1, <2>2, RowStep DEF SweepRevokesSnapshot
  <2>3. CASE pc[c] \notin {"sweptFamily", "sweptAll"}
    <3>1. CommitSweep(c)
      <4>1. pc' # pc
        BY <2>3
      <4>2. PICK d \in Calls :
              \/ Begin(d) \/ Login(d) \/ LockForRotation(d) \/ DetectReuse(d)
              \/ RefuseRefresh(d) \/ CommitRotation(d) \/ Logout(d) \/ SweepFamily(d)
              \/ SweepAll(d) \/ CommitSweep(d) \/ Abort(d)
        BY <4>1 DEF Next, vars, SweepRow, Expire
      <4>3. d = c
        BY <2>3, <4>2 DEF Begin, Login, LockForRotation, DetectReuse, RefuseRefresh,
           CommitRotation, Logout, SweepFamily, SweepAll, CommitSweep, Abort
      <4> QED
        BY <2>3, <4>2, <4>3 DEF Begin, Login, LockForRotation, DetectReuse, RefuseRefresh,
           CommitRotation, Logout, SweepFamily, SweepAll, Abort
    <3>2. lock[s] = c \/ row[s].state = "revoked"
      BY <2>1, <3>1 DEF CommitSweep, SessionInv, HoldersInv
    <3>3. row[s].state # "absent"
      BY <2>1, <3>1 DEF CommitSweep, SessionInv, HoldersInv
    <3> QED
      BY <2>1, <3>1, <3>2, <3>3 DEF CommitSweep, Revoked, Live, Rows
  <2> QED
    BY <2>2, <2>3
<1> QED
  BY <1>1, <1>2, SessionsSound, PTL DEF Spec
=============================================================================
