----------------------------- MODULE ChatProofs -----------------------------
(***************************************************************************)
(* Proofs about Chat, for any sets of requests and exchanges, any number   *)
(* of chunks and any combination of faults.                                *)
(***************************************************************************)
EXTENDS ChatContract, TLAPS

\* A claim and a settled row are rows.
LEMMA ClaimedType ==
    ASSUME TypeOK, NEW r \in Requests
    PROVE  Claimed(r) \in Replies
BY ChatAssumption DEF TypeOK, Claimed, Replies, Statuses, InProgress

\* A settled row is a row.
LEMMA SettledType ==
    ASSUME TypeOK, NEW r \in Requests, NEW s \in Statuses
    PROVE  Settled(r, s) \in Replies
BY DEF TypeOK, Settled, Replies

\* An interruption keeps the types.
LEMMA InterruptedType ==
    ASSUME TypeOK, NEW r \in Requests, NEW why \in {"error", "cancel"},
           Interrupted(r, why)
    PROVE  TypeOK'
<1>1. pc' \in [Requests -> Locations]
  BY DEF TypeOK, Interrupted, Locations, Finalizing
<1> QED
  BY <1>1 DEF TypeOK, Interrupted, ReleaseLocks

\* Every step preserves the types.
LEMMA TypeStep == TypeOK /\ [Next]_vars => TypeOK'
<1> SUFFICES ASSUME TypeOK, [Next]_vars PROVE TypeOK'
  OBVIOUS
<1> USE DEF TypeOK, Locations, Preparing, Generating, Finalizing, Goto, Exchange
<1>1. ASSUME NEW r \in Requests, Arrive(r) PROVE TypeOK'
  BY <1>1 DEF Arrive
<1>2. ASSUME NEW r \in Requests, LockConversation(r) PROVE TypeOK'
  BY <1>2 DEF LockConversation
<1>3. ASSUME NEW r \in Requests, Lookup(r) PROVE TypeOK'
  BY <1>3 DEF Lookup
<1>4. ASSUME NEW r \in Requests, ReplayCompleted(r) PROVE TypeOK'
  BY <1>4 DEF ReplayCompleted, ReleaseLocks
<1>5. ASSUME NEW r \in Requests, RefuseInProgress(r) PROVE TypeOK'
  BY <1>5 DEF RefuseInProgress, ReleaseLocks
<1>6. ASSUME NEW r \in Requests, ReuseFailed(r) PROVE TypeOK'
  BY <1>6 DEF ReuseFailed, TakeReply
<1>7. ASSUME NEW r \in Requests, CommitPrepare(r) PROVE TypeOK'
  <2>1. Claimed(r) \in Replies
    BY ClaimedType
  <2>2. reply' \in [Exchanges -> Replies]
    BY <1>7, <2>1 DEF CommitPrepare
  <2>3. pc' \in [Requests -> Locations]
    BY <1>7 DEF CommitPrepare
  <2> QED
    BY <1>7, <2>2, <2>3 DEF CommitPrepare, ReleaseLocks
<1>8. ASSUME NEW r \in Requests, ResolveProvider(r) PROVE TypeOK'
  BY <1>8 DEF ResolveProvider
<1>9. ASSUME NEW r \in Requests, Resume(r) PROVE TypeOK'
  BY <1>9 DEF Resume
<1>10. ASSUME NEW r \in Requests, YieldDelta(r) PROVE TypeOK'
  BY <1>10, ChatAssumption DEF YieldDelta
<1>11. ASSUME NEW r \in Requests, ProviderAnswers(r) PROVE TypeOK'
  BY <1>11 DEF ProviderAnswers
<1>12. ASSUME NEW r \in Requests, LockMessage(r) PROVE TypeOK'
  BY <1>12 DEF LockMessage
<1>13. ASSUME NEW r \in Requests, TouchConversation(r) PROVE TypeOK'
  BY <1>13 DEF TouchConversation
<1>14. ASSUME NEW r \in Requests, CommitReply(r) PROVE TypeOK'
  BY <1>14 DEF CommitReply, ReleaseLocks, Settled, Replies, Statuses
<1>15. ASSUME NEW r \in Requests, Acknowledge(r) PROVE TypeOK'
  BY <1>15 DEF Acknowledge, Settled, Replies, Statuses
<1>16. ASSUME NEW r \in Requests, RecordFailure(r) PROVE TypeOK'
  BY <1>16 DEF RecordFailure, Settled, Replies, Statuses
<1>17. ASSUME NEW r \in Requests, YieldHeartbeat(r) PROVE TypeOK'
  BY <1>17 DEF YieldHeartbeat
<1>18. ASSUME NEW r \in Requests, PrepareFails(r) PROVE TypeOK'
  BY <1>18 DEF PrepareFails, ReleaseLocks
<1>19. ASSUME NEW r \in Requests, ProviderFails(r) PROVE TypeOK'
  BY <1>19 DEF ProviderFails
<1>20. ASSUME NEW r \in Requests, Abandon(r) PROVE TypeOK'
  BY <1>20 DEF Abandon
<1>21. ASSUME NEW r \in Requests, FinalizeBreaks(r) PROVE TypeOK'
  BY <1>21, InterruptedType DEF FinalizeBreaks
<1>22. ASSUME NEW r \in Requests, CancelGeneration(r) PROVE TypeOK'
  BY <1>22 DEF CancelGeneration
<1>23. ASSUME NEW r \in Requests, RecordFailureLost(r) PROVE TypeOK'
  BY <1>23 DEF RecordFailureLost
<1>24. ASSUME NEW r \in Requests, NEW s \in Requests, DeadlockAbort(r, s) PROVE TypeOK'
  BY <1>24, InterruptedType DEF DeadlockAbort, ReleaseLocks
<1>25. CASE Archive
  BY <1>25 DEF Archive
<1>26. CASE Crash
  BY <1>26 DEF Crash
<1>27. CASE UNCHANGED vars
  BY <1>27 DEF vars
<1> QED
  BY <1>1, <1>2, <1>3, <1>4, <1>5, <1>6, <1>7, <1>8, <1>9, <1>10, <1>11, <1>12,
     <1>13, <1>14, <1>15, <1>16, <1>17, <1>18, <1>19, <1>20, <1>21, <1>22,
     <1>23, <1>24, <1>25, <1>26, <1>27
  DEF Next, Serve, Disturb

\* Every reachable state is well typed.
THEOREM TypeCorrect == Spec => []TypeOK
<1>1. Init => TypeOK
  <2> SUFFICES ASSUME Init PROVE TypeOK
    OBVIOUS
  <2>1. NoReply \in Replies
    BY ChatAssumption DEF NoReply, Replies, Statuses
  <2>2. 0 \in 0..MaxChunks
    BY ChatAssumption
  <2> QED
    BY <2>1, <2>2 DEF Init, TypeOK, Locations
<1> QED
  BY <1>1, TypeStep, PTL DEF Spec

-----------------------------------------------------------------------------
\* Ownership is inductive: one step per action.
LEMMA OwnershipStep == TypeOK /\ OwnershipInv /\ [Next]_vars => OwnershipInv'
<1> SUFFICES ASSUME TypeOK, OwnershipInv, [Next]_vars PROVE OwnershipInv'
  OBVIOUS
<1> USE DEF OwnershipInv, ClaimantInv, AttemptInv, UnansweredInv, Attempting,
            TypeOK, Locations, Preparing, Generating, Finalizing, Goto,
            Exchange, Settled, InProgress
<1>1. ASSUME NEW r \in Requests, Arrive(r) PROVE OwnershipInv'
  BY <1>1 DEF Arrive
<1>2. ASSUME NEW r \in Requests, LockConversation(r) PROVE OwnershipInv'
  BY <1>2, ChatAssumption DEF LockConversation
<1>3. ASSUME NEW r \in Requests, Lookup(r) PROVE OwnershipInv'
  BY <1>3 DEF Lookup
<1>4. ASSUME NEW r \in Requests, ReplayCompleted(r) PROVE OwnershipInv'
  BY <1>4 DEF ReplayCompleted, ReleaseLocks
<1>5. ASSUME NEW r \in Requests, RefuseInProgress(r) PROVE OwnershipInv'
  BY <1>5 DEF RefuseInProgress, ReleaseLocks
<1>6. ASSUME NEW r \in Requests, ReuseFailed(r) PROVE OwnershipInv'
  BY <1>6 DEF ReuseFailed, TakeReply
<1>7. ASSUME NEW r \in Requests, CommitPrepare(r) PROVE OwnershipInv'
  BY <1>7 DEF CommitPrepare, ReleaseLocks, Claimed
<1>8. ASSUME NEW r \in Requests, ResolveProvider(r) PROVE OwnershipInv'
  BY <1>8 DEF ResolveProvider
<1>9. ASSUME NEW r \in Requests, Resume(r) PROVE OwnershipInv'
  BY <1>9 DEF Resume
<1>10. ASSUME NEW r \in Requests, YieldDelta(r) PROVE OwnershipInv'
  BY <1>10 DEF YieldDelta
<1>11. ASSUME NEW r \in Requests, ProviderAnswers(r) PROVE OwnershipInv'
  <2>1. /\ UNCHANGED <<req, archived, convLock, reply, receipt>>
        /\ \A s \in Requests : s # r => parts'[s] = parts[s]
        /\ pc[r] = "generating" /\ pc' = [pc EXCEPT ![r] = "lockMessage"]
    BY <1>11 DEF ProviderAnswers
  <2>2. ClaimantInv' /\ UnansweredInv'
    BY <2>1
  <2>3. AttemptInv'
    <3> SUFFICES ASSUME NEW s \in Requests, Attempting(s)'
                 PROVE  /\ (reply[Exchange(s)].by = s)'
                        /\ (pc[s] \notin {"committed", "failing"} =>
                               reply[Exchange(s)].status \in InProgress)'
                        /\ (pc[s] = "committed" =>
                               reply[Exchange(s)] = Settled(s, "completed"))'
                        /\ (pc[s] = "failing" =>
                               \/ reply[Exchange(s)].status \in InProgress
                               \/ CommitInDoubt /\ reply[Exchange(s)].status = "completed")'
      OBVIOUS
    <3>1. CASE s = r
      <4>1. reply[Exchange(r)].by = r /\ reply[Exchange(r)].status \in InProgress
        BY <2>1
      <4>2. pc'[r] = "lockMessage"
        BY <2>1
      <4> QED
        BY <2>1, <3>1, <4>1, <4>2
    <3>2. CASE s # r
      <4>1. pc'[s] = pc[s] /\ parts'[s] = parts[s]
        BY <2>1, <3>2
      <4> QED
        BY <2>1, <4>1
    <3> QED
      BY <3>1, <3>2
  <2> QED
    BY <2>2, <2>3
<1>12. ASSUME NEW r \in Requests, LockMessage(r) PROVE OwnershipInv'
  BY <1>12 DEF LockMessage
<1>13. ASSUME NEW r \in Requests, TouchConversation(r) PROVE OwnershipInv'
  BY <1>13, ChatAssumption DEF TouchConversation
<1>14. ASSUME NEW r \in Requests, CommitReply(r) PROVE OwnershipInv'
  BY <1>14 DEF CommitReply, ReleaseLocks
<1>15. ASSUME NEW r \in Requests, Acknowledge(r) PROVE OwnershipInv'
  BY <1>15 DEF Acknowledge
<1>16. ASSUME NEW r \in Requests, RecordFailure(r) PROVE OwnershipInv'
  <2>1. /\ UNCHANGED <<req, parts, archived, convLock, receipt>>
        /\ pc[r] = "failing" /\ pc' = [pc EXCEPT ![r] = "done"]
        /\ \A e \in Exchanges : e # Exchange(r) => reply'[e] = reply[e]
    BY <1>16 DEF RecordFailure
  <2>2. reply[Exchange(r)].by = r /\ reply[Exchange(r)].status \notin {"absent", "failed"}
    BY <2>1
  <2>3. \A s \in Requests : s # r /\ pc[s] \in Generating \union Finalizing
                            => Exchange(s) # Exchange(r)
    <3> SUFFICES ASSUME NEW s \in Requests, s # r, Attempting(s)
                 PROVE  Exchange(s) # Exchange(r)
      OBVIOUS
    <3>1. reply[Exchange(s)].by = s
      BY DEF OwnershipInv, AttemptInv
    <3> QED
      BY <2>2, <3>1
  <2>4. \A s \in Requests : pc[s] \in {"insert", "reset"} => Exchange(s) # Exchange(r)
    BY <2>2
  <2>5. ClaimantInv'
    BY <2>1, <2>4
  <2>6. AttemptInv'
    <3> SUFFICES ASSUME NEW s \in Requests, Attempting(s)'
                 PROVE  /\ (reply[Exchange(s)].by = s)'
                        /\ (pc[s] \notin {"committed", "failing"} =>
                               reply[Exchange(s)].status \in InProgress)'
                        /\ (pc[s] = "committed" =>
                               reply[Exchange(s)] = Settled(s, "completed"))'
                        /\ (pc[s] = "failing" =>
                               \/ reply[Exchange(s)].status \in InProgress
                               \/ CommitInDoubt /\ reply[Exchange(s)].status = "completed")'
      OBVIOUS
    <3>1. s # r /\ pc'[s] = pc[s] /\ Exchange(s) # Exchange(r)
      BY <2>1, <2>3
    <3>2. reply'[Exchange(s)] = reply[Exchange(s)] /\ req' = req /\ parts' = parts
      BY <2>1, <3>1
    <3> QED
      BY <3>1, <3>2
  <2> QED
    BY <2>1, <2>5, <2>6
<1>17. ASSUME NEW r \in Requests, YieldHeartbeat(r) PROVE OwnershipInv'
  BY <1>17 DEF YieldHeartbeat
<1>18. ASSUME NEW r \in Requests, PrepareFails(r) PROVE OwnershipInv'
  BY <1>18 DEF PrepareFails, ReleaseLocks
<1>19. ASSUME NEW r \in Requests, ProviderFails(r) PROVE OwnershipInv'
  BY <1>19 DEF ProviderFails
<1>20. ASSUME NEW r \in Requests, Abandon(r) PROVE OwnershipInv'
  BY <1>20 DEF Abandon
<1>21. ASSUME NEW r \in Requests, FinalizeBreaks(r) PROVE OwnershipInv'
  <2>1. CASE "database" \in Faults /\ Interrupted(r, "error")
    BY <1>21, <2>1 DEF FinalizeBreaks, Interrupted, ReleaseLocks, CommitInDoubt
  <2>2. CASE "cancel" \in Faults /\ Interrupted(r, "cancel")
    BY <1>21, <2>2 DEF FinalizeBreaks, Interrupted, ReleaseLocks, CommitInDoubt
  <2> QED
    BY <1>21, <2>1, <2>2 DEF FinalizeBreaks
<1>22. ASSUME NEW r \in Requests, CancelGeneration(r) PROVE OwnershipInv'
  BY <1>22 DEF CancelGeneration
<1>23. ASSUME NEW r \in Requests, RecordFailureLost(r) PROVE OwnershipInv'
  BY <1>23 DEF RecordFailureLost
<1>24. ASSUME NEW r \in Requests, NEW s \in Requests, DeadlockAbort(r, s) PROVE OwnershipInv'
  BY <1>24 DEF DeadlockAbort, Interrupted, ReleaseLocks
<1>25. CASE Archive
  BY <1>25, ChatAssumption DEF Archive
<1>26. CASE Crash
  BY <1>26 DEF Crash
<1>27. CASE UNCHANGED vars
  BY <1>27 DEF vars
<1> QED
  BY <1>1, <1>2, <1>3, <1>4, <1>5, <1>6, <1>7, <1>8, <1>9, <1>10, <1>11, <1>12, <1>13, <1>14, <1>15, <1>16, <1>17, <1>18, <1>19, <1>20, <1>21, <1>22, <1>23, <1>24, <1>25, <1>26, <1>27
  DEF Next, Serve, Disturb

\* Each attempt owns the row it finalizes, each claim sees the row it decided on.
THEOREM Ownership == Spec => []OwnershipInv
<1>1. Init => OwnershipInv
  BY DEF Init, OwnershipInv, ClaimantInv, AttemptInv, UnansweredInv, Attempting,
         Preparing, Generating, Finalizing
<1> QED
  BY <1>1, OwnershipStep, TypeCorrect, PTL DEF Spec

\* One client message never has two attempts at a time.
THEOREM OneGeneration == Spec => []AtMostOneGeneration
<1>1. OwnershipInv => AtMostOneGeneration
  BY DEF OwnershipInv, AttemptInv, AtMostOneGeneration
<1> QED
  BY <1>1, Ownership, PTL

\* What a step does to the replies: claim one that is absent or failed, or
\* settle one's own.
LEMMA ReplyStep ==
    ASSUME TypeOK, OwnershipInv, [Next]_vars
    PROVE  \/ UNCHANGED reply
           \/ \E r \in Requests :
                /\ CommitPrepare(r)
                /\ reply[Exchange(r)].status \in {"absent", "failed"}
           \/ \E r \in Requests :
                /\ CommitReply(r)
                /\ reply[Exchange(r)].by = r
                /\ reply[Exchange(r)].status \in InProgress
           \/ \E r \in Requests :
                /\ RecordFailure(r)
                /\ reply[Exchange(r)].by = r
                /\ \/ reply[Exchange(r)].status \in InProgress
                   \/ CommitInDoubt /\ reply[Exchange(r)].status = "completed"
<1>1. ASSUME NEW r \in Requests, CommitPrepare(r)
      PROVE  reply[Exchange(r)].status \in {"absent", "failed"}
  BY <1>1 DEF CommitPrepare, OwnershipInv, ClaimantInv
<1>2. ASSUME NEW r \in Requests, CommitReply(r)
      PROVE  reply[Exchange(r)].by = r /\ reply[Exchange(r)].status \in InProgress
  BY <1>2 DEF CommitReply, Goto, OwnershipInv, AttemptInv, Attempting, Finalizing
<1>3. ASSUME NEW r \in Requests, RecordFailure(r)
      PROVE  /\ reply[Exchange(r)].by = r
             /\ \/ reply[Exchange(r)].status \in InProgress
                \/ CommitInDoubt /\ reply[Exchange(r)].status = "completed"
  BY <1>3 DEF RecordFailure, Goto, OwnershipInv, AttemptInv, Attempting, Finalizing
<1>4. CASE \E r \in Requests : CommitPrepare(r) \/ CommitReply(r) \/ RecordFailure(r)
  BY <1>4, <1>1, <1>2, <1>3
<1>5. CASE ~ \E r \in Requests : CommitPrepare(r) \/ CommitReply(r) \/ RecordFailure(r)
  <2>1. CASE UNCHANGED vars
    BY <2>1 DEF vars
  <2>2. CASE \E r \in Requests : Arrive(r) \/ YieldHeartbeat(r) \/ Disturb(r)
    BY <2>2 DEF Arrive, YieldHeartbeat, Disturb, PrepareFails, ProviderFails, Abandon,
                FinalizeBreaks, Interrupted, CancelGeneration, RecordFailureLost
  <2>3. CASE \E r \in Requests : Serve(r)
    BY <2>3, <1>5 DEF Serve, LockConversation, Lookup, ReplayCompleted, RefuseInProgress,
                ReuseFailed, TakeReply, ResolveProvider, Resume, YieldDelta,
                ProviderAnswers, LockMessage, TouchConversation, Acknowledge
  <2>4. CASE Archive \/ Crash \/ \E r, s \in Requests : DeadlockAbort(r, s)
    BY <2>4 DEF Archive, Crash, DeadlockAbort, Interrupted
  <2> QED
    BY <2>1, <2>2, <2>3, <2>4 DEF Next
<1> QED
  BY <1>4, <1>5

\* What a request asks for never changes.
LEMMA NextKeepsRequests == [Next]_vars => UNCHANGED req
BY DEF Next, Serve, Disturb, vars, Arrive, LockConversation, Lookup, ReplayCompleted,
       RefuseInProgress, ReuseFailed, TakeReply, CommitPrepare, ResolveProvider, Resume,
       YieldDelta, YieldHeartbeat, ProviderAnswers, ProviderFails, Abandon, LockMessage,
       TouchConversation, CommitReply, Acknowledge, FinalizeBreaks, Interrupted,
       CancelGeneration, RecordFailure, RecordFailureLost, PrepareFails, DeadlockAbort,
       Archive, Crash

\* A request is answered by its own replay or its own acknowledged commit.
LEMMA ReceiptStep ==
    ASSUME TypeOK, [Next]_vars, NEW r \in Requests, receipt'[r] # receipt[r]
    PROVE  ReplayCompleted(r) \/ Acknowledge(r)
<1>1. PICK s \in Requests : ReplayCompleted(s) \/ Acknowledge(s)
  BY DEF Next, Serve, Disturb, vars, Arrive, LockConversation, Lookup, RefuseInProgress,
         ReuseFailed, TakeReply, CommitPrepare, ResolveProvider, Resume, YieldDelta,
         YieldHeartbeat, ProviderAnswers, ProviderFails, Abandon, LockMessage,
         TouchConversation, CommitReply, FinalizeBreaks, Interrupted, CancelGeneration,
         RecordFailure, RecordFailureLost, PrepareFails, DeadlockAbort, Archive, Crash
<1>2. s = r
  BY <1>1 DEF ReplayCompleted, Acknowledge, TypeOK
<1> QED
  BY <1>1, <1>2

\* A reply passes to another attempt only when it is new or failed.
THEOREM Takeover == Spec => TakeoverOnlyFromFailed
<1>1. ASSUME TypeOK, OwnershipInv, [Next]_vars, NEW e \in Exchanges,
             reply'[e].by # reply[e].by
      PROVE  reply[e].status \in {"absent", "failed"}
  <2>1. PICK r \in Requests : CommitPrepare(r) \/ CommitReply(r) \/ RecordFailure(r)
    BY <1>1, ReplyStep
  <2>2. e = Exchange(r)
    BY <1>1, <2>1 DEF CommitPrepare, CommitReply, RecordFailure, TypeOK
  <2>3. CASE CommitPrepare(r)
    BY <2>2, <2>3, <1>1 DEF CommitPrepare, OwnershipInv, ClaimantInv
  <2>4. CASE CommitReply(r) \/ RecordFailure(r)
    <3>1. reply'[e].by = r
      BY <2>2, <2>4, <1>1 DEF CommitReply, RecordFailure, Settled, TypeOK
    <3>2. reply[e].by = r
      BY <2>2, <2>4, <1>1 DEF CommitReply, RecordFailure, Goto, OwnershipInv, AttemptInv,
                              Attempting, Finalizing
    <3> QED
      BY <1>1, <3>1, <3>2
  <2> QED
    BY <2>1, <2>3, <2>4
<1>2. TypeOK /\ OwnershipInv /\ [Next]_vars =>
        [\A e \in Exchanges :
            reply'[e].by # reply[e].by => reply[e].status \in {"absent", "failed"}]_vars
  BY <1>1
<1> QED
  BY <1>2, TypeCorrect, Ownership, PTL DEF Spec, TakeoverOnlyFromFailed

\* No attempt starts in an archived conversation.
THEOREM Quiet == Spec => ArchivedStaysQuiet
<1>1. ASSUME TypeOK, OwnershipInv, [Next]_vars,
             NEW r \in Requests, archived, ~Attempting(r)
      PROVE  ~Attempting(r)'
  <2>1. pc[r] \in {"idle", "lockConversation", "done"}
    BY <1>1 DEF OwnershipInv, ClaimantInv, Attempting, TypeOK, Locations, Preparing
  <2> USE DEF Goto, TypeOK, Attempting, Preparing, Generating, Finalizing
  <2>2. ASSUME NEW s \in Requests, Arrive(s) \/ YieldHeartbeat(s) PROVE ~Attempting(r)'
    BY <1>1, <2>1, <2>2 DEF Arrive, YieldHeartbeat
  <2>3. ASSUME NEW s \in Requests, LockConversation(s) \/ Lookup(s) \/ ReplayCompleted(s)
                                   \/ RefuseInProgress(s) \/ ReuseFailed(s)
        PROVE  ~Attempting(r)'
    BY <1>1, <2>1, <2>3
    DEF LockConversation, Lookup, ReplayCompleted, RefuseInProgress, ReuseFailed, TakeReply
  <2>4. ASSUME NEW s \in Requests, CommitPrepare(s) \/ ResolveProvider(s) \/ Resume(s)
                                   \/ YieldDelta(s) \/ ProviderAnswers(s)
        PROVE  ~Attempting(r)'
    BY <1>1, <2>1, <2>4
    DEF CommitPrepare, ResolveProvider, Resume, YieldDelta, ProviderAnswers
  <2>5. ASSUME NEW s \in Requests, LockMessage(s) \/ TouchConversation(s) \/ CommitReply(s)
                                   \/ Acknowledge(s) \/ RecordFailure(s)
        PROVE  ~Attempting(r)'
    BY <1>1, <2>1, <2>5
    DEF LockMessage, TouchConversation, CommitReply, Acknowledge, RecordFailure
  <2>6. ASSUME NEW s \in Requests, Disturb(s) PROVE ~Attempting(r)'
    BY <1>1, <2>1, <2>6
    DEF Disturb, PrepareFails, ProviderFails, Abandon, FinalizeBreaks, Interrupted,
        CancelGeneration, RecordFailureLost
  <2>7. ASSUME NEW s \in Requests, NEW q \in Requests, DeadlockAbort(s, q)
        PROVE  ~Attempting(r)'
    BY <1>1, <2>1, <2>7 DEF DeadlockAbort, Interrupted
  <2>8. CASE Archive \/ Crash \/ UNCHANGED vars
    BY <1>1, <2>1, <2>8 DEF Archive, Crash, vars
  <2> QED
    BY <1>1, <2>2, <2>3, <2>4, <2>5, <2>6, <2>7, <2>8 DEF Next, Serve
<1>2. TypeOK /\ OwnershipInv /\ [Next]_vars =>
        [\A r \in Requests : archived /\ ~Attempting(r) => ~Attempting(r)']_vars
  BY <1>1
<1> QED
  BY <1>2, TypeCorrect, Ownership, PTL DEF Spec, ArchivedStaysQuiet

\* When no commit can be in doubt, every answer given for an exchange is the
\* stored reply, for ever.
THEOREM Receipts == ~CommitInDoubt => (Spec => []ReceiptsStand)
<1> SUFFICES ASSUME ~CommitInDoubt PROVE Spec => []ReceiptsStand
  OBVIOUS
<1>1. Init => ReceiptsStand
  BY DEF Init, ReceiptsStand, NoReply
<1>2. TypeOK /\ OwnershipInv /\ ReceiptsStand /\ [Next]_vars => ReceiptsStand'
  <2> SUFFICES ASSUME TypeOK, OwnershipInv, ReceiptsStand, [Next]_vars,
                      NEW r \in Requests, receipt'[r].status = "completed"
               PROVE  receipt'[r] = reply'[Exchange(r)'] 
    BY DEF ReceiptsStand
  <2>1. Exchange(r)' = Exchange(r) /\ Exchange(r) \in Exchanges
    BY NextKeepsRequests DEF Exchange, TypeOK
  <2>2. reply[Exchange(r)].status = "completed" => reply'[Exchange(r)] = reply[Exchange(r)]
    <3> SUFFICES ASSUME reply[Exchange(r)].status = "completed",
                        reply'[Exchange(r)] # reply[Exchange(r)]
                 PROVE  FALSE
      OBVIOUS
    <3>1. PICK s \in Requests :
            /\ CommitPrepare(s) \/ CommitReply(s) \/ RecordFailure(s)
            /\ reply[Exchange(s)].status # "completed"
      BY ReplyStep DEF InProgress
    <3>2. Exchange(s) = Exchange(r)
      BY <2>1, <3>1 DEF CommitPrepare, CommitReply, RecordFailure, TypeOK
    <3> QED
      BY <3>1, <3>2
  <2>3. CASE receipt'[r] = receipt[r]
    BY <2>1, <2>2, <2>3 DEF ReceiptsStand
  <2>4. CASE receipt'[r] # receipt[r]
    <3>1. ReplayCompleted(r) \/ Acknowledge(r)
      BY <2>4, ReceiptStep
    <3>2. CASE ReplayCompleted(r)
      BY <2>1, <2>2, <3>2 DEF ReplayCompleted, TypeOK
    <3>3. CASE Acknowledge(r)
      <4>1. reply[Exchange(r)] = Settled(r, "completed")
        BY <3>3 DEF Acknowledge, Goto, OwnershipInv, AttemptInv, Attempting, Finalizing
      <4>2. receipt'[r] = Settled(r, "completed") /\ reply' = reply
        BY <3>3 DEF Acknowledge, TypeOK
      <4> QED
        BY <2>1, <4>1, <4>2
    <3> QED
      BY <3>1, <3>2, <3>3
  <2> QED
    BY <2>3, <2>4
<1> QED
  BY <1>1, <1>2, TypeCorrect, Ownership, PTL DEF Spec

-----------------------------------------------------------------------------
\* How the contract's variables follow a written row, and an answer.
LEMMA MapReply ==
    ASSUME TypeOK, NEW x \in Exchanges, NEW row, reply' = [reply EXCEPT ![x] = row]
    PROVE  /\ [e \in Exchanges |-> PhaseOf(reply'[e].status)]
                = [[e \in Exchanges |-> PhaseOf(reply[e].status)]
                      EXCEPT ![x] = PhaseOf(row.status)]
           /\ [e \in Exchanges |-> reply'[e].by]
                = [[e \in Exchanges |-> reply[e].by] EXCEPT ![x] = row.by]
           /\ row.by = reply[x].by =>
                [e \in Exchanges |-> reply'[e].by] = [e \in Exchanges |-> reply[e].by]
BY DEF TypeOK

\* A receipt maps to the contract by who produced it.
LEMMA MapReceipt ==
    ASSUME TypeOK, NEW r \in Requests, NEW row, receipt' = [receipt EXCEPT ![r] = row]
    PROVE  [q \in Requests |-> receipt'[q].by]
             = [[q \in Requests |-> receipt[q].by] EXCEPT ![r] = row.by]
BY DEF TypeOK

\* The claim, the two finalizers and the two answers are the steps a client of
\* the contract sees; everything else stutters.
LEMMA ContractStep ==
    ASSUME TypeOK, OwnershipInv, [Next]_vars
    PROVE  [Contract!Next]_(Contract!contractVars)
<1> USE DEF Contract!contractVars
<1>0. \A r \in Requests : Exchange(r) \in Exchanges
  BY DEF TypeOK, Exchange
<1>1. ASSUME NEW r \in Requests, CommitPrepare(r)
      PROVE  Contract!Begin(Exchange(r), r)
  <2>1. /\ reply[Exchange(r)].status \in {"absent", "failed"}
        /\ reply' = [reply EXCEPT ![Exchange(r)] = Claimed(r)]
        /\ receipt' = receipt
    BY <1>1 DEF CommitPrepare, OwnershipInv, ClaimantInv
  <2>2. Claimed(r).status \in InProgress /\ Claimed(r).by = r
    BY DEF Claimed, InProgress
  <2>3. PhaseOf(reply[Exchange(r)].status) \in {"absent", "failed"}
    BY <2>1 DEF PhaseOf, InProgress
  <2>4. PhaseOf(Claimed(r).status) = "working"
    BY <2>2 DEF PhaseOf
  <2>5. /\ [e \in Exchanges |-> PhaseOf(reply'[e].status)]
             = [[e \in Exchanges |-> PhaseOf(reply[e].status)]
                   EXCEPT ![Exchange(r)] = PhaseOf(Claimed(r).status)]
        /\ [e \in Exchanges |-> reply'[e].by]
             = [[e \in Exchanges |-> reply[e].by] EXCEPT ![Exchange(r)] = Claimed(r).by]
        /\ Claimed(r).by = reply[Exchange(r)].by =>
             [e \in Exchanges |-> reply'[e].by] = [e \in Exchanges |-> reply[e].by]
    BY <1>0, <2>1, MapReply
  <2> QED
    BY <1>0, <2>1, <2>2, <2>3, <2>4, <2>5 DEF Contract!Begin
<1>2. ASSUME NEW r \in Requests, CommitReply(r)
      PROVE  Contract!Settle(Exchange(r), "completed")
  <2>1. reply[Exchange(r)].by = r /\ reply[Exchange(r)].status \in InProgress
    BY <1>2 DEF CommitReply, Goto, OwnershipInv, AttemptInv, Attempting, Finalizing
  <2>2. /\ reply' = [reply EXCEPT ![Exchange(r)] = Settled(r, "completed")]
        /\ receipt' = receipt
    BY <1>2 DEF CommitReply
  <2>3. /\ Settled(r, "completed").by = reply[Exchange(r)].by
        /\ PhaseOf(Settled(r, "completed").status) = "completed"
    BY <2>1 DEF Settled, PhaseOf, InProgress
  <2>4. \/ PhaseOf(reply[Exchange(r)].status) = "working"
        \/ CommitInDoubt /\ PhaseOf(reply[Exchange(r)].status) = "completed" /\ "completed" = "failed"
    BY <2>1 DEF PhaseOf, InProgress
  <2>5. /\ [e \in Exchanges |-> PhaseOf(reply'[e].status)]
             = [[e \in Exchanges |-> PhaseOf(reply[e].status)]
                   EXCEPT ![Exchange(r)] = PhaseOf(Settled(r, "completed").status)]
        /\ [e \in Exchanges |-> reply'[e].by]
             = [[e \in Exchanges |-> reply[e].by] EXCEPT ![Exchange(r)] = Settled(r, "completed").by]
        /\ Settled(r, "completed").by = reply[Exchange(r)].by =>
             [e \in Exchanges |-> reply'[e].by] = [e \in Exchanges |-> reply[e].by]
    BY <1>0, <2>2, MapReply
  <2> QED
    BY <1>0, <2>2, <2>3, <2>4, <2>5 DEF Contract!Settle
<1>3. ASSUME NEW r \in Requests, RecordFailure(r)
      PROVE  Contract!Settle(Exchange(r), "failed")
  <2>1. /\ reply[Exchange(r)].by = r
        /\ \/ reply[Exchange(r)].status \in InProgress
           \/ CommitInDoubt /\ reply[Exchange(r)].status = "completed"
    BY <1>3 DEF RecordFailure, Goto, OwnershipInv, AttemptInv, Attempting, Finalizing
  <2>2. /\ reply' = [reply EXCEPT ![Exchange(r)] = Settled(r, "failed")]
        /\ receipt' = receipt
    BY <1>3 DEF RecordFailure
  <2>3. /\ Settled(r, "failed").by = reply[Exchange(r)].by
        /\ PhaseOf(Settled(r, "failed").status) = "failed"
    BY <2>1 DEF Settled, PhaseOf, InProgress
  <2>4. \/ PhaseOf(reply[Exchange(r)].status) = "working"
        \/ CommitInDoubt /\ PhaseOf(reply[Exchange(r)].status) = "completed" /\ "failed" = "failed"
    BY <2>1 DEF PhaseOf, InProgress
  <2>5. /\ [e \in Exchanges |-> PhaseOf(reply'[e].status)]
             = [[e \in Exchanges |-> PhaseOf(reply[e].status)]
                   EXCEPT ![Exchange(r)] = PhaseOf(Settled(r, "failed").status)]
        /\ [e \in Exchanges |-> reply'[e].by]
             = [[e \in Exchanges |-> reply[e].by] EXCEPT ![Exchange(r)] = Settled(r, "failed").by]
        /\ Settled(r, "failed").by = reply[Exchange(r)].by =>
             [e \in Exchanges |-> reply'[e].by] = [e \in Exchanges |-> reply[e].by]
    BY <1>0, <2>2, MapReply
  <2> QED
    BY <1>0, <2>2, <2>3, <2>4, <2>5 DEF Contract!Settle
<1>4. ASSUME NEW r \in Requests, ReplayCompleted(r) \/ Acknowledge(r)
      PROVE  Contract!Answer(Exchange(r), r)
  <2>1. receipt[r].by = NoRequest
    BY <1>4 DEF ReplayCompleted, Acknowledge, Goto, OwnershipInv, UnansweredInv, NoReply
  <2>2. /\ reply[Exchange(r)].status = "completed"
        /\ receipt' = [receipt EXCEPT ![r] = reply[Exchange(r)]]
        /\ reply' = reply
    <3>1. CASE ReplayCompleted(r)
      BY <3>1 DEF ReplayCompleted
    <3>2. CASE Acknowledge(r)
      <4>1. reply[Exchange(r)] = Settled(r, "completed")
        BY <3>2 DEF Acknowledge, Goto, OwnershipInv, AttemptInv, Attempting, Finalizing
      <4>2. Settled(r, "completed").status = "completed"
        BY DEF Settled
      <4> QED
        BY <3>2, <4>1, <4>2 DEF Acknowledge
    <3> QED
      BY <1>4, <3>1, <3>2
  <2>3. PhaseOf(reply[Exchange(r)].status) = "completed"
    BY <2>2 DEF PhaseOf, InProgress
  <2> QED
    BY <1>0, <2>1, <2>2, <2>3, MapReceipt DEF Contract!Answer
<1>5. CASE UNCHANGED <<reply, receipt>>
  BY <1>5
<1>6. CASE reply' # reply
  <2>1. PICK r \in Requests : CommitPrepare(r) \/ CommitReply(r) \/ RecordFailure(r)
    BY <1>6, ReplyStep
  <2> QED
    BY <2>1, <1>0, <1>1, <1>2, <1>3 DEF Contract!Next
<1>7. CASE receipt' # receipt
  <2>1. PICK r \in Requests : receipt'[r] # receipt[r]
    BY <1>7, TypeStep DEF TypeOK
  <2>2. ReplayCompleted(r) \/ Acknowledge(r)
    BY <2>1, ReceiptStep
  <2> QED
    BY <2>2, <1>0, <1>4 DEF Contract!Next
<1> QED
  BY <1>5, <1>6, <1>7

\* The service implements the exchange contract.
THEOREM Implements == Spec => ImplementsContract
<1>1. Init => Contract!Init
  BY DEF Init, NoReply, Contract!Init, PhaseOf, InProgress
<1>2. TypeOK /\ OwnershipInv /\ [Next]_vars => [Contract!Next]_(Contract!contractVars)
  BY ContractStep
<1> QED
  BY <1>1, <1>2, TypeCorrect, Ownership, PTL DEF Spec, ImplementsContract, Contract!Spec
-----------------------------------------------------------------------------
\* When providers fail and nothing else does, every reply that is marked as
\* streaming has the attempt that will settle it: after deadlocks, provider
\* errors and retries no exchange is refused as in progress for ever.
THEOREM Streams == Faults \subseteq {"provider"} => (Spec => []NoStrandedStream)
<1> SUFFICES ASSUME Faults \subseteq {"provider"} PROVE Spec => []NoStrandedStream
  OBVIOUS
<1>1. Init => StreamInv
  BY DEF Init, StreamInv, NoReply
<1>2. TypeOK /\ OwnershipInv /\ StreamInv /\ [Next]_vars => StreamInv'
  <2> SUFFICES ASSUME TypeOK, OwnershipInv, StreamInv, [Next]_vars,
                      NEW e \in Exchanges, reply'[e].status = "streaming"
               PROVE  \E r \in Requests :
                         /\ reply'[e].by = r /\ Exchange(r)' = e
                         /\ req'[r].stream /\ Attempting(r)'
    BY DEF StreamInv
  <2>1. req' = req
    BY NextKeepsRequests
  <2>2. CASE reply'[e] # reply[e]
    <3>1. PICK r \in Requests : CommitPrepare(r) /\ Exchange(r) = e
      BY <2>2, ReplyStep DEF CommitPrepare, CommitReply, RecordFailure, Settled, TypeOK
    <3>2. reply'[e] = Claimed(r)
      BY <3>1 DEF CommitPrepare, TypeOK
    <3>3. req[r].stream /\ reply'[e].by = r
      BY <3>2 DEF Claimed
    <3>4. Attempting(r)'
      BY <3>1, <3>3 DEF CommitPrepare, TypeOK, Attempting, Generating
    <3> QED
      BY <2>1, <3>1, <3>3, <3>4 DEF Exchange
  <2>3. CASE reply'[e] = reply[e]
    <3>1. PICK r \in Requests :
            reply[e].by = r /\ Exchange(r) = e /\ req[r].stream /\ Attempting(r)
      BY <2>3 DEF StreamInv
    <3>2. pc[r] # "committed"
      <4>1. Settled(r, "completed").status # "streaming"
        BY DEF Settled
      <4> QED
        BY <2>3, <3>1, <4>1 DEF OwnershipInv, AttemptInv
    <3>3. Attempting(r)'
      <4> SUFFICES ASSUME pc'[r] # pc[r] PROVE pc'[r] \in Generating \union Finalizing
        BY <3>1 DEF Attempting
      <4>1. ASSUME NEW s \in Requests, Arrive(s) \/ Serve(s) \/ YieldHeartbeat(s)
            PROVE  pc'[r] \in Generating \union Finalizing
        <5>1. ~RecordFailure(s) \/ s # r
          BY <2>3, <3>1 DEF RecordFailure, Settled, TypeOK
        <5>2. ~Acknowledge(s) \/ s # r
          BY <3>2 DEF Acknowledge, Goto
        <5>3. s = r
          BY <4>1 DEF Serve, Arrive, LockConversation, Lookup, ReplayCompleted,
             RefuseInProgress, ReuseFailed, TakeReply, CommitPrepare, ResolveProvider,
             Resume, YieldDelta, YieldHeartbeat, ProviderAnswers, LockMessage,
             TouchConversation, CommitReply, Acknowledge, RecordFailure, Goto, TypeOK
        <5> QED
          BY <3>1, <4>1, <5>1, <5>2, <5>3
          DEF Serve, Arrive, LockConversation, Lookup, ReplayCompleted,
             RefuseInProgress, ReuseFailed, TakeReply, CommitPrepare, ResolveProvider,
             Resume, YieldDelta, YieldHeartbeat, ProviderAnswers, LockMessage,
             TouchConversation, CommitReply, Goto, TypeOK,
             Attempting, Preparing, Generating, Finalizing
      <4>2. ASSUME NEW s \in Requests, Disturb(s)
            PROVE  pc'[r] \in Generating \union Finalizing
        BY <3>1, <4>2 DEF Disturb, PrepareFails, ProviderFails, Abandon, FinalizeBreaks,
           CancelGeneration, RecordFailureLost, Goto, TypeOK, Finalizing
      <4>3. ASSUME NEW s \in Requests, NEW t \in Requests, DeadlockAbort(s, t)
            PROVE  pc'[r] \in Generating \union Finalizing
        BY <3>1, <4>3 DEF DeadlockAbort, Interrupted, TypeOK, Attempting, Generating,
           Finalizing
      <4> QED
        BY <4>1, <4>2, <4>3 DEF Next, Archive, Crash, vars
    <3> QED
      BY <2>1, <2>3, <3>1, <3>3 DEF Exchange
  <2> QED
    BY <2>2, <2>3
<1>3. StreamInv => NoStrandedStream
  BY DEF StreamInv, NoStrandedStream
<1> QED
  BY <1>1, <1>2, <1>3, TypeCorrect, Ownership, PTL DEF Spec
=============================================================================
