-------------------------------- MODULE Chat --------------------------------
(***************************************************************************)
(* The chat application service of one conversation                        *)
(* (backend/app/domains/chat/service.py).                                  *)
(*                                                                         *)
(* A request is one HTTP call of POST /messages (send_message) or of       *)
(* POST /messages/stream (start_stream and the generator _stream_events).  *)
(* An exchange is one client_message_id: a user message and the assistant  *)
(* reply whose parent it is.  A client retries by sending another request  *)
(* for the same exchange.  Requests interleave at every await; what they   *)
(* share is the database: the conversation row, the message rows, and the  *)
(* row locks their SELECT ... FOR UPDATE statements take and hold until    *)
(* commit or rollback.                                                     *)
(***************************************************************************)
EXTENDS Naturals

CONSTANTS
    Requests,    \* HTTP requests, each handled once
    Exchanges,   \* client message ids used in the conversation
    NoRequest,   \* "nobody"
    MaxChunks,   \* bound: content chunks a provider produces in one attempt
    Faults       \* the faults the environment may inject, see FaultKinds

(***************************************************************************)
(* provider    the provider call raises, before or between two chunks      *)
(* resolve     the provider of the conversation cannot be built, which     *)
(*             LLMChatService.stream reports when it is called             *)
(* cancel      the task is cancelled while it awaits (disconnect, shutdown)*)
(* disconnect  the response is abandoned while the generator is suspended  *)
(*             at a yield: it is closed, nothing is thrown that it catches *)
(* database    a statement or a commit fails; the commit may have happened *)
(* crash       the process dies with every request it handles              *)
(***************************************************************************)
FaultKinds == {"provider", "resolve", "cancel", "disconnect", "database", "crash"}

ASSUME ChatAssumption ==
    /\ NoRequest \notin Requests
    /\ MaxChunks \in Nat
    /\ Faults \subseteq FaultKinds

VARIABLES
    req,       \* what each request asks for: its exchange, and stream or not
    pc,        \* where each request's coroutine is
    parts,     \* the chunks a request has accumulated (content_parts)
    cause,     \* why a request is recording a failure: "error" or "cancel"
    archived,  \* conversations.archived_at is set
    convLock,  \* the request whose transaction locks the conversation row
    msgLock,   \* the request whose transaction locks each assistant reply
    reply,     \* the committed assistant reply of each exchange
    receipt    \* the completed reply each request answered with

vars == <<req, pc, parts, cause, archived, convLock, msgLock, reply, receipt>>

InProgress == {"pending", "streaming"}
Statuses == {"absent", "completed", "failed"} \union InProgress

\* A row: its status, and whose output, how many chunks of it, its content is.
Replies == [status: Statuses, by: Requests \union {NoRequest}, parts: 0..MaxChunks]
NoReply == [status |-> "absent", by |-> NoRequest, parts |-> 0]

\* Control points of a request, in the order of the code.
Preparing  == {"lockConversation", "lookup", "lockReply", "insert", "reset"}
Generating == {"resolve", "created", "generating", "suspended"}
Finalizing == {"lockMessage", "touchConversation", "commit", "committed", "failing"}
Locations  == {"idle", "done"} \union Preparing \union Generating \union Finalizing

Init ==
    /\ req \in [Requests -> [exchange: Exchanges, stream: BOOLEAN]]
    /\ pc = [r \in Requests |-> "idle"]
    /\ parts = [r \in Requests |-> 0]
    /\ cause = [r \in Requests |-> "error"]
    /\ archived = FALSE
    /\ convLock = NoRequest
    /\ msgLock = [e \in Exchanges |-> NoRequest]
    /\ reply = [e \in Exchanges |-> NoReply]
    /\ receipt = [r \in Requests |-> NoReply]

Exchange(r) == req[r].exchange
Goto(r, from, to) == pc[r] = from /\ pc' = [pc EXCEPT ![r] = to]

\* The end of r's transaction: every row lock it holds is released.
ReleaseLocks(r) ==
    /\ convLock' = IF convLock = r THEN NoRequest ELSE convLock
    /\ msgLock' = [e \in Exchanges |-> IF msgLock[e] = r THEN NoRequest ELSE msgLock[e]]

-----------------------------------------------------------------------------
(* _prepare_exchange: one transaction that claims the exchange.            *)

\* A call arrives; one whose content is too long is refused before any query.
Arrive(r) ==
    /\ \/ Goto(r, "idle", "lockConversation")
       \/ Goto(r, "idle", "done")
    /\ UNCHANGED <<req, parts, cause, archived, convLock, msgLock, reply, receipt>>

\* MUTANT: get_owned without for_update.
ReadConversation(r) ==
    /\ \/ archived /\ Goto(r, "lockConversation", "done")
       \/ ~archived /\ Goto(r, "lockConversation", "lookup")
    /\ UNCHANGED <<req, parts, cause, archived, convLock, msgLock, reply, receipt>>

\* get_owned(for_update=True): an archived conversation is not found.
LockConversation(r) ==
    /\ convLock = NoRequest
    /\ \/ /\ archived
          /\ Goto(r, "lockConversation", "done")
          /\ UNCHANGED convLock
       \/ /\ ~archived
          /\ Goto(r, "lockConversation", "lookup")
          /\ convLock' = r
    /\ UNCHANGED <<req, parts, cause, archived, msgLock, reply, receipt>>

\* get_by_client_message_id: a new id gets both rows, a known one is examined.
Lookup(r) ==
    /\ \/ /\ reply[Exchange(r)].status = "absent"
          /\ Goto(r, "lookup", "insert")
       \/ /\ reply[Exchange(r)].status # "absent"
          /\ Goto(r, "lookup", "lockReply")
    /\ UNCHANGED <<req, parts, cause, archived, convLock, msgLock, reply, receipt>>

\* MUTANT: the replay leaves its transaction open.
ReplayWithoutRollback(r) ==
    /\ msgLock[Exchange(r)] = NoRequest
    /\ reply[Exchange(r)].status = "completed"
    /\ Goto(r, "lockReply", "done")
    /\ receipt' = [receipt EXCEPT ![r] = reply[Exchange(r)]]
    /\ UNCHANGED <<req, parts, cause, archived, convLock, msgLock, reply>>

\* get_assistant_reply(for_update=True) returned a completed reply: replay it.
ReplayCompleted(r) ==
    /\ msgLock[Exchange(r)] = NoRequest
    /\ reply[Exchange(r)].status = "completed"
    /\ Goto(r, "lockReply", "done")
    /\ ReleaseLocks(r)
    /\ receipt' = [receipt EXCEPT ![r] = reply[Exchange(r)]]
    /\ UNCHANGED <<req, parts, cause, archived, reply>>

\* ... one that is being generated: CHAT_REQUEST_IN_PROGRESS.
RefuseInProgress(r) ==
    /\ msgLock[Exchange(r)] = NoRequest
    /\ reply[Exchange(r)].status \in InProgress
    /\ Goto(r, "lockReply", "done")
    /\ ReleaseLocks(r)
    /\ UNCHANGED <<req, parts, cause, archived, reply, receipt>>

\* ... one in these states: keep it locked and reset it.
TakeReply(r, statuses) ==
    /\ msgLock[Exchange(r)] = NoRequest
    /\ reply[Exchange(r)].status \in statuses
    /\ Goto(r, "lockReply", "reset")
    /\ msgLock' = [msgLock EXCEPT ![Exchange(r)] = r]
    /\ UNCHANGED <<req, parts, cause, archived, convLock, reply, receipt>>

\* MUTANTS: a test for in-progress, or for completed replies that is missing.
ReuseUnlessCompleted(r) == TakeReply(r, {"failed"} \union InProgress)
ReuseUnlessInProgress(r) == TakeReply(r, {"failed", "completed"})

ReuseFailed(r) == TakeReply(r, {"failed"})

\* The row a claim writes: empty, pending or streaming by the kind of call.
Claimed(r) ==
    [status |-> IF req[r].stream THEN "streaming" ELSE "pending",
     by |-> r, parts |-> 0]

\* Context assembled, the claim is committed.  Only a commit whose outcome
\* the handler does not learn leaves the claim behind without its claimant.
CommitPrepare(r) ==
    /\ pc[r] \in {"insert", "reset"}
    /\ \/ pc' = [pc EXCEPT ![r] = IF req[r].stream THEN "resolve" ELSE "generating"]
       \/ "database" \in Faults /\ pc' = [pc EXCEPT ![r] = "done"]
    /\ reply' = [reply EXCEPT ![Exchange(r)] = Claimed(r)]
    /\ ReleaseLocks(r)
    /\ UNCHANGED <<req, parts, cause, archived, receipt>>

\* A query or the context assembly raises: the transaction is rolled back.
PrepareFails(r) ==
    /\ "database" \in Faults
    /\ pc[r] \in Preparing
    /\ pc' = [pc EXCEPT ![r] = "done"]
    /\ ReleaseLocks(r)
    /\ UNCHANGED <<req, parts, cause, archived, reply, receipt>>

-----------------------------------------------------------------------------
(* start_stream and _stream_events, or the provider call of send_message.  *)

\* start_stream asks the service for the chunks outside any try.
ResolveProvider(r) ==
    /\ \/ Goto(r, "resolve", "created")
       \/ "resolve" \in Faults /\ Goto(r, "resolve", "done")
    /\ UNCHANGED <<req, parts, cause, archived, convLock, msgLock, reply, receipt>>

\* The response took what was yielded; the generator awaits the next chunk.
Resume(r) ==
    /\ Goto(r, "created", "generating") \/ Goto(r, "suspended", "generating")
    /\ UNCHANGED <<req, parts, cause, archived, convLock, msgLock, reply, receipt>>

\* A chunk is accumulated and yielded as a delta.
YieldDelta(r) ==
    /\ req[r].stream
    /\ parts[r] < MaxChunks
    /\ Goto(r, "generating", "suspended")
    /\ parts' = [parts EXCEPT ![r] = @ + 1]
    /\ UNCHANGED <<req, cause, archived, convLock, msgLock, reply, receipt>>

\* The provider is slow: a keep-alive comment is yielded.
YieldHeartbeat(r) ==
    /\ req[r].stream
    /\ Goto(r, "generating", "suspended")
    /\ UNCHANGED <<req, parts, cause, archived, convLock, msgLock, reply, receipt>>

\* The stream ends, or generate returns the whole content.
ProviderAnswers(r) ==
    /\ Goto(r, "generating", "lockMessage")
    /\ IF req[r].stream
       THEN UNCHANGED parts
       ELSE \E n \in 0..MaxChunks : parts' = [parts EXCEPT ![r] = n]
    /\ UNCHANGED <<req, cause, archived, convLock, msgLock, reply, receipt>>

\* MUTANT: the except clause for provider errors is missing.
ProviderFailsUncaught(r) ==
    /\ "provider" \in Faults
    /\ Goto(r, "generating", "done")
    /\ UNCHANGED <<req, parts, cause, archived, convLock, msgLock, reply, receipt>>

ProviderFails(r) ==
    /\ "provider" \in Faults
    /\ Goto(r, "generating", "failing")
    /\ cause' = [cause EXCEPT ![r] = "error"]
    /\ UNCHANGED <<req, parts, archived, convLock, msgLock, reply, receipt>>

\* GeneratorExit at a yield: neither except clause matches, no finalizer runs.
Abandon(r) ==
    /\ "disconnect" \in Faults
    /\ Goto(r, "created", "done") \/ Goto(r, "suspended", "done")
    /\ UNCHANGED <<req, parts, cause, archived, convLock, msgLock, reply, receipt>>

-----------------------------------------------------------------------------
(* _finalize_success and _finalize_failure.                                *)

LockMessage(r) ==
    /\ msgLock[Exchange(r)] = NoRequest
    /\ Goto(r, "lockMessage", "touchConversation")
    /\ msgLock' = [msgLock EXCEPT ![Exchange(r)] = r]
    /\ UNCHANGED <<req, parts, cause, archived, convLock, reply, receipt>>

\* The conversation row is locked second, to move last_message_at.
TouchConversation(r) ==
    /\ convLock = NoRequest
    /\ Goto(r, "touchConversation", "commit")
    /\ convLock' = r
    /\ UNCHANGED <<req, parts, cause, archived, msgLock, reply, receipt>>

\* MUTANT: the chunk that is awaited is counted too.
SettledOneMore(r, status) == [status |-> status, by |-> r, parts |-> parts[r] + 1]

\* The row a finalizer writes.
Settled(r, status) == [status |-> status, by |-> r, parts |-> parts[r]]

\* The database commits; the coroutine has not yet been told.
CommitReply(r) ==
    /\ Goto(r, "commit", "committed")
    /\ reply' = [reply EXCEPT ![Exchange(r)] = Settled(r, "completed")]
    /\ ReleaseLocks(r)
    /\ UNCHANGED <<req, parts, cause, archived, receipt>>

\* ... and now it has: the reply goes to the client as message.completed.
Acknowledge(r) ==
    /\ Goto(r, "committed", "done")
    /\ receipt' = [receipt EXCEPT ![r] = Settled(r, "completed")]
    /\ UNCHANGED <<req, parts, cause, archived, convLock, msgLock, reply>>

\* An exception inside _finalize_success rolls its transaction back, unless
\* the commit was done.  The stream records a failure; send_message, which
\* finalizes after its try, only lets the exception out.
Interrupted(r, why) ==
    /\ pc' = [pc EXCEPT ![r] = IF req[r].stream THEN "failing" ELSE "done"]
    /\ cause' = [cause EXCEPT ![r] = why]
    /\ ReleaseLocks(r)
    /\ UNCHANGED <<req, parts, archived, reply, receipt>>

FinalizeBreaks(r) ==
    /\ pc[r] \in Finalizing \ {"failing"}
    /\ \/ "database" \in Faults /\ Interrupted(r, "error")
       \/ "cancel" \in Faults /\ Interrupted(r, "cancel")

\* CancelledError while the provider is awaited: both kinds record a failure.
CancelGeneration(r) ==
    /\ "cancel" \in Faults
    /\ Goto(r, "generating", "failing")
    /\ cause' = [cause EXCEPT ![r] = "cancel"]
    /\ UNCHANGED <<req, parts, archived, convLock, msgLock, reply, receipt>>

\* _finalize_failure: lock the message, write FAILED and the partial content.
RecordFailure(r) ==
    /\ msgLock[Exchange(r)] = NoRequest
    /\ Goto(r, "failing", "done")
    /\ reply' = [reply EXCEPT ![Exchange(r)] = Settled(r, "failed")]
    /\ UNCHANGED <<req, parts, cause, archived, convLock, msgLock, receipt>>

\* It fails itself, or is cancelled: only the handler of CancelledError
\* shields it.
RecordFailureLost(r) ==
    /\ \/ "database" \in Faults
       \/ "cancel" \in Faults /\ cause[r] = "error"
    /\ Goto(r, "failing", "done")
    /\ UNCHANGED <<req, parts, cause, archived, convLock, msgLock, reply, receipt>>

-----------------------------------------------------------------------------
(* The rest of the system.                                                 *)

\* PostgreSQL breaks a cycle of row locks by failing either transaction: the
\* claim holds the conversation and waits for the reply, a finalizer holds
\* the reply and waits for the conversation.
DeadlockAbort(r, s) ==
    /\ pc[r] = "lockReply" /\ convLock = r
    /\ pc[s] = "touchConversation" /\ msgLock[Exchange(r)] = s
    /\ \/ /\ pc' = [pc EXCEPT ![r] = "done"]
          /\ ReleaseLocks(r)
          /\ UNCHANGED <<req, parts, cause, archived, reply, receipt>>
       \/ Interrupted(s, "error")

\* MUTANT: archive does not wait for the row lock.
ArchiveUnlocked ==
    /\ ~archived
    /\ archived' = TRUE
    /\ UNCHANGED <<req, pc, parts, cause, convLock, msgLock, reply, receipt>>

\* ConversationService.archive takes the same row lock for its update.
Archive ==
    /\ convLock = NoRequest
    /\ ~archived
    /\ archived' = TRUE
    /\ UNCHANGED <<req, pc, parts, cause, convLock, msgLock, reply, receipt>>

\* The process dies: open transactions are rolled back, nobody finalizes.
Crash ==
    /\ "crash" \in Faults
    /\ \E r \in Requests : pc[r] \notin {"idle", "done"}
    /\ pc' = [r \in Requests |-> IF pc[r] = "idle" THEN "idle" ELSE "done"]
    /\ convLock' = NoRequest
    /\ msgLock' = [e \in Exchanges |-> NoRequest]
    /\ UNCHANGED <<req, parts, cause, archived, reply, receipt>>

-----------------------------------------------------------------------------
\* What the service itself does for a request once it has arrived.
Serve(r) ==
    \/ LockConversation(r) \/ Lookup(r)
    \/ ReplayCompleted(r) \/ RefuseInProgress(r) \/ ReuseFailed(r)
    \/ CommitPrepare(r) \/ ResolveProvider(r) \/ Resume(r)
    \/ YieldDelta(r) \/ ProviderAnswers(r)
    \/ LockMessage(r) \/ TouchConversation(r) \/ CommitReply(r) \/ Acknowledge(r)
    \/ RecordFailure(r)

Disturb(r) ==
    \/ PrepareFails(r) \/ ProviderFails(r) \/ Abandon(r)
    \/ FinalizeBreaks(r) \/ CancelGeneration(r) \/ RecordFailureLost(r)

Next ==
    \/ \E r \in Requests : Arrive(r) \/ Serve(r) \/ YieldHeartbeat(r) \/ Disturb(r)
    \/ \E r, s \in Requests : DeadlockAbort(r, s)
    \/ Archive
    \/ Crash

Spec == Init /\ [][Next]_vars

\* Every started coroutine is scheduled, the database detects its deadlocks,
\* and a provider read ends: its HTTP timeout bounds it.  Clients need not
\* send, archive, or disconnect.  A client that stays connected reads.
\* Heartbeats may interrupt the wait for it, hence strong fairness.
Fairness ==
    /\ \A r \in Requests : WF_vars(Serve(r)) /\ SF_vars(ProviderAnswers(r))
    /\ \A r, s \in Requests : WF_vars(DeadlockAbort(r, s))

FairSpec == Spec /\ Fairness

-----------------------------------------------------------------------------
(* Properties.                                                             *)

\* r runs an attempt for its exchange: between the commit of its claim and
\* the end of its finalizers.
Attempting(r) == pc[r] \in Generating \union Finalizing

\* Every variable keeps the type the code's columns and fields give it.
TypeOK ==
    /\ req \in [Requests -> [exchange: Exchanges, stream: BOOLEAN]]
    /\ pc \in [Requests -> Locations]
    /\ parts \in [Requests -> 0..MaxChunks]
    /\ cause \in [Requests -> {"error", "cancel"}]
    /\ archived \in BOOLEAN
    /\ convLock \in Requests \union {NoRequest}
    /\ msgLock \in [Exchanges -> Requests \union {NoRequest}]
    /\ reply \in [Exchanges -> Replies]
    /\ receipt \in [Requests -> Replies]

\* However requests, retries, faults and finalizers interleave, one exchange
\* has at most one attempt that calls the provider or finalizes: one client
\* message is never generated, and billed, twice at a time.
AtMostOneGeneration ==
    \A r, s \in Requests :
        Attempting(r) /\ Attempting(s) /\ Exchange(r) = Exchange(s) => r = s

\* The reply of an exchange passes to another attempt only when it is new or
\* failed: a completed reply is never regenerated, one in progress never
\* taken over, and no late finalizer overwrites the row of a later attempt.
TakeoverOnlyFromFailed ==
    [][\A e \in Exchanges :
          reply'[e].by # reply[e].by => reply[e].status \in {"absent", "failed"}]_vars

\* Once a conversation is archived no further attempt is started in it; what
\* was started before still settles.
ArchivedStaysQuiet ==
    [][\A r \in Requests : archived /\ ~Attempting(r) => ~Attempting(r)']_vars

\* An answer a client was given stays the stored one: every request that was
\* answered for an exchange, at any time, was given the same reply, and that
\* reply is the completed row.
ReceiptsStand ==
    \A r \in Requests :
        receipt[r].status = "completed" => receipt[r] = reply[Exchange(r)]

\* A reply marked streaming has an attempt that will settle it: no retry is
\* refused with CHAT_REQUEST_IN_PROGRESS because of an attempt that is gone.
NoStrandedStream ==
    \A e \in Exchanges : reply[e].status = "streaming" => Attempting(reply[e].by)

\* The same of a reply marked pending, the claim of send_message.
NoStrandedPending ==
    \A e \in Exchanges : reply[e].status = "pending" => Attempting(reply[e].by)

\* An exchange for which a request was answered is never generated again:
\* later requests replay it.
NoRegeneration ==
    [][\A r \in Requests :
          receipt[r].status = "completed" => reply'[Exchange(r)].by = reply[Exchange(r)].by]_vars

\* Every request that arrives is answered: row locks are released, lock
\* cycles broken, and no fault leaves another request waiting for ever.
EveryRequestEnds ==
    \A r \in Requests : pc[r] # "idle" ~> pc[r] = "done"

\* A streaming reply settles: it becomes completed or failed, and so can be
\* replayed or retried.
EveryStreamSettles ==
    \A e \in Exchanges :
        reply[e].status = "streaming" ~> reply[e].status \in {"completed", "failed"}

-----------------------------------------------------------------------------
(* The inductive invariant behind the theorems of ChatProofs.              *)

\* The commit of a finalizer may be done although its handler saw it fail.
CommitInDoubt == Faults \intersect {"cancel", "database"} # {}

\* A request that examines or claims its exchange holds the conversation
\* row, which is not archived, and what it saw of the reply is still so.
ClaimantInv == \A r \in Requests :
    /\ pc[r] \in Preparing \ {"lockConversation"} => convLock = r /\ ~archived
    /\ pc[r] = "insert" => reply[Exchange(r)].status = "absent"
    /\ pc[r] = "reset" => reply[Exchange(r)].status = "failed"

\* An attempt finds its own claim in the row: in progress until its own
\* finalizer commits, completed only if it was the one to complete it.
AttemptInv == \A r \in Requests : Attempting(r) =>
    /\ reply[Exchange(r)].by = r
    /\ pc[r] \notin {"committed", "failing"} => reply[Exchange(r)].status \in InProgress
    /\ pc[r] = "committed" => reply[Exchange(r)] = Settled(r, "completed")
    /\ pc[r] = "failing" =>
          \/ reply[Exchange(r)].status \in InProgress
          \/ CommitInDoubt /\ reply[Exchange(r)].status = "completed"

\* Nobody is answered before its request ends.
UnansweredInv == \A r \in Requests : pc[r] # "done" => receipt[r] = NoReply

\* At every moment each attempt is the last claimant of the row it is going to
\* finalize, which is in progress or what its own finalizer made of it, and each
\* claim still sees the row it decided on; nobody is answered before its end.
OwnershipInv == ClaimantInv /\ AttemptInv /\ UnansweredInv

\* A streaming reply was claimed by a streaming request for that exchange, and
\* the request's attempt is still there.  Inductive together with the above
\* when every end of an attempt is one the service handles.
StreamInv == \A e \in Exchanges : reply[e].status = "streaming" =>
    \E r \in Requests :
        reply[e].by = r /\ Exchange(r) = e /\ req[r].stream /\ Attempting(r)
=============================================================================
