# TLA+ models of Astra

Astra is a chat application: a FastAPI backend over PostgreSQL
(`src/backend/app`) and a Flutter client (`src/frontend/lib`).  This directory
holds TLA+ modules translated from that code, TLC configurations that
model-check them, and TLAPS proofs of what matters most.

    tlc -config Chat_faults.cfg MCChat        # any run of the tables below
    tlapm ChatProofs.tla                      # any proof module

## 1. The system

### Backend

Every service call runs one or more *units of work*
(`core/unit_of_work.py`): an SQLAlchemy session over PostgreSQL, READ
COMMITTED, rolled back unless `commit` was called.  Nothing is shared between
two calls but the database, so all coordination is row locks
(`SELECT ... FOR UPDATE`) and unique indexes.  Everything is asyncio: a call
may be interleaved with others, or cancelled, at every `await`.

| component | state | operations | hard behaviour |
|---|---|---|---|
| Chat service (`domains/chat/service.py`, `messages`) | user message and assistant reply of each `client_message_id`, reply status pending/streaming/completed/failed | `send_message`, `start_stream` + the SSE generator, both finalizers | retries racing attempts, disconnects, cancelled commits, lock cycles, crashes between claim and finalizer |
| Conversations | row with `archived_at`, `last_message_at` | create, update, archive, cursor listing | archive racing a claim; paging over a list that moves |
| Auth (`domains/auth`) | `refresh_sessions`: revoked, replaced-by, family, expiry | register, login, refresh (rotation with reuse detection), logout, logout of all devices | two refreshes of one token; bulk UPDATEs racing rotations |
| Agent runtime (`agents/runtime.py`, `policy.py`, `tools/executor.py`) | `agent_runs`, `agent_steps`, loop counters | create run, model step, tool step, complete, set terminal status | timeout or cancellation at every await and during commits, budgets, allow-list |
| Schema (`alembic/versions`, `models`) | seven revisions, and the ORM classes that describe the same tables again | upgrade, downgrade; start-up upgrades to the head | rows of an older release under newer constraints, the way back after both releases wrote |
| Context assembler | none | reads history, memories, knowledge | opens a second unit of work inside the claim's transaction |
| Personas | rows per user, one the default | create, update, delete | two choices of the default, a deletion beside the conversations that refer to the persona: row locks in no fixed order |
| Characters, memories, knowledge | rows per user | create, update, archive, ingestion | what migrations make of them; chunk arithmetic |
| LLM, embeddings, RAG adapters | none | HTTP calls, full-text queries | may fail or hang |
| Legacy code (`workers`, `memories/compaction.py`, `retrieval.py`, `intelligence`, `relationships`, `prompts`, `chat/language_guard.py`) | -- | not wired into `api/v1/router.py` | -- |

Interactions: the chat service calls the conversation and message
repositories, the context assembler and, by the conversation's mode, either
`LLMChatService` or the agent chat adapter, which runs `AgentRuntime.run` and
splits its answer into chunks.  The agent runtime calls the provider and the
tool executor and keeps its own rows in transactions of its own.

### Frontend

| component | state | operations | hard behaviour |
|---|---|---|---|
| Token client (`auth_interceptor.dart`, `secure_token_store.dart`, `auth_controller.dart`) | stored token pair, the refresh in flight, who is signed in | add token, on 401 single-flight refresh and one retry, expire locally, logout | logout racing a refresh; the lost answer of a refresh |
| Chat client (`chat_controller.dart`, SSE data source) | message list, stream status, cursor | send, apply event, retry, load older | paging while deltas arrive, retries of what completed |
| SSE decoder (`sse_decoder.dart`) | pending text, event and data of the frame | add chunk | a line ending split over two chunks |
| Conversation list | items, cursor | load, load more | appending to a list read before an await |
| Pages, routing, generated code, remaining feature screens | -- | user interface | -- |

### What makes each component correct

* **Chat**: an exchange has one attempt at a time; a completed reply is only
  replayed; a failed one can be retried; no retry is blocked by an attempt that
  is gone; an archived conversation starts nothing.
* **Auth**: a family has one exchangeable token; a token is exchanged once;
  revocation revokes everything that was live, and is not undone.
* **Agent**: budgets, allow-list, one result per tool call, a trace that
  agrees with its run, a run that ends and is settled.
* **Token client**: at most one refresh in flight, no replaced token presented,
  a retry with a new token, no valid session lost.
* **Chat client**: a reply shown completed is the stored one, unless the server
  takes a commit back that it believes failed; the composer is
  held exactly while a stream is under way; a failed reply can be retried.
* **Personas**: the default is the one chosen last, no conversation refers to a
  persona that is gone, overlapping requests do not wait for ever.
* **Schema**: whatever upgrades and downgrades led to a revision, its tables are
  those of the revision, the classes fit the head, and rows keep their original
  values; what is in use stays so, and texts are carried as far as the columns go.
* **Pure code** (chunker, SSE decoder, paging, token budget): equal to a
  reference definition over all small inputs.

`PROJECT.json` lists every component with its status, and every hazard with
its line and the properties that cover it.

## 2. Plan

In order of importance; 1 to 9 are done.

1. **Chat** -- the exchange protocol, with `ExchangeContract` as the abstract
   specification and `ChatContract` as the refinement; proofs in `ChatProofs`.
2. **AuthSessions** -- rotation, reuse and bulk revocation; `AuthProofs`.
3. **AgentRuntime** -- the loop of one run under interruption; `AgentProofs`.
4. **TokenClient** -- the Flutter interceptor, login, logout and restoration,
   with an abstraction of AuthSessions as the server; `TokenProofs`.
5. **Migrations** -- the revisions (`Schema`, `Revisions`, `Bridge`), the ORM
   classes (`OrmModels`) and the life of a database under both releases.
6. **Personas** -- the default persona and the references to personas under
   row locks.
7. **ChatClient** -- the chat controller, with an abstraction of Chat as the
   server.
8. `ReferencesStand` and `LatestChoiceWins` of Personas for any number of
   requests (`PersonaProofs`), `CompletedIsStored` and `ShownFollowsStream` of
   ChatClient for any conversation and any number of sends (`ClientProofs`),
   a type invariant of every component on the way, `NoStrandedStream` of Chat
   for faults that cannot strand (`ChatProofs`).
9. What Migrations says of rows, of tables and of refusals, for any number of
   commands, writes and rows (`ScriptProofs`, `MigrationProofs`).
10. Not begun: **Data** (`SseDecoder`, `Chunker`, `Pagination` against reference
   definitions), **ContextPool** (connections held while a second is awaited),
   **ChatAgent** (Chat over AgentRuntime), **ChatHistory** (message order and
   context of a retry).

## 3. Modules and how they correspond to the code

`PROJECT.json` "map" gives the lines of each definition.

### Chat

One conversation.  A *request* is one HTTP call, an *exchange* one
`client_message_id`; a retry is another request for the same exchange.

| variable | code |
|---|---|
| `req` | exchange asked for, and `/messages` or `/messages/stream` |
| `pc` | where the coroutine is (one value per await that matters) |
| `parts` | `content_parts`, counted |
| `cause` | which except clause is recording a failure |
| `archived`, `convLock` | `conversations.archived_at` and its row lock |
| `reply`, `msgLock` | the committed assistant row of each exchange and its row lock |
| `receipt` | what each client was answered |

Actions follow `_prepare_exchange` (`LockConversation`, `Lookup`,
`ReplayCompleted`, `RefuseInProgress`, `ReuseFailed`, `CommitPrepare`),
`_stream_events` (`ResolveProvider`, `Resume`, `YieldDelta`,
`YieldHeartbeat`, `ProviderAnswers`, `ProviderFails`, `CancelGeneration`,
`Abandon`), `_finalize_success` (`LockMessage`, `TouchConversation`,
`CommitReply`, `Acknowledge`, `FinalizeBreaks`) and `_finalize_failure`
(`RecordFailure`, `RecordFailureLost`).  A commit is two steps, the database's
and the coroutine's learning of it, because a cancellation may fall between.
What a transaction writes becomes visible at its commit.  Contents are
abstracted to who produced them and how many chunks they have: that tells
apart every pair of contents the protocol must not confuse.

`ExchangeContract` says what clients are promised (ADR-009) without
transactions; `ChatContract` maps Chat to it.

### AuthSessions

The refresh sessions of one user; a *session* is a row and stands for the token
issued with it.  `refresh_tokens` is `LockForRotation`/`CommitRotation`,
`DetectReuse` or `RefuseRefresh`; `logout` is `Logout`; `logout_all` and
`revoke_family` are an UPDATE whose snapshot fixes the rows (`SweepAll`,
`SweepFamily`), which locks them one by one and tests each again (`SweepRow`),
and commits (`CommitSweep`): the behaviour of UPDATE under READ COMMITTED.
`Expire` lets any session expire at any time; `Abort` is an error, a
cancellation or being a deadlock victim.

### AgentRuntime

One run.  `pc` is the await the coroutine is at; `iteration`, `stepNumber`,
`calls` are the loop's counters; `run` and `trace` are the committed rows;
`unanswered` counts tool calls in the messages without a tool result.
`Expire` is `asyncio.timeout` and may fire at every await; `Disturb` is a
cancellation or a failing query; either may interrupt a commit that the
database performs all the same.  `SetTerminalStatus` is the one handler every
cause ends in.

### TokenClient

The Flutter client is one isolate; what interleaves are its asynchronous calls
at their awaits, and those are the control points of a request (`pc`):
`sent`, `refused` (a 401 arrived), `posting` / `answered` / `stored` (inside
`_refreshTokens`: before the answer, before and after the platform wrote the
pair), `waiting` (joined the refresh of another), `retrying`, `expiring`
(`_expireLocalSession` awaits the platform), and the caller's end of it.

| variable | code |
|---|---|
| `issued`, `row`, `reused`, `expired` | what the server issued and keeps: an abstraction of `AuthSessions`, one step per call |
| `mem`, `disk` | `SecureTokenStore._memoryCache` and the platform's storage |
| `session` | the state of `AuthController` |
| `flight`, `inHand` | `_refreshInFlight` and the pair it works on |
| `entering`, `leaving` | a login and a logout under way |

A token pair is a number, in the order of issue; access tokens have one
lifetime and so expire in that order (`ExpireAccess`), at any time.  `events`
is the set of mishaps a behaviour is exposed to; it is chosen at the start so
that one run asks several questions.

### Schema, Revisions, Bridge, OrmModels, Migrations

A database is a record of table definitions and of rows.  `Schema` says when
PostgreSQL accepts a statement, what it does to both, and what constraints
demand of rows.  `Revisions` lists the statements of the seven `upgrade()` and
`downgrade()` functions in their order; `Bridge` has the data statements of
revision 0005 as functions on rows and executes scripts; `OrmModels` writes down
what each mapped class declares.  All of the tables have their definitions; the
rows modelled are those of the five tables that the data statements of 0005 read
or write, with the columns these statements need (`Kept`).

| variable of `Migrations` | code |
|---|---|
| `rev`, `db` | `alembic_version` and the database |
| `refused` | the command that failed and was rolled back (`env.py` runs a command in one transaction) |
| `origin` | the scope and kind a memory was last given by an application (history) |

Between the commands the release that matches the revision writes.  At the
head that is the present application (`Remember`, `ArchiveMemory`,
`CreateCharacter`, ..., `DeletePersona`); at revision 0004 it is the release
of that time, known from the memory writer it left in
`memories/compaction.py` (`LegacyRemember`), from its tables, its documents
(`docs/sprint-05-roleplay-profiles.md`) and its superseded tests (external): it
writes characters and personas in versions, edits make a second one, and it
archives both.  No release is known for the other revisions.

Revision 0005 treats the texts of a profile in several ways, and each way has a
column in `Kept`, filled from `CharacterProfiles` and `PersonaProfiles`:

| text | upwards | downwards |
|---|---|---|
| `name`; `summary`/`description` of a character (for `personality`, `scenario`, the greeting and the prompt as well, and the `description` of a persona) | copied to the profile | copied to the current version |
| `tagline` of a character | the first 255 characters of the summary (`Left255`) | dropped |
| `speaking_style` of a character | not copied | stays in the version |
| `traits` of a persona (for `background` and `writing_style` as well) | a key of `attributes`, if there is one | back to the version, if the key is there |
| `instructions` of a persona | put together from the texts above (`Composed`) | dropped |
| `pronouns` of a persona | a key of `attributes` | not written back: the version keeps its own |

The keys of `attributes` and of the `metadata` of a memory are columns of their own,
NULL where the object lacks the key.  Of all texts "long" alone is longer than 255
characters.  Times are "then" and "past".

### Personas

Calls are transactions of several statements under READ COMMITTED.  `queue` is
the rows that the statement under way has still to lock, in an order nothing
fixes; `TakeRow` takes the next when no other transaction holds it in a
conflicting mode, and tests it again; what a call writes appears at `Commit`.
`DeadlockVictim` is PostgreSQL's detector, `LoseConnection` any other failure.
`OpenPersona`/`ClearOthers`/`UnsetDefault`/`DeletePersona` are
`PersonaService.update` and `delete`, `CreatePersona` is `create`;
`OpenRoom`, `CreateRoom`, `ValidateReferences` and `FlushReference` are
`ConversationService.update` and `create` with a persona.  A persona that a call
creates is named by the call.

### ChatClient

| variable | code |
|---|---|
| `kind`, `messages`, `cursor`, `loadingOlder`, `sending` | the `AsyncValue<ChatState>` |
| `build` | `build()` at its await, after a first load or `ref.invalidate` |
| `older` | `loadOlder` at its await, with the copy of the state it took before |
| `send` | each `_sendInternal`: its exchange, the events on its wire, the text received |
| `replies`, `made` | the server's rows, and the chunks its generators made: an abstraction of Chat |
| `doubted`, `withdrawn` | the replies whose completing commit is done and not known to the server, and the completed rows it has then written failed (history) |

The methods of the controller interleave at their awaits.  `Receive` is one
event of `await for` with `_applyEvent`; `SendEnds` is the end of the stream,
`_recordStreamFailure` and the `finally` block; `ConnectionCloses` lets any
suffix of the events be lost.  On the server `ServerSettle` is a finalizer that
learns the outcome of its commit; `ServerCommitsInDoubt` is the commit of
`_finalize_success` (line 511) that is done although the connection or the task
breaks, and `ServerWithdraws` the handler (430 to 446) that takes it for a failure and
writes the completed row failed, which `NoRegeneration` of Chat shows to
happen.  Between the two a page, or the replay to a retry, shows a completed reply
that the server takes back.  What `ref.invalidate` does (a new notifier, the
old value readable until the page arrives, the old methods dead) is Riverpod's,
and an assumption.  Message ids are numbers in the order of the timeline, a text is
the attempt and the number of chunks.

## 4. Runs

| run | question | bounds |
|---|---|---|
| `Chat_faults` | one attempt at a time, ownership of rows, takeover, archive, the contract, under every fault | 3 requests, 2 exchanges, 1 chunk |
| `Chat_streams` | answers stand; every request ends; every stream settles | 3 requests, 1 exchange, 2 chunks, provider errors |
| `AuthSessions` | one live token, linear chains, dead families stay dead, what a bulk revocation achieves | 5 calls, 3 rows, 2 families |
| `AgentRuntime` | budgets, allow-list, trace, results, outcome, ends and settles | 3 tools, 3 steps, 3 tool calls, batches of 2 |
| `TokenClient` | single flight, no reuse of a replaced token, fresh retries, no lost session, every request ends | 2 requests, 3 pairs, 4 sets of events |
| `Migrations` | the schema of each revision, its fit with the ORM, readable rows, original values, visibility, texts, and why a command may be refused | 4 commands between revisions 0, 4 and 7, 4 writes, 2 memories, 1 character, 1 persona |
| `Personas` | one default, no dangling reference, deadlocks broken | 2 personas, 1 conversation, 3 requests |
| `ChatClient` | completed replies are the stored ones, composer and text follow the stream | 2 stored replies, pages of 2 messages, 2 sends, 1 chunk, 1 reload, 1 commit in doubt |

Three requests are enough for Chat: two attempts that could collide and a
third that is answered, retries or takes over in between; a second exchange
shows that exchanges disturb each other only through the conversation lock.
Three rows make a chain with a middle; five calls leave two for
revocations and logouts after a full chain is built.  In AgentRuntime a batch
of two meets the budget of three both exactly and with an overrun, and three
steps give a loop with a first, middle and last iteration.  In TokenClient two
requests are refused together, or one late, after the refresh of the other;
three pairs leave a refresh after a refresh; the four sets of events are the
network alone, the network with everything that loses knowledge, logout of all
devices, and logout with revocation.  In Migrations four commands go to the
head, back, and up again with a write of a release at each stop; two memories
collide or not, by scope, kind, key and binding; of the two forms of each
kind of profile one has a text that is cut, traits and pronouns, the other lacks
them, so that an edit adds or takes away each, and four writes reach the second
version of a persona and an archived one.  In Personas two
requests form a cycle of locks and three a longer one; with two stored personas
and those the requests create, a create, a choice and a deletion can overlap in
every order.  In ChatClient the first page has the newer exchange alone,
so that there is an older page, with a failed reply on it; pages have an even
size, as the client's limit of 50, and therefore whole exchanges; two
sends give a stream beside the retry of an earlier reply; one commit in doubt
is taken back before or after a page, a replay or a retry has met it; the bound that a load
left over by a reload is not joined by a second one is in `LoadOlder`.
Symmetry is used only where nothing is chosen by identity and the run has no
liveness property: the conversations, calls and personas of Personas and the
sends of ChatClient are interchangeable, as are requests and rows elsewhere.

Four runs end in a violation: what the code does there disagrees with what
its documents say (`PROJECT.json` "findings").

| run | shows |
|---|---|
| `Chat_disconnect` | A generator closed while suspended at a `yield` gets `GeneratorExit`, which no except clause matches: the reply stays `streaming` and every retry is refused.  `Faults = {"resolve"}` (a provider that cannot be built, line 149) and `{"provider", "cancel"}` (the record of an error is cancelled, line 440) violate the same property. |
| `AuthSessions_reuse` | A rotation that commits while `revoke_family` waits for its row adds a row outside the UPDATE's snapshot: a live session survives the report of a reuse.  `revoke_all_for_user` has the same shape. |
| `TokenClient_lost` | The server rotates the pair and the answer is lost; the client keeps the replaced token, presents it at the next 401, is taken for a thief and signed out. |
| `Migrations_bridge` | Revision 0005 maps the scopes `relationship` and `world` to `user` while the unique index on the identity of active memories is still there; two memories that differed in scope alone collide, the upgrade is refused, and `start.sh` never starts the server. |

Four more statements of the documents are refuted by formulas that no run
checks; a configuration of the given module with these constants does.

| formula | constants | shows |
|---|---|---|
| `NoStrandedPending` (MCChat, `Spec`) | 2 requests, 1 exchange, `MaxChunks = 1`, `Faults = {}` | Claim and finalizer lock the two rows in opposite order; `send_message` finalizes outside its `try`, so being the deadlock victim leaves the reply `pending` (docstring, `chat/service.py:85`). |
| `NoRegeneration` (MCChat, `Spec`) | 3 requests, 1 exchange, `MaxChunks = 1`, `Faults = {"cancel"}` | A cancellation hits a commit that happens: the handler turns the completed reply failed, and a retry generates again what another client already received (ADR-009, line 19). |
| `NoRunLeftRunning` (AgentRuntime, `Spec`) | one tool, `MaxSteps = 2`, `MaxToolCalls = 1`, `MaxBatch = 1`, `Faults = {"cancel"}` | `_create_run` is outside the `try` of `run`, and `_set_terminal_status` is not shielded: a cancellation leaves a run `running` with nobody behind it (`docs/sprint-07-agent-runtime.md:35`). |
| `ArchivedPersonasStayArchived` (MCMigrations, `Spec`) | those of `Migrations_bridge` | The projection of personas in revision 0005 (lines 103 to 133, announced at line 80 as "same compatibility projection as characters") does not read `archived_at`, and the list of personas (`personas/repository.py:43`) has no filter: a persona that the release of revision 0004 archived is offered again. |

`NoStrandedStream` therefore passes only in `Chat_streams`, whose faults are
provider errors and lock cycles; there it is what makes a stream settle.

What the passing runs show besides, where a property names an exception:

* Personas (`LatestChoiceWins`, `raced`): two requests that create a default
  persona at the same time leave two defaults, as neither UPDATE sees the other's
  row.  The next choice repairs it, because `clear_default` clears every
  persona.
* ChatClient (`ShownFollowsStream`, `torn`): a page of `loadOlder` asked for
  before a stream began or moved on writes the old copy back: text that arrived
  is lost, and the composer is released too early or held for good.  A reload
  beside a stream has the same effect on the composer.  A reload without one
  repairs both.  A reply that a page shows streaming stays so until the next
  reload: nothing polls.
* ChatClient (`CompletedIsStored`, `withdrawn`): a completed reply that is shown may be
  one the server has taken back after a commit in doubt.  The copy shown is then
  exactly the row that was committed; the server has it failed, and a retry, from
  this client once it has read the failure or from another, replaces its text.
* Migrations (`VisibilityCarriedOver`): the archived personas are in use again after
  the upgrade (`ArchivedPersonasStayArchived` above), which the property says by naming all
  personas; for memories and characters it is an equality.
* Migrations (`ProfilesCarriedOver`): on the way down the tagline, the instructions
  and the pronouns edited at the head are lost, and traits that were taken away
  come back from the version; on the way up the older versions, `speaking_style` and
  what is longer than the tagline stay in the versions alone.
* Migrations (`RefusalsExplained`): a downgrade is refused as well, when the
  deletion of a persona left two active memories with the same identity.  (The
  branch of line 178 that maps a relationship memory with a character to the scope
  `character` is in `MapScopes`, but no memory of the known writer has both.)
* Migrations (`VisibilityCarriedOver`) speaks of the upgrade alone.  Downwards
  `status` is filled only where it is null, so a memory of the old release that
  the present one archived is active again after a downgrade, and again visible
  after the next upgrade; and a character the present one archived is active in
  the old one, which reads `archived_at` (`is_active` and the `archived_at` of memories
  are dropped on the way down).  A memory whose `expires_at`
  lies in the future when it is upgraded never expires: the present
  application does not read the column.

## 5. Fairness

* Chat: `WF(Serve(r))` -- asyncio schedules a coroutine that can run, and a lock
  that is released is granted; `SF(ProviderAnswers(r))` -- the provider's HTTP
  timeout bounds the wait for it, however often a heartbeat interrupts it (each
  heartbeat disables and re-enables the action, hence strong);
  `WF(DeadlockAbort)` -- PostgreSQL detects its deadlocks.  Nothing is assumed
  of clients: they need not send, archive or disconnect.
* AgentRuntime: `WF(Advance)` -- the coroutine is scheduled and the database
  answers; `WF(Expire)` -- the timer of the run fires.  No fairness for models
  or tools: `EveryRunEnds` holds although they never answer.
* TokenClient: `WF(Proceed(r) \/ RequestFails(r) \/ RefreshFails(r))` -- every
  request is answered or runs into the timeouts Dio is given
  (`core/network/network_providers.dart`), and the platform's storage answers.  It is
  one fairness condition on the disjunction: nothing says which.
* AuthSessions has no liveness property: each call is one short transaction.
* Personas states its progress without fairness: whenever a request is under way
  some request can take a step of its own (`SomeCallProceeds`), and none takes
  more than a fixed number of them.  The step may be that of the victim
  PostgreSQL picks: the locks are taken in no fixed order, and it is its detector that
  the progress of a cycle rests on.
* Migrations and ChatClient have no liveness property: a command is one step, and
  nothing obliges a server to answer or a user to go on.

## 6. Proofs

All theorems hold for every value of the constants under the assumptions that
the modules name (`ChatAssumption`, `AuthAssumption`, `AgentAssumption`, `ClientAssumption`,
`NamesAreDistinct` and `FinitelyMany` of Personas, `BoundsAreNumbers` and
`NoneIsNoId` of ChatClient, `InputAssumption` of Migrations): the "nobody" value is not an identifier, different
sets of names do not meet, requests are finitely many, bounds are naturals,
configured names are names, the null of a column is neither a name nor an identifier, the key
of a text is not the identifier of a memory, and the scopes, kinds
and revisions tried are those of the code.  `SchemaFacts` and `BridgeFacts` of Migrations speak of
no constant: they are what evaluating the seven revisions on the empty database
gives, some 150 concrete statements up and down, and TLC evaluates them at every run.
Where a module has a section "The inductive invariant", its
conjuncts are there, beside the state they speak of.

* **ChatProofs.** The inductive invariant is `TypeOK /\ OwnershipInv`.
  Mutual exclusion alone is not inductive: that no two attempts run follows
  from each attempt finding its own claim in the row (`AttemptInv`), which
  needs that a claimant still sees what it decided on while it holds the
  conversation lock (`ClaimantInv`).  `OneGeneration`, `Takeover`, `Quiet`
  follow; `Receipts` strengthens it with what was answered, for `Faults` under
  which no commit can be in doubt; `Implements` maps every step to a step of
  `ExchangeContract` or a stutter.  `Streams` states `NoStrandedStream` for
  `Faults \subseteq {"provider"}`, the faults under which it is true: the
  claimant of a streaming reply is then always at a control point that
  leads to a finalizer.
* **AuthProofs.** `SessionInv` joins what a transaction holds (`HoldersInv`), the
  shape of rows (`RowsInv`) and `OneLivePerFamily`: a rotation holds the lock
  of a live row, so the row it adds is the only live one of the family.
  `TypeOK`, `ChainLinear`, `DeadFamilyStaysDead` and `SweepRevokesSnapshot` follow.
* **AgentProofs.** `RunInv` says at each control point how counters, row and
  messages agree; `TypeOK`, the budgets, the allow-list, the answers, the
  outcome and the trace follow.  The counting of tool steps in `TraceMatchesRun` is by
  cardinality of a set of indices that grows by one.
* **TokenProofs.** `ClientInv` is inductive: `SingleFlight`; nothing refers to a
  pair that was not issued (`IssuedInv`); the pair of an unfinished refresh is
  in nobody else's hands (`FreshInv`, from which `RetryIsFresh` follows); a
  replaced pair is in the store only while the refresh that replaced it has not
  stored the new one (`StoreInv`, from which `NoSelfReuse` follows, by single
  flight); and, with the network as the only mishap, what the client holds
  stays exchangeable (`QuietInv`, from which `SignedInStays` follows).
* **PersonaProofs.** `ReferencesStand` rests on `StandInv`: row locks exclude each other
  (`LockInv`), every control point holds the locks its next statement
  relies on (`PlaceInv`), a persona a request creates is its own (`CreatedInv`), a
  conversation has one writer (`RoomInv`), and a reference that is pending in a
  transaction keeps its persona locked until the commit (`ReferenceInv`).
  Without the last the commit of a reference beside a deletion would be a
  counterexample to induction.  `LatestChoiceWins` rests on `ChoiceInv`
  besides: a choice has cleared, or has still in its queue, every default that
  was committed before it (`AllCovered`, `DefaultsCovered`); two choices
  under way meet in a row they both lock, so that one waits for the other
  (`ChoicesMeet`); and what is excepted as `raced` is exactly what two
  snapshots missed of each other (`CrossedInv`).  `Unstuck` is the proof that
  requests never all wait for each other: a least set of requests closed under
  "waits for" in which all wait is the closure of each of its members, so each
  has itself in its closure, and `DeadlockVictim` may strike (`NobodyStuck`).
* **ClientProofs.** `CompletedIsStored` and `ShownFollowsStream` rest on an
  invariant of five parts: `TypeOK`; what is shown is a run of whole exchanges that
  ends at the cursor, and so is the copy in the hand of `loadOlder` (`PageInv`);
  the events on a wire are those of one attempt, in the order of their making
  (`WireInv`); a copy that is completed is the stored row, or one that was taken back
  after a commit in doubt, in the list, on the wire and in every page under way
  (`StoredInv`, kept when the row goes into `withdrawn` with the very step that
  overwrites it); and one send at
  a time is live, whose text the shown reply has unless it is `torn`
  (`ShownInv`).  Page alignment is needed because an event replaces a message by its
  identifier: with a page that cut an exchange in two, a retry could not find
  what it replaces.
* **ScriptProofs.** What `UpgradeFrom` and `DowngradeFrom` do to rows, revision by
  revision.  A script is a sequence of statements that stops at the first
  refused one; its *footprint* is a set of effects (table, operation, kind, column)
  that contains whatever its statements do to the five tables with rows.  Besides, a
  script that is not refused keeps a database *orderly* (definitions fit their tables,
  rows have the columns that constraints read) and *legal* (`LegalRun`), for any
  rows: what a statement does not check itself, PostgreSQL need not check again.  And
  two databases with the same tables have the same tables after the same script,
  whatever their rows are, unless one is refused (`TwinRun`).  Conversely a script
  that runs on the *twin* without rows runs on a legal database as well when its
  statements are *harmless* (`HarmlessRuns`): most ask nothing of rows, or only of
  tables that have none, and a data statement assigns columns that no key, check or
  unique index reads; a name is required after a statement that filled it
  (`Prepares`).  That a script without effect on a table leaves it alone is proved by
  the least statement that would be the exception, since the provers cannot
  apply the induction theorems.  The scripts of revision 0005 are followed
  statement by statement in both directions, down to the single row.
* **MigrationProofs.** The inductive invariant is `DataInv`: tables and columns
  that the revision has (`TablesThere`, `MemoryInv`), versions that belong to
  their profile (`VersionsInv`), a current version before the bridge
  (`VersionedInv`) and texts after it (`RevisedInv`), and `Retained`.
  `OriginalsRetained` alone is not inductive: an original that was moved aside could be
  overwritten by the next upgrade.  `Recorded` adds that it left a value
  which the bridge will not move again.  `HeadRowsReadable` and
  `OriginalsRetained` follow from `DataInv` in each state; `VisibilityCarriedOver` and
  `ProfilesCarriedOver` from `DataInv` before the step and from what
  ScriptProofs says of the scripts between the two revisions, column by column
  (`CharacterBridged`, `PersonaBridged`, `CharactersRenewed` and their like): the profile
  that a version is read into has all of the columns it needs, every profile
  has the version it names or none at all, and nothing between the two ends writes
  the columns again.
  `SchemaFollowsRevision` compares the database with its twin without rows:
  at each revision the tables are those of `TablesAt` and the rows legal and
  orderly (`Follows`).  An upgrade leads the twin to the next `TablesAt`, a
  downgrade back to the one before (`SchemaFacts`), so it leads the database
  there as well if it is not refused; if it is, the transaction is rolled
  back; and a write of either release makes orderly rows or breaks a
  constraint and fails.
  `RefusalsExplained` is the same comparison the other way round: unless two memories collide,
  the database remains the twin of the one without rows through every revision
  (`StepUpRuns`, `StepDownRuns`, `UpgradeRuns`, `DowngradeRuns`), which no statement
  refuses.  All statements but those of revision 0005 are harmless as they stand
  (`BridgeFacts`).  The mapping of the scopes refuses only what `Collision`
  says (`ScopesPass`).  On the way back versions are inserted for the profiles
  that have none and the bookkeeping of memories is required again; the keys of the
  new versions are free, the values fit the checks (`PersonaVersioningRuns`,
  `ReturnedFits`), and the unique index can be created again, because a memory
  that was written without a status is given its own identifier as key
  (`ReturnedUnique`).  For that the rows are *told* by what they say (`Told`, a part of `Orderly`): a version
  names its owner, a memory has a text's key, its own or none.

Only model-checked:

* liveness (`EveryRequestEnds`, `EveryStreamSettles`, `EveryRunEnds`, and
  `EveryRequestEnds` of TokenClient) and `SomeCallProceeds`, which speak of
  fairness or ENABLED; TLAPS treats neither here.  `NobodyStuck`, which is proved, is
  `SomeCallProceeds` with the guards of the actions in the place of ENABLED.

## 7. Not modelled

* Forged and unknown tokens, inactive users: they are refused before any write.
* Wording, token counts, latency, metadata, titles and previews of messages.
* HTTP adapters of providers, cryptography, full-text search, user interface.
* The legacy code of section 1, which nothing calls, but for the memory writer
  that stands for the release of revision 0004.
* Types and lengths of columns, vector and full-text indexes beyond the columns
  they read, the offline mode of Alembic.
* The paginated list of conversations, the SSE decoder, the chunker, the
  connection pool under the context assembler, the composition of Chat with the
  agent adapter and the context a retry is generated from: point 10 of section 2.
* `setExecutionMode` of the chat controller; a token store whose platform fails, and
  answers of the server that do not parse.
