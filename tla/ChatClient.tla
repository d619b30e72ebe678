----------------------------- MODULE ChatClient -----------------------------
(***************************************************************************)
(* The chat page of the Flutter client: ChatController, one notifier whose *)
(* state several asynchronous methods write, and the server and wire as    *)
(* the client meets them.  A method runs to its next await without         *)
(* interruption; between its awaits the others write the state.            *)
(*                                                                         *)
(* The messages of exchange e have the ids 2e-1 (the user's) and 2e (the   *)
(* reply), which is the order the server and the client sort them in.  A   *)
(* text is abstracted to <<attempt, number of chunks>>: the chunks of two  *)
(* attempts at one reply are unrelated.                                    *)
(*                                                                         *)
(* The server is one of Chat's executions as a client can tell them: it    *)
(* may learn that a commit failed which was done, and withdraw the reply.  *)
(*                                                                         *)
(* Riverpod, as the controller uses it: ref.invalidate makes a new         *)
(* notifier, whose build loads the first page; until the page is there the *)
(* value before stays readable (asData), an error does not; a method of    *)
(* the old notifier can no longer read or write the state and dies.        *)
(***************************************************************************)
EXTENDS Naturals, Sequences, FiniteSets

CONSTANTS
    Stored,         \* the replies the conversation has when the page opens
    PageSize,       \* messages of a page: even, as the limit of 50 is, and so
                    \* no page parts a reply from its question
    Chunks,         \* chunks of a reply, at most
    Sends,          \* sends and retries of this client
    MaxReloads,     \* bound on reloads of the page
    MaxDoubts,      \* bound on commits in doubt
    None

ASSUMPTION BoundsAreNumbers ==
    /\ Stored \in Seq({"streaming", "completed", "failed"})
    /\ PageSize \in Nat \ {0} /\ PageSize % 2 = 0 /\ Chunks \in Nat
    /\ MaxReloads \in Nat /\ MaxDoubts \in Nat

ASSUMPTION NoneIsNoId == None \notin Nat

VARIABLES
    replies,        \* the server's replies: status, and the text that is stored
    made,           \* the chunks the generator of a reply has made so far
    kind,           \* the AsyncValue: "loading", "data" or "error"
    messages,       \* its messages: [status, text] by id
    cursor,         \* nextCursor: the oldest id loaded, or None
    loadingOlder, sending,
    build,          \* the first page under way: where it is, the page once read
    older,          \* loadOlder at its await, with the copy it took
    send,           \* by send: where it is, its exchange, its wire
    reloads,
    doubted,        \* the replies whose completing commit the server has not heard of
    withdrawn,      \* the completed rows, by id, that it has then written failed
    torn            \* see ShownFollowsStream

ui == <<kind, messages, cursor, loadingOlder, sending>>
server == <<replies, made, doubted, withdrawn>>
vars == <<server, ui, build, older, send, reloads, torn>>

Question(e) == 2 * e - 1
Reply(e) == 2 * e
NoText == <<0, 0>>
IsReply(id) == id % 2 = 0

Row(id) == IF IsReply(id) THEN replies[id \div 2] ELSE [status |-> "completed", text |-> NoText]

\* list_page: the newest rows before the cursor; one more is asked for, and
\* when it is there the oldest row of the page is the next cursor.
Page(before) ==
    LET newest == IF before = None THEN 2 * Len(replies) ELSE before - 1
        oldest == IF newest > PageSize THEN newest - PageSize + 1 ELSE 1
    IN [items |-> [id \in oldest .. newest |-> Row(id)],
        next  |-> IF oldest > 1 THEN oldest ELSE None]

Over(old, new) == [id \in DOMAIN old \cup DOMAIN new |->
                      IF id \in DOMAIN new THEN new[id] ELSE old[id]]

NoPage == [items |-> <<>>, next |-> None]
NoBuild == [at |-> "none", page |-> NoPage]
NoOlder == [at |-> "none", page |-> NoPage, messages |-> <<>>, cursor |-> None, sending |-> FALSE]
Idle == [at |-> "idle", exchange |-> 0, wire |-> <<>>, told |-> FALSE, text |-> NoText]
InFlight == {s \in Sends : send[s].at \in {"posting", "open", "closed"}}

Init ==
    /\ replies = [e \in DOMAIN Stored |-> [status |-> Stored[e], text |-> <<1, 0>>]]
    /\ made = [e \in DOMAIN Stored |-> <<1, 0>>]
    /\ kind = "loading" /\ messages = <<>> /\ cursor = None
    /\ loadingOlder = FALSE /\ sending = FALSE
    /\ build = [NoBuild EXCEPT !.at = "asked"] /\ older = NoOlder
    /\ send = [s \in Sends |-> Idle]
    /\ reloads = 0 /\ torn = FALSE
    /\ doubted = {} /\ withdrawn = {}

-----------------------------------------------------------------------------
(* The server: an exchange is accepted, generated and finalized            *)

\* The request, if it is of this client, that is being answered with reply e: a
\* replay has its whole answer from the start.
Terminal == {"completed", "failed"}
Awaits(s, e) ==
    /\ send[s].at = "open" /\ send[s].exchange = e /\ ~send[s].told
    /\ \A i \in DOMAIN send[s].wire : send[s].wire[i].type \notin Terminal

\* An event for that request; the response ends with the terminal one.
Emit(e, event, at) ==
    send' = [s \in Sends |->
        IF Awaits(s, e)
        THEN [send[s] EXCEPT !.at = at, !.wire = Append(@, event)] ELSE send[s]]

\* _prepare_exchange: a new exchange, or another attempt at a failed reply.
Attempt(e) ==
    LET row == [status |-> "streaming",
                text   |-> IF e > Len(replies) THEN <<1, 0>> ELSE <<replies[e].text[1] + 1, 0>>]
    IN /\ replies' = IF e > Len(replies) THEN Append(replies, row) ELSE [replies EXCEPT ![e] = row]
       /\ made' = IF e > Len(replies) THEN Append(made, row.text) ELSE [made EXCEPT ![e] = row.text]
       /\ UNCHANGED <<doubted, withdrawn>>

Generating(e) == replies[e].status = "streaming"

\* The stored text stays empty until the reply is finalized.
ServerChunk ==
    \E e \in DOMAIN replies :
        /\ Generating(e) /\ made[e][2] < Chunks
        /\ made' = [made EXCEPT ![e] = <<@[1], @[2] + 1>>]
        /\ Emit(e, [type |-> "delta", id |-> Reply(e)], "open")
        /\ UNCHANGED <<replies, doubted, withdrawn, ui, build, older, reloads, torn>>

\* The row that a finalizer writes for reply e.
Settled(e, status) == [status |-> status, text |-> made[e]]
Settles(e, status) ==
    /\ replies' = [replies EXCEPT ![e] = Settled(e, status)]
    /\ Emit(e, [type |-> status, id |-> Reply(e), row |-> Settled(e, status)], "closed")
    /\ UNCHANGED <<made, ui, build, older, reloads, torn>>

\* _finalize_success or _finalize_failure, and the event that says so.
ServerSettle ==
    \E e \in DOMAIN replies, status \in Terminal :
        Generating(e) /\ Settles(e, status) /\ UNCHANGED <<doubted, withdrawn>>

\* The commit of _finalize_success is done, and the connection or the task
\* breaks before the generator is told.
ServerCommitsInDoubt ==
    \E e \in DOMAIN replies :
        /\ Generating(e) /\ Cardinality(doubted) + Cardinality(withdrawn) < MaxDoubts
        /\ replies' = [replies EXCEPT ![e] = Settled(e, "completed")]
        /\ doubted' = doubted \cup {e}
        /\ UNCHANGED <<made, withdrawn, ui, build, older, send, reloads, torn>>

\* Its handler takes that for a failure and writes it over the completed row.
ServerWithdraws ==
    \E e \in doubted :
        /\ Settles(e, "failed")
        /\ doubted' = doubted \ {e}
        /\ withdrawn' = withdrawn \cup {<<Reply(e), replies[e]>>}

-----------------------------------------------------------------------------
(* build, and ref.invalidate                                               *)

\* A new notifier: what the old one had under way ends with it.
Reload ==
    /\ reloads < MaxReloads
    /\ reloads' = reloads + 1
    /\ build' = [NoBuild EXCEPT !.at = "asked"]
    /\ older' = NoOlder
    /\ send' = [s \in Sends |-> IF s \in InFlight THEN [Idle EXCEPT !.at = "ended"] ELSE send[s]]
    /\ torn' = (torn \/ InFlight # {} \/ loadingOlder)
    /\ UNCHANGED <<server, ui>>

BuildRead ==
    /\ build.at = "asked"
    /\ build' = [at |-> "read", page |-> Page(None)]
    /\ UNCHANGED <<server, ui, older, send, reloads, torn>>

\* The page replaces the whole state, a send begun meanwhile included.
BuildDone ==
    /\ build.at = "read"
    /\ build' = NoBuild
    /\ kind' = "data"
    /\ messages' = build.page.items
    /\ cursor' = build.page.next
    /\ loadingOlder' = FALSE /\ sending' = FALSE
    /\ torn' = (InFlight # {} \/ older # NoOlder)
    /\ UNCHANGED <<server, older, send, reloads>>

BuildFails ==
    /\ build.at # "none"
    /\ build' = NoBuild
    /\ kind' = "error"
    /\ UNCHANGED <<server, messages, cursor, loadingOlder, sending, older, send, reloads, torn>>

-----------------------------------------------------------------------------
(* loadOlder                                                               *)

\* "current" is the state before the await, and is what the page is added to.
\* Bound: a load left over by a reload is not joined by a second one.
LoadOlder ==
    /\ kind = "data" /\ ~loadingOlder /\ cursor # None
    /\ older = NoOlder
    /\ loadingOlder' = TRUE
    /\ older' = [at |-> "asked", page |-> NoPage,
                 messages |-> messages, cursor |-> cursor, sending |-> sending]
    /\ UNCHANGED <<server, kind, messages, cursor, sending, build, send, reloads, torn>>

OlderRead ==
    /\ older.at = "asked"
    /\ older' = [older EXCEPT !.at = "read", !.page = Page(older.cursor)]
    /\ UNCHANGED <<server, ui, build, send, reloads, torn>>

\* The page and the copy are written back over what changed meanwhile.
OlderDone ==
    /\ older.at = "read"
    /\ older' = NoOlder
    /\ kind' = "data"
    /\ messages' = Over(older.messages, older.page.items)
    /\ cursor' = older.page.next
    /\ loadingOlder' = FALSE
    /\ sending' = older.sending
    /\ torn' = (torn \/ kind # "data" \/ older.messages # messages \/ older.sending # sending)
    /\ UNCHANGED <<server, build, send, reloads>>

OlderFails ==
    /\ older # NoOlder
    /\ older' = NoOlder
    /\ kind' = "error"
    /\ UNCHANGED <<server, messages, cursor, loadingOlder, sending, build, send, reloads, torn>>

-----------------------------------------------------------------------------
(* send and retry                                                          *)

\* _sendInternal: the button is off while isSending is set; "exchange" is the
\* one the client id belongs to, or 0 for a new client id.
Start(s, e) ==
    /\ send[s] = Idle
    /\ kind = "data" /\ ~sending
    /\ sending' = TRUE
    /\ send' = [send EXCEPT ![s] = [Idle EXCEPT !.at = "posting", !.exchange = e]]
    /\ UNCHANGED <<server, kind, messages, cursor, loadingOlder, build, older, reloads, torn>>

Send(s) == Start(s, 0)

\* The client id of a retry is found on the question, if that is shown.
Retry(s) ==
    \E id \in DOMAIN messages :
        /\ IsReply(id) /\ messages[id].status = "failed"
        /\ id - 1 \in DOMAIN messages
        /\ Start(s, id \div 2)

Answered(s, e, wire) == [send EXCEPT ![s] = [@ EXCEPT !.at = "open", !.exchange = e, !.wire = wire]]
StartedEvent(e, row) == [type |-> "started", exchange |-> e, id |-> Reply(e), row |-> row]

\* start_stream: a completed reply is replayed, one in progress is a conflict.
ServerAccepts(s) ==
    LET e == IF send[s].exchange = 0 THEN Len(replies) + 1 ELSE send[s].exchange
    IN /\ send[s].at = "posting"
       /\ IF e <= Len(replies) /\ replies[e].status = "completed"
          THEN /\ send' = Answered(s, e,
                     <<StartedEvent(e, replies[e]),
                       [type |-> "completed", id |-> Reply(e), row |-> replies[e]]>>)
               /\ UNCHANGED server
          ELSE IF e <= Len(replies) /\ replies[e].status = "streaming"
          THEN /\ send' = [send EXCEPT ![s].at = "closed"]
               /\ UNCHANGED server
          ELSE /\ Attempt(e)
               /\ send' = Answered(s, e, <<StartedEvent(e, replies'[e])>>)
       /\ UNCHANGED <<ui, build, older, reloads, torn>>

\* The connection closes: what is on the wire may still arrive or not.  The
\* server goes on, fails the reply or leaves it, all of which it does above.
ConnectionCloses(s) ==
    /\ send[s].at \in {"posting", "open"}
    /\ \E n \in 0 .. Len(send[s].wire) :
          send' = [send EXCEPT ![s] = [@ EXCEPT !.at = "closed", !.wire = SubSeq(send[s].wire, 1, n)]]
    /\ UNCHANGED <<server, ui, build, older, reloads, torn>>

-----------------------------------------------------------------------------
(* The events of a stream                                                  *)

\* Mutant: a delta leaves the status of the message as it is.
DeltaKeepsStatus(shown, event) ==
    [id \in DOMAIN shown |->
        IF id = event.id THEN [shown[id] EXCEPT !.text[2] = @ + 1] ELSE shown[id]]

ApplyDelta(shown, event) ==
    [id \in DOMAIN shown |->
        IF id = event.id
        THEN [status |-> "streaming", text |-> <<shown[id].text[1], shown[id].text[2] + 1>>]
        ELSE shown[id]]

Upsert(shown, event) == Over(shown, [id \in {event.id} |-> event.row])

ApplyStarted(shown, event) ==
    Upsert(Over(shown, [id \in {Question(event.exchange)} |-> Row(id)]), event)

ApplyFailed(shown, event) ==
    [id \in DOMAIN shown |->
        IF id = event.id THEN [shown[id] EXCEPT !.status = "failed"] ELSE shown[id]]

ApplyEvent(shown, event) ==
    CASE event.type = "started"   -> ApplyStarted(shown, event)
      [] event.type = "delta"     -> ApplyDelta(shown, event)
      [] event.type = "completed" -> Upsert(shown, event)
      [] event.type = "failed"    -> ApplyFailed(shown, event)

\* The text that has arrived of the stream's reply (kept for ShownFollowsStream).
TextAfter(text, event) ==
    IF event.type = "delta" THEN <<text[1], text[2] + 1>>
    ELSE IF event.type = "started" THEN event.row.text ELSE text

\* _applyEvent; without a value (an error took its place) the event is lost.
Receive(s) ==
    /\ send[s].at \in {"open", "closed"} /\ send[s].wire # <<>>
    /\ LET event == Head(send[s].wire)
       IN /\ messages' = IF kind = "data" THEN ApplyEvent(messages, event) ELSE messages
          /\ send' = [send EXCEPT ![s] = [@ EXCEPT
                         !.wire = Tail(send[s].wire),
                         !.told = event.type \in {"completed", "failed"},
                         !.text = TextAfter(send[s].text, event)]]
    /\ UNCHANGED <<server, kind, cursor, loadingOlder, sending, build, older, reloads, torn>>

\* _recordStreamFailure: whatever reply is shown streaming is shown failed.
StreamFailed(shown) ==
    [id \in DOMAIN shown |->
        IF IsReply(id) /\ shown[id].status = "streaming"
        THEN [shown[id] EXCEPT !.status = "failed"] ELSE shown[id]]

\* Mutant: only a terminal event releases the composer.
SendEndsHeld(s) ==
    /\ send[s].at = "closed" /\ send[s].wire = <<>>
    /\ send' = [send EXCEPT ![s] = [Idle EXCEPT !.at = "ended"]]
    /\ IF kind = "data" /\ send[s].told
       THEN sending' = FALSE /\ UNCHANGED messages
       ELSE messages' = StreamFailed(messages) /\ UNCHANGED sending
    /\ UNCHANGED <<server, kind, cursor, loadingOlder, build, older, reloads, torn>>

\* The stream ends: a failure unless its last event was a terminal one; the
\* finally block releases the composer.
SendEnds(s) ==
    /\ send[s].at = "closed" /\ send[s].wire = <<>>
    /\ send' = [send EXCEPT ![s] = [Idle EXCEPT !.at = "ended"]]
    /\ IF kind = "data"
       THEN /\ messages' = IF send[s].told THEN messages ELSE StreamFailed(messages)
            /\ sending' = FALSE
       ELSE UNCHANGED <<messages, sending>>
    /\ UNCHANGED <<server, kind, cursor, loadingOlder, build, older, reloads, torn>>

-----------------------------------------------------------------------------
Next ==
    \/ ServerChunk \/ ServerSettle \/ ServerCommitsInDoubt \/ ServerWithdraws
    \/ Reload \/ BuildRead \/ BuildDone \/ BuildFails
    \/ LoadOlder \/ OlderRead \/ OlderDone \/ OlderFails
    \/ \E s \in Sends : \/ Send(s) \/ Retry(s) \/ ServerAccepts(s)
                        \/ ConnectionCloses(s) \/ Receive(s) \/ SendEnds(s)

Spec == Init /\ [][Next]_vars

-----------------------------------------------------------------------------
(* Properties                                                              *)

(* A reply shown as completed is the one the server has stored, however    *)
(* pages, streams and closed connections crossed: a page that was read     *)
(* while deltas of the same reply are still on the wire gets them appended *)
(* to a text that has them already, and is then no longer shown completed. *)
(* The exception ("withdrawn"): the row was committed as completed, the    *)
(* server did not learn it and wrote it failed, after a page or a replay   *)
(* had shown it.  What is shown is then that very row; a retry may since   *)
(* have begun another attempt.                                             *)
Confirmed(id, copy) == copy = Row(id) \/ <<id, copy>> \in withdrawn
CompletedIsStored ==
    \A id \in DOMAIN messages :
        IsReply(id) /\ messages[id].status = "completed" => Confirmed(id, messages[id])

(* The composer is held exactly while a stream is under way; what has      *)
(* arrived of the stream is what is shown of it, its question included;    *)
(* and a failed reply is shown with its question, or its retry, which      *)
(* finds the client id there, would return without a word.                 *)
(* The exception ("torn"): a page of loadOlder that was asked for before   *)
(* the stream changed the state, or a reload beside a stream; the composer *)
(* is then released too early or held for good, and the text is lost.  A   *)
(* reload that meets no stream repairs it.                                 *)
ShownFollowsStream ==
    ~torn /\ kind = "data" =>
        /\ sending <=> InFlight # {}
        /\ \A s \in InFlight :
              send[s].text # NoText =>
                  /\ {Question(send[s].exchange), Reply(send[s].exchange)} \subseteq DOMAIN messages
                  /\ ~send[s].told => messages[Reply(send[s].exchange)].text = send[s].text
        /\ \A id \in DOMAIN messages :
              IsReply(id) /\ messages[id].status = "failed" => id - 1 \in DOMAIN messages
-----------------------------------------------------------------------------
(* The inductive invariants behind the theorems of ClientProofs            *)

Statuses == {"streaming", "completed", "failed"}
Copies == [status: Statuses, text: Nat \X Nat]
Rows == [status: Statuses, text: (Nat \ {0}) \X Nat]
Events == [type: {"started"}, exchange: Nat, id: Nat, row: Rows]
     \cup [type: {"delta"}, id: Nat]
     \cup [type: {"completed", "failed"}, id: Nat, row: Rows]

\* The ids of the messages there are, and a page or a state that shows some.
Known == 1 .. 2 * Len(replies)
Shows(shown) == DOMAIN shown \subseteq Known /\ \A id \in DOMAIN shown : shown[id] \in Copies
Cursors == {c \in Known : ~IsReply(c)} \cup {None}

TypeOK ==
    /\ replies \in Seq(Rows) /\ made \in Seq((Nat \ {0}) \X Nat) /\ Len(made) = Len(replies)
    /\ doubted \subseteq DOMAIN replies /\ withdrawn \subseteq Nat \X Rows
    /\ kind \in {"loading", "data", "error"} /\ Shows(messages) /\ cursor \in Cursors
    /\ loadingOlder \in BOOLEAN /\ sending \in BOOLEAN /\ torn \in BOOLEAN /\ reloads \in Nat
    /\ build = [at |-> build.at, page |-> build.page]
    /\ build.at \in {"none", "asked", "read"}
    /\ Shows(build.page.items) /\ build.page.next \in Cursors
    /\ older = [at |-> older.at, page |-> older.page, messages |-> older.messages,
                cursor |-> older.cursor, sending |-> older.sending]
    /\ older.at \in {"none", "asked", "read"}
    /\ Shows(older.page.items) /\ older.page.next \in Cursors
    /\ Shows(older.messages) /\ older.cursor \in Cursors /\ older.sending \in BOOLEAN
    /\ send \in [Sends -> [at: {"idle", "posting", "open", "closed", "ended"},
                           exchange: 0 .. Len(replies), wire: Seq(Events),
                           told: BOOLEAN, text: Nat \X Nat]]

\* A reply and its question are on one page, and a page ends at its cursor.
Aligned(shown) == \A id \in DOMAIN shown : IsReply(id) => id - 1 \in DOMAIN shown
From(shown, first) == first # None => \A id \in DOMAIN shown : id >= first

PageInv ==
    /\ Aligned(build.page.items) /\ From(build.page.items, build.page.next)
    /\ older.at = "none" => older = NoOlder
    /\ older # NoOlder => older.cursor # None
    /\ Aligned(older.page.items) /\ From(older.page.items, older.page.next)
    /\ \A id \in DOMAIN older.page.items : id < older.cursor
    /\ older.page.next # None => older.page.next < older.cursor

\* The wire of a request: one exchange's events, from the start, the terminal
\* one last.
Wire(s) ==
    LET wire == send[s].wire
    IN /\ send[s].at \in {"idle", "posting", "ended"} =>
             wire = <<>> /\ send[s].text = NoText /\ ~send[s].told
       /\ send[s].at = "open" \/ wire # <<>> => send[s].exchange # 0
       /\ send[s].at = "open" /\ send[s].text = NoText => wire # <<>>
       /\ send[s].told => wire = <<>>
       /\ \A i \in DOMAIN wire :
             /\ wire[i].id = Reply(send[s].exchange)
             /\ wire[i].type = "started" <=> i = 1 /\ send[s].text = NoText
             /\ wire[i].type = "started" => wire[i].exchange = send[s].exchange
             /\ wire[i].type \in Terminal => i = Len(wire)
WireInv == \A s \in Sends : Wire(s)

\* A copy that says it is completed is what the server has stored, or withdrew.
Current(shown) ==
    \A id \in DOMAIN shown :
        IsReply(id) /\ shown[id].status = "completed" => Confirmed(id, shown[id])
StoredInv ==
    /\ Current(messages) /\ Current(older.messages)
    /\ Current(build.page.items) /\ Current(older.page.items)
    /\ \A s \in Sends : \A i \in DOMAIN send[s].wire :
          LET event == send[s].wire[i]
          IN event.type \in {"started", "completed"} /\ event.row.status = "completed" =>
                event.row = replies[send[s].exchange] \/ <<event.id, event.row>> \in withdrawn

\* One stream at a time, of messages that no older page has.
ShownInv ==
    ~torn /\ kind = "data" =>
        /\ sending <=> InFlight # {}
        /\ \A s, t \in InFlight : s = t
        /\ \A s \in InFlight :
              /\ send[s].text # NoText =>
                    /\ {Question(send[s].exchange), Reply(send[s].exchange)} \subseteq DOMAIN messages
                    /\ ~send[s].told => messages[Reply(send[s].exchange)].text = send[s].text
              /\ send[s].exchange # 0 /\ cursor # None => Reply(send[s].exchange) >= cursor
        /\ Aligned(messages) /\ From(messages, cursor)
        /\ older # NoOlder => older.cursor = cursor
=============================================================================
