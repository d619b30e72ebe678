------------------------------ MODULE Personas ------------------------------
(***************************************************************************)
(* The personas of one user and the conversations that refer to them       *)
(* (domains/personas, domains/conversations).  Every call is a transaction *)
(* of several statements under READ COMMITTED: a statement sees what was   *)
(* committed when it began, an UPDATE then takes the rows it saw one after *)
(* another and waits where another transaction holds one, and what a       *)
(* transaction writes appears at its commit.  The row locks are those      *)
(* PostgreSQL takes:                                                       *)
(*   "update"    SELECT ... FOR UPDATE (get_owned) and DELETE              *)
(*   "nokey"     an UPDATE of columns that are no key                      *)
(*   "keyshare"  the check of a foreign key; it conflicts with "update"    *)
(* A cycle of waiting transactions loses one of them to the database's     *)
(* deadlock detector; nothing in the code orders the locks or retries.     *)
(***************************************************************************)
EXTENDS Naturals, Sequences, FiniteSets, SequencesExt

CONSTANTS
    Personas,       \* ids of the personas that exist at the start, or may
    Rooms,          \* ids of conversations
    Calls,          \* the requests; a persona a request creates has its id
    None            \* no persona

Ids == Personas \cup Calls
Absent == "absent"

ASSUMPTION NamesAreDistinct ==
    /\ None \notin Ids
    /\ Absent \notin Ids \cup {None}
    /\ Ids \cap Rooms = {}

\* A user has finitely many rows and requests.
ASSUMPTION FinitelyMany == IsFiniteSet(Ids) /\ IsFiniteSet(Rooms)

VARIABLES
    persona,        \* the committed rows: absent, or whether is_default
    room,           \* the committed persona_id of a conversation, or absent
    job,            \* what a call was asked to do
    pc,             \* the statement it is at
    queue,          \* the row locks its statement has still to take, in order
    held,           \* the row locks: <<call, row, mode>>
    chosen,         \* the persona of the last committed choice, or None
    raced,          \* a create has run beside another one; see LatestChoiceWins
    crossed         \* the calls during whose life a create was under way

vars == <<persona, room, job, pc, queue, held, chosen, raced, crossed>>

Live == {p \in Ids : persona[p] # Absent}
Defaults == {p \in Ids : persona[p] = "default"}
Active == {c \in Calls : pc[c] \notin {"idle", "done", "failed"}}
Creating == {c \in Active : job[c].op \in {"add", "create"}}
NoJob == [op |-> "none", persona |-> None, room |-> None]

Conflict(m, n) == m = "update" \/ n = "update" \/ (m = "nokey" /\ n = "nokey")

\* The calls whose locks call c has to wait for.
WaitsFor(c) ==
    IF queue[c] = <<>> THEN {}
    ELSE {h[1] : h \in {g \in held : /\ g[1] # c
                                     /\ g[2] = Head(queue[c])[1]
                                     /\ Conflict(g[3], Head(queue[c])[2])}}

\* A cycle of waiting calls goes through c: it is in every set that holds those
\* it waits for and, with each call, those that one waits for.
Deadlocked(c) ==
    \A S \in SUBSET Calls :
        WaitsFor(c) \subseteq S /\ (\A d \in S : WaitsFor(d) \subseteq S) => c \in S

Requests(rows, mode) == {[i \in DOMAIN s |-> <<s[i], mode>>] : s \in SetToSeqs(rows)}

Init ==
    /\ persona \in [Ids -> {Absent, "plain", "default"}]
    /\ \A c \in Calls : persona[c] = Absent
    /\ Cardinality(Defaults) <= 1
    /\ room \in [Rooms -> Live \cup {None, Absent}]
    /\ job = [c \in Calls |-> NoJob]
    /\ pc = [c \in Calls |-> "idle"]
    /\ queue = [c \in Calls |-> <<>>]
    /\ held = {}
    /\ chosen = IF Defaults = {} THEN None ELSE CHOOSE p \in Defaults : TRUE
    /\ raced = FALSE
    /\ crossed = {}

-----------------------------------------------------------------------------
(* The requests                                                            *)

Begin(c, op, p, r, at, locks) ==
    /\ pc[c] = "idle"
    /\ job' = [job EXCEPT ![c] = [op |-> op, persona |-> p, room |-> r]]
    /\ pc' = [pc EXCEPT ![c] = at]
    /\ queue' = [queue EXCEPT ![c] = locks]
    /\ crossed' = crossed \cup (IF op \in {"add", "create"} THEN Active ELSE {})
                          \cup (IF Creating # {} THEN {c} ELSE {})
    /\ raced' = (raced \/ (op \in {"add", "create"} /\ Creating # {}))
    /\ UNCHANGED <<persona, room, held, chosen>>

\* PersonaService.create: a default persona first clears the others with an
\* UPDATE over the personas it sees; its own row is inserted with the flush.
CreatePersona(c) ==
    \/ Begin(c, "add", c, None, "writing", <<>>)
    \/ \E locks \in Requests(Live, "nokey") : Begin(c, "create", c, None, "writing", locks)

\* PersonaService.update (to or from default) and delete: the row, FOR UPDATE.
OpenPersona(c) ==
    \E op \in {"choose", "unset", "delete"}, p \in Live :
        Begin(c, op, p, None, "opening", << <<p, "update">> >>)

\* ConversationService.update with a persona: the conversation, FOR UPDATE.
OpenRoom(c) ==
    \E r \in Rooms, p \in Live \cup {None} :
        /\ room[r] # Absent
        /\ Begin(c, "link", p, r, "opening", << <<r, "update">> >>)

\* ConversationService.create with a persona: nothing is locked yet.
CreateRoom(c) ==
    \E r \in Rooms, p \in Live \cup {None} :
        /\ room[r] = Absent
        /\ \A d \in Active : ~(job[d].op = "open" /\ job[d].room = r)
        /\ Begin(c, "open", p, r, "opening", <<>>)

-----------------------------------------------------------------------------
(* Row locks, and the end of a transaction                                 *)

\* Mutant: the end of the transaction leaves its row locks standing.
EndKeepsLocks(c, how) ==
    /\ pc' = [pc EXCEPT ![c] = how]
    /\ queue' = [queue EXCEPT ![c] = <<>>]
    /\ job' = [job EXCEPT ![c] = NoJob]
    /\ crossed' = crossed \ {c}
    /\ UNCHANGED held

End(c, how) ==
    /\ pc' = [pc EXCEPT ![c] = how]
    /\ queue' = [queue EXCEPT ![c] = <<>>]
    /\ held' = {h \in held : h[1] # c}
    /\ job' = [job EXCEPT ![c] = NoJob]
    /\ crossed' = crossed \ {c}

Rollback(c) ==
    /\ End(c, "failed")
    /\ UNCHANGED <<persona, room, chosen, raced>>

\* The row a statement reaches no longer qualifies: a persona that was deleted
\* meanwhile, a conversation that no longer has the persona being deleted.
Gone(c, row) ==
    \/ row \in Ids /\ persona[row] = Absent
    \/ pc[c] = "detaching" /\ room[row] # job[c].persona

\* The statement takes its next row.  An UPDATE skips a row that is gone, the
\* SELECT of get_owned finds nothing, the check of a foreign key fails.
TakeRow(c) ==
    /\ queue[c] # <<>>
    /\ WaitsFor(c) = {}
    /\ LET row == Head(queue[c])[1]
       IN IF ~Gone(c, row)
          THEN /\ held' = held \cup {<<c, row, Head(queue[c])[2]>>}
               /\ queue' = [queue EXCEPT ![c] = Tail(@)]
               /\ UNCHANGED <<persona, room, job, pc, chosen, raced, crossed>>
          ELSE IF pc[c] \in {"opening", "flushing"}
          THEN Rollback(c)
          ELSE /\ queue' = [queue EXCEPT ![c] = Tail(@)]
               /\ UNCHANGED <<persona, room, job, pc, held, chosen, raced, crossed>>

\* A lost connection, or the victim the deadlock detector picks.
LoseConnection(c) == c \in Active /\ Rollback(c)
DeadlockVictim(c) == c \in Active /\ Deadlocked(c) /\ Rollback(c)

-----------------------------------------------------------------------------
(* The statements that follow                                              *)

Proceed(c, at, locks) ==
    /\ pc' = [pc EXCEPT ![c] = at]
    /\ queue' = [queue EXCEPT ![c] = locks]
    /\ UNCHANGED <<persona, room, job, held, chosen, raced, crossed>>

At(c, place, ops) == pc[c] = place /\ queue[c] = <<>> /\ job[c].op \in ops

\* Mutant: clear_default clears the persona it sees as the default and no other.
ClearTheDefault(c) ==
    /\ At(c, "opening", {"choose"})
    /\ \E locks \in Requests(Defaults \ {job[c].persona}, "nokey") :
          Proceed(c, "writing", locks)

\* clear_default(except_id): an UPDATE over the other personas it sees.
ClearOthers(c) ==
    /\ At(c, "opening", {"choose"})
    /\ \E locks \in Requests(Live \ {job[c].persona}, "nokey") : Proceed(c, "writing", locks)

UnsetDefault(c) == At(c, "opening", {"unset"}) /\ Proceed(c, "writing", <<>>)

\* The DELETE of the flush, and the ON DELETE SET NULL of the conversations.
DeletePersona(c) ==
    /\ At(c, "opening", {"delete"})
    /\ \E locks \in Requests({r \in Rooms : room[r] = job[c].persona}, "nokey") :
          Proceed(c, "detaching", locks)

\* _validate_context_references: a plain read, in a unit of work of its own.
ValidateReferences(c) ==
    /\ At(c, "opening", {"link", "open"})
    /\ IF job[c].persona \in Live \cup {None}
       THEN Proceed(c, "validated", <<>>)
       ELSE Rollback(c)

\* Mutant: the reference is stored on the strength of the earlier read alone.
FlushUnchecked(c) ==
    /\ At(c, "validated", {"link", "open"})
    /\ Proceed(c, "flushing", <<>>)

\* The flush: a reference that is new is checked, with a lock on the persona;
\* the ORM writes nothing where the value is the one it loaded.
FlushReference(c) ==
    /\ At(c, "validated", {"link", "open"})
    /\ Proceed(c, "flushing",
               IF job[c].persona \in {None, room[job[c].room]} THEN <<>>
               ELSE << <<job[c].persona, "keyshare">> >>)

\* What the commit makes visible: the default flags cleared by an UPDATE are
\* those of the rows the call holds.
Cleared(c) == {p \in Ids : <<c, p, "nokey">> \in held}

PersonasAfter(c) ==
    LET own == job[c].persona
        op  == job[c].op
    IN [p \in Ids |->
          IF p = own /\ op \in {"create", "choose"} THEN "default"
          ELSE IF p = own /\ op \in {"add", "unset"} THEN "plain"
          ELSE IF p = own /\ op = "delete" THEN Absent
          ELSE IF p \in Cleared(c) THEN "plain"
          ELSE persona[p]]

RoomsAfter(c) ==
    [r \in Rooms |->
        IF job[c].op \in {"link", "open"} /\ r = job[c].room THEN job[c].persona
        ELSE IF job[c].op = "delete" /\ room[r] = job[c].persona THEN None
        ELSE room[r]]

Commit(c) ==
    /\ pc[c] \in {"writing", "detaching", "flushing"}
    /\ queue[c] = <<>>
    /\ persona' = PersonasAfter(c)
    /\ room' = RoomsAfter(c)
    /\ chosen' = CASE job[c].op \in {"create", "choose"} -> job[c].persona
                   [] job[c].op \in {"unset", "delete"} /\ job[c].persona = chosen -> None
                   [] OTHER -> chosen
    /\ raced' = (raced /\ ~(job[c].op \in {"create", "choose"} /\ c \notin crossed))
    /\ End(c, "done")

-----------------------------------------------------------------------------
Statement(c) ==
    \/ TakeRow(c)
    \/ DeadlockVictim(c)
    \/ ClearOthers(c)
    \/ UnsetDefault(c)
    \/ DeletePersona(c)
    \/ ValidateReferences(c)
    \/ FlushReference(c)
    \/ Commit(c)

Next ==
    \E c \in Calls :
        \/ CreatePersona(c)
        \/ OpenPersona(c)
        \/ OpenRoom(c)
        \/ CreateRoom(c)
        \/ Statement(c)
        \/ LoseConnection(c)

Spec == Init /\ [][Next]_vars

-----------------------------------------------------------------------------
(* Properties                                                              *)

(* The default persona is the one of the choice that committed last, and   *)
(* there is no other (PersonaService.update: "keep the default-persona     *)
(* invariant"): whatever choices, resets, deletions and failures overlap.  *)
(* One overlap breaks it: the UPDATE of a create does not see the row that *)
(* a create beside it has yet to commit, and both end as the default.  The *)
(* next choice that meets no create in progress repairs it, because        *)
(* clear_default clears every persona and not only the one it believes to  *)
(* be the default.                                                         *)
LatestChoiceWins == ~raced => Defaults = {chosen} \ {None}

(* A conversation never refers to a persona that is gone, although         *)
(* _validate_context_references reads the persona in a transaction of its  *)
(* own, without a lock, before the one that stores the reference.          *)
ReferencesStand == \A r \in Rooms : room[r] \in Live \cup {None, Absent}

(* Nobody waits for ever: two choices, or a deletion, a link and a choice, *)
(* can wait for one another, but then one of them is rolled back, whole,   *)
(* and whenever a request is under way some request can go on.  No request *)
(* takes more than a fixed number of steps, so every one of them ends.     *)
SomeCallProceeds == Active = {} \/ \E c \in Active : ENABLED Statement(c)

-----------------------------------------------------------------------------
(* The inductive invariants behind the theorems of PersonaProofs           *)

Ops == {"none", "add", "create", "choose", "unset", "delete", "link", "open"}
Places == {"idle", "opening", "validated", "writing", "detaching", "flushing", "done", "failed"}
Modes == {"update", "nokey", "keyshare"}
Locks == (Ids \cup Rooms) \X Modes

TypeOK ==
    /\ persona \in [Ids -> {Absent, "plain", "default"}]
    /\ room \in [Rooms -> Ids \cup {None, Absent}]
    /\ job \in [Calls -> [op: Ops, persona: Ids \cup {None}, room: Rooms \cup {None}]]
    /\ pc \in [Calls -> Places]
    /\ queue \in [Calls -> Seq(Locks)]
    /\ held \subseteq Calls \X (Ids \cup Rooms) \X Modes
    /\ chosen \in Ids \cup {None}
    /\ raced \in BOOLEAN
    /\ crossed \subseteq Calls

Holds(c, row, mode) == <<c, row, mode>> \in held
Waiting(c, row, mode) == <<row, mode>> \in Range(queue[c])

\* The row that get_owned(for_update=True) reads, and so the call's to the end.
OwnRow(c) == IF job[c].op = "link" THEN job[c].room ELSE job[c].persona

\* No two calls hold a row in modes that exclude each other, a persona that is
\* locked exists, and only an UPDATE of the default flags locks personas so.
LockInv ==
    /\ \A g, h \in held : g[1] # h[1] /\ g[2] = h[2] => ~Conflict(g[3], h[3])
    /\ \A h \in held :
          /\ h[1] \in Active
          /\ h[2] \in Ids => persona[h[2]] # Absent
          /\ h[2] \in Ids /\ h[3] = "nokey" => pc[h[1]] = "writing" /\ job[h[1]].op \in {"create", "choose"}

\* Where a call is, by what it was asked to do, and which locks it waits for.
Place(c) ==
    /\ pc[c] \in {"idle", "done", "failed"} => queue[c] = <<>> /\ job[c] = NoJob
    /\ pc[c] = "opening" => job[c].op \in {"choose", "unset", "delete", "link", "open"}
    /\ pc[c] = "writing" => job[c].op \in {"add", "create", "choose", "unset"}
    /\ pc[c] = "detaching" => job[c].op = "delete"
    /\ pc[c] \in {"validated", "flushing"} => job[c].op \in {"link", "open"}
    /\ pc[c] = "validated" => queue[c] = <<>>
    /\ pc[c] = "opening" => queue[c] \in {<<>>, << <<OwnRow(c), "update">> >>}
    /\ pc[c] = "opening" /\ job[c].op = "open" => queue[c] = <<>>
    /\ pc[c] = "writing" => Range(queue[c]) \subseteq Ids \X {"nokey"}
    /\ pc[c] = "writing" /\ job[c].op \in {"add", "unset"} => queue[c] = <<>>
    /\ pc[c] = "detaching" => Range(queue[c]) \subseteq Rooms \X {"nokey"}
    /\ pc[c] = "flushing" => queue[c] \in {<<>>, << <<job[c].persona, "keyshare">> >>}
    /\ job[c].op \in {"add", "create"} => job[c].persona = c
    /\ job[c].op \in {"choose", "unset", "delete"} => job[c].persona \in Ids
    /\ job[c].op \in {"link", "open"} => job[c].room \in Rooms
    /\ job[c].op \in {"choose", "unset", "delete", "link"} =>
          \/ Holds(c, OwnRow(c), "update")
          \/ pc[c] = "opening" /\ queue[c] # <<>>

PlaceInv == \A c \in Calls : Place(c)

\* The row of a request that creates one is there once the request is done.
CreatedInv == \A c \in Calls : persona[c] # Absent => pc[c] = "done"

\* A conversation is created by one request, and linked only when it is there.
RoomInv ==
    \A c \in Calls :
        /\ job[c].op = "link" => room[job[c].room] # Absent
        /\ job[c].op = "open" =>
              /\ room[job[c].room] = Absent
              /\ \A d \in Calls : job[d].op = "open" /\ job[d].room = job[c].room => d = c

\* A deletion reaches every conversation that refers to its persona, and a
\* reference that is about to be stored is no new one, or its persona is locked.
Reaches(c) ==
    pc[c] = "detaching" =>
        \A r \in Rooms : room[r] = job[c].persona => Holds(c, r, "nokey") \/ Waiting(c, r, "nokey")
Checked(c) ==
    pc[c] = "flushing" =>
        \/ job[c].persona = None
        \/ job[c].op = "link" /\ room[job[c].room] = job[c].persona
        \/ Holds(c, job[c].persona, "keyshare") \/ Waiting(c, job[c].persona, "keyshare")
ReferenceInv == \A c \in Calls : Reaches(c) /\ Checked(c)

StandInv == LockInv /\ PlaceInv /\ CreatedInv /\ RoomInv /\ ReferenceInv /\ ReferencesStand

\* The calls whose UPDATE has begun and will end with a default persona, and
\* the personas that the UPDATE clears.
Choosing == {c \in Calls : pc[c] = "writing" /\ job[c].op \in {"create", "choose"}}
Covers(c) == {p \in Ids : Holds(c, p, "nokey") \/ Waiting(c, p, "nokey")}

\* Only calls under way are in crossed, those with a create beside them are,
\* and two creates are a race.
CrossedInv ==
    /\ crossed \subseteq Active
    /\ \A c \in Active, d \in Creating : c # d => c \in crossed
    /\ Creating \cap crossed # {} => raced

\* The UPDATE of a call without a create beside it reaches every persona.
AllCovered == \A c \in Choosing \ crossed : Live \ {job[c].persona} \subseteq Covers(c)

\* Of two choices, the later UPDATE reaches the persona that the other chooses.
ChoicesMeet ==
    \A c, d \in Choosing :
        c # d /\ job[c].op = "choose" /\ job[d].op = "choose" =>
            job[c].persona \in Covers(d) \/ job[d].persona \in Covers(c)

\* While no creates have raced, a choice reaches every default persona.
DefaultsCovered ==
    ~raced => \A c \in Choosing :
        job[c].op = "choose" => Defaults \ {job[c].persona} \subseteq Covers(c)

ChoiceInv == CrossedInv /\ AllCovered /\ ChoicesMeet /\ DefaultsCovered /\ LatestChoiceWins

\* What SomeCallProceeds says in terms of guards: the row a call waits for is
\* free, or it has its rows and is where its next statement begins, or it is in
\* a cycle that the detector breaks.
Begins(c) ==
    \/ At(c, "opening", {"choose", "unset", "delete", "link", "open"})
    \/ At(c, "validated", {"link", "open"})
    \/ pc[c] \in {"writing", "detaching", "flushing"} /\ queue[c] = <<>>
GuardHolds(c) == (queue[c] # <<>> /\ WaitsFor(c) = {}) \/ Begins(c) \/ Deadlocked(c)
NobodyStuck == Active = {} \/ \E c \in Active : GuardHolds(c)
=============================================================================
