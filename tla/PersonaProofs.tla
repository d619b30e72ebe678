---------------------------- MODULE PersonaProofs ----------------------------
(***************************************************************************)
(* Proofs about Personas, for any number of personas, conversations and    *)
(* requests of a user and any interleaving of their statements.            *)
(***************************************************************************)
EXTENDS Personas, FiniteSetTheorems, SequenceTheorems, WellFoundedInduction, TLAPS

-----------------------------------------------------------------------------
(* The queue of a statement                                                *)

\* What is in a queue is its head, which is taken next, and what is in its tail.
LEMMA HeadAndTail ==
    ASSUME NEW S, NEW q \in Seq(S), q # <<>>
    PROVE  /\ Head(q) \in S /\ Tail(q) \in Seq(S)
           /\ Range(q) = {Head(q)} \cup Range(Tail(q))
<1>1. /\ Head(q) = q[1] /\ Len(q) \in Nat \ {0}
      /\ Tail(q) \in Seq(S) /\ Len(Tail(q)) = Len(q) - 1
      /\ \A i \in 1 .. Len(Tail(q)) : Tail(q)[i] = q[i + 1]
  BY HeadTailProperties, EmptySeq
<1>2. DOMAIN q = 1 .. Len(q) /\ DOMAIN Tail(q) = 1 .. Len(Tail(q))
  BY <1>1, LenProperties
<1>3. ASSUME NEW x \in Range(q) PROVE x = Head(q) \/ x \in Range(Tail(q))
  <2>1. PICK i \in 1 .. Len(q) : x = q[i]
    BY <1>2 DEF Range
  <2>2. CASE i = 1
    BY <1>1, <2>1, <2>2
  <2>3. CASE i # 1
    <3>1. i - 1 \in 1 .. Len(Tail(q)) /\ Tail(q)[i - 1] = x
      BY <1>1, <2>1, <2>3
    <3> QED
      BY <1>2, <3>1 DEF Range
  <2> QED
    BY <2>2, <2>3
<1>4. ASSUME NEW x \in Range(Tail(q)) PROVE x \in Range(q)
  <2>1. PICK i \in 1 .. Len(Tail(q)) : x = Tail(q)[i]
    BY <1>2 DEF Range
  <2>2. i + 1 \in 1 .. Len(q) /\ q[i + 1] = x
    BY <1>1, <2>1
  <2> QED
    BY <1>2, <2>2 DEF Range
<1>5. Head(q) \in Range(q)
  BY <1>1, <1>2 DEF Range
<1> QED
  BY <1>1, <1>3, <1>4, <1>5, HeadTailProperties

\* The ranges of short queues.
LEMMA SmallQueues ==
    /\ Range(<<>>) = {}
    /\ \A x : Range(<<x>>) = {x} /\ Head(<<x>>) = x /\ Tail(<<x>>) = <<>> /\ <<x>> # <<>>
  BY DEF Range

\* A statement over finitely many rows asks for each of them, in some order.
LEMMA RequestsCover ==
    ASSUME NEW S, IsFiniteSet(S), NEW mode, NEW locks \in Requests(S, mode)
    PROVE  /\ locks \in Seq(S \X {mode})
           /\ Range(locks) = S \X {mode}
<1>1. PICK s \in SetToSeqs(S) : locks = [i \in DOMAIN s |-> <<s[i], mode>>]
  BY DEF Requests
<1> DEFINE D == 1 .. Cardinality(S)
<1>2. /\ s \in [D -> S]
      /\ \A i, j \in D : i # j => s[i] # s[j]
  BY <1>1 DEF SetToSeqs
<1>3. Cardinality(S) \in Nat
  BY FS_CardinalityType
<1>4. IsFiniteSet(D) /\ Cardinality(D) = Cardinality(S)
  BY <1>3, FS_Interval
<1>5. s \in Injection(D, S)
  BY <1>2 DEF Injection, IsInjective
<1>6. s \in Surjection(D, S)
  BY <1>4, <1>5, FS_Injection
<1>7. \A x \in S : \E i \in D : s[i] = x
  BY <1>6 DEF Surjection
<1>8. locks = [i \in D |-> <<s[i], mode>>]
  BY <1>1, <1>2
<1>9. locks \in Seq(S \X {mode})
  BY <1>2, <1>3, <1>8
<1>10. Range(locks) = S \X {mode}
  BY <1>2, <1>7, <1>8 DEF Range
<1> QED
  BY <1>9, <1>10

-----------------------------------------------------------------------------
(* Types                                                                   *)

\* A row lock that is asked for, in any of the ways the statements ask.
LEMMA LockTypes ==
    /\ \A p \in Ids : << <<p, "update">> >> \in Seq(Locks) /\ << <<p, "keyshare">> >> \in Seq(Locks)
    /\ \A r \in Rooms : << <<r, "update">> >> \in Seq(Locks)
    /\ <<>> \in Seq(Locks)
    /\ \A S \in SUBSET (Ids \cup Rooms) :
          \A locks \in Requests(S, "nokey") :
              locks \in Seq(Locks) /\ Range(locks) = S \X {"nokey"}
<1>1. ASSUME NEW S \in SUBSET (Ids \cup Rooms), NEW locks \in Requests(S, "nokey")
      PROVE  locks \in Seq(Locks) /\ Range(locks) = S \X {"nokey"}
  <2>1. IsFiniteSet(Ids \cup Rooms)
    BY FinitelyMany, FS_Union
  <2>2. IsFiniteSet(S)
    BY <2>1, FS_Subset
  <2>3. locks \in Seq(S \X {"nokey"}) /\ Range(locks) = S \X {"nokey"}
    BY <2>2, RequestsCover
  <2>4. S \X {"nokey"} \subseteq Locks
    BY DEF Locks, Modes
  <2> QED
    BY <2>3, <2>4, SeqMonotonic
<1> QED
  BY <1>1 DEF Locks, Modes

\* What the beginning of a request, and its end, do to the types.
LEMMA BeginTypes ==
    ASSUME TypeOK, NEW c \in Calls, NEW op \in Ops, NEW p \in Ids \cup {None},
           NEW r \in Rooms \cup {None}, NEW at \in Places, NEW locks \in Seq(Locks),
           Begin(c, op, p, r, at, locks)
    PROVE  TypeOK'
<1>1. raced' \in BOOLEAN /\ crossed' \subseteq Calls
  BY DEF TypeOK, Begin, Active
<1>2. job' \in [Calls -> [op: Ops, persona: Ids \cup {None}, room: Rooms \cup {None}]]
  BY DEF TypeOK, Begin
<1> QED
  BY <1>1, <1>2 DEF TypeOK, Begin

\* The end of a call keeps the types.
LEMMA EndTypes ==
    ASSUME TypeOK, NEW c \in Calls, NEW how \in {"done", "failed"}, End(c, how)
    PROVE  /\ job' \in [Calls -> [op: Ops, persona: Ids \cup {None}, room: Rooms \cup {None}]]
           /\ pc' \in [Calls -> Places] /\ queue' \in [Calls -> Seq(Locks)]
           /\ held' \subseteq Calls \X (Ids \cup Rooms) \X Modes
           /\ crossed' \subseteq Calls
<1>1. NoJob \in [op: Ops, persona: Ids \cup {None}, room: Rooms \cup {None}]
  BY DEF NoJob, Ops
<1>2. <<>> \in Seq(Locks) /\ how \in Places
  BY DEF Places
<1> QED
  BY <1>1, <1>2 DEF TypeOK, End

\* A call that moves on keeps them.
LEMMA ProceedTypes ==
    ASSUME TypeOK, NEW c \in Calls, NEW at \in Places, NEW locks \in Seq(Locks),
           Proceed(c, at, locks)
    PROVE  TypeOK'
  BY DEF TypeOK, Proceed
\* A rollback keeps them.
LEMMA RollbackTypes ==
    ASSUME TypeOK, NEW c \in Calls, Rollback(c)
    PROVE  TypeOK'
<1>1. End(c, "failed") /\ UNCHANGED <<persona, room, chosen, raced>>
  BY DEF Rollback
<1> QED
  BY <1>1, EndTypes DEF TypeOK

\* Every step keeps the types.
LEMMA TypeStep == TypeOK /\ PlaceInv /\ [Next]_vars => TypeOK'
<1> SUFFICES ASSUME TypeOK, PlaceInv, [Next]_vars PROVE TypeOK'
  OBVIOUS
<1> USE NamesAreDistinct
<1>1. ASSUME NEW c \in Calls, CreatePersona(c) PROVE TypeOK'
  <2>1. PICK op \in {"add", "create"}, locks \in Seq(Locks) :
          Begin(c, op, c, None, "writing", locks)
    BY <1>1, LockTypes DEF CreatePersona, Live
  <2> QED
    BY <2>1, BeginTypes DEF Ops, Places, Ids
<1>2. ASSUME NEW c \in Calls, OpenPersona(c) PROVE TypeOK'
  <2>1. PICK op \in {"choose", "unset", "delete"}, p \in Live :
          Begin(c, op, p, None, "opening", << <<p, "update">> >>)
    BY <1>2 DEF OpenPersona
  <2>2. << <<p, "update">> >> \in Seq(Locks) /\ p \in Ids
    BY LockTypes DEF Live
  <2> QED
    BY <2>1, <2>2, BeginTypes, ZenonT(30) DEF Ops, Places
<1>3. ASSUME NEW c \in Calls, OpenRoom(c) \/ CreateRoom(c) PROVE TypeOK'
  <2>1. PICK op \in {"link", "open"}, r \in Rooms, p \in Ids \cup {None}, locks \in Seq(Locks) :
          Begin(c, op, p, r, "opening", locks)
    BY <1>3, LockTypes DEF OpenRoom, CreateRoom, Live
  <2> QED
    BY <2>1, BeginTypes DEF Ops, Places
<1>4. ASSUME NEW c \in Calls, TakeRow(c) PROVE TypeOK'
  <2>1. Head(queue[c]) \in Locks /\ Tail(queue[c]) \in Seq(Locks)
    BY <1>4, HeadTailProperties DEF TakeRow, TypeOK
  <2>2. CASE Rollback(c)
    BY <2>2, RollbackTypes
  <2>3. CASE ~Rollback(c)
    <3>1. /\ queue' = [queue EXCEPT ![c] = Tail(@)]
          /\ UNCHANGED <<persona, room, job, pc, chosen, raced, crossed>>
          /\ \/ held' = held \cup {<<c, Head(queue[c])[1], Head(queue[c])[2]>>}
             \/ held' = held
      BY <1>4, <2>3 DEF TakeRow
    <3> QED
      BY <2>1, <3>1 DEF TypeOK, Locks
  <2> QED
    BY <2>2, <2>3
<1>5. ASSUME NEW c \in Calls, ClearOthers(c) \/ UnsetDefault(c) \/ DeletePersona(c) PROVE TypeOK'
  <2>1. PICK at \in Places, locks \in Seq(Locks) : Proceed(c, at, locks)
    BY <1>5, LockTypes DEF ClearOthers, UnsetDefault, DeletePersona, Live, Places
  <2> QED
    BY <2>1, ProceedTypes
<1>6. ASSUME NEW c \in Calls, ValidateReferences(c) \/ FlushReference(c) PROVE TypeOK'
  <2>1. CASE Rollback(c)
    BY <2>1, RollbackTypes
  <2>2. CASE ~Rollback(c)
    <3>1. job[c].persona \in Ids \cup {None}
      BY DEF TypeOK
    <3>2. PICK at \in Places, locks \in Seq(Locks) : Proceed(c, at, locks)
      BY <1>6, <2>2, <3>1, LockTypes DEF ValidateReferences, FlushReference, Places
    <3> QED
      BY <3>2, ProceedTypes
  <2> QED
    BY <2>1, <2>2
<1>7. ASSUME NEW c \in Calls, Commit(c) PROVE TypeOK'
  <2>1. End(c, "done") /\ job[c].op \in Ops /\ job[c].persona \in Ids \cup {None}
    BY <1>7 DEF Commit, TypeOK
  <2>2. persona' \in [Ids -> {Absent, "plain", "default"}]
    BY <1>7 DEF Commit, PersonasAfter, TypeOK
  <2>3. room' \in [Rooms -> Ids \cup {None, Absent}]
    <3>1. room' = RoomsAfter(c)
      BY <1>7 DEF Commit
    <3>2. \A r \in Rooms : RoomsAfter(c)[r] \in {job[c].persona, None, room[r]}
      BY DEF RoomsAfter
    <3> QED
      BY <2>1, <3>1, <3>2 DEF RoomsAfter, TypeOK
  <2>4. chosen' \in Ids \cup {None} /\ raced' \in BOOLEAN
    BY <1>7, <2>1 DEF Commit, TypeOK
  <2> QED
    BY <2>1, <2>2, <2>3, <2>4, EndTypes DEF TypeOK
<1>8. ASSUME NEW c \in Calls, DeadlockVictim(c) \/ LoseConnection(c) PROVE TypeOK'
  BY <1>8, RollbackTypes DEF DeadlockVictim, LoseConnection
<1>9. CASE UNCHANGED vars
  BY <1>9 DEF vars, TypeOK
<1> QED
  BY <1>1, <1>2, <1>3, <1>4, <1>5, <1>6, <1>7, <1>8, <1>9 DEF Next, Statement

-----------------------------------------------------------------------------
(* The kinds of steps, and what each leaves alone                          *)

Began(c) == CreatePersona(c) \/ OpenPersona(c) \/ OpenRoom(c) \/ CreateRoom(c)

Took(c) ==
    /\ queue[c] # <<>> /\ WaitsFor(c) = {} /\ ~Gone(c, Head(queue[c])[1])
    /\ held' = held \cup {<<c, Head(queue[c])[1], Head(queue[c])[2]>>}
    /\ queue' = [queue EXCEPT ![c] = Tail(@)]
    /\ UNCHANGED <<persona, room, job, pc, chosen, raced, crossed>>

Skipped(c) ==
    /\ queue[c] # <<>> /\ Gone(c, Head(queue[c])[1]) /\ pc[c] \notin {"opening", "flushing"}
    /\ queue' = [queue EXCEPT ![c] = Tail(@)]
    /\ UNCHANGED <<persona, room, job, pc, held, chosen, raced, crossed>>

Failed(c) == c \in Active /\ Rollback(c)

Validated(c) == At(c, "opening", {"link", "open"}) /\ Proceed(c, "validated", <<>>)

\* The kinds of step a call may take.
LEMMA StepKinds ==
    ASSUME PlaceInv, [Next]_vars
    PROVE  \/ UNCHANGED vars
           \/ \E c \in Calls :
                 \/ Began(c) \/ Took(c) \/ Skipped(c) \/ Failed(c)
                 \/ ClearOthers(c) \/ UnsetDefault(c) \/ DeletePersona(c)
                 \/ Validated(c) \/ FlushReference(c) \/ Commit(c)
<1>1. ASSUME NEW c \in Calls, TakeRow(c) PROVE Took(c) \/ Skipped(c) \/ Failed(c)
  <2>1. c \in Active
    BY <1>1 DEF TakeRow, PlaceInv, Place, Active
  <2> QED
    BY <1>1, <2>1 DEF TakeRow, Took, Skipped, Failed
<1>2. ASSUME NEW c \in Calls, ValidateReferences(c) PROVE Validated(c) \/ Failed(c)
  BY <1>2 DEF ValidateReferences, Validated, Failed, At, Active
<1>3. ASSUME NEW c \in Calls, LoseConnection(c) \/ DeadlockVictim(c) PROVE Failed(c)
  BY <1>3 DEF LoseConnection, DeadlockVictim, Failed
<1> QED
  BY <1>1, <1>2, <1>3 DEF Next, Statement, Began

\* A step of one call leaves the statements and the locks of the others alone.
LEMMA OthersUntouched ==
    ASSUME TypeOK, NEW c \in Calls,
           \/ Began(c) \/ Took(c) \/ Skipped(c) \/ Failed(c)
           \/ ClearOthers(c) \/ UnsetDefault(c) \/ DeletePersona(c)
           \/ Validated(c) \/ FlushReference(c) \/ Commit(c),
           NEW d \in Calls \ {c}
    PROVE  /\ pc'[d] = pc[d] /\ job'[d] = job[d] /\ queue'[d] = queue[d]
           /\ d \in Active' <=> d \in Active
           /\ d \in crossed' => d \in crossed \/ d \in Active
           /\ \A row, mode : Holds(d, row, mode)' <=> Holds(d, row, mode)
           /\ OwnRow(d)' = OwnRow(d)
<1>1. CASE Began(c)
  <2>1. PICK op, p, r, at, locks : Begin(c, op, p, r, at, locks)
    BY <1>1 DEF Began, CreatePersona, OpenPersona, OpenRoom, CreateRoom
  <2> QED
    BY <2>1 DEF Begin, TypeOK, Holds, Active, OwnRow
<1>2. CASE Failed(c) \/ Commit(c)
  <2>1. PICK how : End(c, how)
    BY <1>2 DEF Failed, Rollback, Commit
  <2> QED
    BY <2>1 DEF End, TypeOK, Holds, Active, OwnRow
<1>3. CASE Took(c) \/ Skipped(c)
  BY <1>3 DEF Took, Skipped, TypeOK, Holds, Active, OwnRow
<1>4. CASE ClearOthers(c) \/ UnsetDefault(c) \/ DeletePersona(c) \/ Validated(c) \/ FlushReference(c)
  <2>1. PICK at, locks : Proceed(c, at, locks)
    BY <1>4 DEF ClearOthers, UnsetDefault, DeletePersona, Validated, FlushReference
  <2> QED
    BY <2>1 DEF Proceed, TypeOK, Holds, Active, OwnRow
<1> QED
  BY <1>1, <1>2, <1>3, <1>4

\* An ended call holds and waits for nothing.
LEMMA Ended ==
    ASSUME TypeOK, NEW c \in Calls, NEW how \in {"done", "failed"}, End(c, how)
    PROVE  /\ pc'[c] = how /\ job'[c] = NoJob /\ queue'[c] = <<>>
           /\ \A row, mode : ~Holds(c, row, mode)'
           /\ c \notin Active' /\ c \notin crossed'
  BY DEF End, TypeOK, Holds, Active

-----------------------------------------------------------------------------
(* Where the calls are                                                     *)

\* A call that begins is at a place of its operation.
LEMMA BeganPlace ==
    ASSUME TypeOK, PlaceInv, NEW c \in Calls, Began(c)
    PROVE  Place(c)' /\ c \in Active' /\ pc[c] = "idle"
<1> USE SmallQueues
<1>1. CASE CreatePersona(c)
  <2>1. PICK op \in {"add", "create"}, locks \in Seq(Locks) :
          /\ Begin(c, op, c, None, "writing", locks)
          /\ Range(locks) \subseteq Ids \X {"nokey"} /\ (op = "add" => locks = <<>>)
    <3>1. \A locks \in Requests(Live, "nokey") :
             locks \in Seq(Locks) /\ Range(locks) \subseteq Ids \X {"nokey"}
      BY LockTypes DEF Live
    <3>2. <<>> \in Seq(Locks) /\ Range(<<>>) \subseteq Ids \X {"nokey"}
      BY LockTypes
    <3> QED
      BY <1>1, <3>1, <3>2 DEF CreatePersona
  <2>2. pc'[c] = "writing" /\ job'[c].op = op /\ job'[c].persona = c /\ queue'[c] = locks
    BY <2>1 DEF Begin, TypeOK
  <2> QED
    BY <2>1, <2>2 DEF Place, Active, Begin
<1>2. CASE OpenPersona(c)
  <2>1. PICK op \in {"choose", "unset", "delete"}, p \in Ids :
          Begin(c, op, p, None, "opening", << <<p, "update">> >>)
    BY <1>2 DEF OpenPersona, Live
  <2>2. /\ pc'[c] = "opening" /\ job'[c].op = op /\ job'[c].persona = p
        /\ queue'[c] = << <<p, "update">> >>
    BY <2>1 DEF Begin, TypeOK
  <2> QED
    BY <2>1, <2>2 DEF Place, Active, Begin, OwnRow
<1>3. CASE OpenRoom(c) \/ CreateRoom(c)
  <2>1. PICK op \in {"link", "open"}, r \in Rooms, p \in Ids \cup {None} :
          Begin(c, op, p, r, "opening", IF op = "link" THEN << <<r, "update">> >> ELSE <<>>)
    BY <1>3 DEF OpenRoom, CreateRoom, Live
  <2>2. /\ pc'[c] = "opening" /\ job'[c].op = op /\ job'[c].room = r
        /\ queue'[c] = IF op = "link" THEN << <<r, "update">> >> ELSE <<>>
    BY <2>1 DEF Begin, TypeOK
  <2> QED
    BY <2>1, <2>2 DEF Place, Active, Begin, OwnRow
<1> QED
  BY <1>1, <1>2, <1>3 DEF Began

\* Every step keeps every call where its request and its locks say it is.
LEMMA PlaceStep ==
    ASSUME TypeOK, PlaceInv, [Next]_vars
    PROVE  PlaceInv'
<1> SUFFICES ASSUME NEW d \in Calls PROVE Place(d)'
  BY DEF PlaceInv
<1>1. Place(d)
  BY DEF PlaceInv
<1>2. CASE UNCHANGED vars
  BY <1>1, <1>2 DEF vars, Place, Holds, OwnRow
<1>3. ASSUME NEW c \in Calls,
             \/ Began(c) \/ Took(c) \/ Skipped(c) \/ Failed(c)
             \/ ClearOthers(c) \/ UnsetDefault(c) \/ DeletePersona(c)
             \/ Validated(c) \/ FlushReference(c) \/ Commit(c)
      PROVE  Place(d)'
  <2>1. CASE d # c
    BY <1>1, <1>3, <2>1, OthersUntouched DEF Place
  <2> SUFFICES ASSUME d = c PROVE Place(c)'
    BY <2>1
  <2>2. CASE Began(c)
    BY <2>2, BeganPlace
  <2>3. CASE Failed(c) \/ Commit(c)
    <3>1. PICK how \in {"done", "failed"} : End(c, how)
      BY <2>3 DEF Failed, Rollback, Commit
    <3>2. pc'[c] = how /\ job'[c] = NoJob /\ queue'[c] = <<>>
      BY <3>1, Ended
    <3> QED
      BY <3>2 DEF Place, NoJob
  <2>4. CASE Took(c) \/ Skipped(c)
    <3>1. /\ queue[c] # <<>> /\ queue'[c] = Tail(queue[c])
          /\ pc'[c] = pc[c] /\ job'[c] = job[c] /\ OwnRow(c)' = OwnRow(c)
      BY <2>4 DEF Took, Skipped, TypeOK, OwnRow
    <3>2. /\ Range(queue[c]) = {Head(queue[c])} \cup Range(Tail(queue[c]))
          /\ Head(queue[c]) \in Locks
      BY <3>1, HeadAndTail DEF TypeOK
    <3>3. /\ Holds(c, OwnRow(c), "update") => Holds(c, OwnRow(c), "update")'
          /\ pc[c] = "opening" => Holds(c, OwnRow(c), "update")'
      <4>1. pc[c] = "opening" => Took(c) /\ Head(queue[c]) = <<OwnRow(c), "update">>
        BY <1>1, <2>4, <3>1, SmallQueues DEF Skipped, Place
      <4>2. held \subseteq held'
        BY <2>4 DEF Took, Skipped
      <4> QED
        BY <3>1, <4>1, <4>2 DEF Took, Holds
    <3>4. pc[c] \in {"opening", "flushing"} => queue'[c] = <<>>
      <4>1. pc[c] \in {"opening", "flushing"} => \E x : queue[c] = <<x>>
        BY <1>1, <3>1 DEF Place
      <4> QED
        BY <3>1, <4>1, SmallQueues
    <3> QED
      BY <1>1, <3>1, <3>2, <3>3, <3>4 DEF Place
  <2>5. CASE ClearOthers(c) \/ UnsetDefault(c) \/ DeletePersona(c) \/ Validated(c) \/ FlushReference(c)
    <3>1. PICK at \in Places, locks \in Seq(Locks) :
            /\ Proceed(c, at, locks)
            /\ at = "validated" => locks = <<>> /\ job[c].op \in {"link", "open"}
            /\ at = "flushing" => /\ locks \in {<<>>, << <<job[c].persona, "keyshare">> >>}
                                  /\ job[c].op \in {"link", "open"}
            /\ at = "detaching" => Range(locks) \subseteq Rooms \X {"nokey"} /\ job[c].op = "delete"
            /\ at = "writing" => \/ Range(locks) \subseteq Ids \X {"nokey"} /\ job[c].op = "choose"
                                 \/ locks = <<>> /\ job[c].op = "unset"
            /\ at \in {"validated", "flushing", "detaching", "writing"}
      <4>1. CASE ClearOthers(c)
        <5>1. PICK locks \in Requests(Live \ {job[c].persona}, "nokey") : Proceed(c, "writing", locks)
          BY <4>1 DEF ClearOthers
        <5>2. locks \in Seq(Locks) /\ Range(locks) \subseteq Ids \X {"nokey"}
          BY LockTypes DEF Live
        <5> QED
          BY <4>1, <5>1, <5>2 DEF ClearOthers, At, Places
      <4>2. CASE DeletePersona(c)
        <5>1. PICK locks \in Requests({r \in Rooms : room[r] = job[c].persona}, "nokey") :
                Proceed(c, "detaching", locks)
          BY <4>2 DEF DeletePersona
        <5>2. locks \in Seq(Locks) /\ Range(locks) \subseteq Rooms \X {"nokey"}
          BY LockTypes
        <5> QED
          BY <4>2, <5>1, <5>2 DEF DeletePersona, At, Places
      <4>3. CASE UnsetDefault(c) \/ Validated(c)
        BY <4>3, LockTypes DEF UnsetDefault, Validated, At, Places
      <4>4. CASE FlushReference(c)
        <5>1. job[c].persona \in Ids \cup {None}
          BY DEF TypeOK
        <5>2. PICK locks \in {<<>>, << <<job[c].persona, "keyshare">> >>} \cap Seq(Locks) :
                Proceed(c, "flushing", locks)
          BY <4>4, <5>1, LockTypes DEF FlushReference
        <5> QED
          BY <4>4, <5>2 DEF FlushReference, At, Places
      <4> QED
        BY <2>5, <4>1, <4>2, <4>3, <4>4
    <3>2. /\ pc'[c] = at /\ queue'[c] = locks /\ job'[c] = job[c] /\ OwnRow(c)' = OwnRow(c)
          /\ Holds(c, OwnRow(c), "update")' = Holds(c, OwnRow(c), "update")
      BY <3>1 DEF Proceed, TypeOK, OwnRow, Holds
    <3>3. queue[c] = <<>> /\ pc[c] \in {"opening", "validated"}
      BY <2>5 DEF ClearOthers, UnsetDefault, DeletePersona, Validated, FlushReference, At
    <3> QED
      BY <1>1, <3>1, <3>2, <3>3, SmallQueues DEF Place
  <2> QED
    BY <1>3, <2>2, <2>3, <2>4, <2>5
<1> QED
  BY <1>2, <1>3, StepKinds

-----------------------------------------------------------------------------
(* What a commit finds, and what it makes visible                          *)

\* A call commits at the statement its operation ends with, holding its row.
LEMMA CommitFinds ==
    ASSUME TypeOK, PlaceInv, LockInv, NEW c \in Calls, Commit(c)
    PROVE  /\ End(c, "done") /\ queue[c] = <<>>
           /\ \/ pc[c] = "writing" /\ job[c].op \in {"add", "create", "choose", "unset"}
              \/ pc[c] = "detaching" /\ job[c].op = "delete"
              \/ pc[c] = "flushing" /\ job[c].op \in {"link", "open"}
           /\ job[c].op \in {"choose", "unset", "delete", "link"} => Holds(c, OwnRow(c), "update")
           /\ job[c].op \in {"choose", "unset", "delete"} =>
                 /\ Holds(c, job[c].persona, "update")
                 /\ job[c].persona \in Ids /\ persona[job[c].persona] # Absent
           /\ job[c].op \in {"add", "create"} => job[c].persona = c
<1>1. Place(c)
  BY DEF PlaceInv
<1>2. /\ End(c, "done") /\ queue[c] = <<>> /\ pc[c] \in {"writing", "detaching", "flushing"}
  BY DEF Commit
<1>3. job[c].op \in {"choose", "unset", "delete", "link"} => Holds(c, OwnRow(c), "update")
  BY <1>1, <1>2 DEF Place
<1>4. job[c].op \in {"choose", "unset", "delete"} =>
         /\ Holds(c, job[c].persona, "update") /\ job[c].persona \in Ids
  BY <1>1, <1>3 DEF Place, OwnRow
<1>5. job[c].op \in {"choose", "unset", "delete"} => persona[job[c].persona] # Absent
  BY <1>4 DEF LockInv, Holds
<1> QED
  BY <1>1, <1>2, <1>3, <1>4, <1>5 DEF Place

\* Which personas exist after a commit, and which are the default.
LEMMA CommitPersonas ==
    ASSUME TypeOK, PlaceInv, LockInv, NEW c \in Calls, Commit(c), NEW p \in Ids
    PROVE  /\ persona'[p] # Absent <=>
                 \/ persona[p] # Absent /\ ~(job[c].op = "delete" /\ p = job[c].persona)
                 \/ job[c].op \in {"add", "create"} /\ p = c
           /\ persona'[p] = "default" <=>
                 \/ job[c].op \in {"create", "choose"} /\ p = job[c].persona
                 \/ /\ persona[p] = "default" /\ p \notin Cleared(c)
                    /\ ~(job[c].op \in {"add", "create", "choose", "unset", "delete"} /\ p = job[c].persona)
<1> DEFINE own == p = job[c].persona
           op  == job[c].op
<1>1. persona' = PersonasAfter(c)
  BY DEF Commit
<1>2. own /\ op \in {"create", "choose"} => persona'[p] = "default"
  BY <1>1 DEF PersonasAfter
<1>3. own /\ op \in {"add", "unset"} => persona'[p] = "plain"
  BY <1>1 DEF PersonasAfter
<1>4. own /\ op = "delete" => persona'[p] = Absent
  BY <1>1 DEF PersonasAfter
<1>5. ~(own /\ op \in {"add", "create", "choose", "unset", "delete"}) =>
         persona'[p] = IF p \in Cleared(c) THEN "plain" ELSE persona[p]
  BY <1>1 DEF PersonasAfter
<1>6. p \in Cleared(c) => persona[p] # Absent
  BY DEF Cleared, LockInv
<1>7. /\ op \in {"choose", "unset", "delete"} => persona[job[c].persona] # Absent
      /\ op \in {"add", "create"} => job[c].persona = c
  BY CommitFinds
<1>8. "default" # Absent /\ "plain" # Absent
  BY DEF Absent
<1> QED
  BY <1>2, <1>3, <1>4, <1>5, <1>6, <1>7, <1>8

\* What a commit makes of each conversation.
LEMMA CommitRooms ==
    ASSUME TypeOK, NEW c \in Calls, Commit(c), NEW r \in Rooms
    PROVE  room'[r] =
             IF job[c].op \in {"link", "open"} /\ r = job[c].room THEN job[c].persona
             ELSE IF job[c].op = "delete" /\ room[r] = job[c].persona THEN None
             ELSE room[r]
  BY DEF Commit, RoomsAfter

\* Nothing but a commit changes what is stored.
LEMMA OnlyCommits ==
    ASSUME NEW c \in Calls,
           \/ Began(c) \/ Took(c) \/ Skipped(c) \/ Failed(c)
           \/ ClearOthers(c) \/ UnsetDefault(c) \/ DeletePersona(c)
           \/ Validated(c) \/ FlushReference(c)
    PROVE  UNCHANGED <<persona, room, chosen>>
  BY DEF Began, CreatePersona, OpenPersona, OpenRoom, CreateRoom, Begin, Took, Skipped,
         Failed, Rollback, ClearOthers, UnsetDefault, DeletePersona, Validated,
         FlushReference, Proceed

-----------------------------------------------------------------------------
(* The row locks                                                           *)

\* What a step does to the locks: take one that excludes no other, or release.
LEMMA LockChange ==
    ASSUME TypeOK, NEW c \in Calls,
           \/ Began(c) \/ Took(c) \/ Skipped(c) \/ Failed(c)
           \/ ClearOthers(c) \/ UnsetDefault(c) \/ DeletePersona(c)
           \/ Validated(c) \/ FlushReference(c) \/ Commit(c)
    PROVE  \/ held' = held
           \/ held' = {h \in held : h[1] # c} /\ (Failed(c) \/ Commit(c))
           \/ Took(c)
  BY DEF Began, CreatePersona, OpenPersona, OpenRoom, CreateRoom, Begin, Took, Skipped,
         Failed, Rollback, End, ClearOthers, UnsetDefault, DeletePersona, Validated,
         FlushReference, Proceed, Commit

\* Locks exclude each other, and what is locked is there.
LEMMA LockStep ==
    ASSUME TypeOK, PlaceInv, LockInv, [Next]_vars
    PROVE  LockInv'
<1>1. CASE UNCHANGED vars
  BY <1>1 DEF vars, LockInv, Active
<1>2. ASSUME NEW c \in Calls,
             \/ Began(c) \/ Took(c) \/ Skipped(c) \/ Failed(c)
             \/ ClearOthers(c) \/ UnsetDefault(c) \/ DeletePersona(c)
             \/ Validated(c) \/ FlushReference(c) \/ Commit(c)
      PROVE  LockInv'
  <2>1. CASE Took(c)
    <3> DEFINE row == Head(queue[c])[1]
               mode == Head(queue[c])[2]
    <3>1. /\ held' = held \cup {<<c, row, mode>>} /\ persona' = persona
          /\ pc' = pc /\ job' = job /\ Active' = Active
          /\ queue[c] # <<>>
          /\ row \in Ids => persona[row] # Absent
      BY <2>1 DEF Took, Gone, Active
    <3>2. \A g \in held : g[1] # c /\ g[2] = row => ~Conflict(g[3], mode)
      BY <2>1, <3>1 DEF Took, WaitsFor
    <3>3. c \in Active /\ Place(c)
      BY <3>1 DEF Active, PlaceInv, Place
    <3>4. Head(queue[c]) \in Range(queue[c]) /\ Head(queue[c]) = <<row, mode>>
      BY <3>1, HeadAndTail DEF TypeOK, Locks
    <3>5. row \in Ids /\ mode = "nokey" => pc[c] = "writing" /\ job[c].op \in {"create", "choose"}
      <4>1. pc[c] \in {"opening", "validated", "writing", "detaching", "flushing"}
        BY <3>3 DEF TypeOK, Places, Active
      <4> QED
        BY <3>1, <3>3, <3>4, <4>1, NamesAreDistinct, SmallQueues DEF Place
    <3>6. \A g, h \in held' : g[1] # h[1] /\ g[2] = h[2] => ~Conflict(g[3], h[3])
      BY <3>1, <3>2 DEF LockInv, Conflict
    <3> QED
      BY <3>1, <3>3, <3>5, <3>6 DEF LockInv
  <2>2. CASE held' \subseteq held
    <3>1. \A g, h \in held' : g[1] # h[1] /\ g[2] = h[2] => ~Conflict(g[3], h[3])
      BY <2>2 DEF LockInv
    <3> SUFFICES ASSUME NEW h \in held'
                 PROVE  /\ h[1] \in Active'
                        /\ h[2] \in Ids => persona'[h[2]] # Absent
                        /\ h[2] \in Ids /\ h[3] = "nokey" =>
                              pc'[h[1]] = "writing" /\ job'[h[1]].op \in {"create", "choose"}
      BY <3>1 DEF LockInv
    <3>2. /\ h[1] \in Active /\ h[1] \in Calls
          /\ h[2] \in Ids => persona[h[2]] # Absent
          /\ h[2] \in Ids /\ h[3] = "nokey" =>
                pc[h[1]] = "writing" /\ job[h[1]].op \in {"create", "choose"}
      BY <2>2 DEF LockInv, TypeOK
    <3>3. CASE h[1] # c
      <4>1. pc'[h[1]] = pc[h[1]] /\ job'[h[1]] = job[h[1]] /\ h[1] \in Active'
        BY <1>2, <3>2, <3>3, OthersUntouched
      <4>2. h[2] \in Ids => persona'[h[2]] # Absent
        <5>1. CASE Commit(c)
          <6>1. job[c].op = "delete" => <<c, job[c].persona, "update">> \in held
            BY <5>1, CommitFinds DEF Holds
          <6>2. ~(job[c].op = "delete" /\ h[2] = job[c].persona)
            BY <2>2, <3>3, <6>1 DEF LockInv, Conflict
          <6> QED
            BY <3>2, <5>1, <6>2, CommitPersonas
        <5>2. CASE ~Commit(c)
          BY <1>2, <3>2, <5>2, OnlyCommits
        <5> QED
          BY <5>1, <5>2
      <4> QED
        BY <3>2, <4>1, <4>2
    <3>4. CASE h[1] = c
      <4>1. ~Failed(c) /\ ~Commit(c)
        <5>1. Failed(c) \/ Commit(c) => \E how : End(c, how)
          BY DEF Failed, Rollback, Commit
        <5> QED
          BY <3>4, <5>1 DEF End
      <4>2. ~Began(c)
        BY <3>2, <3>4, BeganPlace DEF Active
      <4>3. persona' = persona /\ job' = job
        BY <1>2, <4>1, <4>2 DEF Took, Skipped, ClearOthers, UnsetDefault, DeletePersona,
           Validated, FlushReference, Proceed
      <4>4. c \in Active' /\ (pc[c] = "writing" => pc'[c] = "writing")
        <5>1. CASE Took(c) \/ Skipped(c)
          BY <3>2, <3>4, <5>1 DEF Took, Skipped, Active
        <5>2. CASE ~Took(c) /\ ~Skipped(c)
          <6>1. /\ pc[c] \in {"opening", "validated"}
                /\ pc' \in {[pc EXCEPT ![c] = at] : at \in {"writing", "detaching", "validated", "flushing"}}
            BY <1>2, <4>1, <4>2, <5>2 DEF ClearOthers, UnsetDefault, DeletePersona,
               Validated, FlushReference, At, Proceed
          <6> QED
            BY <6>1 DEF Active, TypeOK
        <5> QED
          BY <5>1, <5>2
      <4> QED
        BY <3>2, <3>4, <4>3, <4>4
    <3> QED
      BY <3>3, <3>4
  <2> QED
    BY <1>2, <2>1, <2>2, LockChange
<1> QED
  BY <1>1, <1>2, StepKinds

-----------------------------------------------------------------------------
(* References                                                              *)

\* The row of a request appears with its commit, and a request that is done
\* stays done.
LEMMA CreatedStep ==
    ASSUME TypeOK, PlaceInv, LockInv, CreatedInv, [Next]_vars
    PROVE  CreatedInv'
<1> SUFFICES ASSUME NEW d \in Calls, persona'[d] # Absent PROVE pc'[d] = "done"
  BY DEF CreatedInv
<1>1. CASE UNCHANGED vars
  BY <1>1 DEF vars, CreatedInv
<1>2. ASSUME NEW c \in Calls,
             \/ Began(c) \/ Took(c) \/ Skipped(c) \/ Failed(c)
             \/ ClearOthers(c) \/ UnsetDefault(c) \/ DeletePersona(c)
             \/ Validated(c) \/ FlushReference(c) \/ Commit(c)
      PROVE  pc'[d] = "done"
  <2>1. CASE d = c /\ Commit(c)
    BY <2>1, CommitFinds, Ended
  <2>2. CASE d # c
    <3>1. persona[d] # Absent
      BY <1>2, <2>2, OnlyCommits, CommitPersonas DEF Ids
    <3> QED
      BY <1>2, <2>2, <3>1, OthersUntouched DEF CreatedInv
  <2>3. CASE d = c /\ ~Commit(c)
    <3>1. pc[c] = "done"
      BY <1>2, <2>3, OnlyCommits DEF CreatedInv
    <3>2. c \notin Active /\ queue[c] = <<>>
      BY <3>1 DEF Active, PlaceInv, Place
    <3> QED
      BY <1>2, <2>3, <3>1, <3>2, BeganPlace DEF Took, Skipped, Failed, ClearOthers,
         UnsetDefault, DeletePersona, Validated, FlushReference, At
  <2> QED
    BY <1>2, <2>1, <2>2, <2>3
<1> QED
  BY <1>1, <1>2, StepKinds

\* What a call was asked to do never changes; it is forgotten at its end.
LEMMA JobChange ==
    ASSUME TypeOK, NEW c \in Calls, NEW d \in Calls,
           \/ Began(c) \/ Took(c) \/ Skipped(c) \/ Failed(c)
           \/ ClearOthers(c) \/ UnsetDefault(c) \/ DeletePersona(c)
           \/ Validated(c) \/ FlushReference(c) \/ Commit(c)
    PROVE  job'[d] \in {job[d], NoJob} \/ (Began(c) /\ d = c)
<1>1. CASE d # c
  BY <1>1, OthersUntouched
<1>2. CASE d = c /\ (Failed(c) \/ Commit(c))
  BY <1>2, Ended DEF Failed, Rollback, Commit
<1>3. CASE ~Failed(c) /\ ~Commit(c) /\ ~Began(c)
  BY <1>3 DEF Took, Skipped, ClearOthers, UnsetDefault, DeletePersona,
     Validated, FlushReference, Proceed
<1> QED
  BY <1>1, <1>2, <1>3

\* A conversation that exists is linked, one that does not is created, and by
\* one request only.
LEMMA RoomStep ==
    ASSUME TypeOK, PlaceInv, LockInv, RoomInv, [Next]_vars
    PROVE  RoomInv'
<1> USE NamesAreDistinct
<1>1. CASE UNCHANGED vars
  BY <1>1 DEF vars, RoomInv
<1>2. ASSUME NEW c \in Calls,
             \/ Began(c) \/ Took(c) \/ Skipped(c) \/ Failed(c)
             \/ ClearOthers(c) \/ UnsetDefault(c) \/ DeletePersona(c)
             \/ Validated(c) \/ FlushReference(c) \/ Commit(c)
      PROVE  RoomInv'
  <2>1. CASE Began(c)
    <3>1. room' = room
      BY <2>1, OnlyCommits
    <3>2. CASE OpenRoom(c) \/ CreateRoom(c)
      <4>1. PICK op \in {"link", "open"}, r \in Rooms, p \in Ids \cup {None}, locks \in Seq(Locks) :
              /\ Begin(c, op, p, r, "opening", locks)
              /\ op = "link" => room[r] # Absent
              /\ op = "open" => /\ room[r] = Absent
                                /\ \A d \in Active : ~(job[d].op = "open" /\ job[d].room = r)
        BY <3>2, LockTypes DEF OpenRoom, CreateRoom, Live
      <4>2. job' = [job EXCEPT ![c] = [op |-> op, persona |-> p, room |-> r]]
        BY <4>1 DEF Begin
      <4>3. job'[c].op = op /\ job'[c].room = r
        BY <4>2 DEF TypeOK
      <4>4. \A d \in Calls : job[d].op = "open" => d \in Active
        BY DEF PlaceInv, Place, NoJob, Active
      <4>5. \A d \in Calls \ {c} : job'[d] = job[d]
        BY <4>2 DEF TypeOK
      <4>6. op = "open" => room[r] = Absent /\ \A d \in Calls : ~(job[d].op = "open" /\ job[d].room = r)
        BY <4>1, <4>4
      <4> QED
        BY <3>1, <4>1, <4>3, <4>5, <4>6 DEF RoomInv
    <3>3. CASE CreatePersona(c) \/ OpenPersona(c)
      <4>1. job'[c].op \notin {"link", "open"}
        BY <3>3 DEF CreatePersona, OpenPersona, Begin, TypeOK
      <4>2. \A d \in Calls \ {c} : job'[d] = job[d]
        BY <2>1, OthersUntouched
      <4> QED
        BY <3>1, <4>1, <4>2 DEF RoomInv
    <3> QED
      BY <2>1, <3>2, <3>3 DEF Began
  <2>2. CASE ~Began(c)
    <3>1. \A d \in Calls : job'[d] = job[d] \/ job'[d].op = "none"
      BY <1>2, <2>2, JobChange DEF NoJob
    <3>2. CASE ~Commit(c)
      <4>1. room' = room
        BY <1>2, <3>2, OnlyCommits
      <4> QED
        BY <3>1, <4>1 DEF RoomInv
    <3>3. CASE Commit(c)
      <4>1. job'[c].op = "none"
        BY <3>3, CommitFinds, Ended DEF NoJob
      <4>2. ASSUME NEW d \in Calls, job'[d].op = "link" PROVE room'[job'[d].room] # Absent
        <5>1. job'[d] = job[d] /\ job[d].room \in Rooms
          BY <3>1, <4>2 DEF PlaceInv, Place
        <5>2. room[job[d].room] # Absent
          BY <4>2, <5>1 DEF RoomInv
        <5>3. job[c].persona \in Ids \cup {None}
          BY DEF TypeOK
        <5> QED
          BY <3>3, <5>1, <5>2, <5>3, CommitRooms
      <4>3. ASSUME NEW d \in Calls, job'[d].op = "open" PROVE room'[job'[d].room] = Absent
        <5>1. d # c /\ job'[d] = job[d] /\ job[d].room \in Rooms
          BY <3>1, <4>1, <4>3 DEF PlaceInv, Place
        <5>2. room[job[d].room] = Absent
          BY <4>3, <5>1 DEF RoomInv
        <5>3. ~(job[c].op \in {"link", "open"} /\ job[c].room = job[d].room)
          BY <4>3, <5>1, <5>2 DEF RoomInv
        <5>4. job[c].op = "delete" => job[c].persona \in Ids
          BY DEF PlaceInv, Place
        <5> QED
          BY <3>3, <5>1, <5>2, <5>3, <5>4, CommitRooms
      <4>4. ASSUME NEW d \in Calls, job'[d].op = "open", NEW e \in Calls, job'[e].op = "open",
                   job'[e].room = job'[d].room
            PROVE  e = d
        BY <3>1, <4>4 DEF RoomInv
      <4> QED
        BY <4>2, <4>3, <4>4 DEF RoomInv
    <3> QED
      BY <3>2, <3>3
  <2> QED
    BY <2>1, <2>2
<1> QED
  BY <1>1, <1>2, StepKinds

\* Two calls do not hold one row when one of them holds it for update, nor
\* when both update columns of it.
LEMMA Exclusion ==
    ASSUME LockInv, NEW c, NEW d, c # d, NEW row
    PROVE  /\ \A mode : ~(Holds(c, row, "update") /\ Holds(d, row, mode))
           /\ ~(Holds(c, row, "nokey") /\ Holds(d, row, "nokey"))
  BY DEF LockInv, Holds, Conflict

\* A conversation that a commit makes refer to a persona it did not refer to
\* before is the committing call's, which holds the persona.
LEMMA NewReference ==
    ASSUME TypeOK, PlaceInv, LockInv, RoomInv, ReferenceInv, NEW c \in Calls, Commit(c),
           NEW r \in Rooms, room'[r] # room[r], room'[r] \in Ids
    PROVE  Holds(c, room'[r], "keyshare")
<1>1. /\ job[c].op \in {"link", "open"} /\ r = job[c].room /\ room'[r] = job[c].persona
  BY CommitRooms, NamesAreDistinct
<1>2. pc[c] = "flushing" /\ queue[c] = <<>>
  BY <1>1, CommitFinds
<1>3. Range(queue[c]) = {}
  BY <1>2, SmallQueues
<1> QED
  BY <1>1, <1>2, <1>3, NamesAreDistinct DEF ReferenceInv, Reaches, Checked, Waiting

\* Which queue a statement has begun.
LEMMA StatementBegins ==
    ASSUME TypeOK, NEW c \in Calls, DeletePersona(c) \/ FlushReference(c)
    PROVE  /\ DeletePersona(c) =>
                 \A r \in Rooms : room[r] = job[c].persona => Waiting(c, r, "nokey")'
           /\ FlushReference(c) =>
                 \/ job[c].persona \in {None, room[job[c].room]}
                 \/ Waiting(c, job[c].persona, "keyshare")'
<1>1. CASE DeletePersona(c)
  <2> DEFINE S == {r \in Rooms : room[r] = job[c].persona}
  <2>1. PICK locks \in Requests(S, "nokey") : queue'[c] = locks
    BY <1>1 DEF DeletePersona, Proceed, TypeOK
  <2>2. Range(queue'[c]) = S \X {"nokey"}
    BY <2>1, LockTypes
  <2>3. pc'[c] = "detaching" /\ pc[c] = "opening"
    BY <1>1 DEF DeletePersona, Proceed, At, TypeOK
  <2>4. ~FlushReference(c)
    BY <2>3 DEF FlushReference, At
  <2> QED
    BY <2>2, <2>4 DEF Waiting
<1>2. CASE FlushReference(c)
  <2>1. pc[c] = "validated"
    BY <1>2 DEF FlushReference, At
  <2>2. ~DeletePersona(c)
    BY <2>1 DEF DeletePersona, At
  <2>3. \/ job[c].persona \in {None, room[job[c].room]}
        \/ queue'[c] = << <<job[c].persona, "keyshare">> >>
    BY <1>2 DEF FlushReference, Proceed, TypeOK
  <2>4. job' = job
    BY <1>2 DEF FlushReference, Proceed
  <2> QED
    BY <2>2, <2>3, <2>4, SmallQueues DEF Waiting
<1> QED
  BY <1>1, <1>2

\* While a statement takes its rows, one that it waited for and that is not
\* gone is held afterwards, or waited for still.
LEMMA RowTaken ==
    ASSUME TypeOK, NEW c \in Calls, Took(c) \/ Skipped(c), NEW row, NEW mode,
           Waiting(c, row, mode), Skipped(c) => ~Gone(c, row)
    PROVE  Holds(c, row, mode)' \/ Waiting(c, row, mode)'
<1>1. queue[c] # <<>> /\ queue'[c] = Tail(queue[c])
  BY DEF Took, Skipped, TypeOK
<1>2. Range(queue[c]) = {Head(queue[c])} \cup Range(Tail(queue[c]))
  BY <1>1, HeadAndTail DEF TypeOK
<1>3. CASE Head(queue[c]) = <<row, mode>>
  <2>1. Took(c)
    BY <1>3 DEF Skipped
  <2> QED
    BY <1>3, <2>1 DEF Took, Holds
<1>4. CASE Head(queue[c]) # <<row, mode>>
  BY <1>1, <1>2, <1>4 DEF Waiting
<1> QED
  BY <1>3, <1>4

\* The reference of a flush, and those that a deletion has to clear.
LEMMA ReferenceStep ==
    ASSUME TypeOK, PlaceInv, LockInv, RoomInv, ReferenceInv, [Next]_vars
    PROVE  ReferenceInv'
<1> USE NamesAreDistinct
<1>1. CASE UNCHANGED vars
  BY <1>1 DEF vars, ReferenceInv, Reaches, Checked, Holds, Waiting
<1>2. ASSUME NEW c \in Calls,
             \/ Began(c) \/ Took(c) \/ Skipped(c) \/ Failed(c)
             \/ ClearOthers(c) \/ UnsetDefault(c) \/ DeletePersona(c)
             \/ Validated(c) \/ FlushReference(c) \/ Commit(c)
      PROVE  ReferenceInv'
  <2>1. ASSUME NEW d \in Calls, pc'[d] = "detaching", NEW r \in Rooms, room'[r] = job'[d].persona
        PROVE  (Holds(d, r, "nokey") \/ Waiting(d, r, "nokey"))'
    <3>1. CASE d # c
      <4>1. /\ pc[d] = "detaching" /\ job'[d] = job[d] /\ queue'[d] = queue[d]
            /\ Holds(d, r, "nokey")' <=> Holds(d, r, "nokey")
        BY <1>2, <2>1, <3>1, OthersUntouched
      <4>2. job[d].persona \in Ids /\ Holds(d, job[d].persona, "update")
        BY <4>1 DEF PlaceInv, Place, OwnRow
      <4>3. room[r] = job[d].persona
        <5>1. CASE Commit(c)
          <6> SUFFICES ASSUME room'[r] # room[r] PROVE FALSE
            BY <2>1, <4>1
          <6>1. Holds(c, job[d].persona, "keyshare")
            BY <2>1, <4>1, <4>2, <5>1, NewReference
          <6> QED
            BY <3>1, <4>2, <6>1, Exclusion
        <5>2. CASE ~Commit(c)
          BY <1>2, <2>1, <4>1, <5>2, OnlyCommits
        <5> QED
          BY <5>1, <5>2
      <4> QED
        BY <4>1, <4>3 DEF ReferenceInv, Reaches, Checked, Waiting
    <3>2. CASE d = c /\ DeletePersona(c)
      BY <2>1, <3>2, StatementBegins DEF DeletePersona, Proceed
    <3>3. CASE d = c /\ (Took(c) \/ Skipped(c))
      <4>1. pc[c] = "detaching" /\ room[r] = job[c].persona /\ job[c].persona \in Ids
        BY <2>1, <3>3 DEF Took, Skipped, PlaceInv, Place
      <4>2. Holds(c, r, "nokey") => Holds(c, r, "nokey")'
        BY <3>3 DEF Took, Skipped, Holds
      <4>3. ~Gone(c, r)
        BY <4>1 DEF Gone
      <4> QED
        BY <3>3, <4>1, <4>2, <4>3, RowTaken DEF ReferenceInv, Reaches, Checked
    <3>4. CASE d = c /\ ~DeletePersona(c) /\ ~Took(c) /\ ~Skipped(c)
      <4>1. pc'[c] # "detaching"
        <5>1. CASE Began(c)
          BY <5>1 DEF Began, CreatePersona, OpenPersona, OpenRoom, CreateRoom, Begin, TypeOK
        <5>2. CASE Failed(c) \/ Commit(c)
          BY <5>2, Ended DEF Failed, Rollback, Commit
        <5>3. CASE ClearOthers(c) \/ UnsetDefault(c) \/ Validated(c) \/ FlushReference(c)
          BY <5>3 DEF ClearOthers, UnsetDefault, Validated, FlushReference, Proceed, TypeOK
        <5> QED
          BY <1>2, <3>4, <5>1, <5>2, <5>3
      <4> QED
        BY <2>1, <3>4, <4>1
    <3> QED
      BY <3>1, <3>2, <3>3, <3>4
  <2>2. ASSUME NEW d \in Calls, pc'[d] = "flushing"
        PROVE  Checked(d)'
    <3>1. CASE d # c
      <4>1. /\ pc[d] = "flushing" /\ job'[d] = job[d] /\ queue'[d] = queue[d]
            /\ \A row, mode : Holds(d, row, mode)' <=> Holds(d, row, mode)
        BY <1>2, <2>2, <3>1, OthersUntouched
      <4>2. CASE \/ job[d].persona = None
                 \/ Holds(d, job[d].persona, "keyshare") \/ Waiting(d, job[d].persona, "keyshare")
        BY <4>1, <4>2 DEF Checked, Waiting
      <4>3. CASE /\ job[d].op = "link" /\ room[job[d].room] = job[d].persona
                 /\ job[d].persona # None
        <5>1. job[d].room \in Rooms /\ Holds(d, job[d].room, "update")
          BY <4>1, <4>3 DEF PlaceInv, Place, OwnRow
        <5>2. job[d].persona \in Ids
          BY <4>3 DEF TypeOK
        <5>3. room'[job[d].room] = room[job[d].room]
          <6>1. CASE Commit(c)
            <7>1. ~(job[c].op \in {"link", "open"} /\ job[d].room = job[c].room)
              <8>1. job[c].op = "link" => Holds(c, job[c].room, "update")
                BY <6>1, CommitFinds DEF OwnRow
              <8>2. job[c].op = "open" => room[job[c].room] = Absent
                BY DEF RoomInv
              <8> QED
                BY <3>1, <4>3, <5>1, <5>2, <8>1, <8>2, Exclusion
            <7>2. ~(job[c].op = "delete" /\ room[job[d].room] = job[c].persona)
              <8> SUFFICES ASSUME job[c].op = "delete", room[job[d].room] = job[c].persona
                           PROVE  FALSE
                OBVIOUS
              <8>1. pc[c] = "detaching" /\ Range(queue[c]) = {}
                BY <6>1, CommitFinds, SmallQueues
              <8>2. Holds(c, job[d].room, "nokey")
                BY <5>1, <8>1 DEF ReferenceInv, Reaches, Checked, Waiting
              <8> QED
                BY <3>1, <5>1, <8>2, Exclusion
            <7> QED
              BY <5>1, <6>1, <7>1, <7>2, CommitRooms
          <6>2. CASE ~Commit(c)
            BY <1>2, <6>2, OnlyCommits
          <6> QED
            BY <6>1, <6>2
        <5> QED
          BY <4>1, <4>3, <5>3 DEF Checked
      <4> QED
        BY <4>1, <4>2, <4>3 DEF ReferenceInv, Reaches, Checked
    <3>2. CASE d = c /\ FlushReference(c)
      <4>1. job' = job /\ room' = room /\ job[c].op \in {"link", "open"}
        BY <3>2 DEF FlushReference, Proceed, At
      <4>2. job[c].op = "open" => room[job[c].room] = Absent
        BY DEF RoomInv
      <4>3. job[c].persona # Absent
        BY DEF TypeOK
      <4>4. \/ job[c].persona \in {None, room[job[c].room]}
            \/ Waiting(c, job[c].persona, "keyshare")'
        BY <3>2, StatementBegins
      <4> QED
        BY <3>2, <4>1, <4>2, <4>3, <4>4 DEF Checked
    <3>3. CASE d = c /\ (Took(c) \/ Skipped(c))
      <4>1. pc[c] = "flushing" /\ job' = job /\ room' = room /\ Took(c)
        BY <2>2, <3>3 DEF Took, Skipped
      <4>2. Waiting(c, job[c].persona, "keyshare") =>
              Holds(c, job[c].persona, "keyshare")' \/ Waiting(c, job[c].persona, "keyshare")'
        <5>1. ~Skipped(c)
          BY <4>1 DEF Skipped
        <5> QED
          BY <4>1, <5>1, RowTaken
      <4>3. Holds(c, job[c].persona, "keyshare") => Holds(c, job[c].persona, "keyshare")'
        BY <4>1 DEF Took, Holds
      <4> QED
        BY <3>3, <4>1, <4>2, <4>3 DEF ReferenceInv, Reaches, Checked
    <3>4. CASE d = c /\ ~FlushReference(c) /\ ~Took(c) /\ ~Skipped(c)
      <4>1. pc'[c] # "flushing"
        <5>1. CASE Began(c)
          BY <5>1 DEF Began, CreatePersona, OpenPersona, OpenRoom, CreateRoom, Begin, TypeOK
        <5>2. CASE Failed(c) \/ Commit(c)
          BY <5>2, Ended DEF Failed, Rollback, Commit
        <5>3. CASE ClearOthers(c) \/ UnsetDefault(c) \/ Validated(c) \/ DeletePersona(c)
          BY <5>3 DEF ClearOthers, UnsetDefault, Validated, DeletePersona, Proceed, TypeOK
        <5> QED
          BY <1>2, <3>4, <5>1, <5>2, <5>3
      <4> QED
        BY <2>2, <3>4, <4>1
    <3> QED
      BY <3>1, <3>2, <3>3, <3>4
  <2> QED
    BY <2>1, <2>2 DEF ReferenceInv, Reaches, Checked
<1> QED
  BY <1>1, <1>2, StepKinds

\* A persona that a conversation refers to stays until the reference is gone.
LEMMA StandStep ==
    ASSUME TypeOK, StandInv, [Next]_vars
    PROVE  ReferencesStand'
<1> USE NamesAreDistinct DEF StandInv
<1>1. CASE UNCHANGED vars
  BY <1>1 DEF vars, ReferencesStand, Live
<1>2. ASSUME NEW c \in Calls,
             \/ Began(c) \/ Took(c) \/ Skipped(c) \/ Failed(c)
             \/ ClearOthers(c) \/ UnsetDefault(c) \/ DeletePersona(c)
             \/ Validated(c) \/ FlushReference(c) \/ Commit(c)
      PROVE  ReferencesStand'
  <2>1. CASE ~Commit(c)
    BY <1>2, <2>1, OnlyCommits DEF ReferencesStand, Live
  <2>2. CASE Commit(c)
    <3> SUFFICES ASSUME NEW r \in Rooms, room'[r] \in Ids PROVE persona'[room'[r]] # Absent
      <4>1. \A r \in Rooms : room'[r] \in Ids \cup {None, Absent}
        <5>1. \A r \in Rooms : room[r] \in Ids \cup {None, Absent}
          BY DEF TypeOK
        <5>2. job[c].persona \in Ids \cup {None}
          BY DEF TypeOK
        <5> QED
          BY <2>2, <5>1, <5>2, CommitRooms
      <4> QED
        BY <4>1 DEF ReferencesStand, Live
    <3>1. persona[room'[r]] # Absent
      <4>1. CASE room'[r] = room[r]
        BY <4>1 DEF ReferencesStand, Live
      <4>2. CASE room'[r] # room[r]
        <5>1. Holds(c, room'[r], "keyshare")
          BY <2>2, <4>2, NewReference
        <5> QED
          BY <5>1 DEF LockInv, Holds
      <4> QED
        BY <4>1, <4>2
    <3>2. ~(job[c].op = "delete" /\ room'[r] = job[c].persona)
      BY <2>2, CommitRooms
    <3> QED
      BY <2>2, <3>1, <3>2, CommitPersonas
  <2> QED
    BY <2>1, <2>2
<1> QED
  BY <1>1, <1>2, StepKinds

\* Locks, places and references are sound in every reachable state.
THEOREM StandSound == Spec => [](TypeOK /\ StandInv)
<1>1. Init => TypeOK
  <2> SUFFICES ASSUME Init PROVE TypeOK
    OBVIOUS
  <2>1. NoJob \in [op: Ops, persona: Ids \cup {None}, room: Rooms \cup {None}]
    BY DEF NoJob, Ops
  <2>2. Defaults # {} => (CHOOSE p \in Defaults : TRUE) \in Ids
    BY DEF Defaults
  <2>3. chosen \in Ids \cup {None} /\ held = {}
    BY <2>2 DEF Init
  <2>4. room \in [Rooms -> Ids \cup {None, Absent}]
    BY DEF Init, Live
  <2>5. queue \in [Calls -> Seq(Locks)] /\ pc \in [Calls -> Places]
    BY DEF Init, Places
  <2> QED
    BY <2>1, <2>3, <2>4, <2>5 DEF Init, TypeOK
<1>2. Init => StandInv
  <2> SUFFICES ASSUME Init PROVE StandInv
    OBVIOUS
  <2>1. \A c \in Calls : pc[c] = "idle" /\ queue[c] = <<>> /\ job[c] = NoJob /\ job[c].op = "none"
    BY DEF Init, NoJob
  <2>2. held = {} /\ ReferencesStand /\ CreatedInv
    BY DEF Init, ReferencesStand, CreatedInv
  <2> QED
    BY <2>1, <2>2 DEF StandInv, LockInv, PlaceInv, Place, RoomInv, ReferenceInv, Reaches, Checked
<1>3. TypeOK /\ StandInv /\ [Next]_vars => TypeOK' /\ StandInv'
  BY TypeStep, PlaceStep, LockStep, CreatedStep, RoomStep, ReferenceStep, StandStep DEF StandInv
<1> QED
  BY <1>1, <1>2, <1>3, PTL DEF Spec

\* The personas, conversations and row locks keep their types.
THEOREM TypeCorrect == Spec => []TypeOK
  BY StandSound, PTL

\* No conversation ever refers to a persona that is gone, whatever deletions,
\* links and validations in transactions of their own overlap.
THEOREM References == Spec => []ReferencesStand
<1>1. StandInv => ReferencesStand
  BY DEF StandInv
<1> QED
  BY <1>1, StandSound, PTL

-----------------------------------------------------------------------------
(* Choices                                                                 *)

\* What a step does to the record of the creates that ran beside a call.
LEMMA CrossedChange ==
    ASSUME TypeOK, PlaceInv, NEW c \in Calls,
           \/ Began(c) \/ Took(c) \/ Skipped(c) \/ Failed(c)
           \/ ClearOthers(c) \/ UnsetDefault(c) \/ DeletePersona(c)
           \/ Validated(c) \/ FlushReference(c) \/ Commit(c)
    PROVE  /\ \A d \in Calls \ {c} : (d \in Creating' <=> d \in Creating) /\ (d \in Active' <=> d \in Active)
           /\ \/ /\ c \notin Active /\ c \in Active' /\ Began(c)
                 /\ crossed' = crossed \cup (IF c \in Creating' THEN Active ELSE {})
                                       \cup (IF Creating # {} THEN {c} ELSE {})
                 /\ raced' = (raced \/ (c \in Creating' /\ Creating # {}))
              \/ /\ c \in Active /\ c \notin Active' /\ c \notin Creating'
                 /\ crossed' = crossed \ {c}
                 /\ \/ Failed(c) /\ raced' = raced
                    \/ Commit(c) /\ raced' = (raced /\ ~(job[c].op \in {"create", "choose"} /\ c \notin crossed))
              \/ /\ c \in Active /\ c \in Active' /\ (c \in Creating' <=> c \in Creating)
                 /\ crossed' = crossed /\ raced' = raced
                 /\ ~Began(c) /\ ~Failed(c) /\ ~Commit(c)
<1>1. \A d \in Calls \ {c} : (d \in Creating' <=> d \in Creating) /\ (d \in Active' <=> d \in Active)
  BY OthersUntouched DEF Creating
<1>2. CASE Began(c)
  <2>1. PICK op, p, r, at, locks : Begin(c, op, p, r, at, locks)
    BY <1>2 DEF Began, CreatePersona, OpenPersona, OpenRoom, CreateRoom
  <2>2. c \notin Active /\ c \in Active'
    BY <1>2, BeganPlace DEF Active
  <2>3. job'[c].op = op
    BY <2>1 DEF Begin, TypeOK
  <2>4. c \in Creating' <=> op \in {"add", "create"}
    BY <2>2, <2>3 DEF Creating
  <2> QED
    BY <1>1, <1>2, <2>1, <2>2, <2>4 DEF Begin
<1>3. CASE Failed(c) \/ Commit(c)
  <2>1. PICK how \in {"done", "failed"} : End(c, how)
    BY <1>3 DEF Failed, Rollback, Commit
  <2>2. c \notin Active' /\ c \notin Creating'
    BY <2>1, Ended DEF Creating
  <2>3. c \in Active
    BY <1>3 DEF Failed, Commit, Active
  <2>4. crossed' = crossed \ {c}
    BY <2>1 DEF End
  <2>5. \/ Failed(c) /\ raced' = raced
        \/ Commit(c) /\ raced' = (raced /\ ~(job[c].op \in {"create", "choose"} /\ c \notin crossed))
    BY <1>3 DEF Failed, Rollback, Commit
  <2> QED
    BY <1>1, <2>2, <2>3, <2>4, <2>5
<1>4. CASE ~Began(c) /\ ~Failed(c) /\ ~Commit(c)
  <2>1. UNCHANGED <<job, crossed, raced>>
    BY <1>4 DEF Took, Skipped, ClearOthers, UnsetDefault, DeletePersona,
       Validated, FlushReference, Proceed
  <2>2. c \in Active /\ c \in Active'
    <3>1. CASE Took(c) \/ Skipped(c)
      BY <3>1 DEF Took, Skipped, Active, PlaceInv, Place
    <3>2. CASE ~Took(c) /\ ~Skipped(c)
      BY <1>4, <3>2 DEF ClearOthers, UnsetDefault, DeletePersona, Validated, FlushReference,
         At, Proceed, Active, TypeOK
    <3> QED
      BY <3>1, <3>2
  <2> QED
    BY <1>1, <1>4, <2>1, <2>2 DEF Creating
<1> QED
  BY <1>2, <1>3, <1>4

\* The record of the creates that ran beside a call is kept up.
LEMMA CrossedStep ==
    ASSUME TypeOK, PlaceInv, CrossedInv, [Next]_vars
    PROVE  CrossedInv'
<1>1. CASE UNCHANGED vars
  BY <1>1 DEF vars, CrossedInv, Creating, Active
<1>2. ASSUME NEW x \in Calls,
             \/ Began(x) \/ Took(x) \/ Skipped(x) \/ Failed(x)
             \/ ClearOthers(x) \/ UnsetDefault(x) \/ DeletePersona(x)
             \/ Validated(x) \/ FlushReference(x) \/ Commit(x)
      PROVE  CrossedInv'
  <2>1. Creating \subseteq Active /\ Creating' \subseteq Active' /\ Active \subseteq Calls
    BY DEF Creating, Active
  <2>2. \A d \in Calls \ {x} : (d \in Creating' <=> d \in Creating) /\ (d \in Active' <=> d \in Active)
    BY <1>2, CrossedChange
  <2>3. CASE /\ x \notin Active /\ x \in Active'
             /\ crossed' = crossed \cup (IF x \in Creating' THEN Active ELSE {})
                                   \cup (IF Creating # {} THEN {x} ELSE {})
             /\ raced' = (raced \/ (x \in Creating' /\ Creating # {}))
    <3>1. crossed' \subseteq Active'
      BY <2>1, <2>2, <2>3 DEF CrossedInv
    <3>2. ASSUME NEW c \in Active', NEW d \in Creating', c # d PROVE c \in crossed'
      BY <2>1, <2>2, <2>3, <3>2 DEF CrossedInv, Active, Creating
    <3>3. Creating' \cap crossed' # {} => raced'
      BY <2>1, <2>2, <2>3 DEF CrossedInv
    <3> QED
      BY <3>1, <3>2, <3>3 DEF CrossedInv
  <2>4. CASE /\ x \in Active /\ x \notin Active' /\ x \notin Creating'
             /\ crossed' = crossed \ {x}
             /\ raced' = raced \/ raced' = (raced /\ ~(job[x].op \in {"create", "choose"} /\ x \notin crossed))
    <3>1. crossed' \subseteq Active'
      BY <2>1, <2>2, <2>4 DEF CrossedInv
    <3>2. ASSUME NEW c \in Active', NEW d \in Creating', c # d PROVE c \in crossed'
      BY <2>1, <2>2, <2>4, <3>2 DEF CrossedInv, Active, Creating
    <3>3. ASSUME NEW c \in Creating', c \in crossed' PROVE raced'
      <4>1. c # x /\ c \in Creating /\ c \in crossed
        BY <2>1, <2>2, <2>4, <3>3 DEF Active, Creating
      <4>2. raced /\ x \in crossed
        BY <2>4, <4>1 DEF CrossedInv
      <4> QED
        BY <2>4, <4>2
    <3> QED
      BY <3>1, <3>2, <3>3 DEF CrossedInv
  <2>5. CASE /\ x \in Active /\ x \in Active' /\ (x \in Creating' <=> x \in Creating)
             /\ crossed' = crossed /\ raced' = raced
    <3>1. Active' = Active /\ Creating' = Creating
      BY <2>1, <2>2, <2>5 DEF Active, Creating
    <3> QED
      BY <2>5, <3>1 DEF CrossedInv
  <2> QED
    BY <1>2, <2>3, <2>4, <2>5, CrossedChange
<1> QED
  BY <1>1, <1>2, StepKinds

\* How a step finds or makes a call whose UPDATE of the default flags runs.
LEMMA ChoosingChange ==
    ASSUME TypeOK, PlaceInv, LockInv, NEW x \in Calls,
           \/ Began(x) \/ Took(x) \/ Skipped(x) \/ Failed(x)
           \/ ClearOthers(x) \/ UnsetDefault(x) \/ DeletePersona(x)
           \/ Validated(x) \/ FlushReference(x) \/ Commit(x),
           NEW c \in Choosing'
    PROVE  /\ c \in Calls
           /\ \/ /\ c # x /\ c \in Choosing /\ job'[c] = job[c]
                 /\ Covers(c)' = Covers(c)
              \/ /\ c = x /\ c \in Choosing /\ job'[c] = job[c]
                 /\ persona' = persona
                 /\ \A p \in Covers(c) : persona[p] # Absent => p \in Covers(c)'
              \/ /\ c = x /\ job'[c].op = "create" /\ persona' = persona
                 /\ Live \subseteq Covers(c)'
              \/ /\ c = x /\ job[c].op = "choose" /\ job'[c] = job[c] /\ persona' = persona
                 /\ pc[c] = "opening" /\ queue[c] = <<>>
                 /\ Live \ {job[c].persona} \subseteq Covers(c)'
<1>1. c \in Calls /\ pc'[c] = "writing" /\ job'[c].op \in {"create", "choose"}
  BY DEF Choosing
<1>2. CASE c # x
  <2>1. /\ pc'[c] = pc[c] /\ job'[c] = job[c] /\ queue'[c] = queue[c]
        /\ \A row, mode : Holds(c, row, mode)' <=> Holds(c, row, mode)
    BY <1>1, <1>2, OthersUntouched
  <2> QED
    BY <1>1, <1>2, <2>1 DEF Choosing, Covers, Waiting
<1>3. CASE c = x /\ (Took(x) \/ Skipped(x))
  <2>1. pc[c] = "writing" /\ job'[c] = job[c] /\ persona' = persona
    BY <1>1, <1>3 DEF Took, Skipped
  <2>2. \A p : Holds(c, p, "nokey") => Holds(c, p, "nokey")'
    BY <1>3 DEF Took, Skipped, Holds
  <2>3. ASSUME NEW p \in Covers(c), persona[p] # Absent PROVE p \in Covers(c)'
    <3>1. p \in Ids /\ (Holds(c, p, "nokey") \/ Waiting(c, p, "nokey"))
      BY DEF Covers
    <3>2. ~Gone(c, p)
      BY <2>1, <2>3 DEF Gone
    <3> QED
      BY <1>3, <2>2, <3>1, <3>2, RowTaken DEF Covers
  <2> QED
    BY <1>1, <1>3, <2>1, <2>3 DEF Choosing
<1>4. CASE c = x /\ Began(x)
  <2>1. PICK locks \in Requests(Live, "nokey") : Begin(c, "create", c, None, "writing", locks)
    <3>1. \A op, p, r, at, locks : Begin(c, op, p, r, at, locks) => pc'[c] = at /\ job'[c].op = op
      BY <1>1 DEF Begin, TypeOK
    <3>2. ~OpenPersona(c) /\ ~OpenRoom(c) /\ ~CreateRoom(c)
      BY <1>1, <3>1 DEF OpenPersona, OpenRoom, CreateRoom
    <3>3. ~Begin(c, "add", c, None, "writing", <<>>)
      BY <1>1, <3>1
    <3> QED
      BY <1>4, <3>2, <3>3 DEF Began, CreatePersona
  <2>2. Range(locks) = Live \X {"nokey"} /\ queue'[c] = locks
    BY <1>1, <2>1, LockTypes DEF Begin, TypeOK, Live
  <2>3. Live \subseteq Covers(c)'
    BY <2>2 DEF Covers, Waiting, Live
  <2> QED
    BY <1>1, <1>4, <2>1, <2>3 DEF Begin, TypeOK
<1>5. CASE c = x /\ ClearOthers(x)
  <2>1. PICK locks \in Requests(Live \ {job[c].persona}, "nokey") : Proceed(c, "writing", locks)
    BY <1>5 DEF ClearOthers
  <2>2. Range(locks) = (Live \ {job[c].persona}) \X {"nokey"} /\ queue'[c] = locks
    BY <1>1, <2>1, LockTypes DEF Proceed, TypeOK, Live
  <2>3. Live \ {job[c].persona} \subseteq Covers(c)'
    BY <2>2 DEF Covers, Waiting, Live
  <2> QED
    BY <1>1, <1>5, <2>1, <2>3 DEF Proceed, ClearOthers, At
<1>6. CASE c = x /\ (Failed(x) \/ Commit(x))
  BY <1>1, <1>6, Ended DEF Failed, Rollback, Commit
<1>7. CASE c = x /\ (UnsetDefault(x) \/ DeletePersona(x) \/ Validated(x) \/ FlushReference(x))
  BY <1>1, <1>7 DEF UnsetDefault, DeletePersona, Validated, FlushReference, At, Proceed, TypeOK
<1> QED
  BY <1>2, <1>3, <1>4, <1>5, <1>6, <1>7

\* A commit clears what its UPDATE covered: nothing is waited for any more.
LEMMA ClearsCovered ==
    ASSUME NEW c \in Calls, Commit(c)
    PROVE  \A p \in Covers(c) : p \in Cleared(c) /\ Holds(c, p, "nokey")
  BY SmallQueues DEF Commit, Covers, Cleared, Waiting, Holds

\* The persona that is being chosen exists and is held by its call alone.
LEMMA ChosenHeld ==
    ASSUME TypeOK, PlaceInv, LockInv, NEW c \in Calls, job[c].op = "choose",
           c \in Choosing \/ (pc[c] = "opening" /\ queue[c] = <<>>)
    PROVE  /\ job[c].persona \in Live /\ Holds(c, job[c].persona, "update")
           /\ \A d : d # c => \A mode : ~Holds(d, job[c].persona, mode)
<1>1. Holds(c, job[c].persona, "update") /\ job[c].persona \in Ids
  BY DEF PlaceInv, Place, OwnRow, Choosing
<1>2. persona[job[c].persona] # Absent
  BY <1>1 DEF LockInv, Holds
<1> QED
  BY <1>1, <1>2, Exclusion DEF Live

\* The UPDATE of a call that meets no create covers everything that exists.
LEMMA AllCoveredStep ==
    ASSUME TypeOK, PlaceInv, LockInv, CrossedInv, AllCovered, [Next]_vars
    PROVE  AllCovered'
<1>1. CASE UNCHANGED vars
  BY <1>1 DEF vars, AllCovered, Choosing, Live, Covers, Holds, Waiting
<1>2. ASSUME NEW x \in Calls,
             \/ Began(x) \/ Took(x) \/ Skipped(x) \/ Failed(x)
             \/ ClearOthers(x) \/ UnsetDefault(x) \/ DeletePersona(x)
             \/ Validated(x) \/ FlushReference(x) \/ Commit(x)
      PROVE  AllCovered'
  <2> SUFFICES ASSUME NEW c \in Choosing', c \notin crossed',
                      NEW p \in Live', p # job'[c].persona
               PROVE  p \in Covers(c)'
    BY DEF AllCovered
  <2>1. CASE c # x /\ c \in Choosing /\ job'[c] = job[c] /\ Covers(c)' = Covers(c)
    <3>1. c \notin crossed /\ c \in Active
      BY <1>2, <2>1, CrossedChange DEF Choosing, Active
    <3>2. p \in Live
      <4>1. CASE Commit(x)
        <5>1. job[x].op \in {"add", "create"} /\ x \in Active => x \in Creating
          BY DEF Creating
        <5>2. ~(job[x].op \in {"add", "create"})
          BY <2>1, <3>1, <4>1, <5>1 DEF CrossedInv, Commit, Active
        <5> QED
          BY <4>1, <5>2, CommitPersonas DEF Live
      <4>2. CASE ~Commit(x)
        BY <1>2, <4>2, OnlyCommits DEF Live
      <4> QED
        BY <4>1, <4>2
    <3> QED
      BY <2>1, <3>1, <3>2 DEF AllCovered
  <2>2. CASE /\ c = x /\ c \in Choosing /\ job'[c] = job[c] /\ persona' = persona
             /\ \A q \in Covers(c) : persona[q] # Absent => q \in Covers(c)'
    <3>1. c \notin crossed
      <4>1. c \in Active /\ c \in Active'
        BY <2>2 DEF Choosing, Active
      <4> QED
        BY <1>2, <2>2, <4>1, CrossedChange
    <3> QED
      BY <2>2, <3>1 DEF AllCovered, Live
  <2>3. CASE /\ persona' = persona
             /\ \/ Live \subseteq Covers(c)'
                \/ job'[c] = job[c] /\ Live \ {job[c].persona} \subseteq Covers(c)'
    BY <2>3 DEF Live
  <2> QED
    BY <1>2, <2>1, <2>2, <2>3, ChoosingChange
<1> QED
  BY <1>1, <1>2, StepKinds

\* Two choices see each other: each holds the persona it chooses when its
\* UPDATE begins, and so the later one sees both.
LEMMA ChoicesMeetStep ==
    ASSUME TypeOK, PlaceInv, LockInv, ChoicesMeet, [Next]_vars
    PROVE  ChoicesMeet'
<1>1. CASE UNCHANGED vars
  BY <1>1 DEF vars, ChoicesMeet, Choosing, Covers, Holds, Waiting
<1>2. ASSUME NEW x \in Calls,
             \/ Began(x) \/ Took(x) \/ Skipped(x) \/ Failed(x)
             \/ ClearOthers(x) \/ UnsetDefault(x) \/ DeletePersona(x)
             \/ Validated(x) \/ FlushReference(x) \/ Commit(x)
      PROVE  ChoicesMeet'
  <2>1. ASSUME NEW c \in Choosing', NEW d \in Choosing', c # d, d # x,
               job'[c].op = "choose", job'[d].op = "choose"
        PROVE  job'[c].persona \in Covers(d)' \/ job'[d].persona \in Covers(c)'
    <3>1. d \in Choosing /\ job'[d] = job[d] /\ Covers(d)' = Covers(d) /\ d \in Calls
      BY <1>2, <2>1, ChoosingChange
    <3>2. job[d].persona \in Live /\ \A e : e # d => \A mode : ~Holds(e, job[d].persona, mode)
      BY <2>1, <3>1, ChosenHeld
    <3>3. CASE c # x /\ c \in Choosing /\ job'[c] = job[c] /\ Covers(c)' = Covers(c)
      BY <2>1, <3>1, <3>3 DEF ChoicesMeet
    <3>4. CASE /\ c = x /\ c \in Choosing /\ job'[c] = job[c]
               /\ \A q \in Covers(c) : persona[q] # Absent => q \in Covers(c)'
      BY <2>1, <3>1, <3>2, <3>4 DEF ChoicesMeet, Live
    <3>5. CASE /\ c = x /\ job[c].op = "choose" /\ job'[c] = job[c]
               /\ pc[c] = "opening" /\ queue[c] = <<>>
               /\ Live \ {job[c].persona} \subseteq Covers(c)'
      <4>1. Holds(c, job[c].persona, "update")
        BY <3>5, ChosenHeld, <2>1 DEF Choosing
      <4>2. job[d].persona # job[c].persona
        BY <2>1, <3>2, <4>1
      <4> QED
        BY <3>1, <3>2, <3>5, <4>2
    <3> QED
      BY <1>2, <2>1, <3>3, <3>4, <3>5, ChoosingChange
  <2>2. ASSUME NEW c \in Choosing', NEW d \in Choosing', c # d,
               job'[c].op = "choose", job'[d].op = "choose"
        PROVE  job'[c].persona \in Covers(d)' \/ job'[d].persona \in Covers(c)'
    BY <2>1, <2>2
  <2> QED
    BY <2>2 DEF ChoicesMeet
<1> QED
  BY <1>1, <1>2, StepKinds

\* A choice that commits leaves no default persona but its own, unless a create
\* it does not see has raced with another one.
LEMMA OnlyOwnDefault ==
    ASSUME TypeOK, PlaceInv, LockInv, CrossedInv, AllCovered, DefaultsCovered,
           NEW x \in Calls, Commit(x), job[x].op \in {"create", "choose"}, ~raced'
    PROVE  x \in Choosing /\ \A p \in Defaults : p # job[x].persona => p \in Cleared(x)
<1>1. x \in Choosing
  BY CommitFinds DEF Choosing
<1>2. x \notin crossed \/ ~raced
  BY DEF Commit
<1>3. CASE x \notin crossed
  BY <1>1, <1>3, ClearsCovered DEF AllCovered, Live, Defaults, Absent
<1>4. CASE x \in crossed
  <2>1. ~raced /\ x \notin Creating
    BY <1>2, <1>4 DEF CrossedInv
  <2>2. job[x].op = "choose"
    BY <1>1, <2>1 DEF Creating, Choosing, Active
  <2> QED
    BY <1>1, <2>1, <2>2, ClearsCovered DEF DefaultsCovered
<1> QED
  BY <1>1, <1>3, <1>4

\* While no creates have raced, a choice reaches what a choice beside it stores.
LEMMA DefaultsCoveredStep ==
    ASSUME TypeOK, PlaceInv, LockInv, CreatedInv, CrossedInv, AllCovered, ChoicesMeet,
           DefaultsCovered, [Next]_vars
    PROVE  DefaultsCovered'
<1>1. CASE UNCHANGED vars
  BY <1>1 DEF vars, DefaultsCovered, Defaults, Choosing, Covers, Holds, Waiting
<1>2. ASSUME NEW x \in Calls,
             \/ Began(x) \/ Took(x) \/ Skipped(x) \/ Failed(x)
             \/ ClearOthers(x) \/ UnsetDefault(x) \/ DeletePersona(x)
             \/ Validated(x) \/ FlushReference(x) \/ Commit(x)
      PROVE  DefaultsCovered'
  <2> SUFFICES ASSUME ~raced', NEW c \in Choosing', job'[c].op = "choose",
                      NEW p \in Defaults', p # job'[c].persona
               PROVE  p \in Covers(c)'
    BY DEF DefaultsCovered
  <2>1. CASE ~Commit(x)
    <3>1. persona' = persona /\ p \in Defaults
      BY <1>2, <2>1, OnlyCommits DEF Defaults
    <3>2. ~raced
      BY <1>2, <2>1, CrossedChange
    <3>3. p \in Live
      BY <3>1, NamesAreDistinct DEF Defaults, Live, Absent
    <3>4. CASE c # x /\ c \in Choosing /\ job'[c] = job[c] /\ Covers(c)' = Covers(c)
      BY <3>1, <3>2, <3>4 DEF DefaultsCovered
    <3>5. CASE /\ c = x /\ c \in Choosing /\ job'[c] = job[c]
               /\ \A q \in Covers(c) : persona[q] # Absent => q \in Covers(c)'
      BY <3>1, <3>2, <3>3, <3>5 DEF DefaultsCovered, Live
    <3>6. CASE job'[c] = job[c] /\ Live \ {job[c].persona} \subseteq Covers(c)'
      BY <3>3, <3>6
    <3> QED
      BY <1>2, <3>4, <3>5, <3>6, ChoosingChange
  <2>2. CASE Commit(x)
    <3>1. c # x /\ c \in Choosing /\ job'[c] = job[c] /\ Covers(c)' = Covers(c) /\ c \in Calls
      <4>1. c # x
        BY <2>2, Ended DEF Commit, Choosing
      <4> QED
        BY <1>2, <4>1, ChoosingChange
    <3>2. /\ job[c].persona \in Live
          /\ \A d : d # c => \A mode : ~Holds(d, job[c].persona, mode)
      BY <3>1, ChosenHeld
    <3>3. job[c].persona \notin Covers(x)
      BY <2>2, <3>1, <3>2, ClearsCovered
    <3>4. CASE job[x].op \in {"create", "choose"} /\ p = job[x].persona
      <4>1. x \in Choosing
        BY <2>2, <3>4, OnlyOwnDefault
      <4>2. job[x].op = "choose"
        <5>1. SUFFICES ASSUME job[x].op = "create" PROVE FALSE
          BY <3>4
        <5>2. x \in Creating /\ job[x].persona = x /\ persona[x] = Absent
          BY <4>1, <5>1 DEF Creating, Active, Choosing, PlaceInv, Place, CreatedInv
        <5>3. x \notin crossed
          BY <2>2, <5>2 DEF CrossedInv, Commit
        <5>4. job[c].persona # x
          BY <3>2, <5>2 DEF Live
        <5> QED
          BY <3>2, <3>3, <4>1, <5>2, <5>3, <5>4 DEF AllCovered
      <4> QED
        BY <3>1, <3>3, <3>4, <4>1, <4>2 DEF ChoicesMeet
    <3>5. CASE ~(job[x].op \in {"create", "choose"} /\ p = job[x].persona)
      <4>1. p \in Defaults /\ p \notin Cleared(x)
        BY <2>2, <3>5, CommitPersonas DEF Defaults
      <4>2. ~raced
        <5>1. raced => job[x].op \in {"create", "choose"}
          BY <2>2 DEF Commit
        <5> QED
          BY <2>2, <3>5, <4>1, <5>1, OnlyOwnDefault
      <4> QED
        BY <3>1, <4>1, <4>2 DEF DefaultsCovered
    <3> QED
      BY <3>4, <3>5
  <2> QED
    BY <2>1, <2>2
<1> QED
  BY <1>1, <1>2, StepKinds

\* A commit leaves the choice it makes, or the one that was made, as the default.
LEMMA LatestStep ==
    ASSUME TypeOK, PlaceInv, LockInv, CreatedInv, CrossedInv, AllCovered, DefaultsCovered,
           LatestChoiceWins, [Next]_vars
    PROVE  LatestChoiceWins'
<1>1. CASE UNCHANGED vars
  BY <1>1 DEF vars, LatestChoiceWins, Defaults
<1>2. ASSUME NEW x \in Calls,
             \/ Began(x) \/ Took(x) \/ Skipped(x) \/ Failed(x)
             \/ ClearOthers(x) \/ UnsetDefault(x) \/ DeletePersona(x)
             \/ Validated(x) \/ FlushReference(x) \/ Commit(x)
      PROVE  LatestChoiceWins'
  <2> SUFFICES ASSUME ~raced' PROVE Defaults' = {chosen'} \ {None}
    BY DEF LatestChoiceWins
  <2>1. CASE ~Commit(x)
    <3>1. Defaults' = Defaults /\ chosen' = chosen
      BY <1>2, <2>1, OnlyCommits DEF Defaults
    <3>2. ~raced
      BY <1>2, <2>1, CrossedChange
    <3> QED
      BY <3>1, <3>2 DEF LatestChoiceWins
  <2>2. CASE Commit(x) /\ job[x].op \in {"create", "choose"}
    <3>1. chosen' = job[x].persona
      BY <2>2 DEF Commit
    <3>2. job[x].persona \in Ids /\ job[x].persona # None
      BY <2>2, CommitFinds, NamesAreDistinct DEF Ids
    <3>3. ASSUME NEW p \in Ids PROVE p \in Defaults' <=> p = job[x].persona
      <4>1. p \in Defaults /\ p # job[x].persona => p \in Cleared(x)
        BY <2>2, OnlyOwnDefault
      <4> QED
        BY <2>2, <4>1, CommitPersonas DEF Defaults
    <3> QED
      BY <3>1, <3>2, <3>3 DEF Defaults
  <2>3. CASE Commit(x) /\ job[x].op \notin {"create", "choose"}
    <3>1. ~raced /\ Defaults = {chosen} \ {None}
      BY <2>3 DEF Commit, LatestChoiceWins
    <3>2. Cleared(x) = {}
      BY <2>3 DEF Cleared, LockInv
    <3>3. ASSUME NEW p \in Ids
          PROVE  p \in Defaults' <=>
                   p \in Defaults /\ ~(job[x].op \in {"unset", "delete"} /\ p = job[x].persona)
      <4>1. job[x].op = "add" => job[x].persona \notin Defaults
        <5>1. job[x].op = "add" => job[x].persona = x /\ pc[x] # "done"
          BY <2>3, CommitFinds
        <5>2. persona[x] = "default" => pc[x] = "done"
          BY NamesAreDistinct DEF CreatedInv, Absent
        <5> QED
          BY <5>1, <5>2 DEF Defaults
      <4> QED
        BY <2>3, <3>2, <4>1, CommitPersonas DEF Defaults
    <3>4. CASE job[x].op \in {"unset", "delete"} /\ job[x].persona = chosen
      <4>1. chosen' = None
        BY <2>3, <3>4 DEF Commit
      <4> QED
        BY <3>1, <3>3, <3>4, <4>1 DEF Defaults
    <3>5. CASE ~(job[x].op \in {"unset", "delete"} /\ job[x].persona = chosen)
      <4>1. chosen' = chosen
        BY <2>3, <3>5 DEF Commit
      <4> QED
        BY <3>1, <3>3, <3>5, <4>1 DEF Defaults
    <3> QED
      BY <3>4, <3>5
  <2> QED
    BY <2>1, <2>2, <2>3
<1> QED
  BY <1>1, <1>2, StepKinds

\* The invariant behind the next theorem: which personas the UPDATE of each
\* choice reaches, and the one race that makes it miss one.
THEOREM ChoiceSound == Spec => []ChoiceInv
<1>1. Init => ChoiceInv
  <2> SUFFICES ASSUME Init PROVE ChoiceInv
    OBVIOUS
  <2>1. Active = {} /\ Creating = {} /\ Choosing = {} /\ crossed = {}
    BY DEF Init, Active, Creating, Choosing
  <2>2. LatestChoiceWins
    <3>1. IsFiniteSet(Defaults) /\ Defaults \subseteq Ids
      BY FinitelyMany, FS_Subset DEF Defaults
    <3>2. Cardinality(Defaults) \in Nat /\ Cardinality(Defaults) <= 1
      BY <3>1, FS_CardinalityType DEF Init
    <3>3. CASE Defaults = {}
      BY <3>3 DEF Init, LatestChoiceWins
    <3>4. CASE Defaults # {}
      <4>1. Cardinality(Defaults) = 1
        BY <3>1, <3>2, <3>4, FS_EmptySet
      <4>2. PICK p : Defaults = {p}
        BY <3>1, <4>1, FS_Singleton
      <4>3. chosen = p /\ p # None
        BY <3>1, <4>2, NamesAreDistinct DEF Init
      <4> QED
        BY <4>2, <4>3 DEF LatestChoiceWins
    <3> QED
      BY <3>3, <3>4
  <2> QED
    BY <2>1, <2>2 DEF ChoiceInv, CrossedInv, AllCovered, ChoicesMeet, DefaultsCovered
<1>2. TypeOK /\ StandInv /\ ChoiceInv /\ [Next]_vars => ChoiceInv'
  BY CrossedStep, AllCoveredStep, ChoicesMeetStep, DefaultsCoveredStep, LatestStep
     DEF ChoiceInv, StandInv
<1> QED
  BY <1>1, <1>2, StandSound, PTL DEF Spec

\* The default persona is the one of the choice that committed last, and there
\* is no other, unless two creates have raced since.
THEOREM LatestChoice == Spec => []LatestChoiceWins
<1>1. ChoiceInv => LatestChoiceWins
  BY DEF ChoiceInv
<1> QED
  BY <1>1, ChoiceSound, PTL

-----------------------------------------------------------------------------
(* Waiting                                                                 *)

\* A call waits for other calls under way, and for none without a queue.
LEMMA WaitsForActive ==
    ASSUME LockInv, NEW c \in Calls
    PROVE  WaitsFor(c) \subseteq Active
BY DEF LockInv, WaitsFor

\* A set of naturals that is not empty has a least number.
LEMMA LeastNumber ==
    ASSUME NEW S, S \subseteq Nat, S # {}
    PROVE  \E n \in S : \A m \in S : n <= m
<1> DEFINE R == OpToRel(<, Nat)
<1>1. IsWellFoundedOn(R, Nat)
  BY NatLessThanWellFounded
<1>2. \A m, n \in Nat : m < n => <<m, n>> \in R
  BY DEF OpToRel
<1> HIDE DEF R
<1>3. PICK n \in S : \A m \in S : <<m, n>> \notin R
  BY <1>1, WFMin, Zenon
<1>4. ASSUME NEW m \in S PROVE n <= m
  <2>1. m \in Nat /\ n \in Nat /\ ~(m < n)
    BY <1>2, <1>3
  <2> QED
    BY <2>1
<1> QED
  BY <1>4

\* Where every call under way waits, one of them is in a cycle: of the sets of
\* calls closed under waiting take a least one, and a call of it.  Were the call
\* outside some closed set that holds those it waits for, what the two sets
\* share would be smaller.
LEMMA CycleOfWaiters ==
    ASSUME TypeOK, LockInv, Active # {}, \A c \in Active : WaitsFor(c) # {}
    PROVE  \E c \in Active : Deadlocked(c)
<1> DEFINE Closed == {S \in SUBSET Active : S # {} /\ \A d \in S : WaitsFor(d) \subseteq S}
           Sizes == {Cardinality(S) : S \in Closed}
<1>1. IsFiniteSet(Active) /\ Active \subseteq Calls
  BY FinitelyMany, FS_Subset DEF Active, Ids
<1>2. Active \in Closed
  BY <1>1, WaitsForActive
<1>3. \A S \in Closed : IsFiniteSet(S) /\ Cardinality(S) \in Nat
  BY <1>1, FS_Subset, FS_CardinalityType
<1>4. PICK n \in Sizes : \A k \in Sizes : n <= k
  <2>1. Sizes \subseteq Nat /\ Sizes # {}
    BY <1>2, <1>3
  <2> HIDE DEF Sizes
  <2> QED
    BY <2>1, LeastNumber
<1>5. PICK S \in Closed : Cardinality(S) = n
  BY <1>4
<1>6. PICK c : c \in S
  BY <1>5
<1>7. SUFFICES ASSUME ~Deadlocked(c) PROVE FALSE
  BY <1>5, <1>6
<1>8. PICK T \in SUBSET Calls : WaitsFor(c) \subseteq T /\ (\A d \in T : WaitsFor(d) \subseteq T) /\ c \notin T
  BY <1>7 DEF Deadlocked
<1>9. S \cap T \in Closed
  <2>1. S \cap T # {}
    BY <1>1, <1>5, <1>6, <1>8
  <2> QED
    BY <1>5, <1>8, <2>1
<1>10. Cardinality(S \cap T) < Cardinality(S)
  <2>1. S \cap T \subseteq S /\ S \cap T # S
    BY <1>6, <1>8
  <2>2. IsFiniteSet(S) /\ Cardinality(S) \in Nat /\ Cardinality(S \cap T) \in Nat
    BY <1>3, <1>9
  <2> HIDE DEF Closed, Sizes
  <2>3. Cardinality(S \cap T) <= Cardinality(S) /\ (Cardinality(S) = Cardinality(S \cap T) => S = S \cap T)
    BY <2>1, <2>2, FS_Subset
  <2> QED
    BY <2>1, <2>2, <2>3
<1> QED
  BY <1>3, <1>4, <1>5, <1>9, <1>10

\* Nobody waits for ever: while a request is under way, some request has its
\* next row free, or is where its next statement begins, or is in a cycle of
\* waiting requests, which the deadlock detector breaks.
THEOREM Unstuck == Spec => []NobodyStuck
<1>1. TypeOK /\ StandInv => NobodyStuck
  <2> SUFFICES ASSUME TypeOK, StandInv, Active # {} PROVE \E c \in Active : GuardHolds(c)
    BY DEF NobodyStuck
  <2>1. CASE \A c \in Active : WaitsFor(c) # {}
    BY <2>1, CycleOfWaiters DEF GuardHolds, StandInv
  <2>2. CASE \E c \in Active : WaitsFor(c) = {}
    <3>1. PICK c \in Active : WaitsFor(c) = {}
      BY <2>2
    <3>2. queue[c] = <<>> => Begins(c)
      <4>1. /\ c \in Calls /\ pc[c] \in Places \ {"idle", "done", "failed"} /\ Place(c)
        BY <3>1 DEF Active, TypeOK, StandInv, PlaceInv
      <4> QED
        BY <4>1 DEF Begins, At, Place, Places
    <3> QED
      BY <3>1, <3>2 DEF GuardHolds
  <2> QED
    BY <2>1, <2>2
<1> QED
  BY <1>1, StandSound, PTL
=============================================================================
