---------------------------- MODULE ScriptProofs ----------------------------
(***************************************************************************)
(* Proofs about the scripts of Alembic: what a sequence of statements does *)
(* to a database, whatever its length, its tables and its rows.  Induction *)
(* is by the least natural number at which a set differs from all of them. *)
(***************************************************************************)
EXTENDS Bridge, SequenceTheorems, WellFoundedInduction, TLAPS

-----------------------------------------------------------------------------
(* Induction, and the recursive functions of Bridge                        *)

\* Induction over the naturals, for a set instead of a predicate.
LEMMA SetInduction ==
    ASSUME NEW S, 0 \in S, \A n \in Nat : n \in S => n + 1 \in S
    PROVE  Nat \subseteq S
<1> SUFFICES ASSUME Nat \ S # {} PROVE FALSE
  OBVIOUS
<1> DEFINE R == OpToRel(<, Nat)
<1>1. IsWellFoundedOn(R, Nat)
  BY NatLessThanWellFounded
<1>2. \A m, n \in Nat : m < n => <<m, n>> \in R
  BY DEF OpToRel
<1> HIDE DEF R
<1>3. PICK n \in Nat \ S : \A m \in Nat \ S : <<m, n>> \notin R
  BY <1>1, WFMin, Zenon
<1>4. n # 0 /\ n - 1 \in Nat /\ n - 1 < n /\ (n - 1) + 1 = n
  OBVIOUS
<1>5. n - 1 \in S
  BY <1>2, <1>3, <1>4
<1> QED
  BY <1>3, <1>4, <1>5

\* Induction from 0 to n.
LEMMA InductionUpTo ==
    ASSUME NEW n \in Nat, NEW S, 0 \in S, \A i \in 1 .. n : i - 1 \in S => i \in S
    PROVE  \A i \in 0 .. n : i \in S
<1> DEFINE T == {i \in Nat : i <= n => i \in S}
<1>1. \A i \in Nat : i \in T => i + 1 \in T
  <2> SUFFICES ASSUME NEW i \in Nat, i \in T, i + 1 <= n PROVE i + 1 \in S
    OBVIOUS
  <2>1. i + 1 \in 1 .. n /\ (i + 1) - 1 = i /\ i \in S
    OBVIOUS
  <2> QED
    BY <2>1
<1>2. 0 \in T
  OBVIOUS
<1> HIDE DEF T
<1>3. Nat \subseteq T
  BY <1>1, <1>2, SetInduction
<1> QED
  BY <1>3 DEF T

\* The states that the statements of a script lead through.
Through(done, script, db) ==
    /\ done[0] = db
    /\ \A i \in 1 .. Len(script) : done[i] = Execute(done[i - 1], script[i])

\* The function that Run defines by recursion exists, and is these states.
LEMMA RunThrough ==
    ASSUME NEW script, Len(script) \in Nat, NEW db
    PROVE  \E done : Through(done, script, db) /\ Run(script, db) = done[Len(script)]
<1> DEFINE n == Len(script)
           Upto(f, m) == f = [i \in 0 .. m |-> IF i = 0 THEN db ELSE Execute(f[i - 1], script[i])]
           S == {m \in Nat : \E f : Upto(f, m)}
<1>1. 0 \in S
  <2> DEFINE f == [i \in 0 .. 0 |-> db]
  <2>1. Upto(f, 0)
    OBVIOUS
  <2> QED
    BY <2>1
<1>2. ASSUME NEW m \in Nat, m \in S PROVE m + 1 \in S
  <2>1. PICK f : Upto(f, m)
    BY <1>2
  <2> DEFINE g == [i \in 0 .. m + 1 |-> IF i <= m THEN f[i] ELSE Execute(f[m], script[m + 1])]
  <2>2. ASSUME NEW i \in 0 .. m + 1
        PROVE  g[i] = IF i = 0 THEN db ELSE Execute(g[i - 1], script[i])
    <3>1. CASE i = 0
      BY <2>1, <3>1
    <3>2. CASE i \in 1 .. m
      <4>1. i - 1 \in 0 .. m /\ i \in 0 .. m
        BY <3>2
      <4>2. g[i] = f[i] /\ g[i - 1] = f[i - 1]
        BY <4>1, <3>2
      <4>3. f[i] = Execute(f[i - 1], script[i])
        BY <2>1, <3>2, <4>1
      <4> QED
        BY <3>2, <4>2, <4>3
    <3>3. CASE i = m + 1
      BY <3>3
    <3> QED
      BY <3>1, <3>2, <3>3
  <2>3. g = [i \in 0 .. m + 1 |-> g[i]]
    OBVIOUS
  <2> HIDE DEF g
  <2>4. Upto(g, m + 1)
    BY <2>2, <2>3
  <2> QED
    BY <2>4
<1> HIDE DEF S
<1>3. n \in S
  BY <1>1, <1>2, SetInduction
<1> DEFINE done == CHOOSE f : f = [i \in 0 .. Len(script) |->
                                     IF i = 0 THEN db ELSE Execute(f[i - 1], script[i])]
<1>4. done = [i \in 0 .. Len(script) |-> IF i = 0 THEN db ELSE Execute(done[i - 1], script[i])]
  BY <1>3, Zenon DEF S
<1>5. Run(script, db) = IF db.ok THEN done[n] ELSE db
  BY DEF Run
<1> HIDE DEF done
<1>6. /\ done[0] = db
      /\ \A i \in 1 .. n : done[i] = Execute(done[i - 1], script[i])
  BY <1>4
<1>7. CASE db.ok
  BY <1>5, <1>6, <1>7 DEF Through
<1>8. CASE ~db.ok
  <2> DEFINE same == [i \in 0 .. n |-> db]
  <2>1. \A s : Execute(db, s) = db
    BY <1>8, Zenon DEF Execute
  <2>2. Through(same, script, db)
    BY <2>1 DEF Through
  <2> QED
    BY <1>5, <1>8, <2>2
<1> QED
  BY <1>7, <1>8

\* Any states that a script leads through end in what Run gives.
LEMMA ThroughRun ==
    ASSUME NEW script, Len(script) \in Nat, NEW db, NEW f, Through(f, script, db)
    PROVE  Run(script, db) = f[Len(script)]
<1>1. PICK done : Through(done, script, db) /\ Run(script, db) = done[Len(script)]
  BY RunThrough
<1> DEFINE S == {i \in Nat : f[i] = done[i]}
<1>2. 0 \in S
  BY <1>1 DEF Through
<1>3. ASSUME NEW i \in 1 .. Len(script), i - 1 \in S PROVE i \in S
  BY <1>1, <1>3 DEF Through
<1> HIDE DEF S
<1>4. \A i \in 0 .. Len(script) : i \in S
  BY <1>2, <1>3, InductionUpTo
<1> QED
  BY <1>1, <1>4 DEF S

-----------------------------------------------------------------------------
(* Scripts and their statements                                            *)

Members(a) == {a[i] : i \in 1 .. Len(a)}
IsList(a) == a \in Seq(Members(a))

\* The length, the domain and the members of a list of statements.
LEMMA Scripts ==
    ASSUME NEW a, IsList(a)
    PROVE  /\ Len(a) \in Nat /\ DOMAIN a = 1 .. Len(a)
           /\ \A i \in 1 .. Len(a) : a[i] \in Members(a)
  BY LenProperties DEF IsList, Members

\* The same of two lists, one behind the other.
LEMMA ConcatScripts ==
    ASSUME NEW a, NEW b, IsList(a), IsList(b)
    PROVE  /\ IsList(a \o b) /\ Members(a \o b) = Members(a) \cup Members(b)
           /\ Len(a \o b) = Len(a) + Len(b)
           /\ \A i \in 1 .. Len(a) : (a \o b)[i] = a[i]
           /\ \A i \in 1 .. Len(b) : (a \o b)[Len(a) + i] = b[i]
<1> DEFINE S == Members(a) \cup Members(b)
           c == a \o b
<1>1. /\ a \in Seq(S) /\ b \in Seq(S)
      /\ Len(a) \in Nat /\ Len(b) \in Nat
  <2>1. \A x : x \in Seq(Members(a)) => x \in Seq(S)
    OBVIOUS
  <2>2. \A x : x \in Seq(Members(b)) => x \in Seq(S)
    OBVIOUS
  <2> QED
    BY <2>1, <2>2, Scripts DEF IsList
<1>2. /\ c \in Seq(S) /\ Len(c) = Len(a) + Len(b)
      /\ \A i \in 1 .. Len(a) + Len(b) : c[i] = IF i <= Len(a) THEN a[i] ELSE b[i - Len(a)]
  BY <1>1, ConcatProperties
<1> HIDE DEF c
<1>3. ASSUME NEW i \in 1 .. Len(b) PROVE c[Len(a) + i] = b[i]
  <2>1. Len(a) + i \in 1 .. Len(a) + Len(b) /\ ~(Len(a) + i <= Len(a)) /\ Len(a) + i - Len(a) = i
    BY <1>1
  <2> QED
    BY <1>2, <2>1
<1>4. \A i \in 1 .. Len(a) : c[i] = a[i]
  BY <1>1, <1>2
<1>5. Members(c) = S
  <2>1. ASSUME NEW i \in 1 .. Len(c) PROVE c[i] \in S
    <3>1. i \in 1 .. Len(a) + Len(b) /\ (~(i <= Len(a)) => i - Len(a) \in 1 .. Len(b))
      BY <1>1, <1>2
    <3>2. \A j \in 1 .. Len(a) : a[j] \in S
      BY DEF Members
    <3>3. \A j \in 1 .. Len(b) : b[j] \in S
      BY DEF Members
    <3> HIDE DEF S
    <3> QED
      BY <1>1, <1>2, <3>1, <3>2, <3>3
  <2>2. \A x \in Members(a) : x \in Members(c)
    BY <1>1, <1>2, <1>4 DEF Members
  <2>3. \A x \in Members(b) : x \in Members(c)
    <3>1. \A i \in 1 .. Len(b) : Len(a) + i \in 1 .. Len(c)
      BY <1>1, <1>2
    <3> QED
      BY <1>3, <3>1 DEF Members
  <2> HIDE DEF S
  <2> QED
    BY <2>1, <2>2, <2>3 DEF S, Members
<1> QED
  BY <1>2, <1>3, <1>4, <1>5 DEF IsList, c

\* Scripts run one after the other.
LEMMA RunConcat ==
    ASSUME NEW a, NEW b, IsList(a), IsList(b), NEW db
    PROVE  Run(a \o b, db) = Run(b, Run(a, db))
<1> DEFINE n == Len(a)
           m == Len(b)
           c == a \o b
<1>1. n \in Nat /\ m \in Nat
  BY Scripts
<1>2. PICK f : Through(f, a, db) /\ Run(a, db) = f[n]
  BY <1>1, RunThrough
<1>3. PICK g : Through(g, b, Run(a, db)) /\ Run(b, Run(a, db)) = g[m]
  BY <1>1, RunThrough
<1>4. /\ Len(c) = n + m
      /\ \A i \in 1 .. n : c[i] = a[i]
      /\ \A i \in 1 .. m : c[n + i] = b[i]
  BY ConcatScripts
<1> DEFINE h == [i \in 0 .. n + m |-> IF i <= n THEN f[i] ELSE g[i - n]]
<1>5. /\ h[0] = db
      /\ \A i \in 0 .. n : h[i] = f[i]
      /\ \A i \in 0 .. m : h[n + i] = g[i]
  BY <1>1, <1>2, <1>3 DEF Through
<1> HIDE DEF h, c
<1>6. ASSUME NEW i \in 1 .. n + m PROVE h[i] = Execute(h[i - 1], c[i])
  <2>1. CASE i <= n
    <3>1. i \in 1 .. n /\ i \in 0 .. n /\ i - 1 \in 0 .. n
      BY <1>1, <2>1
    <3> QED
      BY <1>2, <1>4, <1>5, <3>1 DEF Through
  <2>2. CASE i > n
    <3> DEFINE j == i - n
    <3>1. j \in 1 .. m /\ j \in 0 .. m /\ j - 1 \in 0 .. m /\ i = n + j /\ i - 1 = n + (j - 1)
      BY <1>1, <2>2
    <3> HIDE DEF j
    <3>2. h[i] = g[j] /\ h[i - 1] = g[j - 1] /\ c[i] = b[j]
      BY <1>4, <1>5, <3>1
    <3> QED
      BY <1>3, <3>1, <3>2 DEF Through
  <2> QED
    BY <1>1, <2>1, <2>2
<1>7. Through(h, c, db)
  BY <1>4, <1>5, <1>6 DEF Through
<1>8. Run(c, db) = h[n + m]
  <2>1. Len(c) \in Nat /\ Len(c) = n + m
    BY <1>1, <1>4
  <2> QED
    BY <1>7, <2>1, ThroughRun
<1> QED
  BY <1>1, <1>3, <1>5, <1>8 DEF c

\* A script of one statement.
LEMMA SingleStatement ==
    ASSUME NEW s, NEW db
    PROVE  IsList(<<s>>) /\ Members(<<s>>) = {s} /\ Run(<<s>>, db) = Execute(db, s)
<1>1. Len(<<s>>) = 1 /\ <<s>>[1] = s
  OBVIOUS
<1>2. Members(<<s>>) = {s}
  BY <1>1 DEF Members
<1>3. PICK done : Through(done, <<s>>, db) /\ Run(<<s>>, db) = done[1]
  BY <1>1, RunThrough
<1> QED
  BY <1>1, <1>2, <1>3 DEF IsList, Through

-----------------------------------------------------------------------------
(* What one statement does                                                 *)

\* The data statements there are.
DataNames ==
    {"project characters", "name characters", "project personas", "name personas",
     "keep scopes", "map scopes", "keep kinds", "map kinds", "archive memories",
     "fill bookkeeping", "map revised kinds", "version characters", "synchronize characters",
     "version personas", "synchronize personas"}

Known(s) == s.op = "sql" => s.name \in DataNames
Touches(s) == IF s.op = "sql" THEN DataTable(s.name) ELSE s.table

\* A data statement writes the rows of its own table only.
LEMMA DataWritten ==
    ASSUME NEW name \in DataNames, NEW rows
    PROVE  /\ DOMAIN DataStatement(name, rows) = DOMAIN rows
           /\ \A t : t # DataTable(name) => DataStatement(name, rows)[t] = rows[t]
<1> DEFINE after == DataStatement(name, rows)
<1>1. \E x : after = [rows EXCEPT ![DataTable(name)] = x]
  <2>1. CASE name = "project characters"
    BY <2>1 DEF DataStatement, DataTable, ProjectCharacters
  <2>2. CASE name = "name characters"
    BY <2>2 DEF DataStatement, DataTable, NameRows, Updated
  <2>3. CASE name = "project personas"
    BY <2>3 DEF DataStatement, DataTable, ProjectPersonas
  <2>4. CASE name = "name personas"
    BY <2>4 DEF DataStatement, DataTable, NameRows, Updated
  <2>5. CASE name = "keep scopes"
    BY <2>5 DEF DataStatement, DataTable, KeepScopes, Updated
  <2>6. CASE name = "map scopes"
    BY <2>6 DEF DataStatement, DataTable, MapScopes, Updated
  <2>7. CASE name = "keep kinds"
    BY <2>7 DEF DataStatement, DataTable, KeepKinds, Updated
  <2>8. CASE name = "map kinds"
    BY <2>8 DEF DataStatement, DataTable, MapKinds, Updated
  <2>9. CASE name = "archive memories"
    BY <2>9 DEF DataStatement, DataTable, ArchiveMemories, Updated
  <2>10. CASE name = "fill bookkeeping"
    BY <2>10 DEF DataStatement, DataTable, FillBookkeeping
  <2>11. CASE name = "map revised kinds"
    BY <2>11 DEF DataStatement, DataTable, MapRevisedKinds, Updated
  <2>12. CASE name = "version characters"
    BY <2>12 DEF DataStatement, DataTable, VersionCharacters, VersionRows
  <2>13. CASE name = "synchronize characters"
    BY <2>13 DEF DataStatement, DataTable, SynchronizeCharacters
  <2>14. CASE name = "version personas"
    BY <2>14 DEF DataStatement, DataTable, VersionPersonas, VersionRows
  <2>15. CASE name = "synchronize personas"
    BY <2>15 DEF DataStatement, DataTable, SynchronizePersonas
  <2> QED
    BY <2>1, <2>2, <2>3, <2>4, <2>5, <2>6, <2>7, <2>8, <2>9, <2>10, <2>11, <2>12, <2>13,
       <2>14, <2>15 DEF DataNames
<1> HIDE DEF after
<1> QED
  BY <1>1 DEF after

\* Table t is the same before and after.
Same(t, d, e) ==
    /\ t \in DOMAIN e.tables <=> t \in DOMAIN d.tables
    /\ t \in DOMAIN d.tables => e.tables[t] = d.tables[t] /\ e.rows[t] = d.rows[t]

Alterations ==
    {"add column", "drop column", "alter column", "add key", "drop key", "add check", "drop check",
     "add index", "drop index", "add unique", "drop unique"}

\* What a statement that is not refused does, by its kind.
Done(d, s, e) ==
    LET t == Touches(s) IN
    /\ d.ok = TRUE
    /\ \A u : u # t => Same(u, d, e)
    /\ s.op = "create" => /\ t \notin DOMAIN d.tables /\ t \in DOMAIN e.tables
                          /\ e.tables[t] = s.def /\ e.rows[t] = <<>>
    /\ s.op = "drop" => t \in DOMAIN d.tables /\ t \notin DOMAIN e.tables
    /\ s.op = "sql" => e.tables = d.tables /\ e.rows = DataStatement(s.name, d.rows) /\ Legal(e)
    /\ s.op # "sql" => Accepts(d, s)
    /\ s.op \notin {"create", "drop", "sql"} =>
          /\ s.op \in Alterations
          /\ t \in DOMAIN d.tables /\ t \in DOMAIN e.tables
          /\ e.tables[t] = Defined(d.tables[t], s)
          /\ e.rows[t] = RowsAfter(d.rows[t], s)

\* A statement gives a database again, refused or done.
LEMMA Executed ==
    ASSUME NEW d, IsDatabase(d), NEW s, Known(s)
    PROVE  /\ IsDatabase(Execute(d, s))
           /\ Execute(d, s).ok = TRUE => Done(d, s, Execute(d, s))
<1> DEFINE e == Execute(d, s)
           t == Touches(s)
<1>0. e = Execute(d, s) /\ t = Touches(s)
  OBVIOUS
<1> HIDE DEF e, t
<1> SUFFICES IsDatabase(e) /\ (e.ok = TRUE => Done(d, s, e))
  BY <1>0
<1>1. CASE d.ok = FALSE
  BY <1>0, <1>1 DEF Execute, IsDatabase
<1>2. CASE d.ok = TRUE /\ s.op = "sql"
  <2> DEFINE rows == DataStatement(s.name, d.rows)
  <2>1. /\ e.tables = d.tables /\ e.rows = rows /\ rows = DataStatement(s.name, d.rows)
        /\ e = [tables |-> e.tables, rows |-> e.rows, ok |-> e.ok] /\ e.ok \in BOOLEAN
    BY <1>0, <1>2 DEF Execute, IsDatabase, Legal
  <2>2. DOMAIN rows = DOMAIN d.rows /\ \A u : u # t => rows[u] = d.rows[u]
    BY <1>0, <1>2, DataWritten DEF Known, Touches
  <2>3. e.ok = TRUE => Legal(e)
    <3> DEFINE after == [d EXCEPT !.rows = DataStatement(s.name, @)]
    <3>1. e.ok = Legal(after) /\ after.tables = e.tables /\ after.rows = e.rows
      BY <1>0, <1>2 DEF Execute, IsDatabase
    <3>2. Legal(after) = Legal(e)
      BY <3>1, Zenon DEF Legal
    <3> QED
      BY <3>1, <3>2
  <2> HIDE DEF rows
  <2> QED
    BY <1>0, <1>2, <2>1, <2>2, <2>3 DEF IsDatabase, Same, Done
<1>3. CASE d.ok = TRUE /\ s.op # "sql" /\ ~Accepts(d, s)
  <2>1. e = [d EXCEPT !.ok = FALSE]
    BY <1>0, <1>3 DEF Execute, Define
  <2> QED
    BY <2>1 DEF IsDatabase
<1>4. CASE d.ok = TRUE /\ s.op # "sql" /\ Accepts(d, s)
  <2>1. e = Define(d, s) /\ s.table = t
    BY <1>0, <1>4 DEF Execute, Touches
  <2>2. CASE s.op = "create"
    <3>1. e = [d EXCEPT !.tables = With(@, t, s.def), !.rows = With(@, t, <<>>)]
      BY <1>4, <2>1, <2>2 DEF Define
    <3>2. t \notin DOMAIN d.tables
      BY <1>4, <2>1, <2>2 DEF Accepts
    <3>3. /\ e.tables = With(d.tables, t, s.def) /\ e.rows = With(d.rows, t, <<>>)
          /\ e = [tables |-> e.tables, rows |-> e.rows, ok |-> e.ok] /\ e.ok = TRUE
      BY <1>4, <3>1 DEF IsDatabase
    <3>4. /\ DOMAIN e.tables = DOMAIN d.tables \cup {t} /\ DOMAIN e.rows = DOMAIN d.rows \cup {t}
          /\ e.tables[t] = s.def /\ e.rows[t] = <<>>
          /\ \A u \in DOMAIN d.tables : u # t => e.tables[u] = d.tables[u]
          /\ \A u \in DOMAIN d.rows : u # t => e.rows[u] = d.rows[u]
      BY <3>3 DEF With
    <3> QED
      BY <1>0, <1>4, <2>2, <3>2, <3>3, <3>4 DEF IsDatabase, Same, Done
  <2>3. CASE s.op = "drop"
    <3>1. e = [d EXCEPT !.tables = Without(@, t), !.rows = Without(@, t)]
      BY <1>4, <2>1, <2>3 DEF Define
    <3>2. t \in DOMAIN d.tables
      BY <1>4, <2>1, <2>3 DEF Accepts
    <3>3. /\ e.tables = Without(d.tables, t) /\ e.rows = Without(d.rows, t)
          /\ e = [tables |-> e.tables, rows |-> e.rows, ok |-> e.ok] /\ e.ok = TRUE
      BY <1>4, <3>1 DEF IsDatabase
    <3>4. /\ DOMAIN e.tables = DOMAIN d.tables \ {t} /\ DOMAIN e.rows = DOMAIN d.rows \ {t}
          /\ \A u \in DOMAIN d.tables : u # t => e.tables[u] = d.tables[u]
          /\ \A u \in DOMAIN d.rows : u # t => e.rows[u] = d.rows[u]
      BY <3>3 DEF Without
    <3> QED
      BY <1>0, <1>4, <2>3, <3>2, <3>3, <3>4 DEF IsDatabase, Same, Done
  <2>4. CASE s.op \notin {"create", "drop"}
    <3>1. e = [d EXCEPT !.tables[t] = Defined(@, s), !.rows[t] = RowsAfter(@, s)]
      BY <1>4, <2>1, <2>4 DEF Define
    <3>2. t \in DOMAIN d.tables /\ s.op \in Alterations
      BY <1>4, <2>1, <2>4 DEF Accepts, Alterations
    <3>3. /\ e.tables = [d.tables EXCEPT ![t] = Defined(@, s)]
          /\ e.rows = [d.rows EXCEPT ![t] = RowsAfter(@, s)]
          /\ e = [tables |-> e.tables, rows |-> e.rows, ok |-> e.ok] /\ e.ok = TRUE
      BY <1>4, <3>1 DEF IsDatabase
    <3> QED
      BY <1>0, <1>4, <2>4, <3>2, <3>3 DEF IsDatabase, Same, Done
  <2> QED
    BY <2>2, <2>3, <2>4
<1> QED
  BY <1>1, <1>2, <1>3, <1>4 DEF IsDatabase

-----------------------------------------------------------------------------
(* What a script does                                                      *)

\* The columns that may be added to a table, and those that may be dropped: no
\* unique constraint tells its rows apart by them.
Fillable(col) == col = Required \/ col.null = TRUE \/ col.default # NULL
Addable(t, c, col) ==
    /\ Fillable(col) /\ t \notin VersionTables
    /\ t = "memories" => c \notin MemoryKey /\ Keeps(t, c)
Droppable(t, c) == t \notin VersionTables /\ (t = "memories" => c \notin MemoryKey)

\* A statement that keeps a database well formed and its rows legal.
Sound(s) ==
    /\ Known(s)
    /\ s.op = "create" /\ s.table \in DOMAIN Kept =>
          /\ IsDefinition(s.def) /\ \A k \in s.def.keys : SafeKey(s.table, k)
          /\ \A u \in s.def.uniques : u.active = FALSE /\ s.table \in VersionTables
    /\ s.op = "add key" /\ s.table \in DOMAIN Kept => SafeKey(s.table, s.key)
    /\ s.op = "add unique" /\ s.table \in DOMAIN Kept => s.table = "memories" /\ s.unique.on \subseteq Identity
    /\ s.op = "add column" /\ s.table \in DOMAIN Kept => Addable(s.table, s.name, s.col)
    /\ s.op = "drop column" /\ s.table \in DOMAIN Kept => Droppable(s.table, s.name)

\* What a statement does to which table, to which column and to what form.
ColumnOps == {"add column", "drop column", "alter column"}
Effect(s) == <<Touches(s), s.op, IF s.op \in ColumnOps THEN s.name ELSE "",
               IF s.op \in ColumnOps \ {"drop column"} THEN s.col ELSE Required>>

\* A script of which every effect on a table with rows is in T.
Obeys(s, T) == Sound(s) /\ (Touches(s) \in DOMAIN Kept => Effect(s) \in T)
Footprint(a, T) == IsList(a) /\ \A s \in Members(a) : Obeys(s, T)

\* The footprint of two scripts that have the same one.
LEMMA FootprintConcat ==
    ASSUME NEW T, NEW a, NEW b, Footprint(a, T), Footprint(b, T)
    PROVE  Footprint(a \o b, T)
  BY ConcatScripts DEF Footprint

\* A footprint may be taken larger.
LEMMA FootprintWidened ==
    ASSUME NEW T, NEW U, T \subseteq U, NEW a, Footprint(a, T)
    PROVE  Footprint(a, U)
  BY DEF Footprint, Obeys

\* A sound statement keeps a database well formed.
LEMMA FormKept ==
    ASSUME NEW d, WellFormed(d), NEW s, Sound(s), NEW e, IsDatabase(e), Done(d, s, e)
    PROVE  WellFormed(e)
<1> DEFINE Formed(t, f) == IsDefinition(f) /\ \A k \in f.keys : SafeKey(t, k)
<1> SUFFICES ASSUME NEW t \in DOMAIN Kept, t \in DOMAIN e.tables PROVE Formed(t, e.tables[t])
  BY DEF WellFormed
<1>1. t \in DOMAIN d.tables => Formed(t, d.tables[t])
  BY DEF WellFormed
<1>2. CASE t # Touches(s) \/ s.op = "sql"
  <2>1. t \in DOMAIN d.tables /\ e.tables[t] = d.tables[t]
    BY <1>2 DEF Done, Same
  <2> QED
    BY <1>1, <2>1
<1>3. CASE t = Touches(s) /\ s.op = "create"
  <2>1. e.tables[t] = s.def /\ t = s.table
    BY <1>3 DEF Done, Touches
  <2> QED
    BY <1>3, <2>1 DEF Sound
<1>4. CASE t = Touches(s) /\ s.op \notin {"create", "drop", "sql"}
  <2> DEFINE f == d.tables[t]
             g == e.tables[t]
  <2>1. t \in DOMAIN d.tables /\ g = Defined(f, s) /\ t = s.table
    BY <1>4 DEF Done, Touches
  <2>2. Formed(t, f)
    BY <1>1, <2>1
  <2>3. s.op = "add key" => SafeKey(t, s.key)
    BY <2>1 DEF Sound
  <2> HIDE DEF f, g
  <2>4. s.op \in Alterations
    BY <1>4 DEF Done
  <2>5. IsDefinition(g) /\ (g.keys \subseteq f.keys \/ (s.op = "add key" /\ g.keys = f.keys \cup {s.key}))
    <3>1. CASE s.op = "drop column"
      BY <2>1, <3>1 DEF Defined, DefWithout, IsDefinition
    <3>2. CASE s.op = "add key"
      BY <2>1, <2>2, <3>2 DEF Defined, IsDefinition
    <3>3. CASE s.op \notin {"drop column", "add key"}
      BY <2>1, <2>2, <2>4, <3>3 DEF Defined, IsDefinition, Alterations
    <3> QED
      BY <3>1, <3>2, <3>3
  <2> QED
    BY <2>2, <2>3, <2>5 DEF g
<1> QED
  BY <1>2, <1>3, <1>4 DEF Done

\* The databases that the run of a script leads through.
Traces(done, a, d) ==
    /\ done[0] = d /\ Run(a, d) = done[Len(a)]
    /\ \A i \in 0 .. Len(a) : WellFormed(done[i]) /\ done[i].ok = TRUE
    /\ \A i \in 1 .. Len(a) : Done(done[i - 1], a[i], done[i]) /\ done[i] = Execute(done[i - 1], a[i])

\* If the run of a script is not refused, none of its statements is.
LEMMA RunSteps ==
    ASSUME NEW a, NEW T, Footprint(a, T), NEW d, WellFormed(d), Run(a, d).ok = TRUE
    PROVE  \E done : Traces(done, a, d)
<1> DEFINE n == Len(a)
<1>1. n \in Nat /\ \A i \in 1 .. n : Sound(a[i])
  BY Scripts DEF Footprint, Obeys
<1>2. PICK done : Through(done, a, d) /\ Run(a, d) = done[n]
  BY <1>1, RunThrough
<1> DEFINE Fine(i) == /\ \A j \in 0 .. i : WellFormed(done[j]) /\ done[j].ok = TRUE
                      /\ \A j \in 1 .. i : Done(done[j - 1], a[j], done[j])
           S == {i \in Nat : IsDatabase(done[i]) /\ (done[i].ok = TRUE => Fine(i))}
<1>3. 0 \in S
  BY <1>2 DEF Through, WellFormed
<1>4. ASSUME NEW i \in 1 .. n, i - 1 \in S PROVE i \in S
  <2>1. Sound(a[i]) /\ Known(a[i]) /\ done[i] = Execute(done[i - 1], a[i])
    BY <1>1, <1>2 DEF Through, Sound
  <2>2. IsDatabase(done[i - 1]) /\ (done[i - 1].ok = TRUE => Fine(i - 1))
    BY <1>4
  <2> HIDE DEF S
  <2>3. IsDatabase(Execute(done[i - 1], a[i]))
    BY <2>1, <2>2, Executed, Zenon
  <2>4. done[i].ok = TRUE => Done(done[i - 1], a[i], done[i])
    BY <2>1, <2>2, Executed, Zenon
  <2>5. done[i].ok = TRUE => done[i - 1].ok = TRUE /\ WellFormed(done[i - 1])
    <3>1. i - 1 \in 0 .. i - 1
      OBVIOUS
    <3> QED
      BY <2>2, <2>4, <3>1 DEF Done
  <2>6. done[i].ok = TRUE => WellFormed(done[i])
    BY <2>1, <2>3, <2>4, <2>5, FormKept
  <2>7. /\ i \in Nat
        /\ \A j \in 0 .. i : j \in 0 .. i - 1 \/ j = i
        /\ \A j \in 1 .. i : j \in 1 .. i - 1 \/ j = i
    OBVIOUS
  <2>8. done[i].ok = TRUE => Fine(i)
    BY <2>2, <2>4, <2>5, <2>6, <2>7
  <2> QED
    BY <2>1, <2>3, <2>7, <2>8, Zenon DEF S
<1> HIDE DEF S
<1>5. \A i \in 0 .. n : i \in S
  BY <1>1, <1>3, <1>4, InductionUpTo
<1>6. n \in S /\ n \in 0 .. n
  BY <1>1, <1>5
<1> QED
  BY <1>2, <1>6 DEF S, Through, Traces

\* So does a script that is not refused.
LEMMA RunForm ==
    ASSUME NEW a, NEW T, Footprint(a, T), NEW d, WellFormed(d), Run(a, d).ok = TRUE
    PROVE  d.ok = TRUE /\ WellFormed(Run(a, d))
<1>1. Len(a) \in Nat /\ 0 \in 0 .. Len(a) /\ Len(a) \in 0 .. Len(a)
  <2>1. Len(a) \in Nat
    BY Scripts DEF Footprint, Obeys
  <2> QED
    BY <2>1
<1>2. PICK done : Traces(done, a, d)
  BY RunSteps
<1> QED
  BY <1>1, <1>2 DEF Traces

\* A table that no effect is on is the same after the run.
LEMMA RunSpares ==
    ASSUME NEW a, NEW T, Footprint(a, T), NEW d, WellFormed(d), Run(a, d).ok = TRUE,
           NEW t \in DOMAIN Kept, \A x \in T : x[1] # t
    PROVE  Same(t, d, Run(a, d))
<1>1. Len(a) \in Nat /\ \A i \in 1 .. Len(a) : Touches(a[i]) # t
  BY Scripts DEF Footprint, Obeys, Effect
<1>2. PICK done : Traces(done, a, d)
  BY RunSteps
<1> DEFINE S == {i \in Nat : Same(t, d, done[i])}
<1>3. 0 \in S
  BY <1>2 DEF Same, Traces
<1>4. ASSUME NEW i \in 1 .. Len(a), i - 1 \in S PROVE i \in S
  <2>1. Same(t, done[i - 1], done[i])
    BY <1>1, <1>2 DEF Done, Traces
  <2> QED
    BY <1>4, <2>1 DEF Same
<1> HIDE DEF S
<1>5. \A i \in 0 .. Len(a) : i \in S
  BY <1>1, <1>3, <1>4, InductionUpTo
<1>6. Len(a) \in S
  BY <1>1, <1>5
<1> QED
  BY <1>2, <1>6 DEF S, Traces

\* Rows that are kept, with the same values in columns C.
Alike(r, q, C) ==
    \A c \in C : (c \in DOMAIN q <=> c \in DOMAIN r) /\ (c \in DOMAIN r => q[c] = r[c])
Kindred(rows, after, C) ==
    DOMAIN after = DOMAIN rows /\ \A i \in DOMAIN rows : Alike(rows[i], after[i], C)
Spares(T, t, C) ==
    \A x \in T : x[1] = t => /\ x[2] \notin {"create", "drop", "sql"}
                             /\ x[2] \in {"add column", "drop column"} => x[3] \notin C

\* A statement on other columns leaves the columns C of the rows alone.
LEMMA RowsKept ==
    ASSUME NEW rows, NEW s, NEW C, s.op \in {"add column", "drop column"} => s.name \notin C
    PROVE  Kindred(rows, RowsAfter(rows, s), C)
<1>1. CASE s.op = "add column" /\ Keeps(s.table, s.name)
  <2>1. RowsAfter(rows, s) = [i \in DOMAIN rows |-> With(rows[i], s.name, s.col.default)]
    BY <1>1 DEF RowsAfter
  <2>2. s.name \notin C
    BY <1>1
  <2>3. ASSUME NEW r, NEW v PROVE Alike(r, With(r, s.name, v), C)
    BY <2>2 DEF Alike, With
  <2> QED
    BY <2>1, <2>3 DEF Kindred
<1>2. CASE s.op = "drop column"
  <2>1. RowsAfter(rows, s) = [i \in DOMAIN rows |-> Without(rows[i], s.name)]
    BY <1>2 DEF RowsAfter
  <2> QED
    BY <1>2, <2>1 DEF Kindred, Alike, Without
<1>3. CASE ~(s.op = "add column" /\ Keeps(s.table, s.name)) /\ s.op # "drop column"
  <2>1. RowsAfter(rows, s) = rows
    BY <1>3, Zenon DEF RowsAfter
  <2> QED
    BY <2>1 DEF Kindred, Alike
<1> QED
  BY <1>1, <1>2, <1>3

\* What two steps leave alone, both together do.
LEMMA KindredTwice ==
    ASSUME NEW rows, NEW x, NEW y, NEW C, Kindred(rows, x, C), Kindred(x, y, C)
    PROVE  Kindred(rows, y, C)
  BY DEF Kindred, Alike

\* A script whose effects on table t spare the columns C keeps them in every
\* row.
LEMMA RunKeepsRows ==
    ASSUME NEW a, NEW T, Footprint(a, T), NEW d, WellFormed(d), Run(a, d).ok = TRUE,
           NEW t \in DOMAIN Kept, t \in DOMAIN d.tables, NEW C, Spares(T, t, C)
    PROVE  t \in DOMAIN Run(a, d).tables /\ Kindred(d.rows[t], Run(a, d).rows[t], C)
<1>1. /\ Len(a) \in Nat
      /\ \A i \in 1 .. Len(a) : Touches(a[i]) = t => Effect(a[i]) \in T
  BY Scripts DEF Footprint, Obeys
<1>2. PICK done : Traces(done, a, d)
  BY RunSteps
<1> DEFINE S == {i \in Nat : t \in DOMAIN done[i].tables /\ Kindred(d.rows[t], done[i].rows[t], C)}
<1>3. 0 \in S
  BY <1>2 DEF Kindred, Alike, Traces
<1>4. ASSUME NEW i \in 1 .. Len(a), i - 1 \in S PROVE i \in S
  <2> DEFINE x == done[i - 1]
             y == done[i]
             s == a[i]
  <2>1. t \in DOMAIN x.tables /\ Kindred(d.rows[t], x.rows[t], C) /\ Done(x, s, y)
    BY <1>2, <1>4 DEF Traces
  <2>2. Touches(s) = t => Effect(s) \in T
    BY <1>1
  <2> HIDE DEF x, y, s
  <2>3. t \in DOMAIN y.tables /\ Kindred(d.rows[t], y.rows[t], C)
    <3>1. CASE Touches(s) # t
      <4>1. t \in DOMAIN y.tables /\ y.rows[t] = x.rows[t]
        BY <2>1, <3>1 DEF Done, Same
      <4> QED
        BY <2>1, <4>1
    <3>2. CASE Touches(s) = t
      <4>1. /\ Effect(s)[1] = t /\ Effect(s)[2] = s.op
            /\ s.op \in ColumnOps => Effect(s)[3] = s.name
        BY <3>2 DEF Effect
      <4>2. /\ s.op \notin {"create", "drop", "sql"}
            /\ s.op \in {"add column", "drop column"} => s.name \notin C
        BY <2>2, <3>2, <4>1 DEF Spares, ColumnOps
      <4>3. t \in DOMAIN y.tables /\ y.rows[t] = RowsAfter(x.rows[t], s)
        BY <2>1, <3>2, <4>2 DEF Done
      <4>4. Kindred(x.rows[t], y.rows[t], C)
        BY <4>2, <4>3, RowsKept
      <4>5. Kindred(d.rows[t], y.rows[t], C)
        BY <2>1, <4>4, KindredTwice
      <4> QED
        BY <4>3, <4>5
    <3> QED
      BY <3>1, <3>2
  <2> QED
    BY <2>3 DEF y
<1> HIDE DEF S
<1>5. \A i \in 0 .. Len(a) : i \in S
  BY <1>1, <1>3, <1>4, InductionUpTo
<1>6. Len(a) \in S
  BY <1>1, <1>5
<1> QED
  BY <1>2, <1>6 DEF S, Traces

\* The parts of an effect.
LEMMA EffectParts ==
    ASSUME NEW s
    PROVE  /\ Effect(s)[1] = Touches(s) /\ Effect(s)[2] = s.op
           /\ s.op \in ColumnOps => Effect(s)[3] = s.name
           /\ s.op \in {"add column", "alter column"} => Effect(s)[4] = s.col
  BY DEF Effect, ColumnOps

\* Every statement of a script on table t has its effect in the footprint.
LEMMA RunEffects ==
    ASSUME NEW a, NEW T, Footprint(a, T), NEW t \in DOMAIN Kept
    PROVE  /\ Len(a) \in Nat
           /\ \A s \in Members(a) : \E k \in 1 .. Len(a) : a[k] = s
           /\ \A i \in 1 .. Len(a) : Touches(a[i]) = t => Effect(a[i]) \in T
<1>1. /\ Len(a) \in Nat
      /\ \A i \in 1 .. Len(a) : Touches(a[i]) = t => Effect(a[i]) \in T
  BY Scripts DEF Footprint, Obeys
<1>2. \A s \in Members(a) : \E k \in 1 .. Len(a) : a[k] = s
  BY DEF Members
<1> QED
  BY <1>1, <1>2

\* A column that a statement adds is in every row.
Adds(s, t, c) == s.op = "add column" /\ s.table = t /\ s.name = c
Grows(T, t, c) ==
    \A x \in T : x[1] = t => /\ x[2] \notin {"create", "drop", "sql"}
                             /\ x[2] = "drop column" => x[3] # c

\* A script that adds a column and does not drop it leaves it in every row.
LEMMA RunGains ==
    ASSUME NEW a, NEW T, Footprint(a, T), NEW d, WellFormed(d), Run(a, d).ok = TRUE,
           NEW t \in DOMAIN Kept, NEW c, Keeps(t, c),
           \E s \in Members(a) : Adds(s, t, c), Grows(T, t, c)
    PROVE  \A i \in DOMAIN Run(a, d).rows[t] : c \in DOMAIN Run(a, d).rows[t][i]
<1>1. /\ Len(a) \in Nat
      /\ \A i \in 1 .. Len(a) : Touches(a[i]) = t => Effect(a[i]) \in T
  BY RunEffects, Zenon
<1>2. PICK done : Traces(done, a, d)
  BY RunSteps
<1>3. PICK k \in 1 .. Len(a) : Adds(a[k], t, c)
  <2>1. \A s \in Members(a) : \E k \in 1 .. Len(a) : a[k] = s
    BY RunEffects, Zenon
  <2> QED
    BY <2>1, Zenon
<1> DEFINE Given(x) == t \in DOMAIN x.tables /\ \A i \in DOMAIN x.rows[t] : c \in DOMAIN x.rows[t][i]
           S == {i \in Nat : i >= k => Given(done[i])}
<1>8. k \in Nat /\ k > 0 /\ k <= Len(a)
  BY <1>1, <1>3
<1>4. 0 \in S
  BY <1>8
<1>5. ASSUME NEW i \in 1 .. Len(a), i - 1 \in S PROVE i \in S
  <2>5. i \in Nat /\ i - 1 \in Nat /\ (i >= k => i = k \/ i - 1 >= k)
    BY <1>1, <1>8
  <2> DEFINE x == done[i - 1]
             y == done[i]
             s == a[i]
  <2>1. i >= k => i = k \/ Given(x)
    BY <1>5, <2>5
  <2>2. Done(x, s, y) /\ (Touches(s) = t => Effect(s) \in T)
    BY <1>1, <1>2 DEF Traces
  <2>3. i = k => Adds(s, t, c)
    BY <1>3
  <2> HIDE DEF x, y, s
  <2>4. i >= k => Given(y)
    <3> SUFFICES ASSUME i >= k PROVE Given(y)
      OBVIOUS
    <3>1. CASE Touches(s) # t
      <4>1. Given(x)
        BY <2>1, <2>3, <3>1 DEF Touches, Adds
      <4>2. t \in DOMAIN y.tables /\ y.rows[t] = x.rows[t]
        BY <2>2, <3>1, <4>1 DEF Done, Same
      <4> QED
        BY <4>1, <4>2
    <3>2. CASE Touches(s) = t
      <4>1. /\ s.op \notin {"create", "drop", "sql"}
            /\ s.op = "drop column" => s.name # c
        BY <2>2, <3>2, EffectParts DEF ColumnOps, Grows
      <4>2. t \in DOMAIN y.tables /\ y.rows[t] = RowsAfter(x.rows[t], s)
        BY <2>2, <3>2, <4>1 DEF Done
      <4>3. s.table = t
        BY <3>2, <4>1 DEF Touches
      <4>4. CASE s.op = "add column" /\ s.name = c
        <5>1. y.rows[t] = [j \in DOMAIN x.rows[t] |-> With(x.rows[t][j], c, s.col.default)]
          BY <4>2, <4>3, <4>4 DEF RowsAfter
        <5>2. ASSUME NEW j \in DOMAIN y.rows[t] PROVE c \in DOMAIN y.rows[t][j]
          <6>1. y.rows[t][j] = With(x.rows[t][j], c, s.col.default)
            BY <5>1
          <6> QED
            BY <6>1 DEF With
        <5> QED
          BY <4>2, <5>2
      <4>5. CASE ~(s.op = "add column" /\ s.name = c)
        <5>1. Given(x)
          BY <2>1, <2>3, <4>5 DEF Adds
        <5>2. Kindred(x.rows[t], RowsAfter(x.rows[t], s), {c})
          BY <4>1, <4>5, RowsKept
        <5> QED
          BY <4>2, <5>1, <5>2 DEF Kindred, Alike
      <4> QED
        BY <4>4, <4>5
    <3> QED
      BY <3>1, <3>2
  <2> QED
    BY <2>4, <2>5 DEF y
<1> HIDE DEF S
<1>6. \A i \in 0 .. Len(a) : i \in S
  BY <1>1, <1>4, <1>5, InductionUpTo
<1>7. Len(a) \in S /\ Len(a) >= k
  BY <1>1, <1>8, <1>6
<1> QED
  BY <1>2, <1>7 DEF S, Traces

\* What holds at one step and is kept by the later ones holds at the end.
LEMMA Since ==
    ASSUME NEW n \in Nat, NEW k \in 0 .. n, NEW S, k \in S,
           \A i \in k + 1 .. n : i - 1 \in S => i \in S
    PROVE  n \in S
<1> DEFINE U == {i \in Nat : i >= k => i \in S}
<1>1. 0 \in U
  OBVIOUS
<1>2. ASSUME NEW i \in 1 .. n, i - 1 \in U PROVE i \in U
  <2>1. CASE i < k
    BY <2>1
  <2>2. CASE i = k
    BY <2>2
  <2>3. CASE i > k
    <3>1. i - 1 \in S /\ i \in k + 1 .. n /\ i \in Nat
      BY <1>2, <2>3
    <3> QED
      BY <3>1
  <2> QED
    BY <2>1, <2>2, <2>3
<1> HIDE DEF U
<1>3. \A i \in 0 .. n : i \in U
  BY <1>1, <1>2, InductionUpTo
<1>4. n \in U /\ n >= k
  BY <1>3
<1> QED
  BY <1>4 DEF U

\* A column has the form v, and the script gives it no other.
HasColumn(d, t, c, v) ==
    t \in DOMAIN d.tables /\ c \in DOMAIN d.tables[t].cols /\ d.tables[t].cols[c] = v
Forms(T, t, c, v) ==
    \A x \in T : x[1] = t => /\ x[2] \notin {"create", "drop"}
                             /\ x[2] \in ColumnOps /\ x[3] = c => x[2] # "drop column" /\ x[4] = v
Alters(s, t, c) == s.op = "alter column" /\ s.table = t /\ s.name = c

\* A column that has the form v, or is altered to it, has it after the
\* statement.
LEMMA ColumnStep ==
    ASSUME NEW d, WellFormed(d), NEW s, NEW e, Done(d, s, e), NEW t \in DOMAIN Kept,
           NEW T, Touches(s) = t => Effect(s) \in T, NEW c, NEW v, Forms(T, t, c, v),
           HasColumn(d, t, c, v) \/ Alters(s, t, c)
    PROVE  HasColumn(e, t, c, v)
<1>1. CASE Touches(s) # t
  BY <1>1 DEF Done, Same, HasColumn, Alters, Touches
<1>2. CASE Touches(s) = t /\ s.op = "sql"
  BY <1>2 DEF Done, HasColumn, Alters
<1>3. CASE Touches(s) = t /\ s.op # "sql"
  <2>1. /\ s.op \notin {"create", "drop", "sql"}
        /\ s.op \in ColumnOps /\ s.name = c => s.op # "drop column" /\ s.col = v
    BY <1>3, EffectParts DEF Forms, ColumnOps
  <2> DEFINE f == d.tables[t]
             g == e.tables[t]
  <2>2. /\ t \in DOMAIN d.tables /\ t \in DOMAIN e.tables /\ s.op \in Alterations
        /\ g = Defined(f, s)
    BY <1>3, <2>1 DEF Done
  <2>3. IsDefinition(f)
    BY <2>2 DEF WellFormed
  <2>4. (c \in DOMAIN f.cols /\ f.cols[c] = v) \/ (s.op = "alter column" /\ s.name = c)
    BY <2>2 DEF HasColumn, Alters
  <2> HIDE DEF f, g
  <2>5. c \in DOMAIN g.cols /\ g.cols[c] = v
    <3>1. CASE s.op \in {"add column", "alter column"}
      <4>1. g.cols = With(f.cols, s.name, s.col)
        BY <2>2, <2>3, <3>1 DEF Defined, IsDefinition
      <4> QED
        BY <2>1, <2>4, <3>1, <4>1 DEF With, ColumnOps
    <3>2. CASE s.op = "drop column"
      <4>1. g.cols = Without(f.cols, s.name)
        BY <2>2, <2>3, <3>2 DEF Defined, DefWithout, IsDefinition
      <4> QED
        BY <2>1, <2>4, <3>2, <4>1 DEF Without, ColumnOps
    <3>3. CASE s.op \notin ColumnOps
      <4>1. g.cols = f.cols
        BY <2>2, <2>3, <3>3 DEF Defined, IsDefinition, ColumnOps, Alterations
      <4> QED
        BY <2>4, <3>3, <4>1 DEF ColumnOps
    <3> QED
      BY <3>1, <3>2, <3>3 DEF ColumnOps
  <2> QED
    BY <2>2, <2>5 DEF HasColumn, f, g
<1> QED
  BY <1>1, <1>2, <1>3

\* So after a script that alters it to no other form.
LEMMA RunColumn ==
    ASSUME NEW a, NEW T, Footprint(a, T), NEW d, WellFormed(d), Run(a, d).ok = TRUE,
           NEW t \in DOMAIN Kept, NEW c, NEW v, Forms(T, t, c, v),
           HasColumn(d, t, c, v) \/ \E s \in Members(a) : Alters(s, t, c)
    PROVE  HasColumn(Run(a, d), t, c, v)
<1>1. /\ Len(a) \in Nat
      /\ \A i \in 1 .. Len(a) : Touches(a[i]) = t => Effect(a[i]) \in T
  BY RunEffects, Zenon
<1>2. PICK done : Traces(done, a, d)
  BY RunSteps
<1> DEFINE S == {i \in Nat : HasColumn(done[i], t, c, v)}
<1>3. ASSUME NEW i \in 1 .. Len(a), HasColumn(done[i - 1], t, c, v) \/ Alters(a[i], t, c)
      PROVE  i \in S
  <2>1. WellFormed(done[i - 1]) /\ Done(done[i - 1], a[i], done[i])
    <3>1. i - 1 \in 0 .. Len(a)
      BY <1>1
    <3> QED
      BY <1>2, <3>1 DEF Traces
  <2>2. HasColumn(done[i], t, c, v)
    BY <1>1, <1>3, <2>1, ColumnStep
  <2> QED
    BY <1>1, <2>2
<1>4. \E k \in 0 .. Len(a) : k \in S
  <2>1. CASE HasColumn(d, t, c, v)
    <3>1. 0 \in S /\ 0 \in 0 .. Len(a)
      BY <1>1, <1>2, <2>1 DEF Traces
    <3> QED
      BY <3>1
  <2>2. CASE \E s \in Members(a) : Alters(s, t, c)
    <3>1. \A s \in Members(a) : \E k \in 1 .. Len(a) : a[k] = s
      BY RunEffects, Zenon
    <3>2. PICK k \in 1 .. Len(a) : Alters(a[k], t, c)
      BY <2>2, <3>1, Zenon
    <3>3. k \in S /\ k \in 0 .. Len(a)
      BY <1>1, <1>3, <3>2
    <3> QED
      BY <3>3
  <2> QED
    BY <2>1, <2>2
<1>5. PICK k \in 0 .. Len(a) : k \in S
  BY <1>4
<1>6. \A i \in k + 1 .. Len(a) : i - 1 \in S => i \in S
  <2> SUFFICES ASSUME NEW i \in k + 1 .. Len(a), i - 1 \in S PROVE i \in S
    OBVIOUS
  <2>1. i \in 1 .. Len(a) /\ HasColumn(done[i - 1], t, c, v)
    BY <1>1
  <2> QED
    BY <1>3, <2>1
<1> HIDE DEF S
<1>7. Len(a) \in S
  BY <1>1, <1>5, <1>6, Since
<1> QED
  BY <1>2, <1>7 DEF S, Traces

\* A table that a script creates is there, with its columns and keys and without rows.
Creates(s, t) == s.op = "create" /\ s.table = t
Founds(T, t) == \A x \in T : x[1] = t => x[2] \notin {"drop", "sql", "add key", "drop key"} \cup ColumnOps
Founded(d, t, f) ==
    /\ t \in DOMAIN d.tables /\ d.rows[t] = <<>>
    /\ d.tables[t].cols = f.cols /\ d.tables[t].keys = f.keys

\* A script that creates a table, once, leaves it with that definition and no
\* rows.
LEMMA RunFounds ==
    ASSUME NEW a, NEW T, Footprint(a, T), NEW d, WellFormed(d), Run(a, d).ok = TRUE,
           NEW t \in DOMAIN Kept, Founds(T, t), NEW s \in Members(a), Creates(s, t)
    PROVE  Founded(Run(a, d), t, s.def)
<1>1. /\ Len(a) \in Nat
      /\ \A i \in 1 .. Len(a) : Touches(a[i]) = t => Effect(a[i]) \in T
  BY RunEffects, Zenon
<1>2. PICK done : Traces(done, a, d)
  BY RunSteps
<1>3. PICK k \in 1 .. Len(a) : a[k] = s
  BY RunEffects, Zenon
<1> DEFINE S == {i \in Nat : Founded(done[i], t, s.def)}
<1>4. k \in S /\ k \in 0 .. Len(a)
  <2>1. Done(done[k - 1], s, done[k])
    BY <1>2, <1>3 DEF Traces
  <2>2. Founded(done[k], t, s.def)
    BY <2>1 DEF Done, Founded, Creates, Touches
  <2>3. k \in Nat /\ k \in 0 .. Len(a)
    BY <1>1
  <2> QED
    BY <2>2, <2>3
<1>5. \A i \in k + 1 .. Len(a) : i - 1 \in S => i \in S
  <2> SUFFICES ASSUME NEW i \in k + 1 .. Len(a), i - 1 \in S PROVE i \in S
    OBVIOUS
  <2> DEFINE x == done[i - 1]
             y == done[i]
             o == a[i]
  <2>1. i \in 1 .. Len(a) /\ i \in Nat /\ i - 1 \in 0 .. Len(a)
    BY <1>1
  <2>2. /\ Founded(x, t, s.def) /\ Done(x, o, y) /\ WellFormed(x)
        /\ Touches(o) = t => Effect(o) \in T
    BY <1>1, <1>2, <2>1 DEF Traces
  <2> HIDE DEF x, y, o, S
  <2>3. Founded(y, t, s.def)
    <3>1. CASE Touches(o) # t
      BY <2>2, <3>1 DEF Done, Same, Founded
    <3>2. CASE Touches(o) = t
      <4>1. o.op \notin {"drop", "sql", "add key", "drop key"} \cup ColumnOps
        BY <2>2, <3>2, EffectParts DEF Founds
      <4>2. o.op # "create"
        BY <2>2, <3>2 DEF Done, Founded
      <4>3. /\ t \in DOMAIN y.tables /\ o.op \in Alterations
            /\ y.tables[t] = Defined(x.tables[t], o) /\ y.rows[t] = RowsAfter(x.rows[t], o)
        BY <2>2, <3>2, <4>1, <4>2 DEF Done
      <4>4. RowsAfter(x.rows[t], o) = x.rows[t]
        BY <4>1, Zenon DEF RowsAfter, ColumnOps
      <4>5. /\ Defined(x.tables[t], o).cols = x.tables[t].cols
            /\ Defined(x.tables[t], o).keys = x.tables[t].keys
        <5> DEFINE f == x.tables[t]
        <5>1. IsDefinition(f)
          BY <2>2 DEF WellFormed, Founded
        <5> HIDE DEF f
        <5>2. Defined(f, o).cols = f.cols /\ Defined(f, o).keys = f.keys
          BY <4>1, <4>3, <5>1 DEF Defined, IsDefinition, ColumnOps, Alterations
        <5> QED
          BY <5>2 DEF f
      <4> QED
        BY <2>2, <4>3, <4>4, <4>5 DEF Founded
    <3> QED
      BY <3>1, <3>2
  <2> QED
    BY <2>1, <2>3 DEF S, y
<1> HIDE DEF S
<1>6. Len(a) \in S
  BY <1>1, <1>4, <1>5, Since
<1> QED
  BY <1>2, <1>6 DEF S, Traces

\* A table that a script drops is gone.
Drops(s, t) == s.op = "drop" /\ s.table = t

\* A script that drops a table and does not create it leaves none.
LEMMA RunRazes ==
    ASSUME NEW a, NEW T, Footprint(a, T), NEW d, WellFormed(d), Run(a, d).ok = TRUE,
           NEW t \in DOMAIN Kept, \A x \in T : x[1] = t => x[2] # "create",
           \E s \in Members(a) : Drops(s, t)
    PROVE  t \notin DOMAIN Run(a, d).tables
<1>1. /\ Len(a) \in Nat
      /\ \A i \in 1 .. Len(a) : Touches(a[i]) = t => Effect(a[i]) \in T
  BY RunEffects, Zenon
<1>2. PICK done : Traces(done, a, d)
  BY RunSteps
<1>3. PICK k \in 1 .. Len(a) : Drops(a[k], t)
  <2>1. \A s \in Members(a) : \E k \in 1 .. Len(a) : a[k] = s
    BY RunEffects, Zenon
  <2> QED
    BY <2>1, Zenon
<1> DEFINE S == {i \in Nat : t \notin DOMAIN done[i].tables}
<1>4. k \in S /\ k \in 0 .. Len(a)
  <2>1. Done(done[k - 1], a[k], done[k])
    BY <1>2, <1>3 DEF Traces
  <2>2. t \notin DOMAIN done[k].tables
    BY <1>3, <2>1 DEF Done, Drops, Touches
  <2>3. k \in Nat /\ k \in 0 .. Len(a)
    BY <1>1
  <2> QED
    BY <2>2, <2>3
<1>5. \A i \in k + 1 .. Len(a) : i - 1 \in S => i \in S
  <2> SUFFICES ASSUME NEW i \in k + 1 .. Len(a), i - 1 \in S PROVE i \in S
    OBVIOUS
  <2> DEFINE x == done[i - 1]
             y == done[i]
             o == a[i]
  <2>1. i \in 1 .. Len(a) /\ i \in Nat
    BY <1>1
  <2>2. t \notin DOMAIN x.tables /\ Done(x, o, y) /\ (Touches(o) = t => Effect(o) \in T)
    BY <1>1, <1>2, <2>1 DEF Traces
  <2> HIDE DEF x, y, o, S
  <2>3. Touches(o) = t => o.op # "create"
    BY <2>2, EffectParts
  <2>4. t \notin DOMAIN y.tables
    BY <2>2, <2>3 DEF Done, Same
  <2> QED
    BY <2>1, <2>4 DEF S, y
<1> HIDE DEF S
<1>6. Len(a) \in S
  BY <1>1, <1>4, <1>5, Since
<1> QED
  BY <1>2, <1>6 DEF S, Traces

-----------------------------------------------------------------------------
(* The footprints of short scripts                                         *)

\* A list given by a function on 1 .. n.
LEMMA MappedScript ==
    ASSUME NEW n \in Nat, NEW f, f = [i \in 1 .. n |-> f[i]]
    PROVE  IsList(f) /\ Len(f) = n /\ Members(f) = {f[i] : i \in 1 .. n}
<1> DEFINE S == {f[i] : i \in 1 .. n}
<1>1. f \in [1 .. n -> S]
  OBVIOUS
<1> HIDE DEF S
<1>2. f \in Seq(S)
  BY <1>1, SeqDef
<1>3. Len(f) = n
  BY <1>1, <1>2, LenProperties
<1>4. Members(f) = S
  BY <1>3 DEF Members, S
<1> QED
  BY <1>2, <1>3, <1>4 DEF IsList, S

\* The footprint of up to six statements.
LEMMA Tuples ==
    ASSUME NEW T
    PROVE  /\ \A a : Obeys(a, T) => Footprint(<<a>>, T)
           /\ \A a, b : Obeys(a, T) /\ Obeys(b, T) => Footprint(<<a, b>>, T)
           /\ \A a, b, c : Obeys(a, T) /\ Obeys(b, T) /\ Obeys(c, T) => Footprint(<<a, b, c>>, T)
           /\ \A a, b, c, d : Obeys(a, T) /\ Obeys(b, T) /\ Obeys(c, T) /\ Obeys(d, T)
                 => Footprint(<<a, b, c, d>>, T)
           /\ \A a, b, c, d, e : Obeys(a, T) /\ Obeys(b, T) /\ Obeys(c, T) /\ Obeys(d, T) /\ Obeys(e, T)
                 => Footprint(<<a, b, c, d, e>>, T)
           /\ \A a, b, c, d, e, f :
                 Obeys(a, T) /\ Obeys(b, T) /\ Obeys(c, T) /\ Obeys(d, T) /\ Obeys(e, T) /\ Obeys(f, T)
                 => Footprint(<<a, b, c, d, e, f>>, T)
<1>1. ASSUME NEW s, NEW n \in 1 .. 6, Len(s) = n, s = [i \in 1 .. n |-> s[i]],
             \A i \in 1 .. n : Obeys(s[i], T)
      PROVE  Footprint(s, T)
  <2>1. n \in Nat
    OBVIOUS
  <2>2. IsList(s) /\ Members(s) = {s[i] : i \in 1 .. n}
    BY <1>1, <2>1, MappedScript
  <2> QED
    BY <1>1, <2>2 DEF Footprint
<1>2. \A a : Obeys(a, T) => Footprint(<<a>>, T)
  BY <1>1
<1>3. \A a, b : Obeys(a, T) /\ Obeys(b, T) => Footprint(<<a, b>>, T)
  BY <1>1
<1>4. \A a, b, c : Obeys(a, T) /\ Obeys(b, T) /\ Obeys(c, T) => Footprint(<<a, b, c>>, T)
  BY <1>1
<1>5. \A a, b, c, d : Obeys(a, T) /\ Obeys(b, T) /\ Obeys(c, T) /\ Obeys(d, T) => Footprint(<<a, b, c, d>>, T)
  BY <1>1
<1>6. \A a, b, c, d, e : Obeys(a, T) /\ Obeys(b, T) /\ Obeys(c, T) /\ Obeys(d, T) /\ Obeys(e, T)
                        => Footprint(<<a, b, c, d, e>>, T)
  BY <1>1
<1>7. \A a, b, c, d, e, f :
         Obeys(a, T) /\ Obeys(b, T) /\ Obeys(c, T) /\ Obeys(d, T) /\ Obeys(e, T) /\ Obeys(f, T)
         => Footprint(<<a, b, c, d, e, f>>, T)
  BY <1>1
<1> QED
  BY <1>2, <1>3, <1>4, <1>5, <1>6, <1>7

\* The five tables with rows.
LEMMA KeptTables ==
    DOMAIN Kept = {"memories", "characters", "character_versions", "personas", "persona_versions"}
  BY DEF Kept

\* Which of them have profiles and which their versions.
LEMMA TableKinds ==
    /\ "characters" \in OwnerTables /\ "personas" \in OwnerTables
    /\ "character_versions" \in VersionTables /\ "persona_versions" \in VersionTables
  BY DEF OwnerTables, VersionTables

\* Statements on indexes and constraints fit a footprint that names their
\* effect.
LEMMA Statements ==
    ASSUME NEW T, NEW t
    PROVE  /\ (t \in DOMAIN Kept => <<t, "add index", "", Required>> \in T)
                 => \A on : Obeys(AddIndex(t, on), T)
           /\ (t \in DOMAIN Kept => <<t, "drop index", "", Required>> \in T)
                 => \A on : Obeys(DropIndex(t, on), T)
           /\ \A on, active : (t \in DOMAIN Kept =>
                                  /\ t = "memories" /\ on \subseteq Identity
                                  /\ <<t, "add unique", "", Required>> \in T)
                 => Obeys(AddUnique(t, on, active), T)
           /\ (t \in DOMAIN Kept => <<t, "drop unique", "", Required>> \in T)
                 => \A on, active : Obeys(DropUnique(t, on, active), T)
           /\ (t \in DOMAIN Kept => <<t, "add check", "", Required>> \in T)
                 => \A c, allowed : Obeys(AddCheck(t, c, allowed), T)
           /\ (t \in DOMAIN Kept => <<t, "drop check", "", Required>> \in T)
                 => \A c : Obeys(DropCheck(t, c), T)
           /\ (t \in DOMAIN Kept => <<t, "drop key", "", Required>> \in T)
                 => \A c : Obeys(DropKey(t, c), T)
           /\ (t \in DOMAIN Kept => <<t, "drop", "", Required>> \in T) => Obeys(DropTable(t), T)
           /\ \A k : (t \in DOMAIN Kept => <<t, "add key", "", Required>> \in T /\ SafeKey(t, k))
                 => Obeys(AddKey(t, k), T)
           /\ \A c, col : (t \in DOMAIN Kept => <<t, "add column", c, col>> \in T /\ Addable(t, c, col))
                 => Obeys(AddColumn(t, c, col), T)
           /\ \A c, col : (t \in DOMAIN Kept => <<t, "alter column", c, col>> \in T)
                 => Obeys(AlterColumn(t, c, col), T)
           /\ \A c : (t \in DOMAIN Kept => <<t, "drop column", c, Required>> \in T /\ Droppable(t, c))
                 => Obeys(DropColumn(t, c), T)
<1>1. ASSUME NEW s, s.table = t, s.op \notin {"create", "sql"} \cup ColumnOps,
             s.op = "add key" /\ t \in DOMAIN Kept => SafeKey(t, s.key),
             s.op = "add unique" /\ t \in DOMAIN Kept => t = "memories" /\ s.unique.on \subseteq Identity,
             t \in DOMAIN Kept => <<t, s.op, "", Required>> \in T
      PROVE  Obeys(s, T)
  BY <1>1 DEF Obeys, Sound, Known, Touches, Effect, ColumnOps
<1>2. ASSUME NEW s, s.table = t, s.op \in ColumnOps,
             t \in DOMAIN Kept =>
                 <<t, s.op, s.name, IF s.op = "drop column" THEN Required ELSE s.col>> \in T,
             s.op = "add column" /\ t \in DOMAIN Kept => Addable(t, s.name, s.col),
             s.op = "drop column" /\ t \in DOMAIN Kept => Droppable(t, s.name)
      PROVE  Obeys(s, T)
  BY <1>2 DEF Obeys, Sound, Known, Touches, Effect, ColumnOps
<1>3. (t \in DOMAIN Kept => <<t, "add index", "", Required>> \in T) => \A on : Obeys(AddIndex(t, on), T)
  BY <1>1 DEF AddIndex, ColumnOps
<1>4. (t \in DOMAIN Kept => <<t, "drop index", "", Required>> \in T) => \A on : Obeys(DropIndex(t, on), T)
  BY <1>1 DEF DropIndex, ColumnOps
<1>5. \A on, active : (t \in DOMAIN Kept =>
                           /\ t = "memories" /\ on \subseteq Identity
                           /\ <<t, "add unique", "", Required>> \in T)
      => Obeys(AddUnique(t, on, active), T)
  BY <1>1 DEF AddUnique, ColumnOps
<1>6. (t \in DOMAIN Kept => <<t, "drop unique", "", Required>> \in T) => \A on, active : Obeys(DropUnique(t, on, active), T)
  BY <1>1 DEF DropUnique, ColumnOps
<1>7. (t \in DOMAIN Kept => <<t, "add check", "", Required>> \in T) => \A c, allowed : Obeys(AddCheck(t, c, allowed), T)
  BY <1>1 DEF AddCheck, ColumnOps
<1>8. (t \in DOMAIN Kept => <<t, "drop check", "", Required>> \in T) => \A c : Obeys(DropCheck(t, c), T)
  BY <1>1 DEF DropCheck, ColumnOps
<1>9. (t \in DOMAIN Kept => <<t, "drop key", "", Required>> \in T) => \A c : Obeys(DropKey(t, c), T)
  BY <1>1 DEF DropKey, ColumnOps
<1>10. (t \in DOMAIN Kept => <<t, "drop", "", Required>> \in T) => Obeys(DropTable(t), T)
  BY <1>1 DEF DropTable, ColumnOps
<1>11. \A k : (t \in DOMAIN Kept => <<t, "add key", "", Required>> \in T /\ SafeKey(t, k)) => Obeys(AddKey(t, k), T)
  BY <1>1 DEF AddKey, ColumnOps
<1>12. \A c, col : (t \in DOMAIN Kept => <<t, "add column", c, col>> \in T /\ Addable(t, c, col)) => Obeys(AddColumn(t, c, col), T)
  BY <1>2 DEF AddColumn, ColumnOps
<1>13. \A c, col : (t \in DOMAIN Kept => <<t, "alter column", c, col>> \in T) => Obeys(AlterColumn(t, c, col), T)
  BY <1>2 DEF AlterColumn, ColumnOps
<1>14. \A c : (t \in DOMAIN Kept => <<t, "drop column", c, Required>> \in T /\ Droppable(t, c)) => Obeys(DropColumn(t, c), T)
  BY <1>2 DEF DropColumn, ColumnOps
<1> QED
  BY <1>3, <1>4, <1>5, <1>6, <1>7, <1>8, <1>9, <1>10, <1>11, <1>12, <1>13, <1>14

\* The columns that the revisions add and drop.
LEMMA OwnerColumns ==
    /\ \A t \in OwnerTables : \A c :
          /\ Addable(t, c, Optional) /\ Addable(t, c, Default("true"))
          /\ Addable(t, c, Default("false")) /\ Addable(t, c, Default("{}"))
          /\ Droppable(t, c)
    /\ Addable("memories", "archived_at", Optional) /\ Droppable("memories", "archived_at")
<1>1. Fillable(Optional)
  BY DEF Fillable, Optional
<1>2. ASSUME NEW v, v # NULL PROVE Fillable(Default(v))
  BY <1>2 DEF Fillable, Default
<1>3. "true" # NULL /\ "false" # NULL /\ "{}" # NULL
  BY DEF NULL
<1>4. Keeps("memories", "archived_at") /\ "archived_at" \notin MemoryKey
  BY DEF Keeps, Kept, MemoryKey
<1>5. /\ "memories" \notin VersionTables
      /\ \A t \in OwnerTables : t \notin VersionTables /\ t # "memories"
  BY DEF OwnerTables, VersionTables
<1>6. \A t \in OwnerTables : \A c : Droppable(t, c) /\ \A col : Fillable(col) => Addable(t, c, col)
  BY <1>5 DEF Addable, Droppable
<1>7. Addable("memories", "archived_at", Optional) /\ Droppable("memories", "archived_at")
  BY <1>1, <1>4, <1>5 DEF Addable, Droppable
<1>8. /\ Fillable(Optional) /\ Fillable(Default("true")) /\ Fillable(Default("false"))
      /\ Fillable(Default("{}"))
  BY <1>1, <1>2, <1>3, Zenon
<1> QED
  BY <1>6, <1>7, <1>8, Zenon

\* A CREATE TABLE fits when its keys are safe.
LEMMA TableStatement ==
    ASSUME NEW T, NEW t, NEW cols, NEW keys, NEW checks, NEW uniques,
           t \in DOMAIN Kept => /\ <<t, "create", "", Required>> \in T
                                /\ \A k \in keys : SafeKey(t, k)
                                /\ uniques = {} \/ t \in VersionTables
    PROVE  Obeys(CreateTable(t, cols, keys, checks, uniques), T)
<1> DEFINE s == CreateTable(t, cols, keys, checks, uniques)
           us == {[on |-> u, active |-> FALSE] : u \in uniques}
<1>1. /\ s.op = "create" /\ s.table = t /\ IsDefinition(s.def) /\ s.def.keys = keys
      /\ s.def.uniques = us
  BY DEF CreateTable, IsDefinition
<1>2. uniques = {} => us = {}
  OBVIOUS
<1>3. \A u \in us : u.active = FALSE
  <2>1. \A v : [on |-> v, active |-> FALSE].active = FALSE
    BY Zenon
  <2> QED
    BY <2>1
<1>4. \A u \in us : u.active = FALSE /\ (t \in DOMAIN Kept => t \in VersionTables)
  BY <1>2, <1>3
<1> HIDE DEF s, us
<1> QED
  BY <1>1, <1>4 DEF Obeys, Sound, Known, Touches, Effect, ColumnOps, s

\* A data statement fits a footprint that names its table.
LEMMA DataStatements ==
    ASSUME NEW T, NEW name \in DataNames, <<DataTable(name), "sql", "", Required>> \in T
    PROVE  Obeys(Sql(name), T)
  BY DEF Sql, Obeys, Sound, Known, Touches, Effect, ColumnOps

\* The loops of the revisions over columns and indexes.
LEMMA ListScripts ==
    ASSUME NEW T, NEW t, NEW cs, IsList(cs)
    PROVE  /\ (t \in DOMAIN Kept => <<t, "add index", "", Required>> \in T)
                 => Footprint(AddIndexes(t, cs), T)
           /\ (t \in DOMAIN Kept => <<t, "drop index", "", Required>> \in T)
                 => Footprint(DropIndexes(t, cs), T)
           /\ (\A i \in DOMAIN cs : t \in DOMAIN Kept => t \in OwnerTables /\ <<t, "add column", cs[i], Optional>> \in T)
                 => Footprint(AddColumns(t, cs), T)
           /\ (\A i \in DOMAIN cs : t \in DOMAIN Kept => t \in OwnerTables /\ <<t, "drop column", cs[i], Required>> \in T)
                 => Footprint(DropColumns(t, cs), T)
           /\ \A col :
                 (\A i \in DOMAIN cs : t \in DOMAIN Kept => <<t, "alter column", cs[i], col>> \in T)
                 => Footprint(AlterColumns(t, cs, col), T)
<1>1. Len(cs) \in Nat /\ DOMAIN cs = 1 .. Len(cs)
  BY Scripts
<1>2. ASSUME NEW f, f = [i \in 1 .. Len(cs) |-> f[i]], \A i \in 1 .. Len(cs) : Obeys(f[i], T)
      PROVE  Footprint(f, T)
  <2>1. IsList(f) /\ Members(f) = {f[i] : i \in 1 .. Len(cs)}
    BY <1>1, <1>2, MappedScript
  <2> QED
    BY <1>2, <2>1 DEF Footprint
<1>3. (t \in DOMAIN Kept => <<t, "add index", "", Required>> \in T) => Footprint(AddIndexes(t, cs), T)
  BY <1>1, <1>2, Statements DEF AddIndexes
<1>4. (t \in DOMAIN Kept => <<t, "drop index", "", Required>> \in T) => Footprint(DropIndexes(t, cs), T)
  BY <1>1, <1>2, Statements DEF DropIndexes
<1>5. (\A i \in DOMAIN cs : t \in DOMAIN Kept => t \in OwnerTables /\ <<t, "add column", cs[i], Optional>> \in T)
      => Footprint(AddColumns(t, cs), T)
  BY <1>1, <1>2, OwnerColumns, Statements DEF AddColumns
<1>6. (\A i \in DOMAIN cs : t \in DOMAIN Kept => t \in OwnerTables /\ <<t, "drop column", cs[i], Required>> \in T)
      => Footprint(DropColumns(t, cs), T)
  BY <1>1, <1>2, OwnerColumns, Statements DEF DropColumns
<1>7. \A col : (\A i \in DOMAIN cs : t \in DOMAIN Kept => <<t, "alter column", cs[i], col>> \in T)
               => Footprint(AlterColumns(t, cs, col), T)
  BY <1>1, <1>2, Statements DEF AlterColumns
<1> QED
  BY <1>3, <1>4, <1>5, <1>6, <1>7

\* The lists of column names in Revisions are lists.
LEMMA NameLists ==
    /\ IsList(MessageIndexes) /\ IsList(SessionIndexes) /\ IsList(RelationshipIndexes)
    /\ IsList(MemoryIndexes) /\ IsList(SummaryIndexes) /\ IsList(TaskIndexes)
    /\ IsList(CharacterTexts) /\ IsList(PersonaTexts) /\ IsList(Bookkeeping)
    /\ IsList(RunIndexes) /\ IsList(StepIndexes)
    /\ IsList(<<"user_id">>)
<1>1. ASSUME NEW f, NEW n \in Nat, f = [i \in 1 .. n |-> f[i]] PROVE IsList(f)
  BY <1>1, MappedScript
<1>2. IsList(MessageIndexes)
  <2>1. MessageIndexes = [i \in 1 .. 4 |-> MessageIndexes[i]]
    BY DEF MessageIndexes
  <2> QED
    BY <1>1, <2>1
<1>3. IsList(SessionIndexes)
  <2>1. SessionIndexes = [i \in 1 .. 3 |-> SessionIndexes[i]]
    BY DEF SessionIndexes
  <2> QED
    BY <1>1, <2>1
<1>4. IsList(RelationshipIndexes)
  <2>1. RelationshipIndexes = [i \in 1 .. 3 |-> RelationshipIndexes[i]]
    BY DEF RelationshipIndexes
  <2> QED
    BY <1>1, <2>1
<1>5. IsList(MemoryIndexes)
  <2>1. MemoryIndexes = [i \in 1 .. 11 |-> MemoryIndexes[i]]
    BY DEF MemoryIndexes
  <2> QED
    BY <1>1, <2>1
<1>6. IsList(SummaryIndexes)
  <2>1. SummaryIndexes = [i \in 1 .. 2 |-> SummaryIndexes[i]]
    BY DEF SummaryIndexes
  <2> QED
    BY <1>1, <2>1
<1>7. IsList(TaskIndexes)
  <2>1. TaskIndexes = [i \in 1 .. 4 |-> TaskIndexes[i]]
    BY DEF TaskIndexes
  <2> QED
    BY <1>1, <2>1
<1>8. IsList(CharacterTexts)
  <2>1. CharacterTexts = [i \in 1 .. 7 |-> CharacterTexts[i]]
    BY DEF CharacterTexts
  <2> QED
    BY <1>1, <2>1
<1>9. IsList(PersonaTexts)
  <2>1. PersonaTexts = [i \in 1 .. 5 |-> PersonaTexts[i]]
    BY DEF PersonaTexts
  <2> QED
    BY <1>1, <2>1
<1>10. IsList(Bookkeeping)
  <2>1. Bookkeeping = [i \in 1 .. 4 |-> Bookkeeping[i]]
    BY DEF Bookkeeping
  <2> QED
    BY <1>1, <2>1
<1>11. IsList(RunIndexes)
  <2>1. RunIndexes = [i \in 1 .. 6 |-> RunIndexes[i]]
    BY DEF RunIndexes
  <2> QED
    BY <1>1, <2>1
<1>12. IsList(StepIndexes)
  <2>1. StepIndexes = [i \in 1 .. 3 |-> StepIndexes[i]]
    BY DEF StepIndexes
  <2> QED
    BY <1>1, <2>1
<1>13. IsList(<<"user_id">>)
  BY SingleStatement
<1> QED
  BY <1>2, <1>3, <1>4, <1>5, <1>6, <1>7, <1>8, <1>9, <1>10, <1>11, <1>12, <1>13

-----------------------------------------------------------------------------
(* The footprints of the revisions                                         *)

\* Statements on the tables without rows leave no footprint.
LEMMA Foreign ==
    \A t : t \notin DOMAIN Kept =>
        /\ \A cs : IsList(cs) => Footprint(AddIndexes(t, cs), {}) /\ Footprint(DropIndexes(t, cs), {})
        /\ \A cols, keys, checks, uniques : Obeys(CreateTable(t, cols, keys, checks, uniques), {})
        /\ Obeys(DropTable(t), {})
        /\ \A on : Obeys(AddIndex(t, on), {}) /\ Obeys(DropIndex(t, on), {})
        /\ \A on, active : Obeys(AddUnique(t, on, active), {}) /\ Obeys(DropUnique(t, on, active), {})
        /\ \A k : Obeys(AddKey(t, k), {})
        /\ \A c : Obeys(DropKey(t, c), {}) /\ Obeys(DropColumn(t, c), {})
        /\ \A c, col : Obeys(AddColumn(t, c, col), {})
<1> SUFFICES ASSUME NEW t, t \notin DOMAIN Kept
             PROVE  /\ \A cs : IsList(cs) => /\ Footprint(AddIndexes(t, cs), {})
                                               /\ Footprint(DropIndexes(t, cs), {})
                    /\ \A cols, keys, checks, uniques : Obeys(CreateTable(t, cols, keys, checks, uniques), {})
                    /\ Obeys(DropTable(t), {})
                    /\ \A on : Obeys(AddIndex(t, on), {}) /\ Obeys(DropIndex(t, on), {})
                    /\ \A on, active : /\ Obeys(AddUnique(t, on, active), {})
                                       /\ Obeys(DropUnique(t, on, active), {})
                    /\ \A k : Obeys(AddKey(t, k), {})
                    /\ \A c : Obeys(DropKey(t, c), {}) /\ Obeys(DropColumn(t, c), {})
                    /\ \A c, col : Obeys(AddColumn(t, c, col), {})
  OBVIOUS
<1>1. \A cs : IsList(cs) => Footprint(AddIndexes(t, cs), {}) /\ Footprint(DropIndexes(t, cs), {})
  BY ListScripts
<1>2. \A cols, keys, checks, uniques : Obeys(CreateTable(t, cols, keys, checks, uniques), {})
  BY TableStatement
<1> QED
  BY <1>1, <1>2, Statements

\* Revision 20260718_0001 does not touch the tables with rows.
LEMMA Revision1 == Footprint(Upgrade1, {}) /\ Footprint(Downgrade1, {})
<1>1. /\ "users" \notin DOMAIN Kept /\ "conversations" \notin DOMAIN Kept
      /\ "messages" \notin DOMAIN Kept /\ "refresh_sessions" \notin DOMAIN Kept
  BY KeptTables
<1>2. Footprint(Upgrade1, {})
  <2>1. Obeys(Users, {}) /\ Obeys(Conversations, {}) /\ Obeys(Messages, {}) /\ Obeys(RefreshSessions, {})
    BY <1>1, Foreign DEF Users, Conversations, Messages, RefreshSessions
  <2>2. /\ Footprint(<<Users, Conversations>>, {}) /\ Footprint(<<Messages>>, {})
        /\ Footprint(<<RefreshSessions>>, {})
    BY <2>1, Tuples
  <2>3. /\ Footprint(AddIndexes("conversations", <<"user_id">>), {})
        /\ Footprint(AddIndexes("messages", MessageIndexes), {})
        /\ Footprint(AddIndexes("refresh_sessions", SessionIndexes), {})
    BY <1>1, Foreign, NameLists
  <2> QED
    BY <2>2, <2>3, FootprintConcat DEF Upgrade1
<1>3. Footprint(Downgrade1, {})
  <2>1. /\ Footprint(<<DropTable("refresh_sessions")>>, {}) /\ Footprint(<<DropTable("messages")>>, {})
        /\ Footprint(<<DropTable("conversations"), DropTable("users")>>, {})
    BY <1>1, Foreign, Tuples
  <2>2. /\ Footprint(DropIndexes("conversations", <<"user_id">>), {})
        /\ Footprint(DropIndexes("messages", MessageIndexes), {})
        /\ Footprint(DropIndexes("refresh_sessions", SessionIndexes), {})
    BY <1>1, Foreign, NameLists
  <2> QED
    BY <2>1, <2>2, FootprintConcat DEF Downgrade1
<1> QED
  BY <1>2, <1>3

\* Tuples of up to four are lists.
LEMMA SmallLists ==
    /\ \A a : IsList(<<a>>)
    /\ \A a, b : IsList(<<a, b>>)
    /\ \A a, b, c : IsList(<<a, b, c>>)
    /\ \A a, b, c, d : IsList(<<a, b, c, d>>)
<1>1. ASSUME NEW f, NEW n \in Nat, f = [i \in 1 .. n |-> f[i]] PROVE IsList(f)
  BY <1>1, MappedScript
<1>2. \A a : IsList(<<a>>)
  BY SingleStatement
<1>3. \A a, b : IsList(<<a, b>>)
  <2>1. \A a, b : <<a, b>> = [i \in 1 .. 2 |-> <<a, b>>[i]]
    OBVIOUS
  <2> QED
    BY <1>1, <2>1
<1>4. \A a, b, c : IsList(<<a, b, c>>)
  <2>1. \A a, b, c : <<a, b, c>> = [i \in 1 .. 3 |-> <<a, b, c>>[i]]
    OBVIOUS
  <2> QED
    BY <1>1, <2>1
<1>5. \A a, b, c, d : IsList(<<a, b, c, d>>)
  <2>1. ASSUME NEW a, NEW b, NEW c, NEW d PROVE IsList(<<a, b, c, d>>)
    <3>1. <<a, b, c, d>> = [i \in 1 .. 4 |-> <<a, b, c, d>>[i]]
      OBVIOUS
    <3> QED
      BY <1>1, <3>1
  <2> QED
    BY <2>1
<1> QED
  BY <1>2, <1>3, <1>4, <1>5

\* Nor does revision 20260722_0002.
LEMMA Revision2 == Footprint(Upgrade2, {}) /\ Footprint(Downgrade2, {})
<1>1. "conversations" \notin DOMAIN Kept /\ "messages" \notin DOMAIN Kept
  BY KeptTables
<1>2. Footprint(Upgrade2, {})
  <2>1. Footprint(<<AddColumn("conversations", "last_message_at", Optional),
                    AddColumn("conversations", "archived_at", Optional)>>, {})
    BY <1>1, Foreign, Tuples
  <2>2. /\ Footprint(AddIndexes("conversations", <<"last_message_at", "archived_at">>), {})
        /\ Footprint(AddIndexes("messages", <<"parent_message_id", "client_message_id">>), {})
    BY <1>1, Foreign, SmallLists
  <2>3. Footprint(<<AddIndex("conversations", ActivityIndex),
                    AddColumn("messages", "parent_message_id", Optional),
                    AddColumn("messages", "client_message_id", Optional),
                    AddKey("messages", Key("parent_message_id", "messages", "set null"))>>, {})
    BY <1>1, Foreign, Tuples
  <2>4. Footprint(<<AddUnique("messages", {"conversation_id", "client_message_id"}, FALSE),
                    AddIndex("messages", TimelineIndex)>>, {})
    BY <1>1, Foreign, Tuples
  <2> QED
    BY <2>1, <2>2, <2>3, <2>4, FootprintConcat DEF Upgrade2
<1>3. Footprint(Downgrade2, {})
  <2>1. Footprint(<<DropIndex("messages", TimelineIndex),
                    DropUnique("messages", {"conversation_id", "client_message_id"}, FALSE)>>, {})
    BY <1>1, Foreign, Tuples
  <2>2. /\ Footprint(DropIndexes("messages", <<"client_message_id", "parent_message_id">>), {})
        /\ Footprint(DropIndexes("conversations", <<"archived_at", "last_message_at">>), {})
    BY <1>1, Foreign, SmallLists
  <2>3. Footprint(<<DropKey("messages", "parent_message_id"),
                    DropColumn("messages", "client_message_id"),
                    DropColumn("messages", "parent_message_id"),
                    DropIndex("conversations", ActivityIndex)>>, {})
    BY <1>1, Foreign, Tuples
  <2>4. Footprint(<<DropColumn("conversations", "archived_at"),
                    DropColumn("conversations", "last_message_at")>>, {})
    BY <1>1, Foreign, Tuples
  <2> QED
    BY <2>1, <2>2, <2>3, <2>4, FootprintConcat DEF Downgrade2
<1> QED
  BY <1>2, <1>3

\* Nor does revision 20260827_0006.
LEMMA Revision6 == Footprint(Upgrade6, {}) /\ Footprint(Downgrade6, {})
<1>1. "knowledge_sources" \notin DOMAIN Kept /\ "knowledge_chunks" \notin DOMAIN Kept
  BY KeptTables
<1>2. Footprint(Upgrade6, {})
  <2>1. Footprint(<<KnowledgeSources>>, {}) /\ Footprint(<<KnowledgeChunks>>, {})
    BY <1>1, Foreign, Tuples DEF KnowledgeSources, KnowledgeChunks
  <2>2. /\ Footprint(AddIndexes("knowledge_sources", <<"user_id", "status">>), {})
        /\ Footprint(AddIndexes("knowledge_chunks",
                                <<"source_id", "user_id", "content_hash", "content">>), {})
    BY <1>1, Foreign, SmallLists
  <2> QED
    BY <2>1, <2>2, FootprintConcat DEF Upgrade6
<1>3. Footprint(Downgrade6, {})
  <2>1. /\ Footprint(<<DropTable("knowledge_chunks")>>, {})
        /\ Footprint(<<DropTable("knowledge_sources")>>, {})
    BY <1>1, Foreign, Tuples
  <2>2. /\ Footprint(DropIndexes("knowledge_sources", <<"status", "user_id">>), {})
        /\ Footprint(DropIndexes("knowledge_chunks",
                                 <<"content", "content_hash", "user_id", "source_id">>), {})
    BY <1>1, Foreign, SmallLists
  <2> QED
    BY <2>1, <2>2, FootprintConcat DEF Downgrade6
<1> QED
  BY <1>2, <1>3

\* Nor does revision 20260828_0007.
LEMMA Revision7 == Footprint(Upgrade7, {}) /\ Footprint(Downgrade7, {})
<1>1. "agent_runs" \notin DOMAIN Kept /\ "agent_steps" \notin DOMAIN Kept
  BY KeptTables
<1>2. Footprint(Upgrade7, {})
  <2>1. Footprint(<<AgentRuns>>, {}) /\ Footprint(<<AgentSteps>>, {})
    BY <1>1, Foreign, Tuples DEF AgentRuns, AgentSteps
  <2>2. /\ Footprint(AddIndexes("agent_runs", RunIndexes), {})
        /\ Footprint(AddIndexes("agent_steps", StepIndexes), {})
    BY <1>1, Foreign, NameLists
  <2> QED
    BY <2>1, <2>2, FootprintConcat DEF Upgrade7
<1>3. Footprint(Downgrade7, {})
  <2>1. Footprint(<<DropTable("agent_steps")>>, {}) /\ Footprint(<<DropTable("agent_runs")>>, {})
    BY <1>1, Foreign, Tuples
  <2>2. /\ Footprint(DropIndexes("agent_runs", RunIndexes), {})
        /\ Footprint(DropIndexes("agent_steps", StepIndexes), {})
    BY <1>1, Foreign, NameLists
  <2> QED
    BY <2>1, <2>2, FootprintConcat DEF Downgrade7
<1> QED
  BY <1>2, <1>3

\* The members of scripts run one after the other.
LEMMA FootprintMembers ==
    ASSUME NEW T, NEW a, NEW b, Footprint(a, T), Footprint(b, T)
    PROVE  \A s : s \in Members(a \o b) <=> s \in Members(a) \/ s \in Members(b)
  BY ConcatScripts DEF Footprint

\* The members of tuples of up to six.
LEMMA TupleMembers ==
    /\ \A a : Members(<<a>>) = {a}
    /\ \A a, b : Members(<<a, b>>) = {a, b}
    /\ \A a, b, c : Members(<<a, b, c>>) = {a, b, c}
    /\ \A a, b, c, d : Members(<<a, b, c, d>>) = {a, b, c, d}
    /\ \A a, b, c, d, e : Members(<<a, b, c, d, e>>) = {a, b, c, d, e}
    /\ \A a, b, c, d, e, f : Members(<<a, b, c, d, e, f>>) = {a, b, c, d, e, f}
<1>1. \A a : Members(<<a>>) = {a}
  BY SingleStatement
<1>2. ASSUME NEW a, NEW b PROVE Members(<<a, b>>) = {a, b}
  <2>1. Len(<<a, b>>) = 2 /\ 1 .. 2 = {1, 2}
    OBVIOUS
  <2> QED
    BY <2>1 DEF Members
<1>3. ASSUME NEW a, NEW b, NEW c PROVE Members(<<a, b, c>>) = {a, b, c}
  <2>1. Len(<<a, b, c>>) = 3 /\ 1 .. 3 = {1, 2, 3}
    OBVIOUS
  <2> QED
    BY <2>1 DEF Members
<1>4. ASSUME NEW a, NEW b, NEW c, NEW d PROVE Members(<<a, b, c, d>>) = {a, b, c, d}
  <2>1. Len(<<a, b, c, d>>) = 4 /\ 1 .. 4 = {1, 2, 3, 4}
    OBVIOUS
  <2> QED
    BY <2>1 DEF Members
<1>5. ASSUME NEW a, NEW b, NEW c, NEW d, NEW e PROVE Members(<<a, b, c, d, e>>) = {a, b, c, d, e}
  <2>1. Len(<<a, b, c, d, e>>) = 5 /\ 1 .. 5 = {1, 2, 3, 4, 5}
    OBVIOUS
  <2> QED
    BY <2>1 DEF Members
<1>6. ASSUME NEW a, NEW b, NEW c, NEW d, NEW e, NEW f
      PROVE  Members(<<a, b, c, d, e, f>>) = {a, b, c, d, e, f}
  <2>1. Len(<<a, b, c, d, e, f>>) = 6 /\ 1 .. 6 = {1, 2, 3, 4, 5, 6}
    OBVIOUS
  <2> QED
    BY <2>1 DEF Members
<1> QED
  BY <1>1, <1>2, <1>3, <1>4, <1>5, <1>6

\* What making and dropping the tables in S leaves on them.
Building(S) == S \X {"create", "add index", "add unique"} \X {""} \X {Required}
Razing(S) == S \X {"drop", "drop index", "drop unique"} \X {""} \X {Required}

\* Building creates and never drops the tables of S, Razing drops them, and
\* both spare the others.
LEMMA BuildingParts ==
    ASSUME NEW S
    PROVE  /\ \A t \in S : Founds(Building(S), t) /\ \A x \in Razing(S) : x[1] = t => x[2] # "create"
           /\ \A t : t \notin S => \A x \in Building(S) \cup Razing(S) : x[1] # t
<1>1. \A x \in Building(S) : x[1] \in S /\ x[2] \in {"create", "add index", "add unique"}
  BY DEF Building
<1>2. \A x \in Razing(S) : x[1] \in S /\ x[2] \in {"drop", "drop index", "drop unique"}
  BY DEF Razing
<1>3. \A t \in S : Founds(Building(S), t)
  BY <1>1 DEF Founds, ColumnOps
<1> QED
  BY <1>1, <1>2, <1>3

\* The statements that a revision makes or removes a table with.
LEMMA Tables ==
    ASSUME NEW S, NEW t, t \in DOMAIN Kept => t \in S
    PROVE  /\ \A on : Obeys(AddIndex(t, on), Building(S)) /\ Obeys(DropIndex(t, on), Razing(S))
           /\ \A on, active : Obeys(DropUnique(t, on, active), Razing(S))
           /\ t = "memories" => \A active : Obeys(AddUnique(t, Identity, active), Building(S))
           /\ Obeys(DropTable(t), Razing(S))
           /\ \A cs : IsList(cs) => Footprint(AddIndexes(t, cs), Building(S))
                                    /\ Footprint(DropIndexes(t, cs), Razing(S))
           /\ \A cols, keys, checks, uniques :
                 (t \in DOMAIN Kept =>
                      (\A k \in keys : SafeKey(t, k)) /\ (uniques = {} \/ t \in VersionTables))
                    => Obeys(CreateTable(t, cols, keys, checks, uniques), Building(S))
<1>1. t \in DOMAIN Kept => /\ <<t, "create", "", Required>> \in Building(S)
                           /\ <<t, "add index", "", Required>> \in Building(S)
                           /\ <<t, "add unique", "", Required>> \in Building(S)
                           /\ <<t, "drop", "", Required>> \in Razing(S)
                           /\ <<t, "drop index", "", Required>> \in Razing(S)
                           /\ <<t, "drop unique", "", Required>> \in Razing(S)
  BY DEF Building, Razing
<1>2. \A cs : IsList(cs) => /\ Footprint(AddIndexes(t, cs), Building(S))
                              /\ Footprint(DropIndexes(t, cs), Razing(S))
  BY <1>1, ListScripts
<1>3. \A cols, keys, checks, uniques :
         (t \in DOMAIN Kept =>
              (\A k \in keys : SafeKey(t, k)) /\ (uniques = {} \/ t \in VersionTables))
            => Obeys(CreateTable(t, cols, keys, checks, uniques), Building(S))
  BY <1>1, TableStatement
<1> QED
  BY <1>1, <1>2, <1>3, Statements

\* The foreign keys of the tables with rows are safe.
LEMMA RevisedKeys ==
    /\ \A k \in {ByUser, Key("character_id", "characters", "cascade")} :
          \A t \in DOMAIN Kept : SafeKey(t, k)
    /\ SafeKey("persona_versions", Key("persona_id", "personas", "cascade"))
    /\ \A k \in {ByUser, Key("conversation_id", "conversations", "cascade"),
                 Key("character_id", "characters", "cascade"), Key("persona_id", "personas", "set null"),
                 Key("source_message_id", "messages", "set null"),
                 Key("superseded_by_id", "memories", "set null")} : SafeKey("memories", k)
  BY DEF ByUser, Key, SafeKey

\* Revision 20260722_0003 makes the four tables of profiles, and takes them
\* away.
LEMMA Revision3 ==
    /\ Footprint(Upgrade3, Building(Profiled)) /\ Footprint(Downgrade3, Razing(Profiled))
    /\ {Characters, CharacterVersions, Personas, PersonaVersions} \subseteq Members(Upgrade3)
    /\ \A t \in Profiled : DropTable(t) \in Members(Downgrade3)
<1> DEFINE U == Building(Profiled)
           D == Razing(Profiled)
<1>1. /\ Profiled \subseteq DOMAIN Kept
      /\ "conversations" \notin DOMAIN Kept /\ "relationships" \notin DOMAIN Kept
      /\ "relationship_events" \notin DOMAIN Kept
  BY KeptTables DEF Profiled
<1>2. \A T, a : Footprint(a, {}) => Footprint(a, T)
  BY FootprintWidened
<1>3. ASSUME NEW i \in 1 .. 4
      PROVE  Footprint(LinkColumn(Links[i]), {}) /\ Footprint(UnlinkColumn(Links[i]), {})
  BY <1>1, Foreign, Tuples DEF LinkColumn, UnlinkColumn
<1>4. /\ Footprint(LinkColumn(Links[1]), U) /\ Footprint(UnlinkColumn(Links[1]), D)
      /\ Footprint(LinkColumn(Links[2]), U) /\ Footprint(UnlinkColumn(Links[2]), D)
      /\ Footprint(LinkColumn(Links[3]), U) /\ Footprint(UnlinkColumn(Links[3]), D)
      /\ Footprint(LinkColumn(Links[4]), U) /\ Footprint(UnlinkColumn(Links[4]), D)
  BY <1>2, <1>3
<1>5. \A t \in Profiled :
         /\ \A on : Obeys(AddIndex(t, on), U) /\ Obeys(DropIndex(t, on), D)
         /\ Obeys(DropTable(t), D)
         /\ \A cs : IsList(cs) => Footprint(AddIndexes(t, cs), U) /\ Footprint(DropIndexes(t, cs), D)
  BY Tables
<1>6. /\ "characters" \in Profiled /\ "character_versions" \in Profiled
      /\ "personas" \in Profiled /\ "persona_versions" \in Profiled
  BY DEF Profiled
<1>7. Obeys(Characters, U) /\ Obeys(CharacterVersions, U) /\ Obeys(Personas, U) /\ Obeys(PersonaVersions, U)
  <2>1. /\ SafeKey("characters", ByUser) /\ SafeKey("personas", ByUser)
        /\ SafeKey("character_versions", Key("character_id", "characters", "cascade"))
        /\ SafeKey("persona_versions", Key("persona_id", "personas", "cascade"))
    BY <1>1, <1>6, RevisedKeys
  <2>2. Obeys(Characters, U)
    BY <1>6, <2>1, TableKinds, Tables DEF Characters
  <2>3. Obeys(CharacterVersions, U)
    BY <1>6, <2>1, TableKinds, Tables DEF CharacterVersions
  <2>4. Obeys(Personas, U)
    BY <1>6, <2>1, TableKinds, Tables DEF Personas
  <2>5. Obeys(PersonaVersions, U)
    BY <1>6, <2>1, TableKinds, Tables DEF PersonaVersions
  <2> QED
    BY <2>2, <2>3, <2>4, <2>5
<1>8. /\ Obeys(Relationships, {}) /\ Obeys(RelationshipEvents, {})
      /\ \A s : Obeys(s, {}) => Obeys(s, U) /\ Obeys(s, D)
  BY <1>1, Foreign DEF Relationships, RelationshipEvents, Obeys
<1>9. Footprint(Upgrade3, U) /\ {Characters, CharacterVersions, Personas, PersonaVersions} \subseteq Members(Upgrade3)
  <2> DEFINE p1 == <<Characters>> \o AddIndexes("characters", <<"user_id", "archived_at">>)
                   \o <<AddIndex("characters", UpdatedIndex), CharacterVersions>>
             p2 == p1 \o AddIndexes("character_versions", <<"character_id">>)
                   \o <<Personas>> \o AddIndexes("personas", <<"user_id", "archived_at">>)
                   \o <<AddIndex("personas", UpdatedIndex), PersonaVersions>>
             p3 == p2 \o AddIndexes("persona_versions", <<"persona_id">>)
                   \o LinkColumn(Links[1]) \o LinkColumn(Links[2]) \o LinkColumn(Links[3]) \o LinkColumn(Links[4])
             p4 == p3 \o <<AddColumn("conversations", "temperature", Optional),
                           AddColumn("conversations", "max_tokens", Optional), Relationships>>
                   \o AddIndexes("relationships", RelationshipIndexes)
                   \o <<RelationshipEvents>>
                   \o AddIndexes("relationship_events", <<"relationship_id", "source_message_id">>)
  <2>1. Upgrade3 = p4
    BY DEF Upgrade3
  <2>2. /\ Footprint(AddIndexes("characters", <<"user_id", "archived_at">>), U)
        /\ Footprint(AddIndexes("personas", <<"user_id", "archived_at">>), U)
        /\ Footprint(AddIndexes("character_versions", <<"character_id">>), U)
        /\ Footprint(AddIndexes("persona_versions", <<"persona_id">>), U)
    BY <1>5, <1>6, SmallLists
  <2>3. /\ Footprint(<<Characters>>, U) /\ Footprint(<<AddIndex("characters", UpdatedIndex), CharacterVersions>>, U)
        /\ Footprint(<<Personas>>, U) /\ Footprint(<<AddIndex("personas", UpdatedIndex), PersonaVersions>>, U)
    BY <1>5, <1>6, <1>7, Tuples
  <2>4. /\ Characters \in Members(<<Characters>>)
        /\ CharacterVersions \in Members(<<AddIndex("characters", UpdatedIndex), CharacterVersions>>)
        /\ Personas \in Members(<<Personas>>)
        /\ PersonaVersions \in Members(<<AddIndex("personas", UpdatedIndex), PersonaVersions>>)
    BY TupleMembers
  <2>5. /\ Footprint(<<AddColumn("conversations", "temperature", Optional),
                       AddColumn("conversations", "max_tokens", Optional), Relationships>>, U)
        /\ Footprint(<<RelationshipEvents>>, U)
    <3>1. \A c : Obeys(AddColumn("conversations", c, Optional), {})
      BY <1>1, Foreign
    <3> QED
      BY <1>8, <3>1, Tuples
  <2>6. /\ Footprint(AddIndexes("relationships", RelationshipIndexes), U)
        /\ Footprint(AddIndexes("relationship_events", <<"relationship_id", "source_message_id">>), U)
    BY <1>1, <1>2, Foreign, NameLists, SmallLists
  <2> HIDE DEF U
  <2>7. Footprint(p1, U) /\ {Characters, CharacterVersions} \subseteq Members(p1)
    BY <2>2, <2>3, <2>4, FootprintConcat, FootprintMembers
  <2> HIDE DEF p1
  <2>8. Footprint(p2, U) /\ {Characters, CharacterVersions, Personas, PersonaVersions} \subseteq Members(p2)
    BY <2>2, <2>3, <2>4, <2>7, FootprintConcat, FootprintMembers
  <2> HIDE DEF p2
  <2>9. Footprint(p3, U) /\ Members(p2) \subseteq Members(p3)
    BY <1>4, <2>2, <2>8, FootprintConcat, FootprintMembers DEF U
  <2> HIDE DEF p3
  <2>10. Footprint(p4, U) /\ Members(p3) \subseteq Members(p4)
    BY <2>5, <2>6, <2>9, FootprintConcat, FootprintMembers
  <2> QED
    BY <2>1, <2>8, <2>9, <2>10
<1>10. Footprint(Downgrade3, D) /\ \A t \in Profiled : DropTable(t) \in Members(Downgrade3)
  <2> DEFINE p1 == DropIndexes("relationship_events", <<"source_message_id", "relationship_id">>)
                   \o <<DropTable("relationship_events")>>
                   \o DropIndexes("relationships", RelationshipIndexes)
                   \o <<DropTable("relationships"), DropColumn("conversations", "max_tokens"),
                        DropColumn("conversations", "temperature")>>
             p2 == p1 \o UnlinkColumn(Links[4]) \o UnlinkColumn(Links[3]) \o UnlinkColumn(Links[2])
                   \o UnlinkColumn(Links[1])
             p3 == p2 \o DropIndexes("persona_versions", <<"persona_id">>)
                   \o <<DropTable("persona_versions"), DropIndex("personas", UpdatedIndex)>>
                   \o DropIndexes("personas", <<"archived_at", "user_id">>) \o <<DropTable("personas")>>
             p4 == p3 \o DropIndexes("character_versions", <<"character_id">>)
                   \o <<DropTable("character_versions"), DropIndex("characters", UpdatedIndex)>>
                   \o DropIndexes("characters", <<"archived_at", "user_id">>) \o <<DropTable("characters")>>
  <2>1. Downgrade3 = p4
    BY DEF Downgrade3
  <2>2. /\ Footprint(DropIndexes("characters", <<"archived_at", "user_id">>), D)
        /\ Footprint(DropIndexes("personas", <<"archived_at", "user_id">>), D)
        /\ Footprint(DropIndexes("character_versions", <<"character_id">>), D)
        /\ Footprint(DropIndexes("persona_versions", <<"persona_id">>), D)
    BY <1>5, <1>6, SmallLists
  <2>3. /\ Footprint(<<DropTable("persona_versions"), DropIndex("personas", UpdatedIndex)>>, D)
        /\ Footprint(<<DropTable("personas")>>, D)
        /\ Footprint(<<DropTable("character_versions"), DropIndex("characters", UpdatedIndex)>>, D)
        /\ Footprint(<<DropTable("characters")>>, D)
    BY <1>5, <1>6, Tuples
  <2>4. /\ DropTable("persona_versions") \in
               Members(<<DropTable("persona_versions"), DropIndex("personas", UpdatedIndex)>>)
        /\ DropTable("personas") \in Members(<<DropTable("personas")>>)
        /\ DropTable("character_versions") \in
               Members(<<DropTable("character_versions"), DropIndex("characters", UpdatedIndex)>>)
        /\ DropTable("characters") \in Members(<<DropTable("characters")>>)
    BY TupleMembers
  <2>5. /\ Footprint(<<DropTable("relationships"), DropColumn("conversations", "max_tokens"),
                       DropColumn("conversations", "temperature")>>, D)
        /\ Footprint(<<DropTable("relationship_events")>>, D)
    <3>1. /\ \A c : Obeys(DropColumn("conversations", c), {})
          /\ Obeys(DropTable("relationships"), {}) /\ Obeys(DropTable("relationship_events"), {})
      BY <1>1, Foreign
    <3> QED
      BY <1>8, <3>1, Tuples
  <2>6. /\ Footprint(DropIndexes("relationships", RelationshipIndexes), D)
        /\ Footprint(DropIndexes("relationship_events", <<"source_message_id", "relationship_id">>), D)
    BY <1>1, <1>2, Foreign, NameLists, SmallLists
  <2> HIDE DEF D
  <2>7. Footprint(p1, D)
    BY <2>5, <2>6, FootprintConcat
  <2> HIDE DEF p1
  <2>8. Footprint(p2, D)
    BY <1>4, <2>7, FootprintConcat DEF D
  <2> HIDE DEF p2
  <2>9. Footprint(p3, D) /\ {DropTable("persona_versions"), DropTable("personas")} \subseteq Members(p3)
    BY <2>2, <2>3, <2>4, <2>8, FootprintConcat, FootprintMembers
  <2> HIDE DEF p3
  <2>10. /\ Footprint(p4, D) /\ Members(p3) \subseteq Members(p4)
         /\ {DropTable("character_versions"), DropTable("characters")} \subseteq Members(p4)
    BY <2>2, <2>3, <2>4, <2>9, FootprintConcat, FootprintMembers
  <2> QED
    BY <2>1, <2>9, <2>10 DEF Profiled
<1> QED
  BY <1>9, <1>10

\* Revision 20260723_0004 makes the table of memories, and takes it away.
LEMMA Revision4 ==
    /\ Footprint(Upgrade4, Building({"memories"})) /\ Footprint(Downgrade4, Razing({"memories"}))
    /\ Memories \in Members(Upgrade4)
    /\ DropTable("memories") \in Members(Downgrade4)
<1> DEFINE U == Building({"memories"})
           D == Razing({"memories"})
<1>1. /\ "memories" \in DOMAIN Kept /\ "memories" \in {"memories"}
      /\ "conversation_summaries" \notin DOMAIN Kept /\ "memory_tasks" \notin DOMAIN Kept
  BY KeptTables
<1>2. /\ \A T, a : Footprint(a, {}) => Footprint(a, T)
      /\ \A T, s : Obeys(s, {}) => Obeys(s, T)
  BY FootprintWidened DEF Obeys
<1>3. /\ \A on : Obeys(AddIndex("memories", on), U) /\ Obeys(DropIndex("memories", on), D)
      /\ \A active : Obeys(AddUnique("memories", Identity, active), U)
      /\ \A on, active : Obeys(DropUnique("memories", on, active), D)
      /\ Obeys(DropTable("memories"), D)
      /\ Footprint(AddIndexes("memories", MemoryIndexes), U)
      /\ Footprint(DropIndexes("memories", MemoryIndexes), D)
  BY <1>1, Tables, NameLists
<1>4. Obeys(Memories, U)
  BY <1>1, Tables, RevisedKeys DEF Memories
<1>5. Obeys(ConversationSummaries, {}) /\ Obeys(MemoryTasks, {})
  BY <1>1, Foreign DEF ConversationSummaries, MemoryTasks
<1>6. Footprint(Upgrade4, U) /\ Memories \in Members(Upgrade4)
  <2> DEFINE p1 == <<Memories>> \o AddIndexes("memories", MemoryIndexes)
                   \o <<AddIndex("memories", StatusIndex), AddIndex("memories", ScopeIndex),
                        AddUnique("memories", Identity, TRUE), AddIndex("memories", <<"content">>),
                        ConversationSummaries>>
             p2 == p1 \o AddIndexes("conversation_summaries", SummaryIndexes)
                   \o <<MemoryTasks>> \o AddIndexes("memory_tasks", TaskIndexes)
                   \o <<AddIndex("memory_tasks", ClaimIndex)>>
  <2>1. Upgrade4 = p2
    BY DEF Upgrade4
  <2>2. Footprint(<<Memories>>, U) /\ Memories \in Members(<<Memories>>)
    BY <1>4, Tuples, TupleMembers
  <2>3. Footprint(<<AddIndex("memories", StatusIndex), AddIndex("memories", ScopeIndex),
                    AddUnique("memories", Identity, TRUE), AddIndex("memories", <<"content">>),
                    ConversationSummaries>>, U)
    BY <1>2, <1>3, <1>5, Tuples
  <2>4. /\ Footprint(AddIndexes("conversation_summaries", SummaryIndexes), U)
        /\ Footprint(AddIndexes("memory_tasks", TaskIndexes), U)
    BY <1>1, <1>2, Foreign, NameLists
  <2>5. Footprint(<<MemoryTasks>>, U) /\ Footprint(<<AddIndex("memory_tasks", ClaimIndex)>>, U)
    <3>1. Obeys(AddIndex("memory_tasks", ClaimIndex), {})
      BY <1>1, Foreign
    <3> QED
      BY <1>2, <1>5, <3>1, Tuples
  <2> HIDE DEF U
  <2>6. Footprint(p1, U) /\ Memories \in Members(p1)
    BY <1>3, <2>2, <2>3, FootprintConcat, FootprintMembers DEF U
  <2> HIDE DEF p1
  <2>7. Footprint(p2, U) /\ Members(p1) \subseteq Members(p2)
    BY <2>4, <2>5, <2>6, FootprintConcat, FootprintMembers
  <2> QED
    BY <2>1, <2>6, <2>7
<1>7. Footprint(Downgrade4, D) /\ DropTable("memories") \in Members(Downgrade4)
  <2> DEFINE p1 == <<DropIndex("memory_tasks", ClaimIndex)>> \o DropIndexes("memory_tasks", TaskIndexes)
                   \o <<DropTable("memory_tasks")>> \o DropIndexes("conversation_summaries", SummaryIndexes)
             p2 == p1 \o <<DropTable("conversation_summaries"), DropIndex("memories", <<"content">>),
                           DropUnique("memories", Identity, TRUE), DropIndex("memories", ScopeIndex),
                           DropIndex("memories", StatusIndex)>>
                   \o DropIndexes("memories", MemoryIndexes) \o <<DropTable("memories")>>
  <2>1. Downgrade4 = p2
    BY DEF Downgrade4
  <2>2. Footprint(<<DropTable("memories")>>, D) /\ DropTable("memories") \in Members(<<DropTable("memories")>>)
    BY <1>3, Tuples, TupleMembers
  <2>3. Footprint(<<DropTable("conversation_summaries"), DropIndex("memories", <<"content">>),
                    DropUnique("memories", Identity, TRUE), DropIndex("memories", ScopeIndex),
                    DropIndex("memories", StatusIndex)>>, D)
    <3>1. Obeys(DropTable("conversation_summaries"), {})
      BY <1>1, Foreign
    <3> QED
      BY <1>2, <1>3, <3>1, Tuples
  <2>4. /\ Footprint(DropIndexes("conversation_summaries", SummaryIndexes), D)
        /\ Footprint(DropIndexes("memory_tasks", TaskIndexes), D)
    BY <1>1, <1>2, Foreign, NameLists
  <2>5. Footprint(<<DropTable("memory_tasks")>>, D) /\ Footprint(<<DropIndex("memory_tasks", ClaimIndex)>>, D)
    <3>1. Obeys(DropIndex("memory_tasks", ClaimIndex), {}) /\ Obeys(DropTable("memory_tasks"), {})
      BY <1>1, Foreign
    <3> QED
      BY <1>2, <3>1, Tuples
  <2> HIDE DEF D
  <2>6. Footprint(p1, D)
    BY <2>4, <2>5, FootprintConcat
  <2> HIDE DEF p1
  <2>7. Footprint(p2, D) /\ DropTable("memories") \in Members(p2)
    BY <1>3, <2>2, <2>3, <2>6, FootprintConcat, FootprintMembers DEF D
  <2> QED
    BY <2>1, <2>7
<1> QED
  BY <1>6, <1>7

\* The columns of a new table that an insert needs to find.
LEMMA NewColumns ==
    /\ "archived_at" \in DOMAIN Characters.def.cols
    /\ "expires_at" \in DOMAIN Memories.def.cols
<1>1. ASSUME NEW req, NEW opt, NEW dflt PROVE opt \subseteq DOMAIN Columns(req, opt, dflt)
  <2>1. \A f, g : DOMAIN g \subseteq DOMAIN Filled(f, g) /\ DOMAIN f \subseteq DOMAIN Filled(f, g)
    BY DEF Filled
  <2>2. DOMAIN [c \in opt |-> Optional] = opt
    OBVIOUS
  <2> QED
    BY <2>1, <2>2, Zenon DEF Columns
<1>2. \A req, opt, dflt : opt \subseteq DOMAIN Stamped(req, opt, dflt)
  BY <1>1, Zenon DEF Stamped
<1> QED
  BY <1>2 DEF Characters, Memories, CreateTable

-----------------------------------------------------------------------------
(* The statements of the bridge, one after the other                       *)

\* Two scripts that are run one after the other without a refusal.
LEMMA RunTwo ==
    ASSUME NEW a, NEW T, Footprint(a, T), NEW b, NEW U, Footprint(b, U),
           NEW d, WellFormed(d), Run(a \o b, d).ok = TRUE
    PROVE  /\ d.ok = TRUE /\ Run(a, d).ok = TRUE /\ WellFormed(Run(a, d))
           /\ Run(a \o b, d) = Run(b, Run(a, d))
<1> DEFINE x == Run(a, d)
<1>1. Run(a \o b, d) = Run(b, x)
  BY RunConcat DEF Footprint
<1>2. Len(a) \in Nat /\ \A i \in 1 .. Len(a) : Known(a[i])
  BY Scripts DEF Footprint, Obeys, Sound
<1>3. PICK done : Through(done, a, d) /\ x = done[Len(a)]
  BY <1>2, RunThrough
<1>4. IsDatabase(x)
  <2> DEFINE S == {i \in Nat : IsDatabase(done[i])}
  <2>1. 0 \in S
    BY <1>3 DEF Through, WellFormed
  <2>2. ASSUME NEW i \in 1 .. Len(a), i - 1 \in S PROVE i \in S
    <3>1. IsDatabase(Execute(done[i - 1], a[i]))
      BY <1>2, <2>2, Executed
    <3>2. done[i] = Execute(done[i - 1], a[i]) /\ i \in Nat
      BY <1>2, <1>3 DEF Through
    <3> QED
      BY <3>1, <3>2
  <2> HIDE DEF S
  <2>3. \A i \in 0 .. Len(a) : i \in S
    BY <1>2, <2>1, <2>2, InductionUpTo
  <2>4. Len(a) \in S
    BY <1>2, <2>3
  <2> QED
    BY <1>3, <2>4 DEF S
<1> HIDE DEF x
<1>5. x.ok = TRUE
  <2>1. ~x.ok => Run(b, x) = x
    BY DEF Run
  <2> QED
    BY <1>1, <1>4, <2>1 DEF IsDatabase
<1>6. d.ok = TRUE /\ WellFormed(x)
  BY <1>5, RunForm DEF x
<1> QED
  BY <1>1, <1>5, <1>6 DEF x

\* What a run does to the tables that it has no effect on.
LEMMA RunApart ==
    ASSUME NEW a, NEW T, Footprint(a, T), NEW d, WellFormed(d), Run(a, d).ok = TRUE
    PROVE  /\ d.ok = TRUE /\ WellFormed(Run(a, d))
           /\ \A t \in DOMAIN Kept : (\A x \in T : x[1] # t) => Same(t, d, Run(a, d))
<1>1. d.ok = TRUE /\ WellFormed(Run(a, d))
  BY RunForm, Zenon
<1>2. \A t \in DOMAIN Kept : (\A x \in T : x[1] # t) => Same(t, d, Run(a, d))
  BY RunSpares, Zenon
<1> QED
  BY <1>1, <1>2

\* A script of two statements, step by step.
LEMMA TwoSteps ==
    ASSUME NEW s, Len(s) = 2, NEW d, NEW done, Traces(done, s, d)
    PROVE  /\ d = done[0] /\ Run(s, d) = done[2]
           /\ WellFormed(done[1])
           /\ Done(done[0], s[1], done[1])
           /\ Done(done[1], s[2], done[2])
<1>1. \A i \in 1 .. 2 : Done(done[i - 1], s[i], done[i])
  BY DEF Traces
<1>2. /\ Done(done[0], s[1], done[1])
      /\ Done(done[1], s[2], done[2])
  BY <1>1
<1>3. \A i \in 0 .. 2 : WellFormed(done[i])
  BY DEF Traces
<1> QED
  BY <1>2, <1>3 DEF Traces

\* A script of five.
LEMMA FiveSteps ==
    ASSUME NEW s, Len(s) = 5, NEW d, NEW done, Traces(done, s, d)
    PROVE  /\ d = done[0] /\ Run(s, d) = done[5]
           /\ WellFormed(done[1]) /\ WellFormed(done[2]) /\ WellFormed(done[3]) /\ WellFormed(done[4])
           /\ Done(done[0], s[1], done[1])
           /\ Done(done[1], s[2], done[2])
           /\ Done(done[2], s[3], done[3])
           /\ Done(done[3], s[4], done[4])
           /\ Done(done[4], s[5], done[5])
<1>1. \A i \in 1 .. 5 : Done(done[i - 1], s[i], done[i])
  BY DEF Traces
<1>2. /\ Done(done[0], s[1], done[1])
      /\ Done(done[1], s[2], done[2])
      /\ Done(done[2], s[3], done[3])
      /\ Done(done[3], s[4], done[4])
      /\ Done(done[4], s[5], done[5])
  BY <1>1
<1>3. \A i \in 0 .. 5 : WellFormed(done[i])
  BY DEF Traces
<1> QED
  BY <1>2, <1>3 DEF Traces

\* A script of six.
LEMMA SixSteps ==
    ASSUME NEW s, Len(s) = 6, NEW d, NEW done, Traces(done, s, d)
    PROVE  /\ d = done[0] /\ Run(s, d) = done[6]
           /\ WellFormed(done[1]) /\ WellFormed(done[2]) /\ WellFormed(done[3]) /\ WellFormed(done[4]) /\ WellFormed(done[5])
           /\ Done(done[0], s[1], done[1])
           /\ Done(done[1], s[2], done[2])
           /\ Done(done[2], s[3], done[3])
           /\ Done(done[3], s[4], done[4])
           /\ Done(done[4], s[5], done[5])
           /\ Done(done[5], s[6], done[6])
<1>1. \A i \in 1 .. 6 : Done(done[i - 1], s[i], done[i])
  BY DEF Traces
<1>2. /\ Done(done[0], s[1], done[1])
      /\ Done(done[1], s[2], done[2])
      /\ Done(done[2], s[3], done[3])
      /\ Done(done[3], s[4], done[4])
      /\ Done(done[4], s[5], done[5])
      /\ Done(done[5], s[6], done[6])
  BY <1>1
<1>3. \A i \in 0 .. 6 : WellFormed(done[i])
  BY DEF Traces
<1> QED
  BY <1>2, <1>3 DEF Traces

\* A statement that neither adds nor drops a table or a column changes no row.
LEMMA PlainStep ==
    ASSUME NEW d, NEW s, NEW e, Done(d, s, e),
           s.op \in Alterations \ {"add column", "drop column"}
    PROVE  \A t : /\ t \in DOMAIN d.tables => t \in DOMAIN e.tables /\ e.rows[t] = d.rows[t]
<1> SUFFICES ASSUME NEW t, t \in DOMAIN d.tables PROVE t \in DOMAIN e.tables /\ e.rows[t] = d.rows[t]
  OBVIOUS
<1>1. CASE t # Touches(s)
  BY <1>1 DEF Done, Same
<1>2. CASE t = Touches(s)
  <2>1. t \in DOMAIN e.tables /\ e.rows[t] = RowsAfter(d.rows[t], s)
    BY <1>2 DEF Done, Alterations
  <2>2. RowsAfter(d.rows[t], s) = d.rows[t]
    BY Zenon DEF RowsAfter, Alterations
  <2> QED
    BY <2>1, <2>2
<1> QED
  BY <1>1, <1>2

\* A statement on an index keeps every row.
LEMMA IndexStep ==
    ASSUME NEW d, NEW e, NEW t, NEW on, Done(d, AddIndex(t, on), e) \/ Done(d, DropIndex(t, on), e)
    PROVE  \A u \in DOMAIN d.tables : u \in DOMAIN e.tables /\ e.rows[u] = d.rows[u]
<1>1. /\ AddIndex(t, on).op \in Alterations \ {"add column", "drop column"}
      /\ DropIndex(t, on).op \in Alterations \ {"add column", "drop column"}
  BY DEF AddIndex, DropIndex, Alterations
<1> QED
  BY <1>1, PlainStep, Zenon

\* So does one that alters a column.
LEMMA AlterStep ==
    ASSUME NEW d, NEW e, NEW t, NEW c, NEW col, Done(d, AlterColumn(t, c, col), e)
    PROVE  \A u \in DOMAIN d.tables : u \in DOMAIN e.tables /\ e.rows[u] = d.rows[u]
<1>1. AlterColumn(t, c, col).op \in Alterations \ {"add column", "drop column"}
  BY DEF AlterColumn, Alterations
<1> QED
  BY <1>1, PlainStep, Zenon

\* A data statement keeps every definition.
LEMMA DataStep ==
    ASSUME NEW d, NEW e, NEW name, Done(d, Sql(name), e)
    PROVE  e.tables = d.tables /\ e.rows = DataStatement(name, d.rows)
<1>1. Sql(name).op = "sql" /\ Sql(name).name = name
  BY DEF Sql
<1> QED
  BY <1>1 DEF Done

\* A column that is added has its default in every row.
LEMMA ColumnAdded ==
    ASSUME NEW d, NEW e, NEW t, NEW c, NEW col, Done(d, AddColumn(t, c, col), e), Keeps(t, c)
    PROVE  /\ t \in DOMAIN d.tables /\ t \in DOMAIN e.tables
           /\ DOMAIN e.rows[t] = DOMAIN d.rows[t]
           /\ \A i \in DOMAIN d.rows[t] : e.rows[t][i] = With(d.rows[t][i], c, col.default)
           /\ \A u : u # t => Same(u, d, e)
<1> DEFINE s == AddColumn(t, c, col)
<1>1. s.op = "add column" /\ s.table = t /\ s.name = c /\ s.col = col /\ Done(d, s, e)
  BY DEF AddColumn
<1> HIDE DEF s
<1>2. Touches(s) = t
  BY <1>1 DEF Touches
<1>3. /\ t \in DOMAIN d.tables /\ t \in DOMAIN e.tables
      /\ e.rows[t] = RowsAfter(d.rows[t], s) /\ \A u : u # t => Same(u, d, e)
  BY <1>1, <1>2 DEF Done
<1>4. RowsAfter(d.rows[t], s) = [i \in DOMAIN d.rows[t] |-> With(d.rows[t][i], c, col.default)]
  BY <1>1 DEF RowsAfter
<1> QED
  BY <1>3, <1>4

\* One that is not modelled leaves the rows as they are.
LEMMA ColumnIgnored ==
    ASSUME NEW d, NEW e, NEW t, NEW c, NEW col, Done(d, AddColumn(t, c, col), e), ~Keeps(t, c)
    PROVE  t \in DOMAIN e.tables /\ e.rows[t] = d.rows[t] /\ \A u : u # t => Same(u, d, e)
<1> DEFINE s == AddColumn(t, c, col)
<1>1. s.op = "add column" /\ s.table = t /\ s.name = c /\ s.col = col /\ Done(d, s, e)
  BY DEF AddColumn
<1> HIDE DEF s
<1>2. Touches(s) = t
  BY <1>1 DEF Touches
<1>3. t \in DOMAIN e.tables /\ e.rows[t] = RowsAfter(d.rows[t], s) /\ \A u : u # t => Same(u, d, e)
  BY <1>1, <1>2 DEF Done
<1>4. RowsAfter(d.rows[t], s) = d.rows[t]
  BY <1>1, Zenon DEF RowsAfter
<1> QED
  BY <1>3, <1>4

\* The statement that a loop makes for one column.
LEMMA ListMembers ==
    ASSUME NEW t, NEW cs, IsList(cs), NEW c \in Members(cs)
    PROVE  /\ AddColumn(t, c, Optional) \in Members(AddColumns(t, cs))
           /\ \A col : AlterColumn(t, c, col) \in Members(AlterColumns(t, cs, col))
<1>1. Len(cs) \in Nat /\ DOMAIN cs = 1 .. Len(cs)
  BY Scripts
<1>2. PICK k \in 1 .. Len(cs) : cs[k] = c
  BY DEF Members
<1>3. ASSUME NEW f, f = [i \in 1 .. Len(cs) |-> f[i]] PROVE f[k] \in Members(f)
  BY <1>1, <1>3, MappedScript
<1>4. AddColumn(t, c, Optional) \in Members(AddColumns(t, cs))
  <2> DEFINE f == AddColumns(t, cs)
  <2>1. f = [i \in 1 .. Len(cs) |-> f[i]] /\ f[k] = AddColumn(t, c, Optional)
    BY <1>1, <1>2 DEF AddColumns
  <2> HIDE DEF f
  <2> QED
    BY <1>3, <2>1 DEF f
<1>5. ASSUME NEW col PROVE AlterColumn(t, c, col) \in Members(AlterColumns(t, cs, col))
  <2> DEFINE f == AlterColumns(t, cs, col)
  <2>1. f = [i \in 1 .. Len(cs) |-> f[i]] /\ f[k] = AlterColumn(t, c, col)
    BY <1>1, <1>2 DEF AlterColumns
  <2> HIDE DEF f
  <2> QED
    BY <1>3, <2>1 DEF f
<1> QED
  BY <1>4, <1>5

ColumnEffects(t, cs, col) == {t} \X ColumnOps \X Members(cs) \X {Optional, Required, col}

\* The footprint of a loop over columns.
LEMMA ListFootprint ==
    ASSUME NEW t, NEW cs, IsList(cs), NEW col
    PROVE  /\ t \in OwnerTables => /\ Footprint(AddColumns(t, cs), ColumnEffects(t, cs, col))
                                   /\ Footprint(DropColumns(t, cs), ColumnEffects(t, cs, col))
           /\ Footprint(AlterColumns(t, cs, col), ColumnEffects(t, cs, col))
<1> DEFINE T == ColumnEffects(t, cs, col)
<1>1. /\ DOMAIN cs = 1 .. Len(cs) /\ \A i \in 1 .. Len(cs) : cs[i] \in Members(cs)
  BY Scripts
<1>2. \A i \in DOMAIN cs : /\ <<t, "add column", cs[i], Optional>> \in T
                           /\ <<t, "drop column", cs[i], Required>> \in T
                           /\ <<t, "alter column", cs[i], col>> \in T
  BY <1>1 DEF ColumnOps, ColumnEffects
<1> HIDE DEF T
<1>3. t \in OwnerTables => Footprint(AddColumns(t, cs), T)
  BY <1>2, ListScripts
<1>4. t \in OwnerTables => Footprint(DropColumns(t, cs), T)
  BY <1>2, ListScripts
<1>5. Footprint(AlterColumns(t, cs, col), T)
  BY <1>2, ListScripts
<1> QED
  BY <1>3, <1>4, <1>5 DEF T

\* Adding, dropping or altering columns leaves the others as they are.
LEMMA ColumnsChanged ==
    ASSUME NEW d, WellFormed(d), NEW t \in DOMAIN Kept, t \in DOMAIN d.tables,
           NEW cs, IsList(cs), NEW col, NEW a,
           \/ a = AlterColumns(t, cs, col)
           \/ t \in OwnerTables /\ a \in {AddColumns(t, cs), DropColumns(t, cs)},
           Run(a, d).ok = TRUE
    PROVE  /\ d.ok = TRUE /\ WellFormed(Run(a, d)) /\ t \in DOMAIN Run(a, d).tables
           /\ \A u \in DOMAIN Kept : u # t => Same(u, d, Run(a, d))
           /\ \A C : C \cap Members(cs) = {} => Kindred(d.rows[t], Run(a, d).rows[t], C)
           /\ \A c, v : c \notin Members(cs) /\ HasColumn(d, t, c, v) => HasColumn(Run(a, d), t, c, v)
<1> DEFINE T == ColumnEffects(t, cs, col)
<1>2. Footprint(a, T)
  BY ListFootprint
<1>3. \A x \in T : x[1] = t /\ x[2] \in ColumnOps /\ x[3] \in Members(cs)
  BY DEF ColumnEffects
<1> HIDE DEF T
<1>4. /\ d.ok = TRUE /\ WellFormed(Run(a, d))
      /\ \A u \in DOMAIN Kept : u # t => Same(u, d, Run(a, d))
  BY <1>2, <1>3, RunApart
<1>5. ASSUME NEW C, C \cap Members(cs) = {}
      PROVE  t \in DOMAIN Run(a, d).tables /\ Kindred(d.rows[t], Run(a, d).rows[t], C)
  <2>1. Spares(T, t, C)
    BY <1>3, <1>5 DEF Spares, ColumnOps
  <2> QED
    BY <1>2, <2>1, RunKeepsRows
<1>6. ASSUME NEW c, NEW v, c \notin Members(cs), HasColumn(d, t, c, v)
      PROVE  HasColumn(Run(a, d), t, c, v)
  <2>1. Forms(T, t, c, v)
    BY <1>3, <1>6 DEF Forms, ColumnOps
  <2> QED
    BY <1>2, <1>6, <2>1, RunColumn
<1>7. t \in DOMAIN Run(a, d).tables
  <2>1. {} \cap Members(cs) = {}
    OBVIOUS
  <2> QED
    BY <1>5, <2>1
<1> QED
  BY <1>4, <1>5, <1>6, <1>7

\* Every column of a loop that adds them is in every row.
LEMMA ColumnsAdded ==
    ASSUME NEW d, WellFormed(d), NEW t \in DOMAIN Kept, t \in OwnerTables, NEW cs, IsList(cs),
           Run(AddColumns(t, cs), d).ok = TRUE, NEW c \in Members(cs), Keeps(t, c)
    PROVE  \A i \in DOMAIN Run(AddColumns(t, cs), d).rows[t] :
              c \in DOMAIN Run(AddColumns(t, cs), d).rows[t][i]
<1> DEFINE T == {t} \X {"add column"} \X Members(cs) \X {Optional}
<1>1. /\ DOMAIN cs = 1 .. Len(cs) /\ \A i \in 1 .. Len(cs) : cs[i] \in Members(cs)
  BY Scripts
<1>2. Footprint(AddColumns(t, cs), T)
  <2>1. \A i \in DOMAIN cs : <<t, "add column", cs[i], Optional>> \in T
    BY <1>1
  <2> HIDE DEF T
  <2> QED
    BY <2>1, ListScripts
<1>3. \A x \in T : x[2] = "add column"
  OBVIOUS
<1> HIDE DEF T
<1>4. Grows(T, t, c)
  BY <1>3 DEF Grows
<1>5. \E s \in Members(AddColumns(t, cs)) : Adds(s, t, c)
  <2>1. Adds(AddColumn(t, c, Optional), t, c)
    BY DEF Adds, AddColumn
  <2> QED
    BY <2>1, ListMembers
<1> QED
  BY <1>2, <1>4, <1>5, RunGains

\* The columns that revision 0005 adds to profiles, or relaxes in memories.
LEMMA TextMembers ==
    /\ Members(CharacterTexts) =
           {"name", "tagline", "description", "personality", "scenario", "system_prompt", "greeting"}
    /\ Members(PersonaTexts) =
           {"name", "description", "instructions", "attributes_traits", "attributes_pronouns"}
    /\ Members(Bookkeeping) = {"status", "normalized_key", "confidence", "access_count"}
<1>1. Members(CharacterTexts) =
           {"name", "tagline", "description", "personality", "scenario", "system_prompt", "greeting"}
  <2>1. Len(CharacterTexts) = 7 /\ 1 .. 7 = {1, 2, 3, 4, 5, 6, 7}
    BY DEF CharacterTexts
  <2> QED
    BY <2>1 DEF Members, CharacterTexts
<1>2. Members(PersonaTexts) =
           {"name", "description", "instructions", "attributes_traits", "attributes_pronouns"}
  BY TupleMembers DEF PersonaTexts
<1>3. Members(Bookkeeping) = {"status", "normalized_key", "confidence", "access_count"}
  BY TupleMembers DEF Bookkeeping
<1> QED
  BY <1>1, <1>2, <1>3

-----------------------------------------------------------------------------
(* Upgrading the characters                                                *)

\* What a character and a persona take of their versions.
CharacterWords == {"name", "tagline", "description"}
PersonaWords == {"name", "instructions", "attributes_traits", "attributes_pronouns"}

\* What "project characters" does to a character that has its current version.
LEMMA CharactersProjected ==
    ASSUME NEW rows, "characters" \in DOMAIN rows, NEW after,
           after = DataStatement("project characters", rows)
    PROVE  /\ "characters" \in DOMAIN after /\ DOMAIN after.characters = DOMAIN rows.characters
           /\ \A c \in DOMAIN rows.characters :
                 <<c, rows.characters[c].current_version>> \in DOMAIN rows.character_versions
                 => after.characters[c] =
                    ProjectedCharacter(
                        rows.characters[c],
                        rows.character_versions[<<c, rows.characters[c].current_version>>])
<1>1. after = ProjectCharacters(rows)
  BY DEF DataStatement
<1> QED
  BY <1>1 DEF ProjectCharacters, HasVersion

\* The statement that names the nameless leaves the others alone.
LEMMA RowsNamed ==
    ASSUME NEW rows, NEW default, NEW t, t \in DOMAIN rows
    PROVE  /\ DOMAIN NameRows(rows, t, default)[t] = DOMAIN rows[t]
           /\ \A i \in DOMAIN rows[t] :
                 rows[t][i].name # NULL => NameRows(rows, t, default)[t][i] = rows[t][i]
  BY DEF NameRows, Updated

CharacterReady(d, c) ==
    LET r == d.rows.characters[c]
    IN /\ {"current_version", "archived_at"} \subseteq DOMAIN r
       /\ <<c, r.current_version>> \in DOMAIN d.rows.character_versions
       /\ d.rows.character_versions[<<c, r.current_version>>].name # NULL
CharacterBridged(d, e, c) ==
    LET r == d.rows.characters[c] q == e.rows.characters[c]
        cv == d.rows.character_versions[<<c, r.current_version>>]
    IN /\ CharacterWords \cup {"is_active", "current_version", "archived_at"} \subseteq DOMAIN q
       /\ q.current_version = r.current_version
       /\ q.name = cv.name /\ q.tagline = Left255(cv.summary) /\ q.description = cv.summary
       /\ q.is_active = IF r.archived_at = NULL THEN "true" ELSE "false"

ProjectScript ==
    <<AddColumn("characters", "is_active", Default("true")),
      Sql("project characters"), Sql("name characters"),
      AlterColumn("characters", "name", Required),
      AlterColumn("characters", "current_version", Default("1")),
      AddIndex("characters", <<"name">>)>>
ProjectEffects ==
    ({"characters"} \X {"sql", "add index"} \X {""} \X {Required})
      \cup ({"characters"} \X {"add column"} \X {"is_active"} \X {Default("true")})
      \cup ({"characters"} \X {"alter column"} \X {"name"} \X {Required})
      \cup ({"characters"} \X {"alter column"} \X {"current_version"} \X {Default("1")})

\* What the part of the bridge that projects characters may touch.
LEMMA ProjectFootprint == Footprint(ProjectScript, ProjectEffects)
<1>1. Obeys(AddColumn("characters", "is_active", Default("true")), ProjectEffects)
  BY OwnerColumns, TableKinds, Statements DEF ProjectEffects
<1>2. Obeys(AlterColumn("characters", "name", Required), ProjectEffects)
  BY Statements DEF ProjectEffects
<1>3. Obeys(AlterColumn("characters", "current_version", Default("1")), ProjectEffects)
  BY Statements DEF ProjectEffects
<1>4. Obeys(AddIndex("characters", <<"name">>), ProjectEffects)
  BY Statements DEF ProjectEffects
<1>5. Obeys(Sql("project characters"), ProjectEffects) /\ Obeys(Sql("name characters"), ProjectEffects)
  <2>1. /\ "project characters" \in DataNames /\ DataTable("project characters") = "characters"
        /\ "name characters" \in DataNames /\ DataTable("name characters") = "characters"
        /\ <<"characters", "sql", "", Required>> \in ProjectEffects
    BY DEF DataNames, DataTable, ProjectEffects
  <2> QED
    BY <2>1, DataStatements
<1> QED
  BY <1>1, <1>2, <1>3, <1>4, <1>5, Tuples DEF ProjectScript

\* A table has rows, though perhaps none, exactly when it is there.
LEMMA CharacterTables ==
    ASSUME NEW d, WellFormed(d), NEW t
    PROVE  t \in DOMAIN d.tables <=> t \in DOMAIN d.rows
  BY DEF WellFormed, IsDatabase

\* That part makes every character what its current version says (lines 47 to
\* 77).
LEMMA ProjectRun ==
    ASSUME NEW d, WellFormed(d), "characters" \in DOMAIN d.tables,
           "character_versions" \in DOMAIN d.tables,
           \A c \in DOMAIN d.rows.characters :
              CharacterReady(d, c) /\ CharacterWords \subseteq DOMAIN d.rows.characters[c],
           NEW e, e = Run(ProjectScript, d), e.ok = TRUE
    PROVE  /\ DOMAIN e.rows.characters = DOMAIN d.rows.characters
           /\ \A c \in DOMAIN d.rows.characters : CharacterBridged(d, e, c)
<1> DEFINE s1 == AddColumn("characters", "is_active", Default("true"))
           s2 == Sql("project characters")
           s3 == Sql("name characters")
           s4 == AlterColumn("characters", "name", Required)
           s5 == AlterColumn("characters", "current_version", Default("1"))
           s6 == AddIndex("characters", <<"name">>)
<1>1. PICK done : Traces(done, ProjectScript, d)
  BY ProjectFootprint, RunSteps
<1> DEFINE x == done[1]
           y == done[2]
           z == done[3]
           u == done[4]
           v == done[5]
<1>10. /\ WellFormed(x) /\ WellFormed(y)
       /\ Done(d, s1, x) /\ Done(x, s2, y) /\ Done(y, s3, z)
       /\ Done(z, s4, u) /\ Done(u, s5, v) /\ Done(v, s6, e)
  <2>1. /\ Len(ProjectScript) = 6
        /\ ProjectScript[1] = s1 /\ ProjectScript[2] = s2 /\ ProjectScript[3] = s3
        /\ ProjectScript[4] = s4 /\ ProjectScript[5] = s5 /\ ProjectScript[6] = s6
    BY DEF ProjectScript
  <2> HIDE DEF s1, s2, s3, s4, s5, s6
  <2> QED
    BY <1>1, <2>1, SixSteps
<1> HIDE DEF x, y, z, u, v
<1>2. /\ DOMAIN x.rows.characters = DOMAIN d.rows.characters
      /\ \A c \in DOMAIN d.rows.characters :
            x.rows.characters[c] = With(d.rows.characters[c], "is_active", "true")
      /\ x.rows.character_versions = d.rows.character_versions
      /\ "characters" \in DOMAIN x.tables
  <2>1. Keeps("characters", "is_active") /\ Default("true").default = "true"
    BY DEF Keeps, Kept, Default
  <2>2. /\ "characters" \in DOMAIN x.tables
        /\ DOMAIN x.rows["characters"] = DOMAIN d.rows["characters"]
        /\ \A c \in DOMAIN d.rows["characters"] :
              x.rows["characters"][c] = With(d.rows["characters"][c], "is_active", Default("true").default)
        /\ Same("character_versions", d, x)
    <3>1. Done(d, AddColumn("characters", "is_active", Default("true")), x)
      BY <1>10
    <3>2. "character_versions" # "characters"
      OBVIOUS
    <3>3. Same("character_versions", d, x)
      BY <2>1, <3>1, <3>2, ColumnAdded
    <3>4. "characters" \in DOMAIN x.tables /\ DOMAIN x.rows["characters"] = DOMAIN d.rows["characters"]
      BY <2>1, <3>1, ColumnAdded
    <3>5. \A c \in DOMAIN d.rows["characters"] :
              x.rows["characters"][c] = With(d.rows["characters"][c], "is_active", Default("true").default)
      BY <2>1, <3>1, ColumnAdded
    <3> QED
      BY <3>3, <3>4, <3>5
  <2> QED
    BY <2>1, <2>2 DEF Same
<1>3. /\ y.tables = x.tables /\ y.rows = DataStatement("project characters", x.rows)
      /\ z.tables = y.tables /\ z.rows = DataStatement("name characters", y.rows)
  BY <1>10, DataStep, Zenon
<1>4. e.rows.characters = z.rows.characters
  <2>1. "characters" \in DOMAIN z.tables
    BY <1>2, <1>3
  <2>2. "characters" \in DOMAIN u.tables /\ u.rows["characters"] = z.rows["characters"]
    BY <1>10, <2>1, AlterStep, Zenon
  <2>3. "characters" \in DOMAIN v.tables /\ v.rows["characters"] = u.rows["characters"]
    BY <1>10, <2>2, AlterStep, Zenon
  <2>4. e.rows["characters"] = v.rows["characters"]
    <3>1. Done(v, AddIndex("characters", <<"name">>), e) /\ "characters" \in DOMAIN v.tables
      BY <1>10, <2>3
    <3> QED
      BY <3>1, IndexStep
  <2> QED
    BY <2>2, <2>3, <2>4
<1>5. "characters" \in DOMAIN x.rows /\ "characters" \in DOMAIN y.rows
  BY <1>10, <1>2, <1>3, CharacterTables
<1> HIDE DEF s1, s2, s3, s4, s5, s6
<1>6. /\ DOMAIN y.rows.characters = DOMAIN x.rows.characters
      /\ \A c \in DOMAIN x.rows.characters :
            <<c, x.rows.characters[c].current_version>> \in DOMAIN x.rows.character_versions
            => y.rows.characters[c] =
               ProjectedCharacter(
                   x.rows.characters[c],
                   x.rows.character_versions[<<c, x.rows.characters[c].current_version>>])
  BY <1>3, <1>5, CharactersProjected, Zenon
<1>7. /\ DOMAIN z.rows.characters = DOMAIN y.rows.characters
      /\ \A c \in DOMAIN y.rows.characters :
            y.rows.characters[c].name # NULL => z.rows.characters[c] = y.rows.characters[c]
  <2>1. z.rows = NameRows(y.rows, "characters", "Character")
    BY <1>3 DEF DataStatement
  <2>2. /\ DOMAIN z.rows["characters"] = DOMAIN y.rows["characters"]
        /\ \A c \in DOMAIN y.rows["characters"] :
              y.rows["characters"][c].name # NULL => z.rows["characters"][c] = y.rows["characters"][c]
    BY <1>5, <2>1, RowsNamed
  <2> QED
    BY <2>2
<1>8. ASSUME NEW c \in DOMAIN d.rows.characters PROVE CharacterBridged(d, e, c)
  <2> DEFINE r == d.rows.characters[c]
             q == x.rows.characters[c]
             cv == d.rows.character_versions[<<c, r.current_version>>]
  <2>1. /\ CharacterWords \cup {"current_version", "archived_at"} \subseteq DOMAIN r
        /\ <<c, r.current_version>> \in DOMAIN d.rows.character_versions /\ cv.name # NULL
    BY DEF CharacterReady, CharacterWords
  <2>2. q = With(r, "is_active", "true") /\ c \in DOMAIN x.rows.characters
    BY <1>2
  <2>3. /\ DOMAIN q = DOMAIN r \cup {"is_active"}
        /\ q.current_version = r.current_version /\ q.archived_at = r.archived_at
    BY <2>1, <2>2 DEF With
  <2>4. y.rows.characters[c] = ProjectedCharacter(q, cv)
    BY <1>2, <1>6, <2>1, <2>2, <2>3
  <2> DEFINE w == e.rows.characters[c]
             short == Left255(cv.summary)
             active == IF q.archived_at = NULL THEN "true" ELSE "false"
             p == ProjectedCharacter(q, cv)
  <2> HIDE DEF q, r, cv, short, active
  <2>5. /\ DOMAIN p = DOMAIN q
        /\ p.name = cv.name /\ p.tagline = short /\ p.description = cv.summary
        /\ p.current_version = q.current_version /\ p.is_active = active
    <3>1. p = [q EXCEPT !.name = cv.name, !.tagline = short, !.description = cv.summary,
                        !.is_active = active]
      BY DEF ProjectedCharacter, short, active
    <3>2. CharacterWords \cup {"is_active", "current_version"} \subseteq DOMAIN q
      BY <2>1, <2>3
    <3> HIDE DEF p
    <3> QED
      BY <3>1, <3>2 DEF CharacterWords
  <2> HIDE DEF p
  <2>6. w = p
    BY <1>4, <1>6, <1>7, <2>1, <2>2, <2>4, <2>5 DEF p
  <2> HIDE DEF w
  <2>7. /\ CharacterWords \cup {"is_active", "current_version", "archived_at"} \subseteq DOMAIN w
        /\ w.current_version = r.current_version
        /\ w.name = cv.name /\ w.tagline = short /\ w.description = cv.summary
        /\ w.is_active = IF r.archived_at = NULL THEN "true" ELSE "false"
    BY <2>1, <2>3, <2>5, <2>6 DEF active
  <2> QED
    BY <2>7 DEF CharacterBridged, w, r, cv, short
<1>9. DOMAIN e.rows.characters = DOMAIN d.rows.characters
  BY <1>2, <1>4, <1>6, <1>7
<1> QED
  BY <1>8, <1>9

\* And touches the table of characters alone.
LEMMA ProjectColumns ==
    ASSUME NEW d, WellFormed(d), NEW e, e = Run(ProjectScript, d), e.ok = TRUE
    PROVE  /\ d.ok = TRUE /\ WellFormed(e) /\ "characters" \in DOMAIN e.tables
           /\ \A t \in DOMAIN Kept : t # "characters" => Same(t, d, e)
           /\ HasColumn(e, "characters", "current_version", Default("1"))
           /\ \A v : HasColumn(d, "characters", "archived_at", v) => HasColumn(e, "characters", "archived_at", v)
<1>1. \A x \in ProjectEffects :
         /\ x[1] = "characters" /\ x[2] \notin {"create", "drop", "drop column"}
         /\ x[2] \in ColumnOps /\ x[3] = "current_version" => x[4] = Default("1")
         /\ x[2] \in ColumnOps => x[3] # "archived_at"
  BY DEF ProjectEffects, ColumnOps
<1>2. "characters" \in DOMAIN Kept
  BY KeptTables
<1>3. HasColumn(e, "characters", "current_version", Default("1"))
  <2> DEFINE s == AlterColumn("characters", "current_version", Default("1"))
  <2>1. s \in Members(ProjectScript)
    <3>1. ProjectScript[5] = s /\ Len(ProjectScript) = 6
      BY DEF ProjectScript
    <3> HIDE DEF s
    <3> QED
      BY <3>1 DEF Members
  <2>2. Alters(s, "characters", "current_version")
    BY DEF AlterColumn, Alters
  <2>3. Forms(ProjectEffects, "characters", "current_version", Default("1"))
    BY <1>1 DEF Forms
  <2> HIDE DEF s
  <2> QED
    BY <1>2, <2>1, <2>2, <2>3, ProjectFootprint, RunColumn
<1>4. ASSUME NEW v, HasColumn(d, "characters", "archived_at", v)
      PROVE  HasColumn(e, "characters", "archived_at", v)
  <2>1. Forms(ProjectEffects, "characters", "archived_at", v)
    BY <1>1 DEF Forms
  <2> QED
    BY <1>2, <1>4, <2>1, ProjectFootprint, RunColumn
<1>5. /\ d.ok = TRUE /\ WellFormed(e)
      /\ \A t \in DOMAIN Kept : t # "characters" => Same(t, d, e)
  BY <1>1, ProjectFootprint, RunApart
<1> QED
  BY <1>3, <1>4, <1>5 DEF HasColumn

\* The statements on the characters: each takes the texts of its current version.
LEMMA BridgedCharacters ==
    ASSUME NEW d, WellFormed(d), "characters" \in DOMAIN d.tables,
           "character_versions" \in DOMAIN d.tables,
           \A c \in DOMAIN d.rows.characters : CharacterReady(d, c),
           "archived_at" \in DOMAIN d.tables.characters.cols,
           NEW e, e = Run(BridgeCharacters, d), e.ok = TRUE
    PROVE  /\ d.ok = TRUE /\ WellFormed(e)
           /\ \A t \in DOMAIN Kept : t # "characters" => Same(t, d, e)
           /\ "characters" \in DOMAIN e.tables
           /\ DOMAIN e.rows.characters = DOMAIN d.rows.characters
           /\ \A c \in DOMAIN d.rows.characters : CharacterBridged(d, e, c)
           /\ HasColumn(e, "characters", "current_version", Default("1"))
           /\ "archived_at" \in DOMAIN e.tables.characters.cols
<1> DEFINE a == AddColumns("characters", CharacterTexts)
           x == Run(a, d)
<1>1. /\ "characters" \in DOMAIN Kept /\ "character_versions" \in DOMAIN Kept
      /\ "character_versions" # "characters" /\ \A c \in CharacterWords : Keeps("characters", c)
  BY KeptTables DEF Keeps, Kept, CharacterWords
<1>2. x.ok = TRUE /\ e = Run(ProjectScript, x) /\ WellFormed(x)
  <2>1. BridgeCharacters = a \o ProjectScript
    BY DEF BridgeCharacters, ProjectScript
  <2>2. PICK T : Footprint(a, T)
    BY NameLists, TableKinds, ListFootprint
  <2> HIDE DEF a
  <2>3. e = Run(a \o ProjectScript, d) /\ Run(a \o ProjectScript, d).ok = TRUE
    BY <2>1
  <2>4. Run(a, d).ok = TRUE /\ WellFormed(Run(a, d))
    BY <2>2, <2>3, ProjectFootprint, RunTwo
  <2>5. Run(a \o ProjectScript, d) = Run(ProjectScript, Run(a, d))
    BY <2>2, ProjectFootprint, RunConcat DEF Footprint
  <2> QED
    BY <2>3, <2>4, <2>5
<1>3. /\ IsList(CharacterTexts) /\ CharacterWords \subseteq Members(CharacterTexts)
      /\ {"current_version", "archived_at"} \cap Members(CharacterTexts) = {}
  BY NameLists, TextMembers DEF CharacterWords
<1> HIDE DEF x
<1>4. /\ d.ok = TRUE /\ "characters" \in DOMAIN x.tables
      /\ \A u \in DOMAIN Kept : u # "characters" => Same(u, d, x)
      /\ Kindred(d.rows["characters"], x.rows["characters"], {"current_version", "archived_at"})
      /\ \A v : HasColumn(d, "characters", "archived_at", v) => HasColumn(x, "characters", "archived_at", v)
  BY <1>1, <1>2, <1>3, TableKinds, ColumnsChanged DEF x
<1>5. \A c \in DOMAIN x.rows["characters"] : CharacterWords \subseteq DOMAIN x.rows["characters"][c]
  <2>1. ASSUME NEW word \in CharacterWords
        PROVE  \A c \in DOMAIN x.rows["characters"] : word \in DOMAIN x.rows["characters"][c]
    <3>1. word \in Members(CharacterTexts) /\ Keeps("characters", word)
      BY <1>1, <1>3
    <3> QED
      BY <1>1, <1>2, <1>3, <3>1, TableKinds, ColumnsAdded DEF x
  <2> QED
    BY <2>1
<1>6. /\ "character_versions" \in DOMAIN x.tables
      /\ x.rows.character_versions = d.rows.character_versions
  BY <1>1, <1>4 DEF Same
<1>7. /\ DOMAIN x.rows.characters = DOMAIN d.rows.characters
      /\ \A c \in DOMAIN d.rows.characters :
            /\ CharacterReady(x, c) /\ CharacterWords \subseteq DOMAIN x.rows.characters[c]
            /\ x.rows.characters[c].current_version = d.rows.characters[c].current_version
            /\ x.rows.characters[c].archived_at = d.rows.characters[c].archived_at
  <2>1. DOMAIN x.rows.characters = DOMAIN d.rows.characters
    BY <1>4 DEF Kindred
  <2>2. ASSUME NEW c \in DOMAIN d.rows.characters
        PROVE  /\ CharacterReady(x, c) /\ CharacterWords \subseteq DOMAIN x.rows.characters[c]
               /\ x.rows.characters[c].current_version = d.rows.characters[c].current_version
               /\ x.rows.characters[c].archived_at = d.rows.characters[c].archived_at
    <3> DEFINE r == d.rows["characters"][c]
               q == x.rows["characters"][c]
    <3>1. Alike(r, q, {"current_version", "archived_at"}) /\ CharacterWords \subseteq DOMAIN q
      BY <1>4, <1>5, <2>1 DEF Kindred
    <3>2. {"current_version", "archived_at"} \subseteq DOMAIN r
      BY DEF CharacterReady
    <3> HIDE DEF r, q
    <3>3. /\ {"current_version", "archived_at"} \subseteq DOMAIN q
          /\ q.current_version = r.current_version /\ q.archived_at = r.archived_at
      BY <3>1, <3>2 DEF Alike
    <3> QED
      BY <1>6, <3>1, <3>3 DEF CharacterReady, r, q
  <2> QED
    BY <2>1, <2>2
<1>8. /\ DOMAIN e.rows.characters = DOMAIN d.rows.characters
      /\ \A c \in DOMAIN d.rows.characters : CharacterBridged(x, e, c)
  BY <1>2, <1>4, <1>6, <1>7, ProjectRun
<1>9. \A c \in DOMAIN d.rows.characters : CharacterBridged(d, e, c)
  BY <1>6, <1>7, <1>8 DEF CharacterBridged
<1>10. /\ WellFormed(e) /\ "characters" \in DOMAIN e.tables
       /\ \A t \in DOMAIN Kept : t # "characters" => Same(t, x, e)
       /\ HasColumn(e, "characters", "current_version", Default("1"))
       /\ \A v : HasColumn(x, "characters", "archived_at", v) => HasColumn(e, "characters", "archived_at", v)
  BY <1>2, ProjectColumns
<1>11. "archived_at" \in DOMAIN e.tables.characters.cols
  <2>1. HasColumn(d, "characters", "archived_at", d.tables.characters.cols.archived_at)
    BY DEF HasColumn
  <2>2. HasColumn(e, "characters", "archived_at", d.tables.characters.cols.archived_at)
    BY <1>4, <1>10, <2>1
  <2> QED
    BY <2>2 DEF HasColumn
<1>12. \A t \in DOMAIN Kept : t # "characters" => Same(t, d, e)
  BY <1>4, <1>10 DEF Same
<1> QED
  BY <1>4, <1>8, <1>9, <1>10, <1>11, <1>12

-----------------------------------------------------------------------------
(* Upgrading the personas                                                  *)

PersonaReady(d, p) ==
    LET r == d.rows.personas[p]
    IN /\ "current_version" \in DOMAIN r
       /\ <<p, r.current_version>> \in DOMAIN d.rows.persona_versions
       /\ d.rows.persona_versions[<<p, r.current_version>>].name # NULL
PersonaBridged(d, e, p) ==
    LET r == d.rows.personas[p] q == e.rows.personas[p]
        pv == d.rows.persona_versions[<<p, r.current_version>>]
    IN /\ PersonaWords \cup {"current_version"} \subseteq DOMAIN q
       /\ q.current_version = r.current_version
       /\ q.name = pv.name /\ q.instructions = Composed(pv.traits)
       /\ q.attributes_traits = pv.traits /\ q.attributes_pronouns = pv.pronouns

\* What "project personas" does to a persona that has its current version.
LEMMA PersonasProjected ==
    ASSUME NEW rows, "personas" \in DOMAIN rows, NEW after,
           after = DataStatement("project personas", rows)
    PROVE  /\ "personas" \in DOMAIN after /\ DOMAIN after.personas = DOMAIN rows.personas
           /\ \A p \in DOMAIN rows.personas :
                 <<p, rows.personas[p].current_version>> \in DOMAIN rows.persona_versions
                 => after.personas[p] =
                    ProjectedPersona(rows.personas[p],
                                     rows.persona_versions[<<p, rows.personas[p].current_version>>])
<1>1. after = ProjectPersonas(rows)
  BY DEF DataStatement
<1> QED
  BY <1>1 DEF ProjectPersonas, HasVersion

AttributeScript ==
    <<AddColumn("personas", "is_default", Default("false")),
      AddColumn("personas", "attributes", Default("{}")),
      Sql("project personas"), Sql("name personas"),
      AlterColumn("personas", "name", Required),
      AlterColumn("personas", "current_version", Default("1"))>>
AttributeEffects ==
    ({"personas"} \X {"sql", "add index"} \X {""} \X {Required})
      \cup ({"personas"} \X {"add column"} \X {"is_default"} \X {Default("false")})
      \cup ({"personas"} \X {"add column"} \X {"attributes"} \X {Default("{}")})
      \cup ({"personas"} \X {"alter column"} \X {"name"} \X {Required})
      \cup ({"personas"} \X {"alter column"} \X {"current_version"} \X {Default("1")})

\* What the part of the bridge that projects personas may touch.
LEMMA AttributeFootprint == Footprint(AttributeScript, AttributeEffects)
<1>1. Obeys(AddColumn("personas", "is_default", Default("false")), AttributeEffects)
  BY OwnerColumns, TableKinds, Statements DEF AttributeEffects
<1>2. Obeys(AddColumn("personas", "attributes", Default("{}")), AttributeEffects)
  BY OwnerColumns, TableKinds, Statements DEF AttributeEffects
<1>3. Obeys(AlterColumn("personas", "name", Required), AttributeEffects)
  BY Statements DEF AttributeEffects
<1>4. Obeys(AlterColumn("personas", "current_version", Default("1")), AttributeEffects)
  BY Statements DEF AttributeEffects
<1>5. Obeys(Sql("project personas"), AttributeEffects) /\ Obeys(Sql("name personas"), AttributeEffects)
  <2>1. /\ "project personas" \in DataNames /\ DataTable("project personas") = "personas"
        /\ "name personas" \in DataNames /\ DataTable("name personas") = "personas"
        /\ <<"personas", "sql", "", Required>> \in AttributeEffects
    BY DEF DataNames, DataTable, AttributeEffects
  <2> QED
    BY <2>1, DataStatements
<1> QED
  BY <1>1, <1>2, <1>3, <1>4, <1>5, Tuples DEF AttributeScript

\* It touches the table of personas alone.
LEMMA AttributeColumns ==
    ASSUME NEW d, WellFormed(d), NEW e, e = Run(AttributeScript, d), e.ok = TRUE
    PROVE  /\ d.ok = TRUE /\ WellFormed(e) /\ "personas" \in DOMAIN e.tables
           /\ \A t \in DOMAIN Kept : t # "personas" => Same(t, d, e)
           /\ HasColumn(e, "personas", "current_version", Default("1"))
<1>1. \A x \in AttributeEffects :
         /\ x[1] = "personas" /\ x[2] \notin {"create", "drop", "drop column"}
         /\ x[2] \in ColumnOps /\ x[3] = "current_version" => x[4] = Default("1")
  BY DEF AttributeEffects, ColumnOps
<1>2. "personas" \in DOMAIN Kept
  BY KeptTables
<1>3. HasColumn(e, "personas", "current_version", Default("1"))
  <2> DEFINE s == AlterColumn("personas", "current_version", Default("1"))
  <2>1. s \in Members(AttributeScript)
    <3>1. AttributeScript[6] = s /\ Len(AttributeScript) = 6
      BY DEF AttributeScript
    <3> HIDE DEF s
    <3> QED
      BY <3>1 DEF Members
  <2>2. Alters(s, "personas", "current_version")
    BY DEF AlterColumn, Alters
  <2>3. Forms(AttributeEffects, "personas", "current_version", Default("1"))
    BY <1>1 DEF Forms
  <2> HIDE DEF s
  <2> QED
    BY <1>2, <2>1, <2>2, <2>3, AttributeFootprint, RunColumn
<1>4. /\ d.ok = TRUE /\ WellFormed(e)
      /\ \A t \in DOMAIN Kept : t # "personas" => Same(t, d, e)
  BY <1>1, AttributeFootprint, RunApart
<1> QED
  BY <1>3, <1>4 DEF HasColumn

\* And makes every persona what its current version says (lines 103 to 146).
LEMMA AttributeRun ==
    ASSUME NEW d, WellFormed(d), "personas" \in DOMAIN d.tables,
           "persona_versions" \in DOMAIN d.tables,
           \A p \in DOMAIN d.rows.personas :
              PersonaReady(d, p) /\ PersonaWords \subseteq DOMAIN d.rows.personas[p],
           NEW e, e = Run(AttributeScript, d), e.ok = TRUE
    PROVE  /\ DOMAIN e.rows.personas = DOMAIN d.rows.personas
           /\ \A p \in DOMAIN d.rows.personas : PersonaBridged(d, e, p)
<1> DEFINE s1 == AddColumn("personas", "is_default", Default("false"))
           s2 == AddColumn("personas", "attributes", Default("{}"))
           s3 == Sql("project personas")
           s4 == Sql("name personas")
           s5 == AlterColumn("personas", "name", Required)
           s6 == AlterColumn("personas", "current_version", Default("1"))
<1>1. PICK done : Traces(done, AttributeScript, d)
  BY AttributeFootprint, RunSteps
<1> DEFINE x == done[1]
           y == done[2]
           z == done[3]
           u == done[4]
           v == done[5]
<1>2. /\ WellFormed(x) /\ WellFormed(y) /\ WellFormed(z)
      /\ Done(d, s1, x) /\ Done(x, s2, y) /\ Done(y, s3, z)
      /\ Done(z, s4, u) /\ Done(u, s5, v) /\ Done(v, s6, e)
  <2>1. /\ Len(AttributeScript) = 6
        /\ AttributeScript[1] = s1 /\ AttributeScript[2] = s2 /\ AttributeScript[3] = s3
        /\ AttributeScript[4] = s4 /\ AttributeScript[5] = s5 /\ AttributeScript[6] = s6
    BY DEF AttributeScript
  <2> HIDE DEF s1, s2, s3, s4, s5, s6
  <2> QED
    BY <1>1, <2>1, SixSteps
<1> HIDE DEF x, y, z, u, v
<1>3. /\ DOMAIN x.rows.personas = DOMAIN d.rows.personas
      /\ \A p \in DOMAIN d.rows.personas :
            x.rows.personas[p] = With(d.rows.personas[p], "is_default", Default("false").default)
      /\ x.rows.persona_versions = d.rows.persona_versions
      /\ "personas" \in DOMAIN x.tables /\ "persona_versions" \in DOMAIN x.tables
  <2>1. Keeps("personas", "is_default") /\ "persona_versions" # "personas"
    BY DEF Keeps, Kept
  <2>2. Done(d, AddColumn("personas", "is_default", Default("false")), x)
    BY <1>2
  <2>3. Same("persona_versions", d, x)
    BY <2>1, <2>2, ColumnAdded
  <2>4. "personas" \in DOMAIN x.tables /\ DOMAIN x.rows["personas"] = DOMAIN d.rows["personas"]
    BY <2>1, <2>2, ColumnAdded
  <2>5. \A p \in DOMAIN d.rows["personas"] :
            x.rows["personas"][p] = With(d.rows["personas"][p], "is_default", Default("false").default)
    BY <2>1, <2>2, ColumnAdded
  <2> QED
    BY <2>3, <2>4, <2>5 DEF Same
<1>4. /\ y.rows.personas = x.rows.personas /\ y.rows.persona_versions = x.rows.persona_versions
      /\ "personas" \in DOMAIN y.tables
  <2>1. ~Keeps("personas", "attributes") /\ "persona_versions" # "personas"
    BY DEF Keeps, Kept
  <2>2. PICK col : Done(x, AddColumn("personas", "attributes", col), y)
    BY <1>2
  <2>3. Same("persona_versions", x, y)
    BY <2>1, <2>2, ColumnIgnored
  <2>4. "personas" \in DOMAIN y.tables /\ y.rows["personas"] = x.rows["personas"]
    BY <2>1, <2>2, ColumnIgnored
  <2> QED
    BY <1>3, <2>3, <2>4 DEF Same
<1>5. /\ z.tables = y.tables /\ z.rows = DataStatement("project personas", y.rows)
      /\ u.tables = z.tables /\ u.rows = DataStatement("name personas", z.rows)
  BY <1>2, DataStep, Zenon
<1>6. e.rows.personas = u.rows.personas
  <2>1. "personas" \in DOMAIN u.tables
    BY <1>4, <1>5
  <2>2. "personas" \in DOMAIN v.tables /\ v.rows["personas"] = u.rows["personas"]
    <3>1. Done(u, AlterColumn("personas", "name", Required), v)
      BY <1>2
    <3> QED
      BY <2>1, <3>1, AlterStep
  <2>3. e.rows["personas"] = v.rows["personas"]
    <3>1. Done(v, AlterColumn("personas", "current_version", Default("1")), e)
      BY <1>2
    <3> QED
      BY <2>2, <3>1, AlterStep
  <2> QED
    BY <2>2, <2>3
<1>7. "personas" \in DOMAIN y.rows /\ "personas" \in DOMAIN z.rows
  BY <1>2, <1>4, <1>5, CharacterTables
<1> HIDE DEF s1, s2, s3, s4, s5, s6
<1>8. /\ DOMAIN z.rows.personas = DOMAIN y.rows.personas
      /\ \A p \in DOMAIN y.rows.personas :
            <<p, y.rows.personas[p].current_version>> \in DOMAIN y.rows.persona_versions
            => z.rows.personas[p] =
               ProjectedPersona(y.rows.personas[p],
                                y.rows.persona_versions[<<p, y.rows.personas[p].current_version>>])
  BY <1>5, <1>7, PersonasProjected, Zenon
<1>9. /\ DOMAIN u.rows.personas = DOMAIN z.rows.personas
      /\ \A p \in DOMAIN z.rows.personas :
            z.rows.personas[p].name # NULL => u.rows.personas[p] = z.rows.personas[p]
  <2>1. u.rows = NameRows(z.rows, "personas", "Persona")
    BY <1>5 DEF DataStatement
  <2>2. /\ DOMAIN u.rows["personas"] = DOMAIN z.rows["personas"]
        /\ \A p \in DOMAIN z.rows["personas"] :
              z.rows["personas"][p].name # NULL => u.rows["personas"][p] = z.rows["personas"][p]
    BY <1>7, <2>1, RowsNamed
  <2> QED
    BY <2>2
<1>10. ASSUME NEW p \in DOMAIN d.rows.personas PROVE PersonaBridged(d, e, p)
  <2> DEFINE r == d.rows.personas[p]
             q == y.rows.personas[p]
             pv == d.rows.persona_versions[<<p, r.current_version>>]
             w == e.rows.personas[p]
             text == Composed(pv.traits)
             a == ProjectedPersona(q, pv)
  <2>1. /\ PersonaWords \cup {"current_version"} \subseteq DOMAIN r
        /\ <<p, r.current_version>> \in DOMAIN d.rows.persona_versions /\ pv.name # NULL
    BY DEF PersonaReady, PersonaWords
  <2>2. q = With(r, "is_default", Default("false").default)
    BY <1>3, <1>4
  <2> HIDE DEF q, r, pv, w, text, a
  <2>3. PersonaWords \cup {"current_version"} \subseteq DOMAIN q /\ q.current_version = r.current_version
    BY <2>1, <2>2 DEF With
  <2>4. z.rows.personas[p] = a /\ p \in DOMAIN z.rows.personas
    BY <1>3, <1>4, <1>8, <2>1, <2>3 DEF q, r, pv, a
  <2>5. /\ PersonaWords \cup {"current_version"} \subseteq DOMAIN a
        /\ a.current_version = q.current_version /\ a.name = pv.name /\ a.instructions = text
        /\ a.attributes_traits = pv.traits /\ a.attributes_pronouns = pv.pronouns
    <3>1. a = [q EXCEPT !.name = pv.name, !.instructions = text, !.attributes_traits = pv.traits,
                        !.attributes_pronouns = pv.pronouns]
      BY DEF ProjectedPersona, a, text
    <3> QED
      BY <2>3, <3>1 DEF PersonaWords
  <2>6. w = a
    BY <1>6, <1>9, <2>1, <2>4, <2>5 DEF w
  <2>7. /\ PersonaWords \cup {"current_version"} \subseteq DOMAIN w
        /\ w.current_version = r.current_version /\ w.name = pv.name /\ w.instructions = text
        /\ w.attributes_traits = pv.traits /\ w.attributes_pronouns = pv.pronouns
    BY <2>3, <2>5, <2>6
  <2> QED
    BY <2>7 DEF PersonaBridged, w, r, pv, text
<1>11. DOMAIN e.rows.personas = DOMAIN d.rows.personas
  BY <1>3, <1>4, <1>6, <1>8, <1>9
<1> QED
  BY <1>10, <1>11

\* A script that neither adds nor drops columns of a table keeps its rows.
Keeping == Alterations \ {"add column", "drop column"}
RowsStay(t, d, e) == t \in DOMAIN e.tables /\ e.rows[t] = d.rows[t]
Preserves(T, t) == \A x \in T : x[1] = t => x[2] \in Keeping

\* A script of plain statements on a table keeps its rows.
LEMMA PlainRun ==
    ASSUME NEW a, NEW T, Footprint(a, T), NEW d, WellFormed(d), Run(a, d).ok = TRUE,
           NEW t \in DOMAIN Kept, t \in DOMAIN d.tables, Preserves(T, t)
    PROVE  RowsStay(t, d, Run(a, d))
<1>1. /\ Len(a) \in Nat
      /\ \A i \in 1 .. Len(a) : Touches(a[i]) = t => Effect(a[i]) \in T
  BY RunEffects, Zenon
<1>2. PICK done : Traces(done, a, d)
  BY RunSteps
<1> DEFINE S == {i \in Nat : t \in DOMAIN done[i].tables /\ done[i].rows[t] = d.rows[t]}
<1>3. 0 \in S
  BY <1>2 DEF Traces
<1>4. ASSUME NEW i \in 1 .. Len(a), i - 1 \in S PROVE i \in S
  <2> DEFINE x == done[i - 1]
             y == done[i]
  <2>1. Done(x, a[i], y) /\ t \in DOMAIN x.tables /\ x.rows[t] = d.rows[t] /\ i \in Nat
    BY <1>1, <1>2, <1>4 DEF Traces
  <2> HIDE DEF x, y
  <2>2. t \in DOMAIN y.tables /\ y.rows[t] = x.rows[t]
    <3>1. CASE Touches(a[i]) # t
      BY <2>1, <3>1 DEF Done, Same
    <3>2. CASE Touches(a[i]) = t
      <4>1. a[i].op \in Alterations \ {"add column", "drop column"}
        BY <1>1, <3>2, EffectParts DEF Keeping, Preserves
      <4> QED
        BY <2>1, <4>1, PlainStep
    <3> QED
      BY <3>1, <3>2
  <2> QED
    BY <2>1, <2>2 DEF y
<1> HIDE DEF S
<1>5. Len(a) \in S
  <2>1. \A i \in 0 .. Len(a) : i \in S
    BY <1>1, <1>3, <1>4, InductionUpTo
  <2> QED
    BY <1>1, <2>1
<1> QED
  BY <1>2, <1>5 DEF S, Traces, RowsStay

\* The statements on the personas: each takes the texts of its current version.
LEMMA BridgedPersonas ==
    ASSUME NEW d, WellFormed(d), "personas" \in DOMAIN d.tables,
           "persona_versions" \in DOMAIN d.tables,
           \A p \in DOMAIN d.rows.personas : PersonaReady(d, p),
           NEW e, e = Run(BridgePersonas, d), e.ok = TRUE
    PROVE  /\ d.ok = TRUE /\ WellFormed(e)
           /\ \A t \in DOMAIN Kept : t # "personas" => Same(t, d, e)
           /\ "personas" \in DOMAIN e.tables
           /\ DOMAIN e.rows.personas = DOMAIN d.rows.personas
           /\ \A p \in DOMAIN d.rows.personas : PersonaBridged(d, e, p)
           /\ HasColumn(e, "personas", "current_version", Default("1"))
<1> DEFINE a == AddColumns("personas", PersonaTexts)
           b == AddIndexes("personas", <<"name", "is_default">>)
           x == Run(a, d)
           y == Run(AttributeScript, x)
<1>1. /\ "personas" \in DOMAIN Kept /\ "persona_versions" \in DOMAIN Kept
      /\ "persona_versions" # "personas" /\ \A c \in PersonaWords : Keeps("personas", c)
  BY KeptTables DEF Keeps, Kept, PersonaWords
<1> DEFINE T == {"personas"} \X {"add index"} \X {""} \X {Required}
<1>2. Footprint(b, T)
  <2>1. <<"personas", "add index", "", Required>> \in T
    OBVIOUS
  <2>2. IsList(<<"name", "is_default">>)
    BY SmallLists
  <2> HIDE DEF T
  <2> QED
    BY <2>1, <2>2, ListScripts
<1>3. \A s \in T : s[1] = "personas" /\ s[2] = "add index" /\ s[2] \notin ColumnOps /\ s[2] \in Keeping
  BY DEF ColumnOps, Keeping, Alterations
<1> HIDE DEF T
<1>4. /\ x.ok = TRUE /\ y.ok = TRUE /\ WellFormed(x) /\ WellFormed(y)
      /\ e = Run(b, y)
  <2>1. BridgePersonas = (a \o AttributeScript) \o b
    BY DEF BridgePersonas, AttributeScript
  <2>2. PICK U : Footprint(a, U)
    BY NameLists, TableKinds, ListFootprint
  <2> HIDE DEF a, b
  <2>3. PICK V : Footprint(a \o AttributeScript, V)
    <3>1. Footprint(a, U \cup AttributeEffects) /\ Footprint(AttributeScript, U \cup AttributeEffects)
      BY <2>2, AttributeFootprint, FootprintWidened
    <3> QED
      BY <3>1, FootprintConcat
  <2>4. e = Run((a \o AttributeScript) \o b, d) /\ Run((a \o AttributeScript) \o b, d).ok = TRUE
    BY <2>1
  <2>5. /\ Run(a \o AttributeScript, d).ok = TRUE /\ WellFormed(Run(a \o AttributeScript, d))
    BY <1>2, <2>3, <2>4, RunTwo
  <2>6. e = Run(b, Run(a \o AttributeScript, d))
    BY <1>2, <2>3, <2>4, RunConcat DEF Footprint
  <2>7. Run(a, d).ok = TRUE /\ WellFormed(Run(a, d))
    BY <2>2, <2>5, AttributeFootprint, RunTwo
  <2>8. Run(a \o AttributeScript, d) = Run(AttributeScript, Run(a, d))
    BY <2>2, AttributeFootprint, RunConcat DEF Footprint
  <2> QED
    BY <2>5, <2>6, <2>7, <2>8
<1>5. /\ IsList(PersonaTexts) /\ PersonaWords \subseteq Members(PersonaTexts)
      /\ {"current_version"} \cap Members(PersonaTexts) = {}
  BY NameLists, TextMembers DEF PersonaWords
<1> HIDE DEF x, y
<1>6. /\ d.ok = TRUE /\ "personas" \in DOMAIN x.tables
      /\ \A u \in DOMAIN Kept : u # "personas" => Same(u, d, x)
      /\ Kindred(d.rows["personas"], x.rows["personas"], {"current_version"})
  BY <1>1, <1>4, <1>5, TableKinds, ColumnsChanged DEF x
<1>7. \A p \in DOMAIN x.rows["personas"] : PersonaWords \subseteq DOMAIN x.rows["personas"][p]
  <2>1. ASSUME NEW word \in PersonaWords
        PROVE  \A p \in DOMAIN x.rows["personas"] : word \in DOMAIN x.rows["personas"][p]
    <3>1. word \in Members(PersonaTexts) /\ Keeps("personas", word)
      BY <1>1, <1>5
    <3> QED
      BY <1>1, <1>4, <1>5, <3>1, TableKinds, ColumnsAdded DEF x
  <2> QED
    BY <2>1
<1>8. /\ "persona_versions" \in DOMAIN x.tables
      /\ x.rows.persona_versions = d.rows.persona_versions
  BY <1>1, <1>6 DEF Same
<1>9. /\ DOMAIN x.rows.personas = DOMAIN d.rows.personas
      /\ \A p \in DOMAIN d.rows.personas :
            /\ PersonaReady(x, p) /\ PersonaWords \subseteq DOMAIN x.rows.personas[p]
            /\ x.rows.personas[p].current_version = d.rows.personas[p].current_version
  <2>1. DOMAIN x.rows.personas = DOMAIN d.rows.personas
    BY <1>6 DEF Kindred
  <2>2. ASSUME NEW p \in DOMAIN d.rows.personas
        PROVE  /\ PersonaReady(x, p) /\ PersonaWords \subseteq DOMAIN x.rows.personas[p]
               /\ x.rows.personas[p].current_version = d.rows.personas[p].current_version
    <3> DEFINE r == d.rows["personas"][p]
               q == x.rows["personas"][p]
    <3>1. Alike(r, q, {"current_version"}) /\ PersonaWords \subseteq DOMAIN q
      BY <1>6, <1>7, <2>1 DEF Kindred
    <3>2. "current_version" \in DOMAIN r
      BY DEF PersonaReady
    <3> HIDE DEF r, q
    <3>3. "current_version" \in DOMAIN q /\ q.current_version = r.current_version
      BY <3>1, <3>2 DEF Alike
    <3> QED
      BY <1>8, <3>1, <3>3 DEF PersonaReady, r, q
  <2> QED
    BY <2>1, <2>2
<1>10. /\ DOMAIN y.rows.personas = DOMAIN d.rows.personas
       /\ \A p \in DOMAIN d.rows.personas : PersonaBridged(x, y, p)
  BY <1>4, <1>6, <1>8, <1>9, AttributeRun DEF y
<1>11. /\ "personas" \in DOMAIN y.tables
       /\ \A t \in DOMAIN Kept : t # "personas" => Same(t, x, y)
       /\ HasColumn(y, "personas", "current_version", Default("1"))
  BY <1>4, AttributeColumns DEF y
<1> HIDE DEF b
<1>12. /\ WellFormed(e) /\ \A t \in DOMAIN Kept : t # "personas" => Same(t, y, e)
  BY <1>2, <1>3, <1>4, RunApart
<1>13. "personas" \in DOMAIN e.tables /\ e.rows["personas"] = y.rows["personas"]
  <2>1. Preserves(T, "personas")
    BY <1>3 DEF Preserves
  <2>2. Run(b, y).ok = TRUE
    BY <1>4
  <2>3. "personas" \in DOMAIN Kept /\ WellFormed(y) /\ "personas" \in DOMAIN y.tables
    BY <1>1, <1>4, <1>11
  <2>4. RowsStay("personas", y, Run(b, y))
    BY <1>2, <2>1, <2>2, <2>3, PlainRun
  <2> QED
    BY <1>4, <2>4 DEF RowsStay
<1>14. HasColumn(e, "personas", "current_version", Default("1"))
  <2>1. Forms(T, "personas", "current_version", Default("1"))
    BY <1>3 DEF Forms
  <2> QED
    BY <1>1, <1>2, <1>4, <1>11, <2>1, RunColumn
<1>15. \A p \in DOMAIN d.rows.personas : PersonaBridged(d, e, p)
  BY <1>8, <1>9, <1>10, <1>13 DEF PersonaBridged
<1>16. \A t \in DOMAIN Kept : t # "personas" => Same(t, d, e)
  BY <1>6, <1>11, <1>12 DEF Same
<1> QED
  BY <1>6, <1>10, <1>12, <1>13, <1>14, <1>15, <1>16

-----------------------------------------------------------------------------
(* Upgrading the memories                                                  *)

\* Statements on keys, checks, indexes and uniqueness.
PlainOps == Alterations \ ColumnOps
PlainEffects(t) == {t} \X PlainOps \X {""} \X {Required}
Within(T, t, ops) == \A x \in T : x[1] = t /\ x[2] \in ops

\* Which statements are plain.
LEMMA PlainStatements ==
    ASSUME NEW t, NEW T, PlainEffects(t) \subseteq T
    PROVE  /\ \A on : Obeys(AddIndex(t, on), T) /\ Obeys(DropIndex(t, on), T)
           /\ \A on, active : Obeys(DropUnique(t, on, active), T)
           /\ t = "memories" => \A active : Obeys(AddUnique(t, Identity, active), T)
           /\ \A c : Obeys(DropCheck(t, c), T) /\ Obeys(DropKey(t, c), T)
           /\ \A c, allowed : Obeys(AddCheck(t, c, allowed), T)
           /\ \A k : SafeKey(t, k) => Obeys(AddKey(t, k), T)
<1>1. \A o \in PlainOps : <<t, o, "", Required>> \in T
  BY DEF PlainEffects
<1>2. /\ "add index" \in PlainOps /\ "drop index" \in PlainOps
      /\ "add unique" \in PlainOps /\ "drop unique" \in PlainOps
      /\ "add check" \in PlainOps /\ "drop check" \in PlainOps
      /\ "add key" \in PlainOps /\ "drop key" \in PlainOps
  BY DEF PlainOps, Alterations, ColumnOps
<1>3. /\ <<t, "add index", "", Required>> \in T /\ <<t, "drop index", "", Required>> \in T
      /\ <<t, "add unique", "", Required>> \in T /\ <<t, "drop unique", "", Required>> \in T
      /\ <<t, "add check", "", Required>> \in T /\ <<t, "drop check", "", Required>> \in T
      /\ <<t, "add key", "", Required>> \in T /\ <<t, "drop key", "", Required>> \in T
  BY <1>1, <1>2
<1>4. \A on : Obeys(AddIndex(t, on), T) /\ Obeys(DropIndex(t, on), T)
  BY <1>3, Statements
<1>5. /\ \A on, active : Obeys(DropUnique(t, on, active), T)
      /\ t = "memories" => \A active : Obeys(AddUnique(t, Identity, active), T)
  BY <1>3, Statements
<1>6. \A c : Obeys(DropCheck(t, c), T) /\ Obeys(DropKey(t, c), T)
  BY <1>3, Statements
<1>7. \A c, allowed : Obeys(AddCheck(t, c, allowed), T)
  BY <1>3, Statements
<1>8. \A k : SafeKey(t, k) => Obeys(AddKey(t, k), T)
  BY <1>3, Statements
<1> QED
  BY <1>4, <1>5, <1>6, <1>7, <1>8

\* A script on one table, of which it keeps the rows.
LEMMA TablePlain ==
    ASSUME NEW a, NEW T, Footprint(a, T), NEW d, WellFormed(d), Run(a, d).ok = TRUE,
           NEW t \in DOMAIN Kept, t \in DOMAIN d.tables, Within(T, t, Keeping)
    PROVE  /\ d.ok = TRUE /\ WellFormed(Run(a, d))
           /\ \A u \in DOMAIN Kept : u # t => Same(u, d, Run(a, d))
           /\ RowsStay(t, d, Run(a, d))
<1>1. Preserves(T, t)
  BY DEF Within, Preserves
<1>2. RowsStay(t, d, Run(a, d))
  BY <1>1, PlainRun
<1>3. /\ d.ok = TRUE /\ WellFormed(Run(a, d))
      /\ \A u \in DOMAIN Kept : u # t => Same(u, d, Run(a, d))
  BY RunApart DEF Within
<1> QED
  BY <1>2, <1>3

\* The foreign keys that revision 0005 gives to memories are safe.
LEMMA MemoryKeys ==
    /\ \A del : SafeKey("memories", Key("conversation_id", "conversations", del))
    /\ \A del : SafeKey("memories", Key("character_id", "characters", del))
    /\ "memories" \in DOMAIN Kept
  BY KeptTables DEF SafeKey, Key

RelaxEffects ==
    PlainEffects("memories")
      \cup ({"memories"} \X {"alter column"} \X Members(Bookkeeping) \X {Optional})

\* What RelaxMemories may touch.
LEMMA RelaxFootprint == Footprint(RelaxMemories, RelaxEffects)
<1> DEFINE T == RelaxEffects
<1>1. PlainEffects("memories") \subseteq T
  BY DEF RelaxEffects
<1>2. Footprint(AlterColumns("memories", Bookkeeping, Optional), T)
  <2>1. IsList(Bookkeeping)
    BY NameLists
  <2>2. \A i \in DOMAIN Bookkeeping : Bookkeeping[i] \in Members(Bookkeeping)
    BY <2>1, Scripts
  <2>3. \A i \in DOMAIN Bookkeeping : <<"memories", "alter column", Bookkeeping[i], Optional>> \in T
    BY <2>2 DEF RelaxEffects
  <2> QED
    BY <2>1, <2>3, ListScripts
<1> HIDE DEF T
<1>3. Footprint(<<DropUnique("memories", Identity, TRUE)>>, T)
  BY <1>1, PlainStatements, Tuples
<1>4. /\ Footprint(Rebind("conversation_id", "conversations", "set null"), T)
      /\ Footprint(Rebind("character_id", "characters", "set null"), T)
  BY <1>1, MemoryKeys, PlainStatements, Tuples DEF Rebind
<1>5. Footprint(<<AddIndex("memories", <<"archived_at">>), AddIndex("memories", ImportanceIndex)>>, T)
  BY <1>1, PlainStatements, Tuples
<1> QED
  BY <1>2, <1>3, <1>4, <1>5, FootprintConcat DEF RelaxMemories, T

\* It keeps every row and makes the bookkeeping columns optional (lines 214
\* to 266).
LEMMA RelaxRun ==
    ASSUME NEW d, WellFormed(d), "memories" \in DOMAIN d.tables,
           "expires_at" \in DOMAIN d.tables.memories.cols,
           NEW e, e = Run(RelaxMemories, d), e.ok = TRUE
    PROVE  /\ d.ok = TRUE /\ WellFormed(e)
           /\ \A u \in DOMAIN Kept : u # "memories" => Same(u, d, e)
           /\ RowsStay("memories", d, e)
           /\ "expires_at" \in DOMAIN e.tables.memories.cols
           /\ HasColumn(e, "memories", "status", Optional)
<1>1. \A x \in RelaxEffects :
         /\ x[1] = "memories" /\ x[2] \in Keeping /\ x[2] \notin {"create", "drop", "drop column"}
         /\ x[2] \in ColumnOps => x[4] = Optional /\ x[3] # "expires_at"
  BY TextMembers DEF RelaxEffects, PlainEffects, PlainOps, Keeping, Alterations, ColumnOps
<1>2. Within(RelaxEffects, "memories", Keeping) /\ "memories" \in DOMAIN Kept
  BY <1>1, MemoryKeys DEF Within
<1>3. HasColumn(e, "memories", "status", Optional)
  <2>1. AlterColumn("memories", "status", Optional) \in Members(RelaxMemories)
    <3> DEFINE s == AlterColumn("memories", "status", Optional)
               a == AlterColumns("memories", Bookkeeping, Optional)
               b1 == <<DropUnique("memories", Identity, TRUE)>>
               b2 == Rebind("conversation_id", "conversations", "set null")
               b3 == Rebind("character_id", "characters", "set null")
               b4 == <<AddIndex("memories", <<"archived_at">>), AddIndex("memories", ImportanceIndex)>>
    <3>1. s \in Members(a)
      BY NameLists, TextMembers, ListMembers
    <3>2. IsList(a)
      <4>1. PICK T : Footprint(a, T)
        BY NameLists, TableKinds, ListFootprint
      <4> QED
        BY <4>1 DEF Footprint
    <3>3. IsList(b1) /\ IsList(b2) /\ IsList(b3) /\ IsList(b4)
      BY SmallLists DEF Rebind
    <3>4. RelaxMemories = (((a \o b1) \o b2) \o b3) \o b4
      BY DEF RelaxMemories
    <3> HIDE DEF s, a, b1, b2, b3, b4
    <3>5. IsList(a \o b1) /\ s \in Members(a \o b1)
      BY <3>1, <3>2, <3>3, ConcatScripts
    <3>6. IsList((a \o b1) \o b2) /\ s \in Members((a \o b1) \o b2)
      BY <3>5, <3>3, ConcatScripts
    <3>7. IsList(((a \o b1) \o b2) \o b3) /\ s \in Members(((a \o b1) \o b2) \o b3)
      BY <3>6, <3>3, ConcatScripts
    <3>8. s \in Members((((a \o b1) \o b2) \o b3) \o b4)
      BY <3>7, <3>3, ConcatScripts
    <3> QED
      BY <3>4, <3>8 DEF s
  <2>2. Alters(AlterColumn("memories", "status", Optional), "memories", "status")
    BY DEF AlterColumn, Alters
  <2>3. Forms(RelaxEffects, "memories", "status", Optional)
    BY <1>1 DEF Forms
  <2> QED
    BY <1>2, <2>1, <2>2, <2>3, RelaxFootprint, RunColumn
<1>4. "expires_at" \in DOMAIN e.tables.memories.cols
  <2> DEFINE v == d.tables["memories"].cols["expires_at"]
  <2>1. HasColumn(d, "memories", "expires_at", v)
    BY DEF HasColumn
  <2>2. Forms(RelaxEffects, "memories", "expires_at", v)
    BY <1>1 DEF Forms
  <2> HIDE DEF v
  <2>3. HasColumn(e, "memories", "expires_at", v)
    BY <1>2, <2>1, <2>2, RelaxFootprint, RunColumn
  <2> QED
    BY <2>3 DEF HasColumn
<1>5. /\ d.ok = TRUE /\ WellFormed(e)
      /\ \A u \in DOMAIN Kept : u # "memories" => Same(u, d, e)
      /\ RowsStay("memories", d, e)
  BY <1>2, RelaxFootprint, TablePlain
<1> QED
  BY <1>3, <1>4, <1>5

\* What the statements on memories do to one.
ScopeKept(m) == IF m.scope \in DroppedScopes THEN [m EXCEPT !.legacy_scope = m.scope] ELSE m
ScopeMapped(m) ==
    IF m.scope \in DroppedScopes
    THEN [m EXCEPT !.scope =
             IF m.scope = "relationship" /\ m.character_id # NULL THEN "character" ELSE "user"]
    ELSE m
KindKept(m) == IF m.kind \in DroppedKinds THEN [m EXCEPT !.legacy_kind = m.kind] ELSE m
KindMapped(m) == IF m.kind \in DroppedKinds THEN [m EXCEPT !.kind = "note"] ELSE m
Unused(m) == m.status \in {"archived", "superseded"} \/ m.expires_at = "past"
MadeArchived(m) == IF Unused(m) THEN [m EXCEPT !.archived_at = Coalesce(m.archived_at, "then")] ELSE m

\* The memories after are those before, each as f makes it.
Remade(before, after, f(_)) ==
    /\ DOMAIN after.memories = DOMAIN before.memories
    /\ \A i \in DOMAIN before.memories : after.memories[i] = f(before.memories[i])

\* The five data statements on memories, each row by row.
LEMMA MemoryStatements ==
    ASSUME NEW rows, "memories" \in DOMAIN rows, NEW after
    PROVE  /\ after = DataStatement("keep scopes", rows) => Remade(rows, after, ScopeKept)
           /\ after = DataStatement("map scopes", rows) => Remade(rows, after, ScopeMapped)
           /\ after = DataStatement("keep kinds", rows) => Remade(rows, after, KindKept)
           /\ after = DataStatement("map kinds", rows) => Remade(rows, after, KindMapped)
           /\ after = DataStatement("archive memories", rows) => Remade(rows, after, MadeArchived)
<1>1. after = DataStatement("keep scopes", rows) => Remade(rows, after, ScopeKept)
  <2>1. DataStatement("keep scopes", rows) = KeepScopes(rows)
    BY DEF DataStatement
  <2>2. DataStatement("keep scopes", rows).memories =
            [i \in DOMAIN rows.memories |-> ScopeKept(rows.memories[i])]
    BY <2>1 DEF KeepScopes, Updated, ScopeKept
  <2> QED
    BY <2>2 DEF Remade
<1>2. after = DataStatement("map scopes", rows) => Remade(rows, after, ScopeMapped)
  <2>1. DataStatement("map scopes", rows) = MapScopes(rows)
    BY DEF DataStatement
  <2>2. DataStatement("map scopes", rows).memories =
            [i \in DOMAIN rows.memories |-> ScopeMapped(rows.memories[i])]
    BY <2>1 DEF MapScopes, Updated, ScopeMapped
  <2> QED
    BY <2>2 DEF Remade
<1>3. after = DataStatement("keep kinds", rows) => Remade(rows, after, KindKept)
  <2>1. DataStatement("keep kinds", rows) = KeepKinds(rows)
    BY DEF DataStatement
  <2>2. DataStatement("keep kinds", rows).memories =
            [i \in DOMAIN rows.memories |-> KindKept(rows.memories[i])]
    BY <2>1 DEF KeepKinds, Updated, KindKept
  <2> QED
    BY <2>2 DEF Remade
<1>4. after = DataStatement("map kinds", rows) => Remade(rows, after, KindMapped)
  <2>1. DataStatement("map kinds", rows) = MapKinds(rows)
    BY DEF DataStatement
  <2>2. DataStatement("map kinds", rows).memories =
            [i \in DOMAIN rows.memories |-> KindMapped(rows.memories[i])]
    BY <2>1 DEF MapKinds, Updated, KindMapped
  <2> QED
    BY <2>2 DEF Remade
<1>5. after = DataStatement("archive memories", rows) => Remade(rows, after, MadeArchived)
  <2>1. DataStatement("archive memories", rows) = ArchiveMemories(rows)
    BY DEF DataStatement
  <2>2. DataStatement("archive memories", rows).memories =
            [i \in DOMAIN rows.memories |-> MadeArchived(rows.memories[i])]
    BY <2>1 DEF ArchiveMemories, Updated, MadeArchived, Unused
  <2> QED
    BY <2>2 DEF Remade
<1> QED
  BY <1>1, <1>2, <1>3, <1>4, <1>5

\* What the bridge makes of a memory.
MemoryBridged(m, q) ==
    /\ MemoryFields \cup {"archived_at"} \subseteq DOMAIN q
    /\ q.status = m.status /\ q.revised_kind = m.revised_kind
    /\ IF m.scope \in DroppedScopes
       THEN q.legacy_scope = m.scope /\ q.scope \in {"user", "character"}
       ELSE q.legacy_scope = m.legacy_scope /\ q.scope = m.scope
    /\ IF m.kind \in DroppedKinds
       THEN q.legacy_kind = m.kind /\ q.kind = "note"
       ELSE q.legacy_kind = m.legacy_kind /\ q.kind = m.kind
    /\ q.archived_at = NULL <=> ~Unused(m)

\* One after the other they carry a memory over as MemoryBridged says.
LEMMA MemoryCarried ==
    ASSUME NEW m, MemoryFields \subseteq DOMAIN m, "archived_at" \in DOMAIN m, m.archived_at = NULL
    PROVE  MemoryBridged(m, MadeArchived(KindMapped(KindKept(ScopeMapped(ScopeKept(m))))))
<1> DEFINE a == ScopeKept(m)
           b == ScopeMapped(a)
           c == KindKept(b)
           k == KindMapped(c)
           q == MadeArchived(k)
<1>1. /\ DOMAIN a = DOMAIN m /\ \A f \in DOMAIN m : f # "legacy_scope" => a[f] = m[f]
      /\ a.legacy_scope = IF m.scope \in DroppedScopes THEN m.scope ELSE m.legacy_scope
  BY DEF ScopeKept, MemoryFields
<1> HIDE DEF a
<1>2. /\ DOMAIN b = DOMAIN m /\ \A f \in DOMAIN m : f # "scope" => b[f] = a[f]
      /\ IF m.scope \in DroppedScopes THEN b.scope \in {"user", "character"} ELSE b.scope = m.scope
  BY <1>1 DEF ScopeMapped, MemoryFields
<1> HIDE DEF b
<1>3. /\ DOMAIN c = DOMAIN m /\ \A f \in DOMAIN m : f # "legacy_kind" => c[f] = b[f]
      /\ c.legacy_kind = IF m.kind \in DroppedKinds THEN m.kind ELSE m.legacy_kind
  BY <1>1, <1>2 DEF KindKept, MemoryFields
<1> HIDE DEF c
<1>4. /\ DOMAIN k = DOMAIN m /\ \A f \in DOMAIN m : f # "kind" => k[f] = c[f]
      /\ IF m.kind \in DroppedKinds THEN k.kind = "note" ELSE k.kind = m.kind
  BY <1>1, <1>2, <1>3 DEF KindMapped, MemoryFields
<1> HIDE DEF k
<1>5. /\ DOMAIN q = DOMAIN m /\ \A f \in DOMAIN m : f # "archived_at" => q[f] = k[f]
      /\ q.archived_at = NULL <=> ~Unused(m)
  BY <1>1, <1>2, <1>3, <1>4 DEF MadeArchived, Unused, Coalesce, MemoryFields, NULL
<1> HIDE DEF q
<1>6. MemoryBridged(m, q)
  BY <1>1, <1>2, <1>3, <1>4, <1>5 DEF MemoryBridged, MemoryFields
<1> QED
  BY <1>6 DEF a, b, c, k, q

MapEffects == {"memories"} \X {"sql"} \X {""} \X {Required}

\* What MapMemories may touch.
LEMMA MapFootprint == Footprint(MapMemories, MapEffects)
<1>1. /\ "keep scopes" \in DataNames /\ DataTable("keep scopes") = "memories"
      /\ "map scopes" \in DataNames /\ DataTable("map scopes") = "memories"
      /\ "keep kinds" \in DataNames /\ DataTable("keep kinds") = "memories"
      /\ "map kinds" \in DataNames /\ DataTable("map kinds") = "memories"
      /\ "archive memories" \in DataNames /\ DataTable("archive memories") = "memories"
      /\ <<"memories", "sql", "", Required>> \in MapEffects
  BY DEF DataNames, DataTable, MapEffects
<1>2. /\ Obeys(Sql("keep scopes"), MapEffects) /\ Obeys(Sql("map scopes"), MapEffects)
      /\ Obeys(Sql("keep kinds"), MapEffects) /\ Obeys(Sql("map kinds"), MapEffects)
      /\ Obeys(Sql("archive memories"), MapEffects)
  BY <1>1, DataStatements
<1> QED
  BY <1>2, Tuples DEF MapMemories

\* It carries every memory over (lines 166 to 212).
LEMMA MapRun ==
    ASSUME NEW d, WellFormed(d), "memories" \in DOMAIN d.tables,
           \A i \in DOMAIN d.rows.memories :
              /\ MemoryFields \cup {"archived_at"} \subseteq DOMAIN d.rows.memories[i]
              /\ d.rows.memories[i].archived_at = NULL,
           NEW e, e = Run(MapMemories, d), e.ok = TRUE
    PROVE  /\ d.ok = TRUE /\ WellFormed(e) /\ e.tables = d.tables
           /\ \A u \in DOMAIN Kept : u # "memories" => Same(u, d, e)
           /\ DOMAIN e.rows.memories = DOMAIN d.rows.memories
           /\ \A i \in DOMAIN d.rows.memories : MemoryBridged(d.rows.memories[i], e.rows.memories[i])
<1> DEFINE s1 == Sql("keep scopes")
           s2 == Sql("map scopes")
           s3 == Sql("keep kinds")
           s4 == Sql("map kinds")
           s5 == Sql("archive memories")
<1>1. PICK done : Traces(done, MapMemories, d)
  BY MapFootprint, RunSteps
<1> DEFINE x == done[1]
           y == done[2]
           z == done[3]
           u == done[4]
<1>2. /\ WellFormed(x) /\ WellFormed(y) /\ WellFormed(z) /\ WellFormed(u)
      /\ Done(d, s1, x) /\ Done(x, s2, y) /\ Done(y, s3, z)
      /\ Done(z, s4, u) /\ Done(u, s5, e)
  <2>1. /\ Len(MapMemories) = 5
        /\ MapMemories[1] = s1 /\ MapMemories[2] = s2 /\ MapMemories[3] = s3
        /\ MapMemories[4] = s4 /\ MapMemories[5] = s5
    BY DEF MapMemories
  <2> HIDE DEF s1, s2, s3, s4, s5
  <2> QED
    BY <1>1, <2>1, FiveSteps
<1> HIDE DEF x, y, z, u
<1>3. /\ x.tables = d.tables /\ x.rows = DataStatement("keep scopes", d.rows)
      /\ y.tables = x.tables /\ y.rows = DataStatement("map scopes", x.rows)
      /\ z.tables = y.tables /\ z.rows = DataStatement("keep kinds", y.rows)
      /\ u.tables = z.tables /\ u.rows = DataStatement("map kinds", z.rows)
      /\ e.tables = u.tables /\ e.rows = DataStatement("archive memories", u.rows)
  BY <1>2, DataStep, Zenon
<1> HIDE DEF s1, s2, s3, s4, s5
<1>4. /\ "memories" \in DOMAIN d.rows /\ "memories" \in DOMAIN x.rows
      /\ "memories" \in DOMAIN y.rows /\ "memories" \in DOMAIN z.rows /\ "memories" \in DOMAIN u.rows
  BY <1>2, <1>3, CharacterTables
<1>5. Remade(d.rows, x.rows, ScopeKept)
  BY <1>3, <1>4, MemoryStatements
<1>6. Remade(x.rows, y.rows, ScopeMapped)
  BY <1>3, <1>4, MemoryStatements
<1>7. Remade(y.rows, z.rows, KindKept)
  BY <1>3, <1>4, MemoryStatements
<1>8. Remade(z.rows, u.rows, KindMapped)
  BY <1>3, <1>4, MemoryStatements
<1>9. Remade(u.rows, e.rows, MadeArchived)
  BY <1>3, <1>4, MemoryStatements
<1>10. ASSUME NEW i \in DOMAIN d.rows.memories
       PROVE  MemoryBridged(d.rows.memories[i], e.rows.memories[i])
  <2> DEFINE m == d.rows.memories[i]
  <2>1. MemoryBridged(m, MadeArchived(KindMapped(KindKept(ScopeMapped(ScopeKept(m))))))
    BY MemoryCarried
  <2>2. e.rows.memories[i] = MadeArchived(KindMapped(KindKept(ScopeMapped(ScopeKept(m)))))
    BY <1>5, <1>6, <1>7, <1>8, <1>9 DEF Remade
  <2> QED
    BY <2>1, <2>2
<1>11. DOMAIN e.rows.memories = DOMAIN d.rows.memories
  BY <1>5, <1>6, <1>7, <1>8, <1>9 DEF Remade
<1>12. /\ d.ok = TRUE /\ WellFormed(e)
       /\ \A t \in DOMAIN Kept : t # "memories" => Same(t, d, e)
  <2>1. \A s \in MapEffects : s[1] = "memories"
    BY DEF MapEffects
  <2> QED
    BY <2>1, MapFootprint, RunApart
<1>13. e.tables = d.tables
  BY <1>3
<1> QED
  BY <1>10, <1>11, <1>12, <1>13

\* The footprint of two scripts is that of both.
LEMMA JoinedFootprint ==
    ASSUME NEW a, NEW T, Footprint(a, T), NEW b, NEW U, Footprint(b, U)
    PROVE  Footprint(a \o b, T \cup U)
<1>1. Footprint(a, T \cup U)
  <2>1. T \subseteq T \cup U
    OBVIOUS
  <2> QED
    BY <2>1, FootprintWidened
<1>2. Footprint(b, T \cup U)
  <2>1. U \subseteq T \cup U
    OBVIOUS
  <2> QED
    BY <2>1, FootprintWidened
<1> QED
  BY <1>1, <1>2, FootprintConcat

\* Three scripts one after the other.
LEMMA ThreeConcat ==
    ASSUME NEW a, NEW b, NEW c, IsList(a), IsList(b), IsList(c), NEW d
    PROVE  Run((a \o b) \o c, d) = Run(c, Run(b, Run(a, d)))
<1>1. IsList(a \o b)
  BY ConcatScripts
<1>2. /\ Run((a \o b) \o c, d) = Run(c, Run(a \o b, d))
      /\ Run(a \o b, d) = Run(b, Run(a, d))
  BY <1>1, RunConcat
<1> QED
  BY <1>2

\* The states between them are well formed, and none is refused.
LEMMA RunThree ==
    ASSUME NEW a, NEW T, Footprint(a, T), NEW b, NEW U, Footprint(b, U), NEW c, NEW V, Footprint(c, V),
           NEW d, WellFormed(d), Run((a \o b) \o c, d).ok = TRUE
    PROVE  /\ d.ok = TRUE /\ Run(a, d).ok = TRUE /\ WellFormed(Run(a, d))
           /\ Run(b, Run(a, d)).ok = TRUE /\ WellFormed(Run(b, Run(a, d)))
           /\ Run((a \o b) \o c, d) = Run(c, Run(b, Run(a, d)))
<1>1. Footprint(a \o b, T \cup U)
  BY JoinedFootprint
<1>2. Run(a \o b, d).ok = TRUE /\ WellFormed(Run(a \o b, d))
  BY <1>1, RunTwo
<1>3. Run((a \o b) \o c, d) = Run(c, Run(a \o b, d))
  BY <1>1, RunConcat DEF Footprint
<1>4. d.ok = TRUE /\ Run(a, d).ok = TRUE /\ WellFormed(Run(a, d))
  BY <1>2, RunTwo
<1>5. Run(a \o b, d) = Run(b, Run(a, d))
  BY RunConcat DEF Footprint
<1> QED
  BY <1>2, <1>3, <1>4, <1>5

\* Four scripts one after the other.
LEMMA FourConcat ==
    ASSUME NEW a, NEW b, NEW c, NEW f, IsList(a), IsList(b), IsList(c), IsList(f), NEW d
    PROVE  Run(((a \o b) \o c) \o f, d) = Run(f, Run(c, Run(b, Run(a, d))))
<1>1. IsList(a \o b) /\ IsList((a \o b) \o c)
  BY ConcatScripts
<1>2. /\ Run(((a \o b) \o c) \o f, d) = Run(f, Run((a \o b) \o c, d))
      /\ Run((a \o b) \o c, d) = Run(c, Run(a \o b, d))
      /\ Run(a \o b, d) = Run(b, Run(a, d))
  BY <1>1, RunConcat
<1> QED
  BY <1>2

\* The states between them are well formed, and none is refused.
LEMMA RunFour ==
    ASSUME NEW a, NEW T, Footprint(a, T), NEW b, NEW U, Footprint(b, U), NEW c, NEW V, Footprint(c, V),
           NEW f, NEW W, Footprint(f, W), NEW d, WellFormed(d), Run(((a \o b) \o c) \o f, d).ok = TRUE
    PROVE  /\ d.ok = TRUE /\ Run(a, d).ok = TRUE /\ WellFormed(Run(a, d))
           /\ Run(b, Run(a, d)).ok = TRUE /\ WellFormed(Run(b, Run(a, d)))
           /\ Run(c, Run(b, Run(a, d))).ok = TRUE /\ WellFormed(Run(c, Run(b, Run(a, d))))
           /\ Run(((a \o b) \o c) \o f, d) = Run(f, Run(c, Run(b, Run(a, d))))
<1>1. Footprint(a \o b, T \cup U)
  BY JoinedFootprint
<1>2. Footprint((a \o b) \o c, (T \cup U) \cup V)
  BY <1>1, JoinedFootprint
<1>3. Run((a \o b) \o c, d).ok = TRUE /\ WellFormed(Run((a \o b) \o c, d))
  BY <1>2, RunTwo
<1>4. Run(((a \o b) \o c) \o f, d) = Run(f, Run((a \o b) \o c, d))
  BY <1>2, RunConcat DEF Footprint
<1>5. /\ d.ok = TRUE /\ Run(a, d).ok = TRUE /\ WellFormed(Run(a, d))
      /\ Run(b, Run(a, d)).ok = TRUE /\ WellFormed(Run(b, Run(a, d)))
  BY <1>3, RunThree
<1>6. Run((a \o b) \o c, d) = Run(c, Run(b, Run(a, d)))
  <2>1. Run((a \o b) \o c, d) = Run(c, Run(a \o b, d))
    BY <1>1, RunConcat DEF Footprint
  <2>2. Run(a \o b, d) = Run(b, Run(a, d))
    BY RunConcat DEF Footprint
  <2> QED
    BY <2>1, <2>2
<1> QED
  BY <1>3, <1>4, <1>5, <1>6

\* A column added to a table with rows.
Widened(d, e, t, c, v) ==
    /\ t \in DOMAIN e.tables /\ DOMAIN e.rows[t] = DOMAIN d.rows[t]
    /\ \A i \in DOMAIN d.rows[t] : e.rows[t][i] = With(d.rows[t][i], c, v)
    /\ \A x, w : x # c /\ HasColumn(d, t, x, w) => HasColumn(e, t, x, w)

\* A script that adds one column.
LEMMA OneColumn ==
    ASSUME NEW d, WellFormed(d), NEW t \in DOMAIN Kept, NEW c, Keeps(t, c), NEW col, Addable(t, c, col),
           NEW e, e = Run(<<AddColumn(t, c, col)>>, d), e.ok = TRUE
    PROVE  /\ WellFormed(e) /\ Widened(d, e, t, c, col.default)
           /\ \A u : u # t => Same(u, d, e)
<1> DEFINE T == {t} \X {"add column"} \X {c} \X {col}
           s == AddColumn(t, c, col)
<1>1. Footprint(<<s>>, T)
  <2>1. Obeys(s, T)
    BY Statements
  <2> HIDE DEF s, T
  <2> QED
    BY <2>1, Tuples
<1>2. \A x \in T : x[1] = t /\ x[2] = "add column" /\ x[3] = c
  OBVIOUS
<1> HIDE DEF T
<1>9. e = Run(<<s>>, d) /\ Run(<<s>>, d).ok = TRUE
  OBVIOUS
<1>3. Done(d, s, e)
  <2> HIDE DEF s
  <2>1. PICK done : Traces(done, <<s>>, d)
    BY <1>1, <1>9, RunSteps
  <2>2. Len(<<s>>) = 1 /\ <<s>>[1] = s
    OBVIOUS
  <2>3. Done(done[0], <<s>>[1], done[1]) /\ done[0] = d /\ done[1] = e
    <3>1. \A i \in 1 .. 1 : Done(done[i - 1], <<s>>[i], done[i])
      BY <2>1, <2>2 DEF Traces
    <3>2. Done(done[0], <<s>>[1], done[1])
      BY <3>1
    <3>3. done[0] = d /\ done[1] = e
      BY <1>9, <2>1, <2>2 DEF Traces
    <3> QED
      BY <3>2, <3>3
  <2> QED
    BY <2>2, <2>3
<1>4. WellFormed(e)
  BY <1>1, RunForm, Zenon
<1>5. ASSUME NEW x, NEW v, x # c, HasColumn(d, t, x, v) PROVE HasColumn(e, t, x, v)
  <2>1. Forms(T, t, x, v)
    BY <1>2, <1>5 DEF Forms, ColumnOps
  <2> HIDE DEF s
  <2>2. HasColumn(Run(<<s>>, d), t, x, v)
    BY <1>1, <1>5, <1>9, <2>1, RunColumn
  <2> QED
    BY <1>9, <2>2
<1>6. \A u : u # t => Same(u, d, e)
  BY <1>3, ColumnAdded
<1>7. t \in DOMAIN e.tables /\ DOMAIN e.rows[t] = DOMAIN d.rows[t]
  BY <1>3, ColumnAdded
<1>8. \A i \in DOMAIN d.rows[t] : e.rows[t][i] = With(d.rows[t][i], c, col.default)
  BY <1>3, ColumnAdded
<1> QED
  BY <1>4, <1>5, <1>6, <1>7, <1>8 DEF Widened

\* The statements on the memories: each keeps what it was given.
LEMMA BridgedMemories ==
    ASSUME NEW d, WellFormed(d), "memories" \in DOMAIN d.tables,
           \A i \in DOMAIN d.rows.memories : MemoryFields \subseteq DOMAIN d.rows.memories[i],
           "expires_at" \in DOMAIN d.tables.memories.cols,
           NEW e, e = Run(BridgeMemories, d), e.ok = TRUE
    PROVE  /\ d.ok = TRUE /\ WellFormed(e)
           /\ \A t \in DOMAIN Kept : t # "memories" => Same(t, d, e)
           /\ "memories" \in DOMAIN e.tables
           /\ DOMAIN e.rows.memories = DOMAIN d.rows.memories
           /\ \A i \in DOMAIN d.rows.memories : MemoryBridged(d.rows.memories[i], e.rows.memories[i])
           /\ "expires_at" \in DOMAIN e.tables.memories.cols
           /\ HasColumn(e, "memories", "status", Optional)
<1> DEFINE a == <<AddColumn("memories", "archived_at", Optional)>>
           x == Run(a, d)
           y == Run(DropMemoryChecks, x)
           z == Run(MapMemories, y)
           T == {"memories"} \X {"add column"} \X {"archived_at"} \X {Optional}
<1>1. "memories" \in DOMAIN Kept /\ Keeps("memories", "archived_at") /\ Optional.default = NULL
  BY KeptTables DEF Keeps, Kept, Optional
<1>2. Footprint(a, T)
  <2>1. Obeys(AddColumn("memories", "archived_at", Optional), T)
    BY OwnerColumns, Statements
  <2> HIDE DEF T
  <2> QED
    BY <2>1, Tuples
<1>3. Footprint(DropMemoryChecks, PlainEffects("memories"))
  <2>1. PlainEffects("memories") \subseteq PlainEffects("memories")
    OBVIOUS
  <2> QED
    BY <2>1, PlainStatements, Tuples DEF DropMemoryChecks
<1> HIDE DEF a, T
<1>4. /\ d.ok = TRUE /\ x.ok = TRUE /\ WellFormed(x) /\ y.ok = TRUE /\ WellFormed(y)
      /\ z.ok = TRUE /\ WellFormed(z) /\ e = Run(RelaxMemories, z)
  <2>1. BridgeMemories = ((a \o DropMemoryChecks) \o MapMemories) \o RelaxMemories
    BY DEF BridgeMemories, a
  <2>2. e = Run(((a \o DropMemoryChecks) \o MapMemories) \o RelaxMemories, d)
    BY <2>1
  <2>3. Run(((a \o DropMemoryChecks) \o MapMemories) \o RelaxMemories, d).ok = TRUE
    BY <2>2
  <2>4. /\ d.ok = TRUE /\ x.ok = TRUE /\ WellFormed(x) /\ y.ok = TRUE /\ WellFormed(y)
        /\ z.ok = TRUE /\ WellFormed(z)
    BY <1>2, <1>3, <2>3, MapFootprint, RelaxFootprint, RunFour
  <2>5. Run(((a \o DropMemoryChecks) \o MapMemories) \o RelaxMemories, d) = Run(RelaxMemories, z)
    <3>1. IsList(a) /\ IsList(DropMemoryChecks) /\ IsList(MapMemories) /\ IsList(RelaxMemories)
      BY <1>2, <1>3, MapFootprint, RelaxFootprint DEF Footprint
    <3> QED
      BY <3>1, FourConcat
  <2> QED
    BY <2>2, <2>4, <2>5
<1> HIDE DEF x, y, z
<1>5. /\ "memories" \in DOMAIN x.tables
      /\ \A u : u # "memories" => Same(u, d, x)
      /\ DOMAIN x.rows["memories"] = DOMAIN d.rows["memories"]
      /\ \A i \in DOMAIN d.rows["memories"] :
            x.rows["memories"][i] = With(d.rows["memories"][i], "archived_at", Optional.default)
      /\ \A c, v : c # "archived_at" /\ HasColumn(d, "memories", c, v) => HasColumn(x, "memories", c, v)
  <2>1. x = Run(<<AddColumn("memories", "archived_at", Optional)>>, d)
    BY DEF x, a
  <2>2. Widened(d, x, "memories", "archived_at", Optional.default)
    BY <1>1, <1>4, <2>1, OwnerColumns, OneColumn
  <2>3. \A u : u # "memories" => Same(u, d, x)
    BY <1>1, <1>4, <2>1, OwnerColumns, OneColumn
  <2> QED
    BY <2>2, <2>3 DEF Widened
<1>6. \A s \in PlainEffects("memories") : s[1] = "memories" /\ s[2] \in PlainOps
  BY DEF PlainEffects
<1>7. /\ \A u \in DOMAIN Kept : u # "memories" => Same(u, x, y)
      /\ RowsStay("memories", x, y)
  <2>1. Within(PlainEffects("memories"), "memories", Keeping)
    BY <1>6 DEF Within, PlainOps, Keeping, ColumnOps
  <2> QED
    BY <1>1, <1>3, <1>4, <1>5, <2>1, TablePlain DEF y
<1>8. \A c, v : HasColumn(x, "memories", c, v) => HasColumn(y, "memories", c, v)
  <2> SUFFICES ASSUME NEW c, NEW v, HasColumn(x, "memories", c, v) PROVE HasColumn(y, "memories", c, v)
    OBVIOUS
  <2>1. Forms(PlainEffects("memories"), "memories", c, v)
    BY <1>6 DEF Forms, PlainOps, Alterations, ColumnOps
  <2> QED
    BY <1>1, <1>3, <1>4, <2>1, RunColumn DEF y
<1>9. "expires_at" \in DOMAIN y.tables["memories"].cols
  <2>1. HasColumn(d, "memories", "expires_at", d.tables["memories"].cols["expires_at"])
    BY DEF HasColumn
  <2>2. HasColumn(y, "memories", "expires_at", d.tables["memories"].cols["expires_at"])
    BY <1>5, <1>8, <2>1
  <2> QED
    BY <2>2 DEF HasColumn
<1>10. "memories" \in DOMAIN y.tables /\ y.rows["memories"] = x.rows["memories"]
  BY <1>7 DEF RowsStay
<1>11. \A i \in DOMAIN d.rows["memories"] :
          /\ MemoryFields \cup {"archived_at"} \subseteq DOMAIN y.rows["memories"][i]
          /\ y.rows["memories"][i].archived_at = NULL
          /\ \A f \in MemoryFields : y.rows["memories"][i][f] = d.rows["memories"][i][f]
  <2> SUFFICES ASSUME NEW i \in DOMAIN d.rows["memories"]
               PROVE  /\ MemoryFields \cup {"archived_at"} \subseteq DOMAIN y.rows["memories"][i]
                      /\ y.rows["memories"][i].archived_at = NULL
                      /\ \A f \in MemoryFields : y.rows["memories"][i][f] = d.rows["memories"][i][f]
    OBVIOUS
  <2> DEFINE m == d.rows["memories"][i]
             q == y.rows["memories"][i]
  <2>1. MemoryFields \subseteq DOMAIN m
    OBVIOUS
  <2>2. q = With(m, "archived_at", NULL)
    BY <1>1, <1>5, <1>10
  <2> HIDE DEF m, q
  <2>3. /\ MemoryFields \cup {"archived_at"} \subseteq DOMAIN q /\ q.archived_at = NULL
        /\ \A f \in MemoryFields : q[f] = m[f]
    BY <2>1, <2>2 DEF With, MemoryFields
  <2> QED
    BY <2>3 DEF m, q
<1>12. DOMAIN y.rows["memories"] = DOMAIN d.rows["memories"]
  BY <1>5, <1>10
<1>13. /\ z.tables = y.tables /\ \A u \in DOMAIN Kept : u # "memories" => Same(u, y, z)
       /\ DOMAIN z.rows.memories = DOMAIN y.rows.memories
       /\ \A i \in DOMAIN y.rows.memories : MemoryBridged(y.rows.memories[i], z.rows.memories[i])
  BY <1>4, <1>10, <1>11, <1>12, MapRun DEF z
<1>14. /\ WellFormed(e)
       /\ \A u \in DOMAIN Kept : u # "memories" => Same(u, z, e)
       /\ RowsStay("memories", z, e)
       /\ "expires_at" \in DOMAIN e.tables.memories.cols
       /\ HasColumn(e, "memories", "status", Optional)
  BY <1>4, <1>9, <1>10, <1>13, RelaxRun
<1>15. "memories" \in DOMAIN e.tables /\ e.rows["memories"] = z.rows["memories"]
  BY <1>14 DEF RowsStay
<1>16. \A i \in DOMAIN d.rows["memories"] : MemoryBridged(d.rows["memories"][i], e.rows["memories"][i])
  <2> SUFFICES ASSUME NEW i \in DOMAIN d.rows["memories"]
               PROVE  MemoryBridged(d.rows["memories"][i], e.rows["memories"][i])
    OBVIOUS
  <2> DEFINE m == d.rows["memories"][i]
             r == y.rows["memories"][i]
             q == e.rows["memories"][i]
  <2>1. MemoryBridged(r, q)
    BY <1>12, <1>13, <1>15
  <2>2. \A f \in MemoryFields : r[f] = m[f]
    BY <1>11
  <2> HIDE DEF m, r, q
  <2>3. /\ r.scope = m.scope /\ r.kind = m.kind /\ r.status = m.status /\ r.expires_at = m.expires_at
        /\ r.legacy_scope = m.legacy_scope /\ r.legacy_kind = m.legacy_kind
        /\ r.revised_kind = m.revised_kind
    BY <2>2 DEF MemoryFields
  <2>4. MemoryBridged(m, q)
    BY <2>1, <2>3 DEF MemoryBridged, Unused
  <2> QED
    BY <2>4 DEF m, q
<1>17. DOMAIN e.rows["memories"] = DOMAIN d.rows["memories"]
  BY <1>12, <1>13, <1>15
<1>18. \A t \in DOMAIN Kept : t # "memories" => Same(t, d, e)
  BY <1>5, <1>7, <1>13, <1>14 DEF Same
<1> QED
  BY <1>4, <1>14, <1>15, <1>16, <1>17, <1>18

-----------------------------------------------------------------------------
(* Downgrading the memories                                                *)

\* What the way back makes of a memory.
MemoryUnbridged(m, q) ==
    /\ MemoryFields \subseteq DOMAIN q
    /\ q.scope = m.scope /\ q.legacy_scope = m.legacy_scope /\ q.legacy_kind = m.legacy_kind
    /\ IF m.kind \in {"summary", "note"}
       THEN q.revised_kind = m.kind /\ q.kind = "fact"
       ELSE q.revised_kind = m.revised_kind /\ q.kind = m.kind
    /\ IF m.status = NULL THEN q.status \in {"active", "archived"} ELSE q.status = m.status

KindRevised(m) ==
    IF m.kind \in {"summary", "note"} THEN [m EXCEPT !.revised_kind = m.kind, !.kind = "fact"] ELSE m

FilledRow(m, i) ==
    [m EXCEPT !.status = Coalesce(m.status, IF m.archived_at = NULL THEN "active" ELSE "archived"),
              !.normalized_key = Coalesce(m.normalized_key, i)]
Refilled(before, after) ==
    /\ DOMAIN after.memories = DOMAIN before.memories
    /\ \A i \in DOMAIN before.memories : after.memories[i] = FilledRow(before.memories[i], i)

\* What "fill bookkeeping" does to the memories.
LEMMA MemoryFilled ==
    ASSUME NEW rows, "memories" \in DOMAIN rows, NEW after,
           after = DataStatement("fill bookkeeping", rows)
    PROVE  Refilled(rows, after)
<1>1. after = FillBookkeeping(rows)
  BY DEF DataStatement
<1>3. after.memories = [i \in DOMAIN rows.memories |-> FilledRow(rows.memories[i], i)]
  BY <1>1 DEF FillBookkeeping, FilledRow
<1> QED
  BY <1>3 DEF Refilled

\* What "map revised kinds" does to the memories.
LEMMA KindsRevised ==
    ASSUME NEW rows, "memories" \in DOMAIN rows, NEW after,
           after = DataStatement("map revised kinds", rows)
    PROVE  Remade(rows, after, KindRevised)
<1>1. after = MapRevisedKinds(rows)
  BY DEF DataStatement
<1>2. after.memories = [i \in DOMAIN rows.memories |-> KindRevised(rows.memories[i])]
  BY <1>1 DEF MapRevisedKinds, Updated, KindRevised
<1> QED
  BY <1>2 DEF Remade

\* What both may touch.
LEMMA FillFootprint == Footprint(FillScript, MapEffects)
<1>1. /\ "fill bookkeeping" \in DataNames /\ DataTable("fill bookkeeping") = "memories"
      /\ "map revised kinds" \in DataNames /\ DataTable("map revised kinds") = "memories"
      /\ <<"memories", "sql", "", Required>> \in MapEffects
  BY DEF DataNames, DataTable, MapEffects
<1>2. Obeys(Sql("fill bookkeeping"), MapEffects) /\ Obeys(Sql("map revised kinds"), MapEffects)
  BY <1>1, DataStatements
<1> QED
  BY <1>2, Tuples DEF FillScript

\* Both together bring every memory back as MemoryUnbridged says (lines 301
\* to 322).
LEMMA FillRun ==
    ASSUME NEW d, WellFormed(d), "memories" \in DOMAIN d.tables,
           \A i \in DOMAIN d.rows.memories : MemoryFields \subseteq DOMAIN d.rows.memories[i],
           NEW e, e = Run(FillScript, d), e.ok = TRUE
    PROVE  /\ d.ok = TRUE /\ WellFormed(e) /\ e.tables = d.tables
           /\ \A u \in DOMAIN Kept : u # "memories" => Same(u, d, e)
           /\ DOMAIN e.rows.memories = DOMAIN d.rows.memories
           /\ \A i \in DOMAIN d.rows.memories : MemoryUnbridged(d.rows.memories[i], e.rows.memories[i])
<1> DEFINE s1 == Sql("fill bookkeeping")
           s2 == Sql("map revised kinds")
<1>1. PICK done : Traces(done, FillScript, d)
  BY FillFootprint, RunSteps
<1> DEFINE x == done[1]
<1>2. WellFormed(x) /\ Done(d, s1, x) /\ Done(x, s2, e)
  <2>1. Len(FillScript) = 2 /\ FillScript[1] = s1 /\ FillScript[2] = s2
    BY DEF FillScript
  <2> HIDE DEF s1, s2
  <2> QED
    BY <1>1, <2>1, TwoSteps
<1> HIDE DEF x
<1>3. /\ x.tables = d.tables /\ x.rows = DataStatement("fill bookkeeping", d.rows)
      /\ e.tables = x.tables /\ e.rows = DataStatement("map revised kinds", x.rows)
  BY <1>2, DataStep, Zenon
<1> HIDE DEF s1, s2
<1>4. "memories" \in DOMAIN d.rows /\ "memories" \in DOMAIN x.rows
  BY <1>2, <1>3, CharacterTables
<1>5. Refilled(d.rows, x.rows)
  BY <1>3, <1>4, MemoryFilled
<1>6. Remade(x.rows, e.rows, KindRevised)
  BY <1>3, <1>4, KindsRevised
<1>7. ASSUME NEW i \in DOMAIN d.rows.memories
      PROVE  MemoryUnbridged(d.rows.memories[i], e.rows.memories[i])
  <2> DEFINE m == d.rows.memories[i]
             r == x.rows.memories[i]
             q == e.rows.memories[i]
  <2>1. MemoryFields \subseteq DOMAIN m
    OBVIOUS
  <2>2. q = KindRevised(r)
    BY <1>5, <1>6 DEF Remade, Refilled
  <2>3. r = FilledRow(m, i)
    BY <1>5 DEF Refilled
  <2> HIDE DEF m, r, q
  <2>4. /\ DOMAIN r = DOMAIN m /\ r.scope = m.scope /\ r.kind = m.kind
        /\ r.legacy_scope = m.legacy_scope /\ r.legacy_kind = m.legacy_kind
        /\ r.revised_kind = m.revised_kind
        /\ IF m.status = NULL THEN r.status \in {"active", "archived"} ELSE r.status = m.status
    <3>1. \A v, w : LET f == [m EXCEPT !.status = v, !.normalized_key = w]
                    IN /\ DOMAIN f = DOMAIN m /\ f.status = v
                       /\ \A c \in DOMAIN m \ {"status", "normalized_key"} : f[c] = m[c]
      BY <2>1 DEF MemoryFields
    <3> DEFINE v == Coalesce(m.status, IF m.archived_at = NULL THEN "active" ELSE "archived")
               w == Coalesce(m.normalized_key, i)
    <3>2. /\ r = [m EXCEPT !.status = v, !.normalized_key = w]
          /\ IF m.status = NULL THEN v \in {"active", "archived"} ELSE v = m.status
      <4>1. r = [m EXCEPT !.status = v, !.normalized_key = w]
        BY <2>3, Zenon DEF FilledRow
      <4>2. IF m.status = NULL THEN v \in {"active", "archived"} ELSE v = m.status
        BY DEF Coalesce
      <4> QED
        BY <4>1, <4>2
    <3> HIDE DEF v, w
    <3>3. /\ DOMAIN r = DOMAIN m /\ r.status = v
          /\ \A c \in DOMAIN m \ {"status", "normalized_key"} : r[c] = m[c]
      BY <3>1, <3>2
    <3> QED
      BY <2>1, <3>2, <3>3 DEF MemoryFields
  <2>5. MemoryUnbridged(m, q)
    BY <2>1, <2>2, <2>4 DEF MemoryUnbridged, KindRevised, MemoryFields
  <2> QED
    BY <2>5 DEF m, q
<1>8. DOMAIN e.rows.memories = DOMAIN d.rows.memories
  BY <1>5, <1>6 DEF Remade, Refilled
<1>9. /\ d.ok = TRUE /\ WellFormed(e)
      /\ \A t \in DOMAIN Kept : t # "memories" => Same(t, d, e)
  <2>1. \A s \in MapEffects : s[1] = "memories"
    BY DEF MapEffects
  <2> QED
    BY <2>1, FillFootprint, RunApart
<1>10. e.tables = d.tables
  BY <1>3
<1> QED
  BY <1>7, <1>8, <1>9, <1>10

RequireEffects == {"memories"} \X {"alter column"} \X Members(Bookkeeping) \X {Required}
TightEffects ==
    PlainEffects("memories") \cup ({"memories"} \X {"drop column"} \X {"archived_at"} \X {Required})

\* What the other parts of RestoreMemories may touch.
LEMMA RestoreFootprints ==
    /\ Footprint(LooseScript, PlainEffects("memories"))
    /\ Footprint(AlterColumns("memories", Bookkeeping, Required), RequireEffects)
    /\ Footprint(TightScript, TightEffects)
<1>1. Footprint(LooseScript, PlainEffects("memories"))
  <2> DEFINE T == PlainEffects("memories")
  <2>1. PlainEffects("memories") \subseteq T
    OBVIOUS
  <2> HIDE DEF T
  <2>2. Footprint(<<DropIndex("memories", ImportanceIndex), DropIndex("memories", <<"archived_at">>)>>, T)
    BY <2>1, PlainStatements, Tuples
  <2>3. /\ Footprint(Rebind("conversation_id", "conversations", "cascade"), T)
        /\ Footprint(Rebind("character_id", "characters", "cascade"), T)
    BY <2>1, MemoryKeys, PlainStatements, Tuples DEF Rebind
  <2> QED
    BY <2>2, <2>3, FootprintConcat DEF LooseScript, T
<1>2. Footprint(AlterColumns("memories", Bookkeeping, Required), RequireEffects)
  <2>1. IsList(Bookkeeping)
    BY NameLists
  <2>2. \A i \in DOMAIN Bookkeeping : Bookkeeping[i] \in Members(Bookkeeping)
    BY <2>1, Scripts
  <2>3. \A i \in DOMAIN Bookkeeping : <<"memories", "alter column", Bookkeeping[i], Required>> \in RequireEffects
    BY <2>2 DEF RequireEffects
  <2> QED
    BY <2>1, <2>3, ListScripts
<1>3. Footprint(TightScript, TightEffects)
  <2>1. PlainEffects("memories") \subseteq TightEffects
    BY DEF TightEffects
  <2>2. Obeys(DropColumn("memories", "archived_at"), TightEffects)
    BY OwnerColumns, Statements DEF TightEffects
  <2>3. /\ Obeys(AddCheck("memories", "scope", LegacyScopes), TightEffects)
        /\ Obeys(AddCheck("memories", "kind", LegacyKinds), TightEffects)
        /\ Obeys(AddCheck("memories", "status", LegacyStatuses), TightEffects)
        /\ Obeys(AddUnique("memories", Identity, TRUE), TightEffects)
    BY <2>1, PlainStatements
  <2> QED
    BY <2>2, <2>3, Tuples DEF TightScript
<1> QED
  BY <1>1, <1>2, <1>3

\* A script on one table, of which it keeps rows and columns but for those in D.
Confined(T, D) == \A x \in T : x[2] \in ColumnOps => x[3] \in D
KeptBut(t, D, d, e) ==
    /\ t \in DOMAIN e.tables
    /\ \A C : C \cap D = {} => Kindred(d.rows[t], e.rows[t], C)
    /\ \A c, v : c \notin D /\ HasColumn(d, t, c, v) => HasColumn(e, t, c, v)

\* A script keeps the columns of a table that its effects do not name.
LEMMA TableKept ==
    ASSUME NEW a, NEW T, Footprint(a, T), NEW d, WellFormed(d), NEW e, e = Run(a, d), e.ok = TRUE,
           NEW t \in DOMAIN Kept, t \in DOMAIN d.tables, NEW D,
           Within(T, t, Alterations), Confined(T, D)
    PROVE  /\ d.ok = TRUE /\ WellFormed(e) /\ KeptBut(t, D, d, e)
           /\ \A u \in DOMAIN Kept : u # t => Same(u, d, e)
<1>1. \A x \in T : /\ x[1] = t /\ x[2] \notin {"create", "drop", "sql"}
                   /\ x[2] \in ColumnOps => x[3] \in D
  BY DEF Within, Confined, Alterations
<1>2. /\ d.ok = TRUE /\ WellFormed(e) /\ \A u \in DOMAIN Kept : u # t => Same(u, d, e)
  BY <1>1, RunApart
<1>3. ASSUME NEW C, C \cap D = {}
      PROVE  t \in DOMAIN Run(a, d).tables /\ Kindred(d.rows[t], Run(a, d).rows[t], C)
  <2>1. Spares(T, t, C)
    BY <1>1, <1>3 DEF Spares, ColumnOps
  <2> QED
    BY <2>1, RunKeepsRows
<1>4. ASSUME NEW c, NEW v, c \notin D, HasColumn(d, t, c, v) PROVE HasColumn(Run(a, d), t, c, v)
  <2>1. Forms(T, t, c, v)
    BY <1>1, <1>4 DEF Forms
  <2> QED
    BY <1>4, <2>1, RunColumn
<1>5. t \in DOMAIN e.tables
  <2>1. {} \cap D = {}
    OBVIOUS
  <2> QED
    BY <1>3, <2>1
<1> QED
  BY <1>2, <1>3, <1>4, <1>5 DEF KeptBut

\* The way back of the memories: what each was given can still be told.
LEMMA UnbridgedMemories ==
    ASSUME NEW d, WellFormed(d), "memories" \in DOMAIN d.tables,
           \A i \in DOMAIN d.rows.memories : MemoryFields \subseteq DOMAIN d.rows.memories[i],
           "expires_at" \in DOMAIN d.tables.memories.cols,
           NEW e, e = Run(UnbridgeMemories, d), e.ok = TRUE
    PROVE  /\ d.ok = TRUE /\ WellFormed(e)
           /\ \A t \in DOMAIN Kept : t # "memories" => Same(t, d, e)
           /\ "memories" \in DOMAIN e.tables
           /\ DOMAIN e.rows.memories = DOMAIN d.rows.memories
           /\ \A i \in DOMAIN d.rows.memories : MemoryUnbridged(d.rows.memories[i], e.rows.memories[i])
           /\ "expires_at" \in DOMAIN e.tables.memories.cols
<1> DEFINE A == AlterColumns("memories", Bookkeeping, Required)
           x == Run(LooseScript, d)
           y == Run(FillScript, x)
           z == Run(A, y)
<1>1. /\ Footprint(LooseScript, PlainEffects("memories")) /\ Footprint(FillScript, MapEffects)
      /\ Footprint(A, RequireEffects) /\ Footprint(TightScript, TightEffects)
  BY RestoreFootprints, FillFootprint
<1> HIDE DEF A
<1>2. /\ d.ok = TRUE /\ x.ok = TRUE /\ WellFormed(x) /\ y.ok = TRUE /\ WellFormed(y)
      /\ z.ok = TRUE /\ WellFormed(z) /\ e = Run(TightScript, z)
  <2> DEFINE B == (FillScript \o A) \o TightScript
  <2>1. UnbridgeMemories = LooseScript \o B
    BY DEF UnbridgeMemories, LooseScript, RestoreMemories, FillScript, A, TightScript
  <2>2. Footprint(B, (MapEffects \cup RequireEffects) \cup TightEffects)
    BY <1>1, JoinedFootprint
  <2>3. IsList(LooseScript) /\ IsList(FillScript) /\ IsList(A) /\ IsList(TightScript) /\ IsList(B)
    BY <1>1, <2>2 DEF Footprint
  <2>4. Run(B, x) = Run(TightScript, z)
    <3>1. IsList(FillScript \o A)
      BY <2>3, ConcatScripts
    <3>2. Run(B, x) = Run(TightScript, Run(FillScript \o A, x))
      BY <2>3, <3>1, RunConcat
    <3>3. Run(FillScript \o A, x) = Run(A, Run(FillScript, x))
      BY <2>3, RunConcat
    <3> QED
      BY <3>2, <3>3
  <2> HIDE DEF B
  <2>5. e = Run(LooseScript \o B, d) /\ Run(LooseScript \o B, d).ok = TRUE
    BY <2>1
  <2>6. d.ok = TRUE /\ x.ok = TRUE /\ WellFormed(x)
    BY <1>1, <2>2, <2>5, RunTwo
  <2>7. e = Run(B, x)
    BY <2>3, <2>5, RunConcat
  <2> HIDE DEF x
  <2>8. y.ok = TRUE /\ WellFormed(y) /\ z.ok = TRUE /\ WellFormed(z)
    <3>1. Run((FillScript \o A) \o TightScript, x).ok = TRUE
      BY <2>7 DEF B
    <3> QED
      BY <1>1, <2>6, <3>1, RunThree
  <2> QED
    BY <2>4, <2>6, <2>7, <2>8
<1> HIDE DEF x, y, z
<1>3. /\ Within(PlainEffects("memories"), "memories", Alterations)
      /\ Confined(PlainEffects("memories"), {})
      /\ Within(RequireEffects, "memories", Alterations)
      /\ Confined(RequireEffects, Members(Bookkeeping))
      /\ Within(RequireEffects, "memories", Keeping)
      /\ Within(TightEffects, "memories", Alterations)
      /\ Confined(TightEffects, {"archived_at"})
      /\ Within(PlainEffects("memories"), "memories", Keeping)
  BY DEF Within, Confined, PlainEffects, RequireEffects, TightEffects, PlainOps, Alterations, Keeping, ColumnOps
<1>4. "memories" \in DOMAIN Kept
  BY KeptTables
<1>5. /\ \A u \in DOMAIN Kept : u # "memories" => Same(u, d, x)
      /\ RowsStay("memories", d, x)
  BY <1>1, <1>2, <1>3, <1>4, TablePlain DEF x
<1>6. KeptBut("memories", {}, d, x)
  BY <1>1, <1>2, <1>3, <1>4, TableKept DEF x
<1>7. /\ "memories" \in DOMAIN x.tables
      /\ x.rows["memories"] = d.rows["memories"]
  BY <1>5 DEF RowsStay
<1>8. /\ y.tables = x.tables
      /\ \A u \in DOMAIN Kept : u # "memories" => Same(u, x, y)
      /\ DOMAIN y.rows.memories = DOMAIN d.rows.memories
      /\ \A i \in DOMAIN d.rows.memories : MemoryUnbridged(d.rows.memories[i], y.rows.memories[i])
  <2>1. \A i \in DOMAIN x.rows.memories : MemoryFields \subseteq DOMAIN x.rows.memories[i]
    BY <1>7
  <2>2. /\ y.tables = x.tables
        /\ \A u \in DOMAIN Kept : u # "memories" => Same(u, x, y)
        /\ DOMAIN y.rows.memories = DOMAIN x.rows.memories
        /\ \A i \in DOMAIN x.rows.memories : MemoryUnbridged(x.rows.memories[i], y.rows.memories[i])
    BY <1>2, <1>7, <2>1, FillRun DEF y
  <2> QED
    BY <1>7, <2>2
<1>9. "memories" \in DOMAIN y.tables
  BY <1>7, <1>8
<1>10. /\ \A u \in DOMAIN Kept : u # "memories" => Same(u, y, z)
       /\ RowsStay("memories", y, z)
  BY <1>1, <1>2, <1>3, <1>4, <1>9, TablePlain DEF z
<1>11. KeptBut("memories", Members(Bookkeeping), y, z)
  BY <1>1, <1>2, <1>3, <1>4, <1>9, TableKept DEF z
<1>12. "memories" \in DOMAIN z.tables /\ z.rows["memories"] = y.rows["memories"]
  BY <1>10 DEF RowsStay
<1>13. /\ WellFormed(e) /\ KeptBut("memories", {"archived_at"}, z, e)
       /\ \A u \in DOMAIN Kept : u # "memories" => Same(u, z, e)
  BY <1>1, <1>2, <1>3, <1>4, <1>12, TableKept
<1>14. "expires_at" \in DOMAIN e.tables["memories"].cols
  <2> DEFINE v == d.tables["memories"].cols["expires_at"]
  <2>1. HasColumn(d, "memories", "expires_at", v)
    BY DEF HasColumn
  <2> HIDE DEF v
  <2>2. HasColumn(x, "memories", "expires_at", v)
    BY <1>6, <2>1 DEF KeptBut
  <2>3. HasColumn(y, "memories", "expires_at", v)
    BY <1>8, <2>2 DEF HasColumn
  <2>4. HasColumn(z, "memories", "expires_at", v)
    BY <1>11, <2>3, TextMembers DEF KeptBut
  <2>5. HasColumn(e, "memories", "expires_at", v)
    BY <1>13, <2>4 DEF KeptBut
  <2> QED
    BY <2>5 DEF HasColumn
<1>15. Kindred(y.rows["memories"], e.rows["memories"], MemoryFields)
  <2>1. MemoryFields \cap {"archived_at"} = {}
    BY DEF MemoryFields
  <2> QED
    BY <1>12, <1>13, <2>1 DEF KeptBut
<1>16. DOMAIN e.rows["memories"] = DOMAIN d.rows["memories"]
  BY <1>8, <1>15 DEF Kindred
<1>17. \A i \in DOMAIN d.rows["memories"] : MemoryUnbridged(d.rows["memories"][i], e.rows["memories"][i])
  <2> SUFFICES ASSUME NEW i \in DOMAIN d.rows["memories"]
               PROVE  MemoryUnbridged(d.rows["memories"][i], e.rows["memories"][i])
    OBVIOUS
  <2> DEFINE m == d.rows["memories"][i]
             r == y.rows["memories"][i]
             q == e.rows["memories"][i]
  <2>1. MemoryUnbridged(m, r)
    BY <1>8
  <2>2. Alike(r, q, MemoryFields)
    BY <1>8, <1>15 DEF Kindred
  <2> HIDE DEF m, r, q
  <2>3. MemoryFields \subseteq DOMAIN r
    BY <2>1 DEF MemoryUnbridged
  <2>4. MemoryFields \subseteq DOMAIN q /\ \A f \in MemoryFields : q[f] = r[f]
    BY <2>2, <2>3 DEF Alike
  <2>5. /\ q.scope = r.scope /\ q.kind = r.kind /\ q.status = r.status
        /\ q.legacy_scope = r.legacy_scope /\ q.legacy_kind = r.legacy_kind
        /\ q.revised_kind = r.revised_kind
    BY <2>4 DEF MemoryFields
  <2>6. MemoryUnbridged(m, q)
    BY <2>1, <2>4, <2>5 DEF MemoryUnbridged
  <2> QED
    BY <2>6 DEF m, q
<1>18. \A t \in DOMAIN Kept : t # "memories" => Same(t, d, e)
  BY <1>5, <1>8, <1>10, <1>13 DEF Same
<1> QED
  BY <1>2, <1>13, <1>14, <1>16, <1>17, <1>18 DEF KeptBut

-----------------------------------------------------------------------------
(* Downgrading the characters                                              *)

\* Owner i has no version among vs.
Bare(vs, i) == \A k \in DOMAIN vs : k[1] # i

\* The versions ws take the names of the owners in cs: those of vs that are
\* not current stay, and an owner without any gets a first one.
VersionsTaken(cs, vs, ws) ==
    /\ DOMAIN vs \subseteq DOMAIN ws
    /\ \A i \in DOMAIN cs : Bare(vs, i) => <<i, "1">> \in DOMAIN ws
    /\ \A k \in DOMAIN ws \ DOMAIN vs :
          /\ k = <<k[1], "1">> /\ k[1] \in DOMAIN cs /\ Bare(vs, k[1])
          /\ "name" \in DOMAIN ws[k] /\ ws[k].name = cs[k[1]].name
    /\ \A k \in DOMAIN vs : /\ k[2] # cs[k[1]].current_version => ws[k] = vs[k]
                            /\ k[2] = cs[k[1]].current_version =>
                                  "name" \in DOMAIN ws[k] /\ ws[k].name = cs[k[1]].name

\* Whole rows: a first version says what its owner says, a current one takes
\* what it has a column for.
CharactersTaken(cs, vs, ws) ==
    /\ \A k \in DOMAIN ws \ DOMAIN vs : ws[k] = FirstCharacterVersion(k[1], cs[k[1]])
    /\ \A k \in DOMAIN vs :
          ws[k] = IF k[2] = cs[k[1]].current_version THEN RenewedCharacterVersion(cs[k[1]], vs[k])
                  ELSE vs[k]
PersonasTaken(cs, vs, ws) ==
    /\ \A k \in DOMAIN ws \ DOMAIN vs : ws[k] = FirstPersonaVersion(k[1], cs[k[1]])
    /\ \A k \in DOMAIN vs :
          ws[k] = IF k[2] = cs[k[1]].current_version THEN RenewedPersonaVersion(cs[k[1]], vs[k])
                  ELSE vs[k]

\* The current versions take them.
CharactersRenewed(cs, us, ws) ==
    \A k \in DOMAIN us :
        ws[k] = IF k[2] = cs[k[1]].current_version THEN RenewedCharacterVersion(cs[k[1]], us[k])
                ELSE us[k]
PersonasRenewed(cs, us, ws) ==
    \A k \in DOMAIN us :
        ws[k] = IF k[2] = cs[k[1]].current_version THEN RenewedPersonaVersion(cs[k[1]], us[k])
                ELSE us[k]

\* The versions with a first one for every owner that has none.
VersionsAdded(cs, vs, ws) ==
    /\ DOMAIN ws = DOMAIN vs \cup {<<i, "1">> : i \in {j \in DOMAIN cs : Bare(vs, j)}}
    /\ \A k \in DOMAIN vs : ws[k] = vs[k]
    /\ \A k \in DOMAIN ws \ DOMAIN vs : "name" \in DOMAIN ws[k] /\ ws[k].name = cs[k[1]].name

\* "version characters" gives a first version to those without any, and
\* changes no other.
LEMMA CharactersVersioned ==
    ASSUME NEW rows, "characters" \in DOMAIN rows, "character_versions" \in DOMAIN rows,
           NEW after, after = DataStatement("version characters", rows)
    PROVE  /\ VersionsAdded(rows.characters, rows.character_versions, after.character_versions)
           /\ \A k \in DOMAIN after.character_versions \ DOMAIN rows.character_versions :
                 after.character_versions[k] = FirstCharacterVersion(k[1], rows.characters[k[1]])
<1> DEFINE cs == rows.characters
           vs == rows.character_versions
           ws == after.character_versions
           bare == {i \in DOMAIN cs : Bare(vs, i)}
           new == [k \in {<<i, "1">> : i \in bare} |-> FirstCharacterVersion(k[1], cs[k[1]])]
<1>1. after = VersionCharacters(rows)
  BY DEF DataStatement
<1>2. ws = Filled(new, vs)
  BY <1>1 DEF VersionCharacters, VersionRows, Bare
<1>3. \A k \in DOMAIN new : \E i \in bare : k = <<i, "1">>
  OBVIOUS
<1>4. \A k \in DOMAIN new : k \notin DOMAIN vs
  <2> SUFFICES ASSUME NEW k \in DOMAIN new, k \in DOMAIN vs PROVE FALSE
    OBVIOUS
  <2>1. PICK i \in bare : k = <<i, "1">>
    BY <1>3
  <2>2. k[1] = i
    BY <2>1
  <2> QED
    BY <2>1, <2>2 DEF Bare
<1>5. DOMAIN new = {<<i, "1">> : i \in bare} /\ \A k \in DOMAIN new : new[k] = FirstCharacterVersion(k[1], cs[k[1]])
  OBVIOUS
<1> HIDE DEF new
<1>6. /\ DOMAIN ws = DOMAIN vs \cup DOMAIN new
      /\ \A k \in DOMAIN vs : ws[k] = vs[k]
      /\ \A k \in DOMAIN ws \ DOMAIN vs : ws[k] = new[k] /\ k \in DOMAIN new
  BY <1>2, <1>4 DEF Filled
<1>7. ASSUME NEW k \in DOMAIN ws \ DOMAIN vs
      PROVE  "name" \in DOMAIN ws[k] /\ ws[k].name = cs[k[1]].name
  <2> DEFINE row == FirstCharacterVersion(k[1], cs[k[1]])
  <2>1. ws[k] = row
    BY <1>5, <1>6, <1>7
  <2>2. "name" \in DOMAIN row /\ row.name = cs[k[1]].name
    BY DEF FirstCharacterVersion
  <2> HIDE DEF row, ws
  <2> QED
    BY <2>1, <2>2
<1>8. \A k \in DOMAIN ws \ DOMAIN vs : ws[k] = FirstCharacterVersion(k[1], cs[k[1]])
  BY <1>5, <1>6
<1> QED
  BY <1>5, <1>6, <1>7, <1>8 DEF VersionsAdded

\* The current version takes the name of its owner.
Synchronized(cs, vs, ws) ==
    /\ DOMAIN ws = DOMAIN vs
    /\ \A k \in DOMAIN vs :
          /\ DOMAIN ws[k] = DOMAIN vs[k]
          /\ k[2] # cs[k[1]].current_version => ws[k] = vs[k]
          /\ k[2] = cs[k[1]].current_version /\ "name" \in DOMAIN vs[k] => ws[k].name = cs[k[1]].name

\* "synchronize characters" writes current versions only.
LEMMA CharactersSynchronized ==
    ASSUME NEW rows, "character_versions" \in DOMAIN rows,
           NEW after, after = DataStatement("synchronize characters", rows)
    PROVE  /\ Synchronized(rows.characters, rows.character_versions, after.character_versions)
           /\ CharactersRenewed(rows.characters, rows.character_versions, after.character_versions)
<1> DEFINE cs == rows.characters
           vs == rows.character_versions
           ws == after.character_versions
<1>1. after = SynchronizeCharacters(rows)
  BY DEF DataStatement
<1>2. /\ DOMAIN ws = DOMAIN vs
      /\ \A k \in DOMAIN vs :
            ws[k] = IF k[2] = cs[k[1]].current_version
                    THEN RenewedCharacterVersion(cs[k[1]], vs[k]) ELSE vs[k]
  BY <1>1 DEF SynchronizeCharacters
<1> HIDE DEF cs, vs, ws
<1>3. ASSUME NEW k \in DOMAIN vs
      PROVE  /\ DOMAIN ws[k] = DOMAIN vs[k]
             /\ k[2] # cs[k[1]].current_version => ws[k] = vs[k]
             /\ k[2] = cs[k[1]].current_version /\ "name" \in DOMAIN vs[k] => ws[k].name = cs[k[1]].name
  BY <1>2, <1>3 DEF RenewedCharacterVersion
<1>4. Synchronized(cs, vs, ws)
  BY <1>2, <1>3 DEF Synchronized
<1>5. CharactersRenewed(cs, vs, ws)
  BY <1>2 DEF CharactersRenewed
<1> QED
  BY <1>4, <1>5 DEF cs, vs, ws

\* Both together make the current versions say what the owners say.
LEMMA NamesTaken ==
    ASSUME NEW cs, NEW vs, NEW us, NEW ws, VersionsAdded(cs, vs, us), Synchronized(cs, us, ws),
           \A k \in DOMAIN vs : "name" \in DOMAIN vs[k]
    PROVE  VersionsTaken(cs, vs, ws)
<1>1. DOMAIN ws = DOMAIN us /\ DOMAIN vs \subseteq DOMAIN us
  BY DEF VersionsAdded, Synchronized
<1>2. ASSUME NEW i \in DOMAIN cs, Bare(vs, i) PROVE <<i, "1">> \in DOMAIN ws
  BY <1>1, <1>2 DEF VersionsAdded
<1>3. ASSUME NEW k \in DOMAIN us \ DOMAIN vs
      PROVE  /\ k = <<k[1], "1">> /\ k[1] \in DOMAIN cs /\ Bare(vs, k[1])
             /\ "name" \in DOMAIN ws[k] /\ ws[k].name = cs[k[1]].name
  <2>1. PICK i \in DOMAIN cs : k = <<i, "1">> /\ Bare(vs, i)
    BY <1>3 DEF VersionsAdded
  <2>2. k[1] = i /\ k = <<k[1], "1">>
    BY <2>1
  <2>4. "name" \in DOMAIN us[k] /\ us[k].name = cs[k[1]].name
    BY <1>3 DEF VersionsAdded
  <2>6. "name" \in DOMAIN ws[k] /\ ws[k].name = cs[k[1]].name
    BY <1>3, <2>4 DEF Synchronized
  <2> QED
    BY <2>1, <2>2, <2>6
<1>4. ASSUME NEW k \in DOMAIN vs
      PROVE  /\ k[2] # cs[k[1]].current_version => ws[k] = vs[k]
             /\ k[2] = cs[k[1]].current_version => "name" \in DOMAIN ws[k] /\ ws[k].name = cs[k[1]].name
  <2>1. us[k] = vs[k] /\ k \in DOMAIN us /\ "name" \in DOMAIN us[k]
    BY <1>1, <1>4 DEF VersionsAdded
  <2> QED
    BY <2>1 DEF Synchronized
<1> QED
  BY <1>1, <1>2, <1>3, <1>4 DEF VersionsTaken

\* A first version has nothing to take from its owner any more.
LEMMA FirstRenewed ==
    ASSUME NEW i, NEW r
    PROVE  /\ RenewedCharacterVersion(r, FirstCharacterVersion(i, r)) = FirstCharacterVersion(i, r)
           /\ RenewedPersonaVersion(r, FirstPersonaVersion(i, r)) = FirstPersonaVersion(i, r)
<1>1. ASSUME NEW v, v = [x \in DOMAIN v |-> v[x]], {"name", "summary", "traits"} \cap DOMAIN v # {}
      PROVE  /\ [v EXCEPT !.name = v.name, !.summary = v.summary] = v
             /\ [v EXCEPT !.name = v.name, !.traits = v.traits] = v
  BY <1>1
<1>2. /\ FirstCharacterVersion(i, r) = [x \in DOMAIN FirstCharacterVersion(i, r) |-> FirstCharacterVersion(i, r)[x]]
      /\ "name" \in DOMAIN FirstCharacterVersion(i, r)
      /\ FirstCharacterVersion(i, r).name = r.name /\ FirstCharacterVersion(i, r).summary = r.description
  BY DEF FirstCharacterVersion
<1>3. /\ FirstPersonaVersion(i, r) = [x \in DOMAIN FirstPersonaVersion(i, r) |-> FirstPersonaVersion(i, r)[x]]
      /\ "name" \in DOMAIN FirstPersonaVersion(i, r)
      /\ FirstPersonaVersion(i, r).name = r.name /\ FirstPersonaVersion(i, r).traits = r.attributes_traits
  BY DEF FirstPersonaVersion
<1>4. RenewedCharacterVersion(r, FirstCharacterVersion(i, r)) = FirstCharacterVersion(i, r)
  <2> DEFINE v == FirstCharacterVersion(i, r)
  <2>1. /\ v = [x \in DOMAIN v |-> v[x]] /\ "name" \in DOMAIN v
        /\ v.name = r.name /\ v.summary = r.description
    BY <1>2
  <2> HIDE DEF v
  <2>2. [v EXCEPT !.name = v.name, !.summary = v.summary] = v
    BY <1>1, <2>1
  <2> QED
    BY <2>1, <2>2 DEF RenewedCharacterVersion, v
<1>5. RenewedPersonaVersion(r, FirstPersonaVersion(i, r)) = FirstPersonaVersion(i, r)
  <2> DEFINE v == FirstPersonaVersion(i, r)
  <2>1. /\ v = [x \in DOMAIN v |-> v[x]] /\ "name" \in DOMAIN v
        /\ v.name = r.name /\ v.traits = r.attributes_traits
    BY <1>3
  <2> HIDE DEF v
  <2>2. [v EXCEPT !.name = v.name, !.traits = v.traits] = v
    BY <1>1, <2>1
  <2>3. Coalesce(r.attributes_traits, v.traits) = v.traits
    BY <2>1 DEF Coalesce
  <2>4. RenewedPersonaVersion(r, v) = [v EXCEPT !.name = v.name, !.traits = v.traits]
    BY <2>1, <2>3, Zenon DEF RenewedPersonaVersion
  <2> QED
    BY <2>2, <2>4 DEF v
<1> QED
  BY <1>4, <1>5

\* So inserting first versions and renewing the current ones gives whole rows.
LEMMA RowsTaken ==
    ASSUME NEW cs, NEW vs, NEW us, NEW ws, VersionsAdded(cs, vs, us), DOMAIN ws = DOMAIN us
    PROVE  /\ /\ \A k \in DOMAIN us \ DOMAIN vs : us[k] = FirstCharacterVersion(k[1], cs[k[1]])
              /\ CharactersRenewed(cs, us, ws)
              => CharactersTaken(cs, vs, ws)
           /\ /\ \A k \in DOMAIN us \ DOMAIN vs : us[k] = FirstPersonaVersion(k[1], cs[k[1]])
              /\ PersonasRenewed(cs, us, ws)
              => PersonasTaken(cs, vs, ws)
<1>1. DOMAIN vs \subseteq DOMAIN us /\ \A k \in DOMAIN vs : us[k] = vs[k]
  BY DEF VersionsAdded
<1>2. ASSUME \A k \in DOMAIN us \ DOMAIN vs : us[k] = FirstCharacterVersion(k[1], cs[k[1]]),
             CharactersRenewed(cs, us, ws)
      PROVE  CharactersTaken(cs, vs, ws)
  BY <1>1, <1>2, FirstRenewed DEF CharactersTaken, CharactersRenewed
<1>3. ASSUME \A k \in DOMAIN us \ DOMAIN vs : us[k] = FirstPersonaVersion(k[1], cs[k[1]]),
             PersonasRenewed(cs, us, ws)
      PROVE  PersonasTaken(cs, vs, ws)
  BY <1>1, <1>3, FirstRenewed DEF PersonasTaken, PersonasRenewed
<1> QED
  BY <1>2, <1>3

\* What the end of the way back does to the table t of the owners.
EndEffects(t, D) ==
    PlainEffects(t)
      \cup ({t} \X {"alter column"} \X {"current_version"} \X {Required})
      \cup ({t} \X {"drop column"} \X D \X {Required})
Ended(t, D, d, e) ==
    /\ t \in DOMAIN e.tables
    /\ \A C : C \cap D = {} => Kindred(d.rows[t], e.rows[t], C)
    /\ \A c, v : c \notin D \cup {"current_version"} /\ HasColumn(d, t, c, v) => HasColumn(e, t, c, v)

\* The last part of the way back takes columns from a table and keeps the rest.
LEMMA EndRun ==
    ASSUME NEW a, NEW t \in DOMAIN Kept, NEW D, Footprint(a, EndEffects(t, D)),
           NEW d, WellFormed(d), t \in DOMAIN d.tables, NEW e, e = Run(a, d), e.ok = TRUE
    PROVE  /\ d.ok = TRUE /\ WellFormed(e) /\ Ended(t, D, d, e)
           /\ \A u \in DOMAIN Kept : u # t => Same(u, d, e)
<1> DEFINE T == EndEffects(t, D)
<1>1. /\ Within(T, t, Alterations) /\ Confined(T, D \cup {"current_version"})
      /\ \A x \in T : x[2] \in {"add column", "drop column"} => x[3] \in D
  BY DEF EndEffects, Within, Confined, PlainEffects, PlainOps, Alterations, ColumnOps
<1> HIDE DEF T
<1>2. /\ d.ok = TRUE /\ WellFormed(e) /\ KeptBut(t, D \cup {"current_version"}, d, e)
      /\ \A u \in DOMAIN Kept : u # t => Same(u, d, e)
  BY <1>1, TableKept DEF T
<1>3. ASSUME NEW C, C \cap D = {} PROVE Kindred(d.rows[t], e.rows[t], C)
  <2>1. Spares(T, t, C)
    BY <1>1, <1>3 DEF Spares, Within, Alterations
  <2>2. t \in DOMAIN Run(a, d).tables /\ Kindred(d.rows[t], Run(a, d).rows[t], C)
    BY <2>1, RunKeepsRows DEF T
  <2> QED
    BY <2>2
<1> QED
  BY <1>2, <1>3 DEF KeptBut, Ended

\* The statements of that part.
LEMMA EndStatements ==
    ASSUME NEW t \in DOMAIN Kept, t \in OwnerTables, NEW D
    PROVE  /\ \A on : Obeys(DropIndex(t, on), EndEffects(t, D))
           /\ Obeys(AlterColumn(t, "current_version", Required), EndEffects(t, D))
           /\ \A c \in D : Obeys(DropColumn(t, c), EndEffects(t, D))
           /\ \A cs : IsList(cs) /\ Members(cs) \subseteq D => Footprint(DropColumns(t, cs), EndEffects(t, D))
           /\ \A cs : IsList(cs) => Footprint(DropIndexes(t, cs), EndEffects(t, D))
<1> DEFINE T == EndEffects(t, D)
<1>1. /\ PlainEffects(t) \subseteq T /\ <<t, "alter column", "current_version", Required>> \in T
      /\ \A c \in D : <<t, "drop column", c, Required>> \in T
  BY DEF EndEffects
<1> HIDE DEF T
<1>2. \A on : Obeys(DropIndex(t, on), T)
  BY <1>1, PlainStatements
<1>3. Obeys(AlterColumn(t, "current_version", Required), T)
  BY <1>1, Statements
<1>4. \A c \in D : Obeys(DropColumn(t, c), T)
  BY <1>1, OwnerColumns, Statements
<1>5. ASSUME NEW cs, IsList(cs), Members(cs) \subseteq D PROVE Footprint(DropColumns(t, cs), T)
  <2>1. \A i \in DOMAIN cs : cs[i] \in D
    BY <1>5, Scripts
  <2> QED
    BY <1>1, <1>5, <2>1, ListScripts
<1>6. ASSUME NEW cs, IsList(cs) PROVE Footprint(DropIndexes(t, cs), T)
  <2>1. "drop index" \in PlainOps
    BY DEF PlainOps, Alterations, ColumnOps
  <2>2. <<t, "drop index", "", Required>> \in T
    BY <1>1, <2>1 DEF PlainEffects
  <2> QED
    BY <1>6, <2>2, ListScripts
<1> QED
  BY <1>2, <1>3, <1>4, <1>5, <1>6 DEF T

CharacterGone == Members(CharacterTexts) \cup {"is_active"}

DataEffects(t) == {t} \X {"sql"} \X {""} \X {Required}

\* What the parts of UnbridgeCharacters may touch.
LEMMA CharacterFootprints ==
    /\ Footprint(CharacterVersioning, DataEffects("character_versions"))
    /\ Footprint(CharacterEnd, EndEffects("characters", CharacterGone))
    /\ Footprint(DropColumns("characters", CharacterTexts), EndEffects("characters", CharacterGone))
<1> DEFINE T == DataEffects("character_versions")
<1>1. /\ "version characters" \in DataNames /\ DataTable("version characters") = "character_versions"
      /\ "synchronize characters" \in DataNames /\ DataTable("synchronize characters") = "character_versions"
      /\ <<"character_versions", "sql", "", Required>> \in T
  BY DEF DataNames, DataTable, DataEffects
<1> HIDE DEF T
<1>2. Obeys(Sql("version characters"), T) /\ Obeys(Sql("synchronize characters"), T)
  BY <1>1, DataStatements
<1>3. Footprint(CharacterVersioning, T)
  BY <1>2, Tuples DEF CharacterVersioning
<1>4. "characters" \in DOMAIN Kept /\ "is_active" \in CharacterGone
  BY KeptTables DEF CharacterGone
<1>5. Footprint(CharacterEnd, EndEffects("characters", CharacterGone))
  BY <1>4, TableKinds, EndStatements, Tuples DEF CharacterEnd
<1>6. Footprint(DropColumns("characters", CharacterTexts), EndEffects("characters", CharacterGone))
  BY <1>4, NameLists, TableKinds, EndStatements DEF CharacterGone
<1> QED
  BY <1>3, <1>5, <1>6 DEF T

\* The versions take the texts of the characters (lines 373 to 404).
LEMMA CharacterVersioningRun ==
    ASSUME NEW d, WellFormed(d), "characters" \in DOMAIN d.tables, "character_versions" \in DOMAIN d.tables,
           \A k \in DOMAIN d.rows.character_versions : "name" \in DOMAIN d.rows.character_versions[k],
           NEW e, e = Run(CharacterVersioning, d), e.ok = TRUE
    PROVE  /\ d.ok = TRUE /\ WellFormed(e) /\ e.tables = d.tables
           /\ \A t \in DOMAIN Kept : t # "character_versions" => Same(t, d, e)
           /\ VersionsTaken(d.rows.characters, d.rows.character_versions, e.rows.character_versions)
           /\ CharactersTaken(d.rows.characters, d.rows.character_versions, e.rows.character_versions)
<1> DEFINE s1 == Sql("version characters")
           s2 == Sql("synchronize characters")
<1>1. PICK done : Traces(done, CharacterVersioning, d)
  BY CharacterFootprints, RunSteps
<1> DEFINE x == done[1]
<1>2. WellFormed(x) /\ Done(d, s1, x) /\ Done(x, s2, e)
  <2>1. Len(CharacterVersioning) = 2 /\ CharacterVersioning[1] = s1 /\ CharacterVersioning[2] = s2
    BY DEF CharacterVersioning
  <2> HIDE DEF s1, s2
  <2> QED
    BY <1>1, <2>1, TwoSteps
<1> HIDE DEF x
<1>3. /\ x.tables = d.tables /\ x.rows = DataStatement("version characters", d.rows)
      /\ e.tables = x.tables /\ e.rows = DataStatement("synchronize characters", x.rows)
  BY <1>2, DataStep, Zenon
<1> HIDE DEF s1, s2
<1>4. /\ "characters" \in DOMAIN d.rows /\ "character_versions" \in DOMAIN d.rows
      /\ "character_versions" \in DOMAIN x.rows
  BY <1>2, <1>3, CharacterTables
<1>5. x.rows.characters = d.rows.characters
  <2>1. DataTable("version characters") = "character_versions" /\ "version characters" \in DataNames
    BY DEF DataTable, DataNames
  <2>2. \A t : t # DataTable("version characters")
                 => DataStatement("version characters", d.rows)[t] = d.rows[t]
    BY <2>1, DataWritten
  <2>3. DataStatement("version characters", d.rows)["characters"] = d.rows["characters"]
    BY <2>1, <2>2
  <2> QED
    BY <1>3, <2>3
<1> DEFINE cs == d.rows.characters
           vs == d.rows.character_versions
           us == x.rows.character_versions
           ws == e.rows.character_versions
<1>6. VersionsAdded(cs, vs, us) /\ \A k \in DOMAIN us \ DOMAIN vs : us[k] = FirstCharacterVersion(k[1], cs[k[1]])
  <2>1. x.rows = DataStatement("version characters", d.rows)
    BY <1>3
  <2>2. VersionsAdded(cs, vs, us)
    BY <1>4, <2>1, CharactersVersioned
  <2>3. \A k \in DOMAIN us \ DOMAIN vs : us[k] = FirstCharacterVersion(k[1], cs[k[1]])
    BY <1>4, <2>1, CharactersVersioned, Zenon
  <2> QED
    BY <2>2, <2>3
<1>7. /\ Synchronized(cs, us, ws)
      /\ CharactersRenewed(cs, us, ws)
  <2>1. e.rows = DataStatement("synchronize characters", x.rows)
    BY <1>3
  <2>2. Synchronized(x.rows.characters, us, ws)
    BY <1>4, <2>1, CharactersSynchronized
  <2>3. CharactersRenewed(x.rows.characters, us, ws)
    BY <1>4, <2>1, CharactersSynchronized
  <2> QED
    BY <1>5, <2>2, <2>3
<1>8. VersionsTaken(cs, vs, ws) /\ CharactersTaken(cs, vs, ws)
  <2>1. \A k \in DOMAIN vs : "name" \in DOMAIN vs[k]
    OBVIOUS
  <2> HIDE DEF cs, vs, us, ws
  <2>2. VersionsTaken(cs, vs, ws)
    BY <1>6, <1>7, <2>1, NamesTaken
  <2>3. DOMAIN ws = DOMAIN us
    BY <1>7 DEF Synchronized
  <2>4. CharactersTaken(cs, vs, ws)
    BY <1>6, <1>7, <2>3, RowsTaken
  <2> QED
    BY <2>2, <2>4
<1>9. /\ d.ok = TRUE /\ WellFormed(e)
      /\ \A t \in DOMAIN Kept : t # "character_versions" => Same(t, d, e)
  <2> DEFINE T == DataEffects("character_versions")
  <2>1. \A s \in T : s[1] = "character_versions"
    BY DEF DataEffects
  <2>2. Footprint(CharacterVersioning, T)
    BY CharacterFootprints
  <2> HIDE DEF T
  <2> QED
    BY <2>1, <2>2, RunApart
<1>10. e.tables = d.tables
  BY <1>3
<1> QED
  BY <1>8, <1>9, <1>10

\* Two such ends in succession are one.
LEMMA EndedTwice ==
    ASSUME NEW t, NEW D, NEW d, NEW x, NEW e, Ended(t, D, d, x), Ended(t, D, x, e)
    PROVE  Ended(t, D, d, e)
<1>1. ASSUME NEW C, C \cap D = {} PROVE Kindred(d.rows[t], e.rows[t], C)
  <2>1. Kindred(d.rows[t], x.rows[t], C) /\ Kindred(x.rows[t], e.rows[t], C)
    BY <1>1 DEF Ended
  <2> QED
    BY <2>1, KindredTwice
<1>2. \A c, v : c \notin D \cup {"current_version"} /\ HasColumn(d, t, c, v) => HasColumn(e, t, c, v)
  BY DEF Ended
<1>3. t \in DOMAIN e.tables
  BY DEF Ended
<1> QED
  BY <1>1, <1>2, <1>3 DEF Ended

\* A table that two steps leave the same is the same.
LEMMA SameTwice ==
    ASSUME NEW t, NEW d, NEW x, NEW e, Same(t, d, x), Same(t, x, e)
    PROVE  Same(t, d, e)
BY DEF Same

\* What the way back of the owners in t and their versions in vt leaves alone.
Unbridged(t, vt, D, d, e) ==
    /\ d.ok = TRUE /\ WellFormed(e)
    /\ \A u \in DOMAIN Kept : u \notin {t, vt} => Same(u, d, e)
    /\ vt \in DOMAIN e.tables /\ e.tables[vt] = d.tables[vt] /\ Ended(t, D, d, e)

\* Only the versions in vt of the owners in t were written.
Versioned(t, vt, d, x) ==
    /\ d.ok = TRUE /\ WellFormed(x) /\ x.tables = d.tables
    /\ t \in DOMAIN d.tables /\ vt \in DOMAIN d.tables
    /\ \A u \in DOMAIN Kept : u # vt => Same(u, d, x)

\* Owners that a script brought to their end, and nothing else.
Closed(t, D, x, e) == WellFormed(e) /\ Ended(t, D, x, e) /\ \A u \in DOMAIN Kept : u # t => Same(u, x, e)

\* An end touches one table alone.
LEMMA ClosedRun ==
    ASSUME NEW t \in DOMAIN Kept, NEW D, NEW b, Footprint(b, EndEffects(t, D)),
           NEW x, WellFormed(x), t \in DOMAIN x.tables, Run(b, x).ok = TRUE
    PROVE  Closed(t, D, x, Run(b, x))
BY EndRun DEF Closed

\* Two such in succession.
LEMMA ClosedTwice ==
    ASSUME NEW t \in DOMAIN Kept, NEW D, NEW x, NEW y, NEW e, Closed(t, D, x, y), Closed(t, D, y, e)
    PROVE  Closed(t, D, x, e)
<1>1. Ended(t, D, x, e)
  BY EndedTwice DEF Closed
<1>2. ASSUME NEW u \in DOMAIN Kept, u # t PROVE Same(u, x, e)
  <2>1. Same(u, x, y) /\ Same(u, y, e)
    BY <1>2 DEF Closed
  <2> QED
    BY <2>1, SameTwice
<1> QED
  BY <1>1, <1>2 DEF Closed

\* The statements on the versions, then those on their owners.
LEMMA UnbridgedOwners ==
    ASSUME NEW t \in DOMAIN Kept, NEW vt \in DOMAIN Kept, vt # t, NEW D, NEW d, NEW x, NEW e,
           Versioned(t, vt, d, x), Closed(t, D, x, e)
    PROVE  Unbridged(t, vt, D, d, e) /\ e.rows[vt] = x.rows[vt]
<1> USE DEF Versioned, Closed
<1>1. Same(t, d, x) /\ t \in DOMAIN d.tables
  OBVIOUS
<1>2. Ended(t, D, d, e)
  <2>1. x.rows[t] = d.rows[t]
    BY <1>1 DEF Same
  <2>2. \A k, v : HasColumn(d, t, k, v) => HasColumn(x, t, k, v)
    BY DEF HasColumn
  <2> QED
    BY <2>1, <2>2 DEF Ended
<1>3. ASSUME NEW u \in DOMAIN Kept, u \notin {t, vt} PROVE Same(u, d, e)
  <2>1. Same(u, d, x) /\ Same(u, x, e)
    BY <1>3
  <2> QED
    BY <2>1, SameTwice
<1>4. Same(vt, x, e)
  OBVIOUS
<1>5. vt \in DOMAIN e.tables /\ e.rows[vt] = x.rows[vt] /\ e.tables[vt] = d.tables[vt]
  BY <1>4 DEF Same
<1> QED
  BY <1>2, <1>3, <1>5 DEF Unbridged

\* UnbridgeCharacters in its parts.
LEMMA CharacterScript ==
    UnbridgeCharacters = (CharacterVersioning \o CharacterEnd) \o DropColumns("characters", CharacterTexts)
<1> DEFINE a == CharacterVersioning
           b == CharacterEnd
           c == DropColumns("characters", CharacterTexts)
<1>1. <<Sql("version characters"), Sql("synchronize characters"),
        DropIndex("characters", <<"name">>), AlterColumn("characters", "current_version", Required),
        DropColumn("characters", "is_active")>> = a \o b
  <2> DEFINE p == Sql("version characters")
             q == Sql("synchronize characters")
             r == DropIndex("characters", <<"name">>)
             s == AlterColumn("characters", "current_version", Required)
             t == DropColumn("characters", "is_active")
  <2>1. a = <<p, q>> /\ b = <<r, s, t>>
    BY DEF CharacterVersioning, CharacterEnd
  <2> HIDE DEF a, b, p, q, r, s, t
  <2>2. <<p, q, r, s, t>> = <<p, q>> \o <<r, s, t>>
    OBVIOUS
  <2> QED
    BY <2>1, <2>2 DEF p, q, r, s, t
<1> HIDE DEF a, b, c
<1>2. UnbridgeCharacters = (a \o b) \o DropColumns("characters", CharacterTexts)
  BY <1>1 DEF UnbridgeCharacters
<1> QED
  BY <1>2 DEF a, b

\* The way back of the characters: the current versions take their texts.
LEMMA UnbridgedCharacters ==
    ASSUME NEW d, WellFormed(d), "characters" \in DOMAIN d.tables, "character_versions" \in DOMAIN d.tables,
           \A k \in DOMAIN d.rows.character_versions : "name" \in DOMAIN d.rows.character_versions[k],
           NEW e, e = Run(UnbridgeCharacters, d), e.ok = TRUE
    PROVE  /\ Unbridged("characters", "character_versions", CharacterGone, d, e)
           /\ VersionsTaken(d.rows.characters, d.rows.character_versions, e.rows.character_versions)
           /\ CharactersTaken(d.rows.characters, d.rows.character_versions, e.rows.character_versions)
<1> DEFINE a == CharacterVersioning
           b == CharacterEnd
           c == DropColumns("characters", CharacterTexts)
           x == Run(a, d)
           y == Run(b, x)
<1>1. UnbridgeCharacters = (a \o b) \o c
  BY CharacterScript
<1>2. /\ Footprint(a, DataEffects("character_versions"))
      /\ Footprint(b, EndEffects("characters", CharacterGone))
      /\ Footprint(c, EndEffects("characters", CharacterGone))
  BY CharacterFootprints
<1>3. "characters" \in DOMAIN Kept /\ "character_versions" \in DOMAIN Kept
  BY KeptTables
<1> HIDE DEF a, b, c
<1>4. x.ok = TRUE /\ y.ok = TRUE /\ e = Run(c, y) /\ WellFormed(x)
  <2> DEFINE T == DataEffects("character_versions")
             U == EndEffects("characters", CharacterGone)
  <2>1. Footprint(a, T) /\ Footprint(b, U) /\ Footprint(c, U)
    BY <1>2
  <2>2. Run((a \o b) \o c, d) = e /\ Run((a \o b) \o c, d).ok = TRUE
    BY <1>1
  <2> HIDE DEF T, U
  <2>3. Run(a, d).ok = TRUE /\ WellFormed(Run(a, d)) /\ Run(b, Run(a, d)).ok = TRUE
    BY <2>1, <2>2, RunThree
  <2>4. Run((a \o b) \o c, d) = Run(c, Run(b, Run(a, d)))
    BY <2>1, ThreeConcat DEF Footprint
  <2> QED
    BY <2>2, <2>3, <2>4
<1>5. /\ d.ok = TRUE /\ x.tables = d.tables
      /\ \A t \in DOMAIN Kept : t # "character_versions" => Same(t, d, x)
      /\ VersionsTaken(d.rows.characters, d.rows.character_versions, x.rows.character_versions)
      /\ CharactersTaken(d.rows.characters, d.rows.character_versions, x.rows.character_versions)
  BY <1>4, CharacterVersioningRun DEF a
<1> HIDE DEF x, y
<1>6. y = Run(b, x) /\ Versioned("characters", "character_versions", d, x)
  BY <1>4, <1>5 DEF y, Versioned
<1>7. Closed("characters", CharacterGone, x, e)
  <2>1. Closed("characters", CharacterGone, x, y)
    BY <1>2, <1>3, <1>4, <1>6, ClosedRun DEF Versioned
  <2>2. WellFormed(y) /\ "characters" \in DOMAIN y.tables
    BY <2>1 DEF Closed, Ended
  <2>3. Closed("characters", CharacterGone, y, e)
    BY <1>2, <1>3, <1>4, <2>2, ClosedRun
  <2> QED
    BY <1>3, <2>1, <2>3, ClosedTwice
<1>8. "character_versions" # "characters"
  OBVIOUS
<1>9. /\ Unbridged("characters", "character_versions", CharacterGone, d, e)
      /\ e.rows["character_versions"] = x.rows["character_versions"]
  BY <1>3, <1>6, <1>7, <1>8, UnbridgedOwners
<1> QED
  BY <1>5, <1>9

-----------------------------------------------------------------------------
(* Downgrading the personas                                                *)

\* Every version of a persona has its texts and says whose it is.
Complete(vs) ==
    \A k \in DOMAIN vs :
        {"traits", "pronouns", "persona_id"} \subseteq DOMAIN vs[k] /\ vs[k].persona_id = k[1]

\* "version personas" does for personas what it does for characters.
LEMMA PersonasVersioned ==
    ASSUME NEW rows, "personas" \in DOMAIN rows, "persona_versions" \in DOMAIN rows,
           NEW after, after = DataStatement("version personas", rows), Complete(rows.persona_versions)
    PROVE  /\ VersionsAdded(rows.personas, rows.persona_versions, after.persona_versions)
           /\ Complete(after.persona_versions)
           /\ \A k \in DOMAIN after.persona_versions \ DOMAIN rows.persona_versions :
                 after.persona_versions[k] = FirstPersonaVersion(k[1], rows.personas[k[1]])
<1> DEFINE cs == rows.personas
           vs == rows.persona_versions
           ws == after.persona_versions
           bare == {i \in DOMAIN cs : Bare(vs, i)}
           new == [k \in {<<i, "1">> : i \in bare} |-> FirstPersonaVersion(k[1], cs[k[1]])]
<1>1. after = VersionPersonas(rows)
  BY DEF DataStatement
<1>2. ws = Filled(new, vs)
  BY <1>1 DEF VersionPersonas, VersionRows, Bare
<1>3. \A k \in DOMAIN new : \E i \in bare : k = <<i, "1">>
  OBVIOUS
<1>4. \A k \in DOMAIN new : k \notin DOMAIN vs
  <2> SUFFICES ASSUME NEW k \in DOMAIN new, k \in DOMAIN vs PROVE FALSE
    OBVIOUS
  <2>1. PICK i \in bare : k = <<i, "1">>
    BY <1>3
  <2>2. k[1] = i
    BY <2>1
  <2> QED
    BY <2>1, <2>2 DEF Bare
<1>5. DOMAIN new = {<<i, "1">> : i \in bare} /\ \A k \in DOMAIN new : new[k] = FirstPersonaVersion(k[1], cs[k[1]])
  OBVIOUS
<1> HIDE DEF new
<1>6. /\ DOMAIN ws = DOMAIN vs \cup DOMAIN new
      /\ \A k \in DOMAIN vs : ws[k] = vs[k]
      /\ \A k \in DOMAIN ws \ DOMAIN vs : ws[k] = new[k] /\ k \in DOMAIN new
  BY <1>2, <1>4 DEF Filled
<1>7. ASSUME NEW k \in DOMAIN ws \ DOMAIN vs
      PROVE  /\ {"name", "traits", "pronouns", "persona_id"} \subseteq DOMAIN ws[k]
             /\ ws[k].name = cs[k[1]].name /\ ws[k].persona_id = k[1]
  <2> DEFINE row == FirstPersonaVersion(k[1], cs[k[1]])
  <2>1. ws[k] = row
    BY <1>5, <1>6, <1>7
  <2>2. /\ {"name", "traits", "pronouns", "persona_id"} \subseteq DOMAIN row
        /\ row.name = cs[k[1]].name /\ row.persona_id = k[1]
    BY DEF FirstPersonaVersion
  <2> HIDE DEF row, ws
  <2> QED
    BY <2>1, <2>2
<1>8. VersionsAdded(cs, vs, ws)
  BY <1>5, <1>6, <1>7 DEF VersionsAdded
<1>10. \A k \in DOMAIN ws \ DOMAIN vs : ws[k] = FirstPersonaVersion(k[1], cs[k[1]])
  BY <1>5, <1>6
<1> HIDE DEF ws
<1>9. Complete(ws)
  BY <1>6, <1>7 DEF Complete
<1> QED
  BY <1>8, <1>9, <1>10 DEF ws

\* So does "synchronize personas"; versions stay complete.
LEMMA PersonasSynchronized ==
    ASSUME NEW rows, "persona_versions" \in DOMAIN rows,
           NEW after, after = DataStatement("synchronize personas", rows)
    PROVE  /\ Synchronized(rows.personas, rows.persona_versions, after.persona_versions)
           /\ PersonasRenewed(rows.personas, rows.persona_versions, after.persona_versions)
           /\ Complete(rows.persona_versions) => Complete(after.persona_versions)
<1> DEFINE cs == rows.personas
           vs == rows.persona_versions
           ws == after.persona_versions
<1>1. after = SynchronizePersonas(rows)
  BY DEF DataStatement
<1>2. /\ DOMAIN ws = DOMAIN vs
      /\ \A k \in DOMAIN vs :
            ws[k] = IF k[2] = cs[k[1]].current_version
                    THEN RenewedPersonaVersion(cs[k[1]], vs[k]) ELSE vs[k]
  BY <1>1 DEF SynchronizePersonas
<1> HIDE DEF cs, vs, ws
<1>3. ASSUME NEW k \in DOMAIN vs
      PROVE  /\ DOMAIN ws[k] = DOMAIN vs[k]
             /\ k[2] # cs[k[1]].current_version => ws[k] = vs[k]
             /\ k[2] = cs[k[1]].current_version /\ "name" \in DOMAIN vs[k] => ws[k].name = cs[k[1]].name
             /\ "persona_id" \in DOMAIN vs[k] => ws[k].persona_id = vs[k].persona_id
  BY <1>2, <1>3 DEF RenewedPersonaVersion
<1>4. Synchronized(cs, vs, ws)
  BY <1>2, <1>3 DEF Synchronized
<1>5. Complete(vs) => Complete(ws)
  BY <1>2, <1>3 DEF Complete
<1>6. PersonasRenewed(cs, vs, ws)
  BY <1>2 DEF PersonasRenewed
<1> QED
  BY <1>4, <1>5, <1>6 DEF cs, vs, ws

PersonaGone == Members(PersonaTexts) \cup {"is_default", "attributes"}

\* What the parts of UnbridgePersonas may touch.
LEMMA PersonaFootprints ==
    /\ Footprint(PersonaVersioning, DataEffects("persona_versions"))
    /\ Footprint(PersonaIndexes, EndEffects("personas", PersonaGone))
    /\ Footprint(PersonaEnd, EndEffects("personas", PersonaGone))
    /\ Footprint(DropColumns("personas", PersonaTexts), EndEffects("personas", PersonaGone))
<1> DEFINE T == DataEffects("persona_versions")
<1>1. /\ "version personas" \in DataNames /\ DataTable("version personas") = "persona_versions"
      /\ "synchronize personas" \in DataNames /\ DataTable("synchronize personas") = "persona_versions"
      /\ <<"persona_versions", "sql", "", Required>> \in T
  BY DEF DataNames, DataTable, DataEffects
<1> HIDE DEF T
<1>2. Obeys(Sql("version personas"), T) /\ Obeys(Sql("synchronize personas"), T)
  BY <1>1, DataStatements
<1>3. Footprint(PersonaVersioning, T)
  BY <1>2, Tuples DEF PersonaVersioning
<1>4. "personas" \in DOMAIN Kept /\ "is_default" \in PersonaGone /\ "attributes" \in PersonaGone
  BY KeptTables DEF PersonaGone
<1>5. Footprint(PersonaEnd, EndEffects("personas", PersonaGone))
  BY <1>4, TableKinds, EndStatements, Tuples DEF PersonaEnd
<1>6. Footprint(DropColumns("personas", PersonaTexts), EndEffects("personas", PersonaGone))
  BY <1>4, NameLists, TableKinds, EndStatements DEF PersonaGone
<1>7. IsList(<<"is_default", "name">>)
  BY SmallLists
<1>8. Footprint(PersonaIndexes, EndEffects("personas", PersonaGone))
  BY <1>4, <1>7, TableKinds, EndStatements DEF PersonaIndexes
<1> QED
  BY <1>3, <1>5, <1>6, <1>8 DEF T

\* The versions take the texts of the personas (lines 425 to 458).
LEMMA PersonaVersioningRun ==
    ASSUME NEW d, WellFormed(d), "personas" \in DOMAIN d.tables, "persona_versions" \in DOMAIN d.tables,
           \A k \in DOMAIN d.rows.persona_versions : "name" \in DOMAIN d.rows.persona_versions[k],
           Complete(d.rows.persona_versions),
           NEW e, e = Run(PersonaVersioning, d), e.ok = TRUE
    PROVE  /\ d.ok = TRUE /\ WellFormed(e) /\ e.tables = d.tables
           /\ \A t \in DOMAIN Kept : t # "persona_versions" => Same(t, d, e)
           /\ VersionsTaken(d.rows.personas, d.rows.persona_versions, e.rows.persona_versions)
           /\ PersonasTaken(d.rows.personas, d.rows.persona_versions, e.rows.persona_versions)
           /\ Complete(e.rows.persona_versions)
<1> DEFINE s1 == Sql("version personas")
           s2 == Sql("synchronize personas")
<1>1. PICK done : Traces(done, PersonaVersioning, d)
  BY PersonaFootprints, RunSteps
<1> DEFINE x == done[1]
<1>2. WellFormed(x) /\ Done(d, s1, x) /\ Done(x, s2, e)
  <2>1. Len(PersonaVersioning) = 2 /\ PersonaVersioning[1] = s1 /\ PersonaVersioning[2] = s2
    BY DEF PersonaVersioning
  <2> HIDE DEF s1, s2
  <2> QED
    BY <1>1, <2>1, TwoSteps
<1> HIDE DEF x
<1>3. /\ x.tables = d.tables /\ x.rows = DataStatement("version personas", d.rows)
      /\ e.tables = x.tables /\ e.rows = DataStatement("synchronize personas", x.rows)
  BY <1>2, DataStep, Zenon
<1> HIDE DEF s1, s2
<1>4. /\ "personas" \in DOMAIN d.rows /\ "persona_versions" \in DOMAIN d.rows
      /\ "persona_versions" \in DOMAIN x.rows
  BY <1>2, <1>3, CharacterTables
<1>5. x.rows.personas = d.rows.personas
  <2>1. DataTable("version personas") = "persona_versions" /\ "version personas" \in DataNames
    BY DEF DataTable, DataNames
  <2>2. \A t : t # DataTable("version personas")
                 => DataStatement("version personas", d.rows)[t] = d.rows[t]
    BY <2>1, DataWritten
  <2>3. DataStatement("version personas", d.rows)["personas"] = d.rows["personas"]
    BY <2>1, <2>2
  <2> QED
    BY <1>3, <2>3
<1> DEFINE cs == d.rows.personas
           vs == d.rows.persona_versions
           us == x.rows.persona_versions
           ws == e.rows.persona_versions
<1>6. VersionsAdded(cs, vs, us) /\ \A k \in DOMAIN us \ DOMAIN vs : us[k] = FirstPersonaVersion(k[1], cs[k[1]])
  <2>1. x.rows = DataStatement("version personas", d.rows)
    BY <1>3
  <2>2. VersionsAdded(cs, vs, us)
    BY <1>4, <2>1, PersonasVersioned
  <2>3. \A k \in DOMAIN us \ DOMAIN vs : us[k] = FirstPersonaVersion(k[1], cs[k[1]])
    BY <1>4, <2>1, PersonasVersioned, Zenon
  <2> QED
    BY <2>2, <2>3
<1>7. /\ Synchronized(cs, us, ws)
      /\ PersonasRenewed(cs, us, ws)
  <2>1. e.rows = DataStatement("synchronize personas", x.rows)
    BY <1>3
  <2>2. Synchronized(x.rows.personas, us, ws)
    BY <1>4, <2>1, PersonasSynchronized
  <2>3. PersonasRenewed(x.rows.personas, us, ws)
    BY <1>4, <2>1, PersonasSynchronized
  <2> QED
    BY <1>5, <2>2, <2>3
<1>8. VersionsTaken(cs, vs, ws) /\ PersonasTaken(cs, vs, ws)
  <2>1. \A k \in DOMAIN vs : "name" \in DOMAIN vs[k]
    OBVIOUS
  <2> HIDE DEF cs, vs, us, ws
  <2>2. VersionsTaken(cs, vs, ws)
    BY <1>6, <1>7, <2>1, NamesTaken
  <2>3. DOMAIN ws = DOMAIN us
    BY <1>7 DEF Synchronized
  <2>4. PersonasTaken(cs, vs, ws)
    BY <1>6, <1>7, <2>3, RowsTaken
  <2> QED
    BY <2>2, <2>4
<1>9. /\ d.ok = TRUE /\ WellFormed(e)
      /\ \A t \in DOMAIN Kept : t # "persona_versions" => Same(t, d, e)
  <2> DEFINE T == DataEffects("persona_versions")
  <2>1. \A s \in T : s[1] = "persona_versions"
    BY DEF DataEffects
  <2>2. Footprint(PersonaVersioning, T)
    BY PersonaFootprints
  <2> HIDE DEF T
  <2> QED
    BY <2>1, <2>2, RunApart
<1>10. e.tables = d.tables
  BY <1>3
<1>11. Complete(e.rows.persona_versions)
  <2>1. Complete(x.rows.persona_versions)
    BY <1>3, <1>4, PersonasVersioned
  <2> QED
    BY <1>3, <1>4, <2>1, PersonasSynchronized
<1> QED
  BY <1>8, <1>9, <1>10, <1>11

\* The way back of the personas: the current versions take their texts.
LEMMA UnbridgedPersonas ==
    ASSUME NEW d, WellFormed(d), "personas" \in DOMAIN d.tables, "persona_versions" \in DOMAIN d.tables,
           \A k \in DOMAIN d.rows.persona_versions : "name" \in DOMAIN d.rows.persona_versions[k],
           Complete(d.rows.persona_versions),
           NEW e, e = Run(UnbridgePersonas, d), e.ok = TRUE
    PROVE  /\ Unbridged("personas", "persona_versions", PersonaGone, d, e)
           /\ VersionsTaken(d.rows.personas, d.rows.persona_versions, e.rows.persona_versions)
           /\ PersonasTaken(d.rows.personas, d.rows.persona_versions, e.rows.persona_versions)
           /\ Complete(e.rows.persona_versions)
<1> DEFINE a == PersonaVersioning
           i == PersonaIndexes
           b == PersonaEnd
           c == DropColumns("personas", PersonaTexts)
           x == Run(a, d)
           w == Run(i, x)
           y == Run(b, w)
<1>1. UnbridgePersonas = ((a \o i) \o b) \o c
  BY DEF UnbridgePersonas, PersonaVersioning, PersonaIndexes, PersonaEnd
<1>2. /\ Footprint(a, DataEffects("persona_versions"))
      /\ Footprint(i, EndEffects("personas", PersonaGone))
      /\ Footprint(b, EndEffects("personas", PersonaGone))
      /\ Footprint(c, EndEffects("personas", PersonaGone))
  BY PersonaFootprints
<1>3. "personas" \in DOMAIN Kept /\ "persona_versions" \in DOMAIN Kept
  BY KeptTables
<1> HIDE DEF a, i, b, c
<1>4. x.ok = TRUE /\ w.ok = TRUE /\ y.ok = TRUE /\ e = Run(c, y) /\ WellFormed(x)
  <2> DEFINE T == DataEffects("persona_versions")
             U == EndEffects("personas", PersonaGone)
  <2>1. Footprint(a, T) /\ Footprint(i, U) /\ Footprint(b, U) /\ Footprint(c, U)
    BY <1>2
  <2>2. Run(((a \o i) \o b) \o c, d) = e /\ Run(((a \o i) \o b) \o c, d).ok = TRUE
    BY <1>1
  <2> HIDE DEF T, U
  <2>3. /\ Run(a, d).ok = TRUE /\ WellFormed(Run(a, d)) /\ Run(i, Run(a, d)).ok = TRUE
        /\ Run(b, Run(i, Run(a, d))).ok = TRUE
    BY <2>1, <2>2, RunFour
  <2>4. Run(((a \o i) \o b) \o c, d) = Run(c, Run(b, Run(i, Run(a, d))))
    BY <2>1, FourConcat DEF Footprint
  <2> QED
    BY <2>2, <2>3, <2>4
<1>5. /\ d.ok = TRUE /\ x.tables = d.tables
      /\ \A t \in DOMAIN Kept : t # "persona_versions" => Same(t, d, x)
      /\ VersionsTaken(d.rows.personas, d.rows.persona_versions, x.rows.persona_versions)
      /\ PersonasTaken(d.rows.personas, d.rows.persona_versions, x.rows.persona_versions)
      /\ Complete(x.rows.persona_versions)
  BY <1>4, PersonaVersioningRun DEF a
<1> HIDE DEF x, w, y
<1>6. w = Run(i, x) /\ y = Run(b, w) /\ Versioned("personas", "persona_versions", d, x)
  BY <1>4, <1>5 DEF y, w, Versioned
<1>7. Closed("personas", PersonaGone, x, e)
  <2>1. Closed("personas", PersonaGone, x, w)
    BY <1>2, <1>3, <1>4, <1>6, ClosedRun DEF Versioned
  <2>2. WellFormed(w) /\ "personas" \in DOMAIN w.tables
    BY <2>1 DEF Closed, Ended
  <2>3. Closed("personas", PersonaGone, w, y)
    BY <1>2, <1>3, <1>4, <1>6, <2>2, ClosedRun
  <2>4. WellFormed(y) /\ "personas" \in DOMAIN y.tables
    BY <2>3 DEF Closed, Ended
  <2>5. Closed("personas", PersonaGone, y, e)
    BY <1>2, <1>3, <1>4, <2>4, ClosedRun
  <2>6. Closed("personas", PersonaGone, w, e)
    BY <1>3, <2>3, <2>5, ClosedTwice
  <2> QED
    BY <1>3, <2>1, <2>6, ClosedTwice
<1>8. "persona_versions" # "personas"
  OBVIOUS
<1>9. /\ Unbridged("personas", "persona_versions", PersonaGone, d, e)
      /\ e.rows["persona_versions"] = x.rows["persona_versions"]
  BY <1>3, <1>6, <1>7, <1>8, UnbridgedOwners
<1> QED
  BY <1>5, <1>9

-----------------------------------------------------------------------------
(* Orderly databases                                                       *)

\* The same rows, with the same columns.
Shaped(rows, after) ==
    DOMAIN after = DOMAIN rows /\ \A i \in DOMAIN rows : DOMAIN after[i] = DOMAIN rows[i]

\* A data statement keeps the rows of profiles and memories, and their columns.
LEMMA DataShape ==
    ASSUME NEW name \in DataNames, NEW rows,
           NEW t \in OwnerTables \cup {"memories"}, t \in DOMAIN rows
    PROVE  Shaped(rows[t], DataStatement(name, rows)[t])
<1> DEFINE after == DataStatement(name, rows)
<1>1. ASSUME t # DataTable(name) PROVE Shaped(rows[t], after[t])
  <2>1. after[t] = rows[t]
    BY <1>1, DataWritten
  <2> QED
    BY <2>1 DEF Shaped
<1>2. CASE t = DataTable(name)
  <2>1. t \in {"characters", "personas", "memories"}
    BY DEF OwnerTables
  <2>2. CASE name = "project characters"
    <3>1. t = "characters"
      BY <1>2, <2>2 DEF DataTable
    <3> QED
      BY <2>2, <3>1 DEF DataStatement, ProjectCharacters, ProjectedCharacter, Shaped
  <2>3. CASE name = "name characters"
    <3>1. t = "characters"
      BY <1>2, <2>3 DEF DataTable
    <3> QED
      BY <2>3, <3>1 DEF DataStatement, NameRows, Updated, Shaped
  <2>4. CASE name = "project personas"
    <3>1. t = "personas"
      BY <1>2, <2>4 DEF DataTable
    <3> QED
      BY <2>4, <3>1 DEF DataStatement, ProjectPersonas, ProjectedPersona, Shaped
  <2>5. CASE name = "name personas"
    <3>1. t = "personas"
      BY <1>2, <2>5 DEF DataTable
    <3> QED
      BY <2>5, <3>1 DEF DataStatement, NameRows, Updated, Shaped
  <2>6. CASE name \in {"keep scopes", "map scopes", "keep kinds", "map kinds", "archive memories",
                       "fill bookkeeping", "map revised kinds"}
    <3>1. t = "memories"
      BY <1>2, <2>6 DEF DataTable
    <3>2. CASE name = "keep scopes"
      BY <3>1, <3>2 DEF DataStatement, KeepScopes, Updated, Shaped
    <3>3. CASE name = "map scopes"
      BY <3>1, <3>3 DEF DataStatement, MapScopes, Updated, Shaped
    <3>4. CASE name = "keep kinds"
      BY <3>1, <3>4 DEF DataStatement, KeepKinds, Updated, Shaped
    <3>5. CASE name = "map kinds"
      BY <3>1, <3>5 DEF DataStatement, MapKinds, Updated, Shaped
    <3>6. CASE name = "archive memories"
      BY <3>1, <3>6 DEF DataStatement, ArchiveMemories, Updated, Shaped
    <3>7. CASE name = "fill bookkeeping"
      BY <3>1, <3>7 DEF DataStatement, FillBookkeeping, Shaped
    <3>8. CASE name = "map revised kinds"
      BY <3>1, <3>8 DEF DataStatement, MapRevisedKinds, Updated, Shaped
    <3> QED
      BY <2>6, <3>2, <3>3, <3>4, <3>5, <3>6, <3>7, <3>8
  <2>7. CASE name \in {"version characters", "synchronize characters", "version personas",
                       "synchronize personas"}
    BY <1>2, <2>1, <2>7 DEF DataTable
  <2> HIDE DEF after
  <2> QED
    BY <2>2, <2>3, <2>4, <2>5, <2>6, <2>7 DEF DataNames
<1> QED
  BY <1>1, <1>2

\* The table that a data statement writes has rows.
LEMMA DataTables == \A name \in DataNames : DataTable(name) \in DOMAIN Kept
  BY KeptTables DEF DataTable

\* A statement on a definition that fits its table leaves one, if accepted.
FitsIn(f, t, there) ==
    /\ \A k \in f.keys : k.col \in DOMAIN f.cols /\ k.to \in there
    /\ DOMAIN f.checks \subseteq DOMAIN f.cols
    /\ \A u \in f.uniques :
          /\ u.on \subseteq DOMAIN f.cols
          /\ t \in VersionTables \/ t = "memories"
          /\ t = "memories" => u.on \subseteq Identity
          /\ t # "memories" => u.active = FALSE

\* OrderlyTable speaks of the definition and of the names of the tables.
LEMMA FitTable == \A d, t : OrderlyTable(d, t) <=> FitsIn(d.tables[t], t, DOMAIN d.tables)
  BY DEF OrderlyTable, FitsIn

\* So an altered definition fits its table.
LEMMA FitAltered ==
    ASSUME NEW d, NEW s, Accepts(d, s), Sound(s), s.op \in Alterations,
           NEW f, f = d.tables[s.table], IsDefinition(f), s.table \in DOMAIN Kept,
           FitsIn(f, s.table, DOMAIN d.tables)
    PROVE  FitsIn(Defined(f, s), s.table, DOMAIN d.tables)
<1> DEFINE g == Defined(f, s)
           there == DOMAIN d.tables
<1>2. CASE s.op \in {"add column", "alter column"}
  <2>1. g = [f EXCEPT !.cols = With(@, s.name, s.col)]
    BY <1>2 DEF Defined
  <2>2. /\ g.cols = With(f.cols, s.name, s.col) /\ g.keys = f.keys
        /\ g.checks = f.checks /\ g.uniques = f.uniques
    BY <2>1 DEF IsDefinition
  <2>3. DOMAIN g.cols = DOMAIN f.cols \cup {s.name}
    <3>1. DOMAIN With(f.cols, s.name, s.col) = DOMAIN f.cols \cup {s.name}
      BY DEF With
    <3> HIDE DEF g, there
    <3> QED
      BY <2>2, <3>1
  <2> HIDE DEF g, there
  <2> QED
    BY <2>2, <2>3 DEF FitsIn, g, there
<1>3. CASE s.op = "drop column"
  <2>1. g = DefWithout(f, s.name)
    BY <1>3 DEF Defined
  <2>2. /\ DOMAIN g.cols = DOMAIN f.cols \ {s.name} /\ DOMAIN g.checks = DOMAIN f.checks \ {s.name}
        /\ g.keys = {k \in f.keys : k.col # s.name} /\ g.uniques = {u \in f.uniques : s.name \notin u.on}
    BY <2>1 DEF DefWithout, Without
  <2> HIDE DEF g, there
  <2> QED
    BY <2>2 DEF FitsIn, g, there
<1>4. CASE s.op \in {"add key", "drop key"}
  <2>1. g.cols = f.cols /\ g.checks = f.checks /\ g.uniques = f.uniques
    BY <1>4 DEF Defined, IsDefinition
  <2>2. g.keys \subseteq f.keys \/ (s.op = "add key" /\ g.keys = f.keys \cup {s.key})
    BY <1>4 DEF Defined, IsDefinition
  <2>3. s.op = "add key" => s.key.col \in DOMAIN f.cols /\ s.key.to \in there
    BY DEF Accepts
  <2> HIDE DEF g, there
  <2> QED
    BY <2>1, <2>2, <2>3 DEF FitsIn, g, there
<1>5. CASE s.op \in {"add check", "drop check"}
  <2>1. g.cols = f.cols /\ g.keys = f.keys /\ g.uniques = f.uniques
    BY <1>5 DEF Defined, IsDefinition
  <2>2. \/ s.op = "add check" /\ g.checks = With(f.checks, s.name, s.allowed)
        \/ s.op = "drop check" /\ g.checks = Without(f.checks, s.name)
    BY <1>5 DEF Defined, IsDefinition
  <2>3. s.op = "add check" => s.name \in DOMAIN f.cols
    BY DEF Accepts
  <2>4. DOMAIN g.checks \subseteq DOMAIN f.cols
    <3>1. /\ DOMAIN With(f.checks, s.name, s.allowed) = DOMAIN f.checks \cup {s.name}
          /\ DOMAIN Without(f.checks, s.name) = DOMAIN f.checks \ {s.name}
      BY DEF With, Without
    <3> HIDE DEF g, there
    <3> QED
      BY <2>2, <2>3, <3>1 DEF FitsIn
  <2> HIDE DEF g, there
  <2> QED
    BY <2>1, <2>4 DEF FitsIn, g, there
<1>6. CASE s.op \in {"add index", "drop index"}
  <2>1. g.cols = f.cols /\ g.keys = f.keys /\ g.checks = f.checks /\ g.uniques = f.uniques
    BY <1>6 DEF Defined, IsDefinition
  <2> HIDE DEF g, there
  <2> QED
    BY <2>1 DEF FitsIn, g, there
<1>7. CASE s.op \in {"add unique", "drop unique"}
  <2>1. g.cols = f.cols /\ g.keys = f.keys /\ g.checks = f.checks
    BY <1>7 DEF Defined, IsDefinition
  <2>2. g.uniques \subseteq f.uniques \/ (s.op = "add unique" /\ g.uniques = f.uniques \cup {s.unique})
    BY <1>7 DEF Defined, IsDefinition
  <2>3. s.op = "add unique" => /\ s.unique.on \subseteq DOMAIN f.cols
                               /\ s.table = "memories" /\ s.unique.on \subseteq Identity
    BY DEF Accepts, Sound
  <2> HIDE DEF g, there
  <2> QED
    BY <2>1, <2>2, <2>3 DEF FitsIn, g, there
<1> QED
  BY <1>2, <1>3, <1>4, <1>5, <1>6, <1>7 DEF Alterations

\* A statement leaves every row in its place.
LEMMA RowsInPlace ==
    ASSUME NEW rows, NEW s
    PROVE  DOMAIN RowsAfter(rows, s) = DOMAIN rows
<1>1. Kindred(rows, RowsAfter(rows, s), {})
  BY RowsKept
<1> QED
  BY <1>1 DEF Kindred

\* What columns the rows have after a sound statement.
LEMMA ColumnsAfter ==
    ASSUME NEW s, Sound(s), s.op \in Alterations, NEW rows, NEW i \in DOMAIN rows
    PROVE  /\ s.table \in OwnerTables /\ DOMAIN rows[i] \subseteq Kept[s.table]
                 => DOMAIN RowsAfter(rows, s)[i] \subseteq Kept[s.table]
           /\ /\ s.table = "memories"
              /\ MemoryKey \subseteq DOMAIN rows[i] /\ "user_id" \notin DOMAIN rows[i]
              => /\ MemoryKey \subseteq DOMAIN RowsAfter(rows, s)[i]
                 /\ "user_id" \notin DOMAIN RowsAfter(rows, s)[i]
<1>1. "memories" \in DOMAIN Kept /\ "user_id" \notin Kept["memories"]
  BY DEF Kept
<1>2. CASE s.op = "add column" /\ Keeps(s.table, s.name)
  <2>1. RowsAfter(rows, s)[i] = With(rows[i], s.name, s.col.default)
    BY <1>2 DEF RowsAfter
  <2>2. DOMAIN RowsAfter(rows, s)[i] = DOMAIN rows[i] \cup {s.name}
    BY <2>1 DEF With
  <2>3. s.name \in Kept[s.table] /\ (s.table = "memories" => s.name # "user_id")
    BY <1>1, <1>2 DEF Keeps
  <2> QED
    BY <2>2, <2>3
<1>3. CASE s.op = "drop column"
  <2>1. RowsAfter(rows, s)[i] = Without(rows[i], s.name)
    BY <1>3 DEF RowsAfter
  <2>2. DOMAIN RowsAfter(rows, s)[i] = DOMAIN rows[i] \ {s.name}
    BY <2>1 DEF Without
  <2>3. s.table = "memories" => s.name \notin MemoryKey
    BY <1>1, <1>3 DEF Sound, Droppable
  <2> QED
    BY <2>2, <2>3
<1>4. CASE ~(s.op = "add column" /\ Keeps(s.table, s.name)) /\ s.op # "drop column"
  <2>1. RowsAfter(rows, s) = rows
    BY <1>4, Zenon DEF RowsAfter
  <2> QED
    BY <2>1
<1> QED
  BY <1>2, <1>3, <1>4

\* What a statement leaves of the tables other than its own, and of their names.
Leaves(d, s, e) ==
    /\ s.op # "drop" => DOMAIN d.tables \subseteq DOMAIN e.tables
    /\ \A u \in DOMAIN d.tables : u # Touches(s) => u \in DOMAIN e.tables
    /\ \A u \in DOMAIN e.tables : u # Touches(s) =>
          /\ u \in DOMAIN d.tables
          /\ e.tables[u] = d.tables[u]
          /\ e.rows[u] = d.rows[u]
\* A statement leaves the tables other than its own.
LEMMA TablesAfter ==
    ASSUME NEW d, NEW s, NEW e, Done(d, s, e)
    PROVE  Leaves(d, s, e)
<1>1. \A u : u # Touches(s) => Same(u, d, e)
  BY DEF Done
<1>2. s.op # "drop" => Touches(s) \in DOMAIN e.tables \/ Touches(s) \notin DOMAIN d.tables
  BY DEF Done
<1> QED
  BY <1>1, <1>2 DEF Same, Leaves

\* A sound alteration leaves a row regular.
LEMMA RegularAltered ==
    ASSUME NEW s, Sound(s), s.op \in Alterations, s.table \in DOMAIN Kept,
           NEW rows, NEW i \in DOMAIN rows, Regular(s.table, i, rows[i]),
           s.table = "memories" => MemoryKey \subseteq DOMAIN rows[i]
    PROVE  Regular(s.table, i, RowsAfter(rows, s)[i])
<1> DEFINE row == rows[i]
           q == RowsAfter(rows, s)[i]
           t == s.table
<1>1. /\ t \in VersionTables => q = row
      /\ t = "memories" =>
            /\ q["normalized_key"] = row["normalized_key"] /\ q["status"] = row["status"]
            /\ {"confidence", "access_count"} \cap DOMAIN row = {} => {"confidence", "access_count"} \cap DOMAIN q = {}
  <2>1. CASE s.op = "add column" /\ Keeps(t, s.name)
    <3>1. q = With(row, s.name, s.col.default)
      BY <2>1 DEF RowsAfter
    <3>2. t \notin VersionTables /\ (t = "memories" => s.name \notin MemoryKey /\ s.name \in Kept["memories"])
      BY <2>1 DEF Sound, Addable, Keeps
    <3>3. {"confidence", "access_count"} \cap Kept["memories"] = {}
      BY DEF Kept
    <3>4. {"normalized_key", "status"} \subseteq MemoryKey
      BY DEF MemoryKey
    <3> HIDE DEF q, row
    <3> QED
      BY <3>1, <3>2, <3>3, <3>4 DEF With, row
  <2>2. CASE s.op = "drop column"
    <3>1. q = Without(row, s.name)
      BY <2>2 DEF RowsAfter
    <3>2. t \notin VersionTables /\ (t = "memories" => s.name \notin MemoryKey)
      BY <2>2 DEF Sound, Droppable
    <3>4. {"normalized_key", "status"} \subseteq MemoryKey
      BY DEF MemoryKey
    <3> HIDE DEF q, row
    <3> QED
      BY <3>1, <3>2, <3>4 DEF Without, row
  <2>3. CASE ~(s.op = "add column" /\ Keeps(s.table, s.name)) /\ s.op # "drop column"
    <3>1. RowsAfter(rows, s) = rows
      BY <2>3, Zenon DEF RowsAfter
    <3> QED
      BY <3>1
  <2> QED
    BY <2>1, <2>2, <2>3
<1> HIDE DEF q
<1> QED
  BY <1>1 DEF Regular, VersionTables, q

\* A statement on memories that leaves the key and the status of each alone.
Keyed(m, q) ==
    DOMAIN q = DOMAIN m /\ q["normalized_key"] = m["normalized_key"] /\ q["status"] = m["status"]

\* All do but the one that fills them.
LEMMA MemoriesKeyed ==
    ASSUME NEW rows, "memories" \in DOMAIN rows,
           NEW name \in {"keep scopes", "map scopes", "keep kinds", "map kinds", "archive memories",
                         "map revised kinds"},
           NEW i \in DOMAIN rows["memories"], MemoryKey \subseteq DOMAIN rows["memories"][i]
    PROVE  /\ DOMAIN DataStatement(name, rows)["memories"] = DOMAIN rows["memories"]
           /\ Keyed(rows["memories"][i], DataStatement(name, rows)["memories"][i])
<1> DEFINE after == DataStatement(name, rows)
           m == rows["memories"][i]
<1>1. /\ Keyed(m, ScopeKept(m)) /\ Keyed(m, ScopeMapped(m)) /\ Keyed(m, KindKept(m))
      /\ Keyed(m, KindMapped(m)) /\ Keyed(m, MadeArchived(m)) /\ Keyed(m, KindRevised(m))
  <2>1. "normalized_key" \in DOMAIN m /\ "status" \in DOMAIN m
    BY DEF MemoryKey
  <2> HIDE DEF m
  <2>2. Keyed(m, ScopeKept(m)) /\ Keyed(m, ScopeMapped(m))
    BY <2>1 DEF Keyed, ScopeKept, ScopeMapped
  <2>3. Keyed(m, KindKept(m)) /\ Keyed(m, KindMapped(m))
    BY <2>1 DEF Keyed, KindKept, KindMapped
  <2>4. Keyed(m, MadeArchived(m)) /\ Keyed(m, KindRevised(m))
    BY <2>1 DEF Keyed, MadeArchived, KindRevised
  <2> QED
    BY <2>2, <2>3, <2>4
<1>2. \/ Remade(rows, after, ScopeKept) \/ Remade(rows, after, ScopeMapped)
      \/ Remade(rows, after, KindKept) \/ Remade(rows, after, KindMapped)
      \/ Remade(rows, after, MadeArchived) \/ Remade(rows, after, KindRevised)
  BY MemoryStatements, KindsRevised
<1> HIDE DEF after
<1>3. /\ DOMAIN after["memories"] = DOMAIN rows["memories"]
      /\ after["memories"][i] \in {ScopeKept(m), ScopeMapped(m), KindKept(m), KindMapped(m),
                                  MadeArchived(m), KindRevised(m)}
  BY <1>2 DEF Remade
<1> HIDE DEF m
<1> QED
  BY <1>1, <1>3 DEF after, m

\* A data statement leaves the rows of its table regular.
LEMMA RegularData ==
    ASSUME NEW name \in DataNames, NEW rows, NEW t, t = DataTable(name), t \in DOMAIN rows,
           \A i \in DOMAIN rows[t] : Regular(t, i, rows[t][i]),
           t = "memories" => \A i \in DOMAIN rows[t] : MemoryKey \subseteq DOMAIN rows[t][i],
           NEW i \in DOMAIN DataStatement(name, rows)[t]
    PROVE  Regular(t, i, DataStatement(name, rows)[t][i])
<1> DEFINE after == DataStatement(name, rows)
<1>1. CASE t \in OwnerTables
  <2>1. i \in DOMAIN rows[t]
    BY <1>1, DataShape DEF Shaped
  <2> QED
    BY <1>1, <2>1 DEF Regular, OwnerTables
<1>2. CASE t = "memories" /\ name # "fill bookkeeping"
  <2>1. name \in {"keep scopes", "map scopes", "keep kinds", "map kinds", "archive memories",
                  "map revised kinds"}
    BY <1>2 DEF DataNames, DataTable
  <2>2. i \in DOMAIN rows[t] /\ MemoryKey \subseteq DOMAIN rows[t][i]
    <3>1. Shaped(rows[t], after[t])
      BY <1>2, DataShape
    <3> QED
      BY <1>2, <3>1 DEF Shaped
  <2>3. Keyed(rows[t][i], after[t][i])
    BY <1>2, <2>1, <2>2, MemoriesKeyed
  <2>4. t \notin OwnerTables
    BY <1>2 DEF OwnerTables
  <2> HIDE DEF after
  <2> QED
    BY <1>2, <2>2, <2>3, <2>4 DEF Regular, Keyed, after
<1>3. CASE t = "memories" /\ name = "fill bookkeeping"
  <2>1. Refilled(rows, after)
    BY <1>3, MemoryFilled
  <2> DEFINE m == rows[t][i]
  <2>2. i \in DOMAIN rows[t] /\ after[t][i] = FilledRow(m, i)
    BY <1>3, <2>1 DEF Refilled
  <2>3. {"normalized_key", "status"} \subseteq DOMAIN m
    BY <1>3, <2>2 DEF MemoryKey
  <2>4. Regular(t, i, m)
    BY <2>2
  <2> HIDE DEF m, after
  <2>5. /\ DOMAIN FilledRow(m, i) = DOMAIN m
        /\ FilledRow(m, i)["status"] # NULL
        /\ FilledRow(m, i)["normalized_key"] \in {m["normalized_key"], i}
    BY <2>3 DEF FilledRow, Coalesce, NULL
  <2>6. FilledRow(m, i)["normalized_key"] # NULL => FilledRow(m, i)["normalized_key"] \in {"key", i, NULL}
    BY <1>3, <2>4, <2>5 DEF Regular
  <2> QED
    BY <1>3, <2>2, <2>4, <2>5, <2>6 DEF Regular, OwnerTables, after
<1>4. CASE t = "character_versions"
  <2>1. name \in {"version characters", "synchronize characters"}
    BY <1>4 DEF DataNames, DataTable
  <2>2. CASE name = "synchronize characters"
    <3>1. /\ i \in DOMAIN rows[t]
          /\ \/ after[t][i] = rows[t][i]
             \/ \E v, w : after[t][i] = [rows[t][i] EXCEPT !["name"] = v, !["summary"] = w]
      BY <1>4, <2>2 DEF DataStatement, SynchronizeCharacters, RenewedCharacterVersion
    <3> HIDE DEF after
    <3>2. {"character_id", "version"} \subseteq DOMAIN rows[t][i] /\ rows[t][i]["character_id"] = i[1]
      BY <1>4, <3>1 DEF Regular
    <3> QED
      BY <1>4, <3>1, <3>2 DEF Regular, OwnerTables, after
  <2>3. CASE name = "version characters"
    <3> DEFINE new == [k \in {<<j, "1">> : j \in {j \in DOMAIN rows["characters"] : Bare(rows[t], j)}} |->
                          FirstCharacterVersion(k[1], rows["characters"][k[1]])]
    <3>1. after[t] = Filled(new, rows[t])
      BY <1>4, <2>3 DEF DataStatement, VersionCharacters, VersionRows, Bare
    <3>2. \A k \in DOMAIN new : new[k] = FirstCharacterVersion(k[1], rows["characters"][k[1]])
      OBVIOUS
    <3> HIDE DEF new
    <3>3. i \in DOMAIN new \/ (i \in DOMAIN rows[t] /\ after[t][i] = rows[t][i])
      BY <3>1 DEF Filled
    <3>4. \A a, b : LET v == FirstCharacterVersion(a, b)
                   IN {"character_id", "version"} \subseteq DOMAIN v /\ v["character_id"] = a
      BY DEF FirstCharacterVersion
    <3>5. i \in DOMAIN new => after[t][i] = FirstCharacterVersion(i[1], rows["characters"][i[1]])
      BY <3>1, <3>2 DEF Filled
    <3> HIDE DEF after
    <3> QED
      BY <1>4, <3>3, <3>4, <3>5 DEF Regular, OwnerTables, after
  <2> QED
    BY <2>1, <2>2, <2>3
<1>5. CASE t = "persona_versions"
  <2>1. name \in {"version personas", "synchronize personas"}
    BY <1>5 DEF DataNames, DataTable
  <2>2. CASE name = "synchronize personas"
    <3>1. /\ i \in DOMAIN rows[t]
          /\ \/ after[t][i] = rows[t][i]
             \/ \E v, w : after[t][i] = [rows[t][i] EXCEPT !["name"] = v, !["traits"] = w]
      BY <1>5, <2>2 DEF DataStatement, SynchronizePersonas, RenewedPersonaVersion
    <3> HIDE DEF after
    <3>2. {"persona_id", "version"} \subseteq DOMAIN rows[t][i] /\ rows[t][i]["persona_id"] = i[1]
      BY <1>5, <3>1 DEF Regular
    <3> QED
      BY <1>5, <3>1, <3>2 DEF Regular, OwnerTables, after
  <2>3. CASE name = "version personas"
    <3> DEFINE new == [k \in {<<j, "1">> : j \in {j \in DOMAIN rows["personas"] : Bare(rows[t], j)}} |->
                          FirstPersonaVersion(k[1], rows["personas"][k[1]])]
    <3>1. after[t] = Filled(new, rows[t])
      BY <1>5, <2>3 DEF DataStatement, VersionPersonas, VersionRows, Bare
    <3>2. \A k \in DOMAIN new : new[k] = FirstPersonaVersion(k[1], rows["personas"][k[1]])
      OBVIOUS
    <3> HIDE DEF new
    <3>3. i \in DOMAIN new \/ (i \in DOMAIN rows[t] /\ after[t][i] = rows[t][i])
      BY <3>1 DEF Filled
    <3>4. \A a, b : LET v == FirstPersonaVersion(a, b)
                   IN {"persona_id", "version"} \subseteq DOMAIN v /\ v["persona_id"] = a
      BY DEF FirstPersonaVersion
    <3>5. i \in DOMAIN new => after[t][i] = FirstPersonaVersion(i[1], rows["personas"][i[1]])
      BY <3>1, <3>2 DEF Filled
    <3> HIDE DEF after
    <3> QED
      BY <1>5, <3>3, <3>4, <3>5 DEF Regular, OwnerTables, after
  <2> QED
    BY <2>1, <2>2, <2>3
<1>6. t \in OwnerTables \cup {"memories", "character_versions", "persona_versions"}
  BY DEF DataTable, OwnerTables
<1> QED
  BY <1>1, <1>2, <1>3, <1>4, <1>5, <1>6

\* A sound statement leaves rows regular.
LEMMA ToldStep ==
    ASSUME NEW d, WellFormed(d), Orderly(d), NEW s, Sound(s),
           NEW e, IsDatabase(e), Done(d, s, e)
    PROVE  Told(e.rows)
<1> SUFFICES ASSUME NEW t \in DOMAIN e.tables \cap DOMAIN Kept, NEW i \in DOMAIN e.rows[t]
             PROVE  Regular(t, i, e.rows[t][i])
  BY DEF Told, IsDatabase
<1>1. t \in DOMAIN d.tables => \A j \in DOMAIN d.rows[t] : Regular(t, j, d.rows[t][j])
  BY DEF Orderly, Told, WellFormed, IsDatabase
<1>2. t \in DOMAIN d.tables /\ t = "memories" => \A j \in DOMAIN d.rows[t] : MemoryKey \subseteq DOMAIN d.rows[t][j]
  BY DEF Orderly
<1>3. CASE t # Touches(s)
  <2>1. t \in DOMAIN d.tables /\ e.rows[t] = d.rows[t]
    BY <1>3, TablesAfter DEF Leaves
  <2> QED
    BY <1>1, <2>1
<1>4. CASE t = Touches(s) /\ s.op = "create"
  BY <1>4 DEF Done
<1>5. CASE t = Touches(s) /\ s.op = "sql"
  <2>1. /\ t \in DOMAIN d.tables /\ s.name \in DataNames /\ e.rows = DataStatement(s.name, d.rows)
        /\ t = DataTable(s.name)
    BY <1>5 DEF Done, Sound, Known, Touches
  <2>2. t \in DOMAIN d.rows
    BY <2>1 DEF WellFormed, IsDatabase
  <2> QED
    BY <1>1, <1>2, <2>1, <2>2, RegularData
<1>6. CASE t = Touches(s) /\ s.op \notin {"create", "drop", "sql"}
  <2>1. /\ t \in DOMAIN d.tables /\ t = s.table /\ s.op \in Alterations
        /\ e.rows[t] = RowsAfter(d.rows[t], s)
    BY <1>6 DEF Done, Touches
  <2>2. i \in DOMAIN d.rows[t]
    BY <2>1, RowsInPlace
  <2> QED
    BY <1>1, <1>2, <2>1, <2>2, RegularAltered
<1> QED
  BY <1>3, <1>4, <1>5, <1>6 DEF Done

\* A sound statement leaves an orderly database.
LEMMA OrderlyStep ==
    ASSUME NEW d, WellFormed(d), Orderly(d), NEW s, Sound(s),
           NEW e, IsDatabase(e), Done(d, s, e)
    PROVE  Orderly(e)
<1> DEFINE t == Touches(s)
<1>0. /\ s.op # "drop" => DOMAIN d.tables \subseteq DOMAIN e.tables
      /\ \A u \in DOMAIN d.tables : u # t => u \in DOMAIN e.tables
      /\ \A u \in DOMAIN e.tables : u # t =>
            /\ u \in DOMAIN d.tables
            /\ e.tables[u] = d.tables[u]
            /\ e.rows[u] = d.rows[u]
  BY TablesAfter DEF Leaves
<1>1. ASSUME NEW u \in DOMAIN e.tables \ DOMAIN Kept PROVE DOMAIN e.rows[u] = {}
  <2>1. u \in DOMAIN d.tables => DOMAIN d.rows[u] = {}
    BY DEF Orderly
  <2>2. CASE u # t
    BY <1>0, <2>1, <2>2
  <2>3. CASE u = t /\ s.op = "create"
    BY <2>3 DEF Done
  <2>4. CASE u = t /\ s.op = "sql"
    BY <2>4, DataTables DEF Touches, Sound, Known
  <2>5. CASE u = t /\ s.op \notin {"create", "drop", "sql"}
    BY <2>1, <2>5, RowsInPlace DEF Done
  <2> QED
    BY <2>2, <2>3, <2>4, <2>5 DEF Done
<1>2. ASSUME NEW u \in DOMAIN e.tables \cap DOMAIN Kept PROVE OrderlyTable(e, u)
  <2>1. u \in DOMAIN d.tables => FitsIn(d.tables[u], u, DOMAIN d.tables)
    BY FitTable DEF Orderly
  <2> SUFFICES FitsIn(e.tables[u], u, DOMAIN e.tables)
    BY FitTable
  <2>2. CASE u # t
    <3>1. u \in DOMAIN d.tables /\ e.tables[u] = d.tables[u]
      BY <1>0, <2>2
    <3>2. s.op = "drop" => \A k \in d.tables[u].keys : k.to # t
      BY <2>2, <3>1 DEF Done, Accepts, Touches
    <3>3. \A k \in d.tables[u].keys : k.to \in DOMAIN e.tables
      BY <1>0, <2>1, <3>1, <3>2 DEF FitsIn
    <3> QED
      BY <2>1, <3>1, <3>3 DEF FitsIn
  <2>3. CASE u = t /\ s.op = "create"
    <3>1. e.tables[u] = s.def /\ u = s.table /\ Accepts(d, s) /\ DOMAIN d.tables \subseteq DOMAIN e.tables
      BY <1>0, <2>3 DEF Done, Touches
    <3>2. \A k \in s.def.keys : k.col \in DOMAIN s.def.cols /\ k.to \in DOMAIN d.tables \cup {u}
      BY <2>3, <3>1 DEF Accepts
    <3>3. /\ \A x \in s.def.uniques : x.on \subseteq DOMAIN s.def.cols
          /\ DOMAIN s.def.checks \subseteq DOMAIN s.def.cols
      BY <2>3, <3>1 DEF Accepts
    <3>4. \A x \in s.def.uniques : x.active = FALSE /\ u \in VersionTables
      BY <2>3, <3>1 DEF Sound
    <3>5. "memories" \notin VersionTables
      BY DEF VersionTables
    <3> QED
      BY <3>1, <3>2, <3>3, <3>4, <3>5 DEF FitsIn
  <2>4. CASE u = t /\ s.op = "sql"
    <3>1. e.tables = d.tables
      BY <2>4 DEF Done
    <3> QED
      BY <2>1, <3>1
  <2>5. CASE u = t /\ s.op \notin {"create", "drop", "sql"}
    <3>1. /\ u \in DOMAIN d.tables /\ u = s.table /\ s.op \in Alterations /\ Accepts(d, s)
          /\ e.tables[u] = Defined(d.tables[u], s)
      BY <2>5 DEF Done, Touches
    <3>2. IsDefinition(d.tables[u])
      BY <3>1 DEF WellFormed
    <3>3. FitsIn(Defined(d.tables[u], s), u, DOMAIN d.tables)
      BY <2>1, <3>1, <3>2, FitAltered
    <3>4. DOMAIN d.tables \subseteq DOMAIN e.tables
      BY <1>0, <2>5
    <3> QED
      BY <3>1, <3>3, <3>4 DEF FitsIn
  <2> QED
    BY <2>2, <2>3, <2>4, <2>5 DEF Done
<1>3. ASSUME NEW u \in DOMAIN e.tables, u \in OwnerTables \cup {"memories"}, NEW i \in DOMAIN e.rows[u]
      PROVE  /\ u \in OwnerTables => DOMAIN e.rows[u][i] \subseteq Kept[u]
             /\ u = "memories" => /\ MemoryKey \subseteq DOMAIN e.rows[u][i]
                                  /\ "user_id" \notin DOMAIN e.rows[u][i]
  <2>1. u \in DOMAIN d.tables /\ i \in DOMAIN d.rows[u] =>
           /\ u \in OwnerTables => DOMAIN d.rows[u][i] \subseteq Kept[u]
           /\ u = "memories" => MemoryKey \subseteq DOMAIN d.rows[u][i] /\ "user_id" \notin DOMAIN d.rows[u][i]
    BY DEF Orderly
  <2>2. CASE u # t
    BY <1>0, <1>3, <2>1, <2>2
  <2>3. CASE u = t /\ s.op = "create"
    BY <1>3, <2>3 DEF Done
  <2>4. CASE u = t /\ s.op = "sql"
    <3>1. /\ u \in DOMAIN d.tables /\ s.name \in DataNames /\ e.rows = DataStatement(s.name, d.rows)
      BY <2>4 DEF Done, Sound, Known
    <3>2. u \in DOMAIN d.rows
      BY <3>1 DEF WellFormed, IsDatabase
    <3>3. Shaped(d.rows[u], e.rows[u])
      BY <1>3, <3>1, <3>2, DataShape
    <3> QED
      BY <1>3, <2>1, <3>1, <3>3 DEF Shaped
  <2>5. CASE u = t /\ s.op \notin {"create", "drop", "sql"}
    <3>1. /\ u \in DOMAIN d.tables /\ u = s.table /\ s.op \in Alterations
          /\ e.rows[u] = RowsAfter(d.rows[u], s)
      BY <2>5 DEF Done, Touches
    <3>2. i \in DOMAIN d.rows[u]
      BY <1>3, <3>1, RowsInPlace
    <3> QED
      BY <2>1, <3>1, <3>2, ColumnsAfter
  <2> QED
    BY <2>2, <2>3, <2>4, <2>5 DEF Done
<1>4. Told(e.rows)
  BY ToldStep
<1> QED
  BY <1>1, <1>2, <1>3, <1>4 DEF Orderly

-----------------------------------------------------------------------------
(* Legal databases                                                         *)

\* A table without rows satisfies every definition.
LEMMA BareLegal ==
    ASSUME NEW f, NEW rows, DOMAIN rows = {}
    PROVE  RowsLegal(f, rows)
  BY DEF RowsLegal, NotNullHolds, ChecksHold, UniqueHolds

\* The rows of an altered table have their required columns filled.
LEMMA FilledAltered ==
    ASSUME NEW d, NEW s, Accepts(d, s), Sound(s), s.op \in Alterations, s.table \in DOMAIN Kept,
           NEW f, f = d.tables[s.table], IsDefinition(f), NEW rows, rows = d.rows[s.table],
           NotNullHolds(f, rows),
           s.table \in OwnerTables => \A i \in DOMAIN rows : DOMAIN rows[i] \subseteq Kept[s.table]
    PROVE  NotNullHolds(Defined(f, s), RowsAfter(rows, s))
<1> DEFINE g == Defined(f, s)
           after == RowsAfter(rows, s)
<1>1. CASE s.op = "add column"
  <2>1. g.cols = With(f.cols, s.name, s.col)
    BY <1>1 DEF Defined, IsDefinition
  <2>2. s.name \notin DOMAIN f.cols /\ (s.col = Required => DOMAIN rows = {})
    BY <1>1 DEF Accepts
  <2>3. Addable(s.table, s.name, s.col)
    BY <1>1 DEF Sound
  <2>4. ASSUME NEW c \in DOMAIN f.cols PROVE c \in DOMAIN g.cols /\ g.cols[c] = f.cols[c]
    BY <2>1, <2>2 DEF With
  <2>5. \A c \in DOMAIN g.cols : c = s.name \/ c \in DOMAIN f.cols
    BY <2>1 DEF With
  <2>6. s.name \in DOMAIN g.cols /\ g.cols[s.name] = s.col
    BY <2>1 DEF With
  <2> HIDE DEF g
  <2>7. CASE Keeps(s.table, s.name)
    <3>1. after = [i \in DOMAIN rows |-> With(rows[i], s.name, s.col.default)]
      BY <1>1, <2>7 DEF RowsAfter
    <3> HIDE DEF after
    <3>2. ASSUME NEW i \in DOMAIN after, NEW c \in DOMAIN after[i] \cap DOMAIN g.cols, after[i][c] = NULL
          PROVE  g.cols[c].null
      <4>1. i \in DOMAIN rows /\ after[i] = With(rows[i], s.name, s.col.default)
        BY <3>1
      <4>2. CASE c = s.name
        <5>1. s.col.default = NULL
          BY <3>2, <4>1, <4>2 DEF With
        <5>2. s.col.null = TRUE
          BY <2>2, <2>3, <4>1, <5>1 DEF Addable, Fillable
        <5> QED
          BY <2>6, <4>2, <5>2
      <4>3. CASE c # s.name
        <5>1. c \in DOMAIN rows[i] /\ rows[i][c] = NULL
          BY <3>2, <4>1, <4>3 DEF With
        <5>2. c \in DOMAIN f.cols
          BY <2>5, <4>3
        <5>3. f.cols[c].null
          BY <4>1, <5>1, <5>2 DEF NotNullHolds
        <5> QED
          BY <2>4, <5>2, <5>3
      <4> QED
        BY <4>2, <4>3
    <3> QED
      BY <3>2 DEF NotNullHolds, g, after
  <2>8. CASE ~Keeps(s.table, s.name)
    <3>1. after = rows
      BY <2>8, <1>1, Zenon DEF RowsAfter
    <3>2. s.table \in OwnerTables
      BY <2>3, <2>8, KeptTables DEF Addable, OwnerTables, VersionTables
    <3>3. ASSUME NEW i \in DOMAIN rows PROVE s.name \notin DOMAIN rows[i]
      BY <2>8, <3>2 DEF Keeps
    <3> HIDE DEF after
    <3> QED
      BY <2>4, <2>5, <3>1, <3>3 DEF NotNullHolds, g, after
  <2> QED
    BY <2>7, <2>8
<1>2. CASE s.op = "alter column"
  <2>1. g.cols = With(f.cols, s.name, s.col)
    BY <1>2 DEF Defined, IsDefinition
  <2>2. s.name \in DOMAIN f.cols /\ NotNullHolds([f EXCEPT !.cols[s.name] = s.col], rows)
    BY <1>2 DEF Accepts
  <2>3. [f EXCEPT !.cols[s.name] = s.col].cols = [f.cols EXCEPT ![s.name] = s.col]
    BY DEF IsDefinition
  <2>4. /\ DOMAIN g.cols = DOMAIN f.cols
        /\ \A c \in DOMAIN f.cols : g.cols[c] = [f.cols EXCEPT ![s.name] = s.col][c]
    BY <2>1, <2>2 DEF With
  <2>5. after = rows
    BY <1>2, Zenon DEF RowsAfter
  <2> DEFINE h == [f EXCEPT !.cols[s.name] = s.col]
  <2>6. h.cols = [f.cols EXCEPT ![s.name] = s.col] /\ NotNullHolds(h, rows)
    BY <2>2, <2>3
  <2> HIDE DEF g, after, h
  <2>7. DOMAIN h.cols = DOMAIN g.cols /\ \A c \in DOMAIN g.cols : g.cols[c] = h.cols[c]
    BY <2>4, <2>6
  <2> QED
    BY <2>5, <2>6, <2>7 DEF NotNullHolds, g, after
<1>3. CASE s.op = "drop column"
  <2>1. g.cols = Without(f.cols, s.name)
    BY <1>3 DEF Defined, DefWithout
  <2>2. after = [i \in DOMAIN rows |-> Without(rows[i], s.name)]
    BY <1>3 DEF RowsAfter
  <2> HIDE DEF g, after
  <2>3. \A c \in DOMAIN g.cols : c \in DOMAIN f.cols /\ g.cols[c] = f.cols[c]
    <3>1. \A c \in DOMAIN Without(f.cols, s.name) :
             c \in DOMAIN f.cols /\ Without(f.cols, s.name)[c] = f.cols[c]
      BY DEF Without
    <3> QED
      BY <2>1, <3>1, Zenon
  <2>4. \A r : \A c \in DOMAIN Without(r, s.name) : c \in DOMAIN r /\ Without(r, s.name)[c] = r[c]
    BY DEF Without
  <2>5. ASSUME NEW i \in DOMAIN after, NEW c \in DOMAIN after[i]
        PROVE  i \in DOMAIN rows /\ c \in DOMAIN rows[i] /\ after[i][c] = rows[i][c]
    <3>1. i \in DOMAIN rows /\ after[i] = Without(rows[i], s.name)
      BY <2>2
    <3>2. \A x \in DOMAIN Without(rows[i], s.name) : x \in DOMAIN rows[i] /\ Without(rows[i], s.name)[x] = rows[i][x]
      BY <2>4
    <3> QED
      BY <3>1, <3>2
  <2> QED
    BY <2>3, <2>5 DEF NotNullHolds, g, after
<1>4. CASE s.op \notin ColumnOps
  <2>1. g.cols = f.cols
    BY <1>4 DEF Defined, IsDefinition, Alterations, ColumnOps
  <2>2. after = rows
    BY <1>4, Zenon DEF RowsAfter, ColumnOps
  <2> HIDE DEF g, after
  <2> QED
    BY <2>1, <2>2 DEF NotNullHolds, g, after
<1> QED
  BY <1>1, <1>2, <1>3, <1>4 DEF ColumnOps

\* They satisfy the CHECKs of the table.
LEMMA CheckedAltered ==
    ASSUME NEW d, NEW s, Accepts(d, s), s.op \in Alterations,
           NEW f, f = d.tables[s.table], IsDefinition(f), NEW rows, rows = d.rows[s.table],
           ChecksHold(f, rows), DOMAIN f.checks \subseteq DOMAIN f.cols
    PROVE  ChecksHold(Defined(f, s), RowsAfter(rows, s))
<1> DEFINE g == Defined(f, s)
           after == RowsAfter(rows, s)
<1>1. CASE s.op = "add check"
  <2>1. g.checks = With(f.checks, s.name, s.allowed)
    BY <1>1 DEF Defined, IsDefinition
  <2>2. after = rows
    BY <1>1, Zenon DEF RowsAfter
  <2> DEFINE h == [f EXCEPT !.checks = With(<<>>, s.name, s.allowed)]
  <2>3. ChecksHold(h, rows)
    BY <1>1 DEF Accepts
  <2>4. h.checks = With(<<>>, s.name, s.allowed)
    BY DEF IsDefinition
  <2>5. DOMAIN h.checks = {s.name} /\ h.checks[s.name] = s.allowed
    <3>1. DOMAIN With(<<>>, s.name, s.allowed) = {s.name} /\ With(<<>>, s.name, s.allowed)[s.name] = s.allowed
      BY DEF With
    <3> HIDE DEF h
    <3> QED
      BY <2>4, <3>1
  <2> HIDE DEF g, after, h
  <2>6. ASSUME NEW i \in DOMAIN rows, NEW c \in DOMAIN rows[i] \cap DOMAIN g.checks
        PROVE  rows[i][c] \in g.checks[c] \cup {NULL}
    <3>1. CASE c = s.name
      <4>1. g.checks[c] = s.allowed
        BY <2>1, <3>1 DEF With
      <4>2. rows[i][c] \in h.checks[c] \cup {NULL}
        BY <2>3, <2>5, <3>1 DEF ChecksHold
      <4> QED
        BY <2>5, <3>1, <4>1, <4>2
    <3>2. CASE c # s.name
      <4>1. c \in DOMAIN f.checks /\ g.checks[c] = f.checks[c]
        BY <2>1, <3>2 DEF With
      <4> QED
        BY <4>1 DEF ChecksHold
    <3> QED
      BY <3>1, <3>2
  <2> QED
    BY <2>2, <2>6 DEF ChecksHold, g, after
<1>2. CASE s.op = "drop check"
  <2>1. g.checks = Without(f.checks, s.name)
    BY <1>2 DEF Defined, IsDefinition
  <2>2. after = rows
    BY <1>2, Zenon DEF RowsAfter
  <2> HIDE DEF g, after
  <2>3. \A c \in DOMAIN g.checks : c \in DOMAIN f.checks /\ g.checks[c] = f.checks[c]
    <3>1. \A c \in DOMAIN Without(f.checks, s.name) :
             c \in DOMAIN f.checks /\ Without(f.checks, s.name)[c] = f.checks[c]
      BY DEF Without
    <3> QED
      BY <2>1, <3>1, Zenon
  <2> QED
    BY <2>2, <2>3 DEF ChecksHold, g, after
<1>3. CASE s.op = "drop column"
  <2>1. g.checks = Without(f.checks, s.name)
    BY <1>3 DEF Defined, DefWithout
  <2>2. after = [i \in DOMAIN rows |-> Without(rows[i], s.name)]
    BY <1>3 DEF RowsAfter
  <2> HIDE DEF g, after
  <2>3. \A c \in DOMAIN g.checks : c \in DOMAIN f.checks /\ g.checks[c] = f.checks[c]
    <3>1. \A c \in DOMAIN Without(f.checks, s.name) :
             c \in DOMAIN f.checks /\ Without(f.checks, s.name)[c] = f.checks[c]
      BY DEF Without
    <3> QED
      BY <2>1, <3>1, Zenon
  <2>4. \A r : \A c \in DOMAIN Without(r, s.name) : c \in DOMAIN r /\ Without(r, s.name)[c] = r[c]
    BY DEF Without
  <2>5. ASSUME NEW i \in DOMAIN after, NEW c \in DOMAIN after[i]
        PROVE  i \in DOMAIN rows /\ c \in DOMAIN rows[i] /\ after[i][c] = rows[i][c]
    <3>1. i \in DOMAIN rows /\ after[i] = Without(rows[i], s.name)
      BY <2>2
    <3>2. \A x \in DOMAIN Without(rows[i], s.name) : x \in DOMAIN rows[i] /\ Without(rows[i], s.name)[x] = rows[i][x]
      BY <2>4
    <3> QED
      BY <3>1, <3>2
  <2> QED
    BY <2>3, <2>5 DEF ChecksHold, g, after
<1>4. CASE s.op = "add column"
  <2>1. g.checks = f.checks
    BY <1>4 DEF Defined, IsDefinition
  <2>2. s.name \notin DOMAIN f.checks
    BY <1>4 DEF Accepts
  <2>3. Kindred(rows, after, DOMAIN f.checks)
    BY <1>4, <2>2, RowsKept
  <2> HIDE DEF g, after
  <2>4. DOMAIN after = DOMAIN rows /\ \A i \in DOMAIN rows : Alike(rows[i], after[i], DOMAIN f.checks)
    BY <2>3 DEF Kindred
  <2>5. ASSUME NEW i \in DOMAIN after, NEW c \in DOMAIN after[i] \cap DOMAIN g.checks
        PROVE  after[i][c] \in g.checks[c] \cup {NULL}
    <3>1. c \in DOMAIN f.checks /\ i \in DOMAIN rows /\ c \in DOMAIN rows[i] /\ after[i][c] = rows[i][c]
      BY <2>1, <2>4 DEF Alike
    <3> QED
      BY <2>1, <3>1 DEF ChecksHold
  <2> QED
    BY <2>5 DEF ChecksHold, g, after
<1>5. CASE s.op \notin {"add check", "drop check", "drop column", "add column"}
  <2>1. g.checks = f.checks
    BY <1>5 DEF Defined, IsDefinition, Alterations
  <2>2. after = rows
    BY <1>5, Zenon DEF RowsAfter
  <2> HIDE DEF g, after
  <2> QED
    BY <2>1, <2>2 DEF ChecksHold, g, after
<1> QED
  BY <1>1, <1>2, <1>3, <1>4, <1>5
\* What tells apart rows of a memory's columns tells apart what is kept of them.
LEMMA UniqueCarried ==
    ASSUME NEW u, u.on \subseteq Identity, NEW rows, NEW after, UniqueHolds(u, rows),
           Kindred(rows, after, MemoryKey),
           \A i \in DOMAIN rows : MemoryKey \subseteq DOMAIN rows[i] /\ "user_id" \notin DOMAIN rows[i]
    PROVE  UniqueHolds(u, after)
<1> DEFINE among(r) == {i \in DOMAIN r : u.active => r[i].status = "active"}
<1>1. /\ "status" \in MemoryKey
      /\ \A c \in Identity : c = "user_id" \/ c \in MemoryKey
  BY DEF MemoryKey, Identity
<1>2. \A i \in DOMAIN rows : \A c \in MemoryKey :
         i \in DOMAIN after /\ c \in DOMAIN after[i] /\ after[i][c] = rows[i][c]
  BY DEF Kindred, Alike
<1>3. \A i \in among(after) : i \in among(rows)
  <2>1. \A i \in DOMAIN after : i \in DOMAIN rows /\ after[i].status = rows[i].status
    BY <1>1, <1>2 DEF Kindred
  <2> QED
    BY <2>1
<1>4. ASSUME NEW i \in among(after), NEW j \in among(after),
             \A c \in u.on \cap DOMAIN after[i] : after[i][c] = after[j][c]
      PROVE  i = j
  <2>1. i \in among(rows) /\ j \in among(rows) /\ i \in DOMAIN rows /\ j \in DOMAIN rows
    BY <1>3
  <2>2. ASSUME NEW c \in u.on \cap DOMAIN rows[i] PROVE rows[i][c] = rows[j][c]
    <3>1. c \in MemoryKey
      BY <1>1, <2>1
    <3>2. c \in DOMAIN after[i] /\ after[i][c] = rows[i][c] /\ after[j][c] = rows[j][c]
      BY <1>2, <2>1, <3>1
    <3> QED
      BY <1>4, <3>2
  <2> QED
    BY <2>1, <2>2 DEF UniqueHolds
<1> QED
  BY <1>4 DEF UniqueHolds

\* The rows of an altered table are told apart by its unique constraints.
LEMMA UniqueAltered ==
    ASSUME NEW d, NEW s, Accepts(d, s), Sound(s), s.op \in Alterations, s.table \in DOMAIN Kept,
           NEW f, f = d.tables[s.table], IsDefinition(f), NEW rows, rows = d.rows[s.table],
           FitsIn(f, s.table, DOMAIN d.tables), \A u \in f.uniques : UniqueHolds(u, rows),
           s.table = "memories" => \A i \in DOMAIN rows :
               MemoryKey \subseteq DOMAIN rows[i] /\ "user_id" \notin DOMAIN rows[i],
           NEW u \in Defined(f, s).uniques
    PROVE  UniqueHolds(u, RowsAfter(rows, s))
<1>1. CASE s.op \in {"add column", "drop column"}
  <2>1. s.table \notin VersionTables /\ (s.table = "memories" => s.name \notin MemoryKey)
    BY <1>1 DEF Sound, Addable, Droppable
  <2>2. u \in f.uniques
    BY <1>1 DEF Defined, DefWithout, IsDefinition
  <2>3. s.table = "memories" /\ u.on \subseteq Identity
    BY <2>1, <2>2 DEF FitsIn
  <2>4. Kindred(rows, RowsAfter(rows, s), MemoryKey)
    BY <2>1, <2>3, RowsKept
  <2> QED
    BY <2>2, <2>3, <2>4, UniqueCarried
<1>2. CASE s.op \notin {"add column", "drop column"}
  <2>1. RowsAfter(rows, s) = rows
    BY <1>2, Zenon DEF RowsAfter
  <2>2. u \in f.uniques \/ (s.op = "add unique" /\ u = s.unique)
    BY <1>2 DEF Defined, IsDefinition, Alterations
  <2>3. s.op = "add unique" => UniqueHolds(s.unique, rows)
    BY DEF Accepts
  <2> QED
    BY <2>1, <2>2, <2>3
<1> QED
  BY <1>1, <1>2
\* A key whose column and whose target keep their values still refers to rows.
LEMMA StillRefers ==
    ASSUME NEW rows, NEW after, NEW t, NEW k, References(rows, t, k),
           Kindred(rows[t], after[t], {k.col}),
           k.to \in DOMAIN Kept => DOMAIN after[k.to] = DOMAIN rows[k.to]
    PROVE  References(after, t, k)
<1> SUFFICES ASSUME NEW i \in DOMAIN after[t], k.col \in DOMAIN after[t][i], k.to \in DOMAIN Kept
             PROVE  after[t][i][k.col] \in DOMAIN after[k.to] \cup {NULL}
  BY DEF References
<1>1. i \in DOMAIN rows[t] /\ k.col \in DOMAIN rows[t][i] /\ after[t][i][k.col] = rows[t][i][k.col]
  BY DEF Kindred, Alike
<1>2. rows[t][i][k.col] \in DOMAIN rows[k.to] \cup {NULL}
  BY <1>1 DEF References
<1> QED
  BY <1>1, <1>2

\* A table whose rows satisfy its definition and its keys.
LegalTable(d, t) ==
    RowsLegal(d.tables[t], d.rows[t]) /\ \A k \in d.tables[t].keys : References(d.rows, t, k)

\* The rows of a table that a sound statement alters stay legal.
LEMMA LegalAltered ==
    ASSUME NEW d, WellFormed(d), Orderly(d), Legal(d), NEW s, Sound(s), s.op \in Alterations,
           NEW e, IsDatabase(e), Orderly(e), Done(d, s, e), NEW t, t = s.table, t \in DOMAIN Kept,
           t \in DOMAIN d.tables
    PROVE  LegalTable(e, t)
<1> DEFINE f == d.tables[t]
           rows == d.rows[t]
<1>1. /\ Touches(s) = t /\ Accepts(d, s) /\ t \in DOMAIN e.tables
      /\ e.tables[t] = Defined(f, s) /\ e.rows[t] = RowsAfter(rows, s)
  BY DEF Done, Touches, Alterations
<1>2. IsDefinition(f)
  BY DEF WellFormed
<1>3. RowsLegal(f, rows) /\ \A k \in f.keys : References(d.rows, t, k)
  BY DEF Legal
<1>4. FitsIn(f, t, DOMAIN d.tables)
  BY FitTable DEF Orderly
<1>5. /\ t \in OwnerTables => \A i \in DOMAIN rows : DOMAIN rows[i] \subseteq Kept[t]
      /\ t = "memories" => \A i \in DOMAIN rows :
            MemoryKey \subseteq DOMAIN rows[i] /\ "user_id" \notin DOMAIN rows[i]
  BY DEF Orderly
<1>6. NotNullHolds(Defined(f, s), RowsAfter(rows, s))
  BY <1>1, <1>2, <1>3, <1>5, FilledAltered DEF RowsLegal
<1>7. ChecksHold(Defined(f, s), RowsAfter(rows, s))
  BY <1>1, <1>2, <1>3, <1>4, CheckedAltered DEF RowsLegal, FitsIn
<1>8. \A u \in Defined(f, s).uniques : UniqueHolds(u, RowsAfter(rows, s))
  BY <1>1, <1>2, <1>3, <1>4, <1>5, UniqueAltered DEF RowsLegal
<1>9. ASSUME NEW k \in e.tables[t].keys PROVE References(e.rows, t, k)
  <2>0. Leaves(d, s, e)
    BY TablesAfter
  <2> DEFINE g == Defined(f, s)
  <2>1. k \in f.keys \/ (s.op = "add key" /\ k = s.key)
    <3>1. s.op = "drop column" => g.keys \subseteq f.keys
      BY DEF Defined, DefWithout
    <3>2. s.op = "drop key" => g.keys \subseteq f.keys
      BY <1>2 DEF Defined, IsDefinition
    <3>3. s.op = "add key" => g.keys = f.keys \cup {s.key}
      BY <1>2 DEF Defined, IsDefinition
    <3>4. s.op \notin {"drop column", "drop key", "add key"} => g.keys = f.keys
      BY <1>2 DEF Defined, IsDefinition, Alterations
    <3>5. k \in g.keys
      BY <1>1
    <3> HIDE DEF g, f
    <3> QED
      BY <3>1, <3>2, <3>3, <3>4, <3>5
  <2>2. References(d.rows, t, k)
    BY <1>1, <1>3, <2>1 DEF Accepts
  <2>3. s.op \in {"add column", "drop column"} => s.name # k.col
    <3>1. CASE s.op = "add column"
      <4>1. k.col \in DOMAIN f.cols
        BY <1>4, <2>1, <3>1 DEF FitsIn
      <4>2. s.name \notin DOMAIN f.cols
        BY <1>1, <3>1 DEF Accepts
      <4> QED
        BY <4>1, <4>2
    <3>2. CASE s.op = "drop column"
      <4>1. g.keys = {x \in f.keys : x.col # s.name}
        BY <3>2 DEF Defined, DefWithout
      <4>2. k \in g.keys
        BY <1>1
      <4> HIDE DEF g, f
      <4> QED
        BY <4>1, <4>2
    <3> QED
      BY <3>1, <3>2
  <2>4. Kindred(d.rows[t], e.rows[t], {k.col})
    BY <1>1, <2>3, RowsKept
  <2>5. k.to \in DOMAIN Kept => k.to \in DOMAIN e.tables
    BY <1>1, <1>9 DEF Orderly, OrderlyTable
  <2>6. k.to \in DOMAIN Kept => DOMAIN e.rows[k.to] = DOMAIN d.rows[k.to]
    <3>1. k.to # t /\ k.to \in DOMAIN Kept => e.rows[k.to] = d.rows[k.to]
      BY <1>1, <2>0, <2>5 DEF Leaves
    <3>2. k.to = t => DOMAIN e.rows[k.to] = DOMAIN d.rows[k.to]
      BY <1>1, RowsInPlace
    <3> QED
      BY <3>1, <3>2
  <2> QED
    BY <2>2, <2>4, <2>6, StillRefers
<1> QED
  BY <1>1, <1>6, <1>7, <1>8, <1>9 DEF LegalTable, RowsLegal

\* A sound statement that is done leaves every row legal: PostgreSQL checks what
\* the statement itself could break, and the rest is untouched.
LEMMA LegalStep ==
    ASSUME NEW d, WellFormed(d), Orderly(d), Legal(d), NEW s, Sound(s),
           NEW e, IsDatabase(e), Orderly(e), Done(d, s, e)
    PROVE  Legal(e)
<1> DEFINE t == Touches(s)
<1>0. Leaves(d, s, e)
  BY TablesAfter
<1>1. CASE s.op = "sql"
  BY <1>1 DEF Done
<1>2. CASE s.op # "sql"
  <2> SUFFICES ASSUME NEW u \in DOMAIN e.tables PROVE LegalTable(e, u)
    BY DEF Legal, LegalTable
  <2>1. CASE DOMAIN e.rows[u] = {}
    <3>1. RowsLegal(e.tables[u], e.rows[u])
      BY <2>1, BareLegal
    <3> QED
      BY <2>1, <3>1 DEF LegalTable, References
  <2>2. CASE u \notin DOMAIN Kept
    BY <2>1, <2>2 DEF Orderly
  <2>3. CASE u \in DOMAIN Kept /\ u # t
    <3>1. u \in DOMAIN d.tables /\ e.tables[u] = d.tables[u] /\ e.rows[u] = d.rows[u]
      BY <1>0, <2>3 DEF Leaves
    <3>2. RowsLegal(e.tables[u], e.rows[u]) /\ \A k \in e.tables[u].keys : References(d.rows, u, k)
      BY <3>1 DEF Legal
    <3>3. ASSUME NEW k \in e.tables[u].keys, k.to \in DOMAIN Kept
          PROVE  DOMAIN e.rows[k.to] = DOMAIN d.rows[k.to]
      <4>1. k.to \in DOMAIN d.tables /\ k.to \in DOMAIN e.tables
        BY <2>3, <3>1, <3>3 DEF Orderly, OrderlyTable
      <4>2. CASE k.to # t
        BY <1>0, <4>1, <4>2 DEF Leaves
      <4>3. CASE k.to = t
        <5>1. s.op \notin {"create", "drop"}
          BY <4>1, <4>3 DEF Done
        <5>2. e.rows[t] = RowsAfter(d.rows[t], s)
          BY <1>2, <5>1 DEF Done
        <5> QED
          BY <4>3, <5>2, RowsInPlace
      <4> QED
        BY <4>2, <4>3
    <3>4. ASSUME NEW k \in e.tables[u].keys PROVE References(e.rows, u, k)
      <4>1. Kindred(d.rows[u], e.rows[u], {k.col})
        BY <3>1 DEF Kindred, Alike
      <4> QED
        BY <3>2, <3>3, <4>1, StillRefers
    <3> QED
      BY <3>2, <3>4 DEF LegalTable
  <2>4. CASE u = t /\ s.op = "create"
    BY <2>1, <2>4 DEF Done
  <2>5. CASE u \in DOMAIN Kept /\ u = t /\ s.op \notin {"create", "drop"}
    <3>1. u = s.table /\ s.op \in Alterations /\ u \in DOMAIN d.tables
      BY <1>2, <2>5 DEF Done, Touches
    <3> QED
      BY <2>5, <3>1, LegalAltered
  <2> QED
    BY <2>2, <2>3, <2>4, <2>5 DEF Done
<1> QED
  BY <1>1, <1>2

\* So does a script that is not refused.
LEMMA LegalRun ==
    ASSUME NEW a, NEW T, Footprint(a, T), NEW d, WellFormed(d), Orderly(d), Legal(d),
           Run(a, d).ok = TRUE
    PROVE  Orderly(Run(a, d)) /\ Legal(Run(a, d))
<1>1. Len(a) \in Nat /\ \A i \in 1 .. Len(a) : Sound(a[i])
  BY Scripts DEF Footprint, Obeys
<1>2. PICK done : Traces(done, a, d)
  BY RunSteps
<1> DEFINE S == {i \in Nat : Orderly(done[i]) /\ Legal(done[i])}
<1>3. 0 \in S
  BY <1>2 DEF Traces
<1>4. ASSUME NEW i \in 1 .. Len(a), i - 1 \in S PROVE i \in S
  <2>1. i \in Nat /\ i - 1 \in 0 .. Len(a) /\ i \in 0 .. Len(a)
    BY <1>1
  <2>2. /\ WellFormed(done[i - 1]) /\ IsDatabase(done[i]) /\ Sound(a[i])
        /\ Done(done[i - 1], a[i], done[i])
    BY <1>1, <1>2, <2>1 DEF Traces, WellFormed
  <2>3. Orderly(done[i])
    BY <1>4, <2>2, OrderlyStep
  <2>4. Legal(done[i])
    BY <1>4, <2>2, <2>3, LegalStep
  <2> QED
    BY <2>1, <2>3, <2>4
<1> HIDE DEF S
<1>5. \A i \in 0 .. Len(a) : i \in S
  BY <1>1, <1>3, <1>4, InductionUpTo
<1>6. Len(a) \in S
  BY <1>1, <1>5
<1> QED
  BY <1>2, <1>6 DEF S, Traces

-----------------------------------------------------------------------------
(* The tables do not depend on the rows                                    *)

\* A statement accepted by two databases with the same tables gives both the
\* same.
LEMMA TwinStep ==
    ASSUME NEW d, IsDatabase(d), NEW e, IsDatabase(e), d.tables = e.tables,
           d.ok = TRUE, e.ok = TRUE, NEW s,
           Execute(d, s).ok = TRUE, Execute(e, s).ok = TRUE
    PROVE  Execute(d, s).tables = Execute(e, s).tables
<1> DEFINE t == s.table
           f == d.tables
           Next(x) == IF s.op = "create" THEN With(x, t, s.def)
                      ELSE IF s.op = "drop" THEN Without(x, t)
                      ELSE [x EXCEPT ![t] = Defined(@, s)]
<1>1. CASE s.op = "sql"
  <2>1. Execute(d, s).tables = d.tables /\ Execute(e, s).tables = e.tables
    BY <1>1 DEF Execute, IsDatabase
  <2> QED
    BY <2>1
<1>2. ASSUME NEW x, IsDatabase(x), x.ok = TRUE, s.op # "sql", Execute(x, s).ok = TRUE
      PROVE  Execute(x, s).tables = Next(x.tables)
  <2>1. Execute(x, s) = Define(x, s)
    BY <1>2 DEF Execute
  <2>2. Accepts(x, s)
    <3>1. ASSUME ~Accepts(x, s) PROVE FALSE
      <4>1. Define(x, s) = [x EXCEPT !.ok = FALSE]
        BY <3>1 DEF Define
      <4>2. [x EXCEPT !.ok = FALSE].ok = FALSE
        BY <1>2 DEF IsDatabase
      <4> QED
        BY <1>2, <2>1, <4>1, <4>2
    <3> QED
      BY <3>1
  <2>3. CASE s.op = "create"
    <3>1. Define(x, s) = [x EXCEPT !.tables = With(@, t, s.def), !.rows = With(@, t, <<>>)]
      BY <2>2, <2>3 DEF Define
    <3>2. [x EXCEPT !.tables = With(@, t, s.def), !.rows = With(@, t, <<>>)].tables = With(x.tables, t, s.def)
      BY <1>2 DEF IsDatabase
    <3> QED
      BY <2>1, <2>3, <3>1, <3>2
  <2>4. CASE s.op = "drop"
    <3>1. Define(x, s) = [x EXCEPT !.tables = Without(@, t), !.rows = Without(@, t)]
      BY <2>2, <2>4 DEF Define
    <3>2. [x EXCEPT !.tables = Without(@, t), !.rows = Without(@, t)].tables = Without(x.tables, t)
      BY <1>2 DEF IsDatabase
    <3> QED
      BY <2>1, <2>4, <3>1, <3>2
  <2>5. CASE s.op \notin {"create", "drop"}
    <3>1. Define(x, s) = [x EXCEPT !.tables[t] = Defined(@, s), !.rows[t] = RowsAfter(@, s)]
      BY <2>2, <2>5 DEF Define
    <3>2. [x EXCEPT !.tables[t] = Defined(@, s), !.rows[t] = RowsAfter(@, s)].tables
              = [x.tables EXCEPT ![t] = Defined(@, s)]
      BY <1>2 DEF IsDatabase
    <3> QED
      BY <2>1, <2>5, <3>1, <3>2
  <2> QED
    BY <2>3, <2>4, <2>5
<1> HIDE DEF Next
<1> QED
  BY <1>1, <1>2

\* Two runs of a script that are not refused end with the same tables if they
\* start with the same, whatever the rows.
LEMMA TwinRun ==
    ASSUME NEW a, NEW T, Footprint(a, T), NEW d, WellFormed(d), NEW e, WellFormed(e),
           d.tables = e.tables, Run(a, d).ok = TRUE, Run(a, e).ok = TRUE
    PROVE  Run(a, d).tables = Run(a, e).tables
<1> DEFINE n == Len(a)
<1>1. n \in Nat /\ \A i \in 1 .. n : Known(a[i])
  BY Scripts DEF Footprint, Obeys, Sound
<1>2. PICK f : Through(f, a, d) /\ Run(a, d) = f[n]
  BY <1>1, RunThrough
<1>3. PICK g : Through(g, a, e) /\ Run(a, e) = g[n]
  BY <1>1, RunThrough
<1> DEFINE S == {i \in Nat : /\ IsDatabase(f[i]) /\ IsDatabase(g[i])
                             /\ f[i].ok = TRUE /\ g[i].ok = TRUE => f[i].tables = g[i].tables}
<1>4. 0 \in S
  BY <1>2, <1>3 DEF Through, WellFormed
<1>5. ASSUME NEW i \in 1 .. n, i - 1 \in S PROVE i \in S
  <2> DEFINE x == f[i - 1]
             y == g[i - 1]
             s == a[i]
  <2>1. /\ Known(s) /\ f[i] = Execute(x, s) /\ g[i] = Execute(y, s) /\ i \in Nat
        /\ IsDatabase(x) /\ IsDatabase(y) /\ (x.ok = TRUE /\ y.ok = TRUE => x.tables = y.tables)
    BY <1>1, <1>2, <1>3, <1>5 DEF Through
  <2> HIDE DEF x, y, s
  <2>2. /\ IsDatabase(Execute(x, s)) /\ (Execute(x, s).ok = TRUE => x.ok = TRUE)
        /\ IsDatabase(Execute(y, s)) /\ (Execute(y, s).ok = TRUE => y.ok = TRUE)
    BY <2>1, Executed DEF Done
  <2>3. Execute(x, s).ok = TRUE /\ Execute(y, s).ok = TRUE => Execute(x, s).tables = Execute(y, s).tables
    BY <2>1, <2>2, TwinStep
  <2> QED
    BY <2>1, <2>2, <2>3
<1> HIDE DEF S
<1>6. \A i \in 0 .. n : i \in S
  BY <1>1, <1>4, <1>5, InductionUpTo
<1>7. n \in S
  BY <1>1, <1>6
<1> QED
  BY <1>2, <1>3, <1>7 DEF S

-----------------------------------------------------------------------------
(* Which scripts cannot be refused                                         *)

\* A statement is executed when it is accepted, a data statement when the rows
\* it leaves are legal.
Passes(d, s) ==
    IF s.op = "sql" THEN Legal([d EXCEPT !.rows = DataStatement(s.name, @)]) ELSE Accepts(d, s)

\* It is then not refused.
LEMMA PassesExecutes ==
    ASSUME NEW d, IsDatabase(d), d.ok = TRUE, NEW s, Known(s), Passes(d, s)
    PROVE  Execute(d, s).ok = TRUE /\ Done(d, s, Execute(d, s))
<1>1. Execute(d, s).ok = TRUE
  <2>1. CASE s.op = "sql"
    <3> DEFINE after == [d EXCEPT !.rows = DataStatement(s.name, @)]
    <3>1. Legal(after)
      BY <2>1 DEF Passes
    <3>2. Execute(d, s) = [after EXCEPT !.ok = Legal(after)]
      BY <2>1 DEF Execute
    <3>3. \A v : [after EXCEPT !.ok = v].ok = v
      BY DEF IsDatabase
    <3>4. Legal(after) = TRUE
      <4>1. Legal(after) \in BOOLEAN
        BY DEF Legal
      <4> HIDE DEF after
      <4> QED
        BY <3>1, <4>1
    <3> HIDE DEF after
    <3> QED
      BY <3>2, <3>3, <3>4
  <2>2. CASE s.op # "sql"
    <3>1. Accepts(d, s)
      BY <2>2 DEF Passes
    <3>2. Execute(d, s) = Define(d, s)
      BY <2>2 DEF Execute
    <3>3. Define(d, s).ok = TRUE
      <4>1. CASE s.op = "create"
        BY <3>1, <4>1 DEF Define, IsDatabase
      <4>2. CASE s.op = "drop"
        BY <3>1, <4>2 DEF Define, IsDatabase
      <4>3. CASE s.op \notin {"create", "drop"}
        BY <3>1, <4>3 DEF Define, IsDatabase
      <4> QED
        BY <4>1, <4>2, <4>3
    <3> QED
      BY <3>2, <3>3
  <2> QED
    BY <2>1, <2>2
<1> QED
  BY <1>1, Executed

\* Two databases with the same tables, the first of which is legal.
Fit(d) == WellFormed(d) /\ Orderly(d) /\ Legal(d) /\ d.ok = TRUE
Twins(d, b) == Fit(d) /\ WellFormed(b) /\ b.ok = TRUE /\ d.tables = b.tables

\* They stay twins when a statement passes on both.
LEMMA TwinsStep ==
    ASSUME NEW d, NEW b, Twins(d, b), NEW s, Sound(s), Passes(d, s), Execute(b, s).ok = TRUE
    PROVE  Twins(Execute(d, s), Execute(b, s)) /\ Done(d, s, Execute(d, s))
<1>1. IsDatabase(d) /\ IsDatabase(b) /\ Known(s) /\ d.ok = TRUE
  BY DEF Twins, Fit, WellFormed, Sound
<1>2. Execute(d, s).ok = TRUE /\ Done(d, s, Execute(d, s)) /\ IsDatabase(Execute(d, s))
  BY <1>1, PassesExecutes, Executed
<1>3. Done(b, s, Execute(b, s)) /\ IsDatabase(Execute(b, s))
  BY <1>1, Executed
<1>4. WellFormed(Execute(d, s)) /\ WellFormed(Execute(b, s))
  BY <1>2, <1>3, FormKept DEF Twins, Fit
<1>5. Orderly(Execute(d, s))
  BY <1>2, OrderlyStep DEF Twins, Fit
<1>6. Legal(Execute(d, s))
  BY <1>2, <1>5, LegalStep DEF Twins, Fit
<1>7. Execute(d, s).tables = Execute(b, s).tables
  BY <1>1, <1>2, TwinStep DEF Twins
<1> QED
  BY <1>2, <1>4, <1>5, <1>6, <1>7 DEF Twins, Fit

\* Two runs that are not refused lead from twins to twins.
LEMMA TwinsRun ==
    ASSUME NEW a, NEW T, Footprint(a, T), NEW d, NEW b, Twins(d, b),
           Run(a, d).ok = TRUE, Run(a, b).ok = TRUE
    PROVE  Twins(Run(a, d), Run(a, b))
<1>1. WellFormed(d) /\ Orderly(d) /\ Legal(d) /\ WellFormed(b) /\ d.tables = b.tables
  BY DEF Twins, Fit
<1>2. WellFormed(Run(a, d)) /\ WellFormed(Run(a, b))
  BY <1>1, RunForm
<1>3. Orderly(Run(a, d)) /\ Legal(Run(a, d))
  BY <1>1, LegalRun
<1>4. Run(a, d).tables = Run(a, b).tables
  BY <1>1, TwinRun
<1> QED
  BY <1>2, <1>3, <1>4 DEF Twins, Fit

\* Statements that no row can refuse: they ask nothing of the rows, or their
\* table has none, or what they ask is weaker than what was in force.
Empty(t, d) == t \in DOMAIN d.tables => DOMAIN d.rows[t] = {}
Mild(d, s) ==
    \/ s.op \in RowFree
    \/ s.op \in Alterations /\ Empty(s.table, d)
    \/ s.op = "add column" /\ s.col # Required
    \/ s.op = "alter column" /\ (s.col.null = TRUE \/ d.tables[s.table].cols[s.name].null = FALSE)
    \/ s.op = "add key" /\ s.key.to \notin DOMAIN Kept

\* They pass where they passed on the same tables.
LEMMA MildPasses ==
    ASSUME NEW d, NEW b, Twins(d, b), NEW s, Accepts(b, s), Mild(d, s), s.op # "sql"
    PROVE  Passes(d, s)
<1>1. d.tables = b.tables /\ WellFormed(d) /\ Legal(d)
  BY DEF Twins, Fit
<1>2. CASE s.op = "create"
  BY <1>1, <1>2 DEF Accepts, Passes
<1>3. CASE s.op # "create"
  <2> DEFINE f == d.tables[s.table]
             rows == d.rows[s.table]
  <2>1. s.table \in DOMAIN d.tables /\ f = b.tables[s.table]
    BY <1>1, <1>3 DEF Accepts
  <2>2. CASE s.op \in RowFree
    BY <1>1, <1>3, <2>2 DEF Accepts, Passes, RowFree
  <2>3. CASE s.op = "add column" /\ (DOMAIN rows = {} \/ s.col # Required)
    BY <1>1, <1>3, <2>3 DEF Accepts, Passes
  <2>4. CASE s.op = "alter column" /\ (DOMAIN rows = {} \/ s.col.null = TRUE \/ f.cols[s.name].null = FALSE)
    <3>1. s.name \in DOMAIN f.cols
      BY <1>1, <2>4 DEF Accepts
    <3>2. NotNullHolds(f, rows)
      BY <1>1, <2>1 DEF Legal, RowsLegal
    <3> DEFINE h == [f EXCEPT !.cols[s.name] = s.col]
    <3>5. DOMAIN rows # {} => IsDefinition(f)
      BY <2>1 DEF Twins, Fit, Orderly, WellFormed
    <3>3. DOMAIN rows # {} => \A c \in DOMAIN h.cols :
             c \in DOMAIN f.cols /\ h.cols[c] = IF c = s.name THEN s.col ELSE f.cols[c]
      <4> SUFFICES ASSUME IsDefinition(f)
                   PROVE  \A c \in DOMAIN h.cols :
                             c \in DOMAIN f.cols /\ h.cols[c] = IF c = s.name THEN s.col ELSE f.cols[c]
        BY <3>5
      <4>1. h.cols = [f.cols EXCEPT ![s.name] = s.col]
        BY DEF IsDefinition
      <4> HIDE DEF h
      <4> QED
        BY <3>1, <4>1
    <3>4. NotNullHolds(h, rows)
      <4> HIDE DEF h, f, rows
      <4> QED
        BY <2>4, <3>1, <3>2, <3>3 DEF NotNullHolds
    <3> QED
      BY <2>1, <2>4, <3>1, <3>4 DEF Accepts, Passes
  <2>5. CASE s.op = "add key" /\ (DOMAIN rows = {} \/ s.key.to \notin DOMAIN Kept)
    <3>1. References(d.rows, s.table, s.key)
      BY <2>5 DEF References
    <3> QED
      BY <1>1, <2>5, <3>1 DEF Accepts, Passes
  <2>6. CASE s.op = "add check" /\ DOMAIN rows = {}
    <3>1. \A g : ChecksHold(g, rows)
      BY <2>6 DEF ChecksHold
    <3> HIDE DEF rows
    <3> QED
      BY <1>1, <2>6, <3>1 DEF Accepts, Passes, rows
  <2>7. CASE s.op = "add unique" /\ DOMAIN rows = {}
    <3>1. UniqueHolds(s.unique, rows)
      BY <2>7 DEF UniqueHolds
    <3> QED
      BY <1>1, <2>7, <3>1 DEF Accepts, Passes
  <2>8. CASE s.op \in Alterations /\ DOMAIN rows = {}
    BY <2>2, <2>3, <2>4, <2>5, <2>6, <2>7, <2>8 DEF Alterations, RowFree
  <2> QED
    BY <1>3, <2>1, <2>2, <2>3, <2>4, <2>5, <2>8 DEF Mild, Empty
<1> QED
  BY <1>2, <1>3

\* A statement on the definitions fills no table.
LEMMA StaysEmpty ==
    ASSUME NEW d, NEW s, NEW e, Done(d, s, e), s.op # "sql", NEW t, Empty(t, d)
    PROVE  Empty(t, e)
<1>1. CASE t # Touches(s)
  BY <1>1 DEF Done, Same, Empty
<1>2. CASE t = Touches(s) /\ s.op = "create"
  BY <1>2 DEF Done, Empty
<1>3. CASE t = Touches(s) /\ s.op = "drop"
  BY <1>3 DEF Done, Empty
<1>4. CASE t = Touches(s) /\ s.op \notin {"create", "drop"}
  <2>1. t \in DOMAIN d.tables /\ e.rows[t] = RowsAfter(d.rows[t], s)
    BY <1>4 DEF Done
  <2> QED
    BY <2>1, RowsInPlace DEF Empty
<1> QED
  BY <1>1, <1>2, <1>3, <1>4

\* The rows of a table after a statement that assigned the columns C, and left
\* only those in N without a value that they had.
Rewritten(rows, after, C, N) ==
    /\ DOMAIN after = DOMAIN rows
    /\ \A i \in DOMAIN rows :
          /\ DOMAIN after[i] = DOMAIN rows[i]
          /\ \A c \in DOMAIN rows[i] :
                /\ c \notin C => after[i][c] = rows[i][c]
                /\ c \notin N /\ after[i][c] = NULL => rows[i][c] = NULL

\* The same of one row.
Altered(r, q, C, N) ==
    /\ DOMAIN q = DOMAIN r
    /\ \A c \in DOMAIN r :
          /\ c \notin C => q[c] = r[c]
          /\ c \notin N /\ q[c] = NULL => r[c] = NULL

\* Rows are rewritten when each of them is.
LEMMA RewrittenRows ==
    ASSUME NEW rows, NEW after, NEW C, NEW N, DOMAIN after = DOMAIN rows,
           \A i \in DOMAIN rows : Altered(rows[i], after[i], C, N)
    PROVE  Rewritten(rows, after, C, N)
<1>1. SUFFICES ASSUME NEW i \in DOMAIN rows
               PROVE  /\ DOMAIN after[i] = DOMAIN rows[i]
                      /\ \A c \in DOMAIN rows[i] :
                            /\ c \notin C => after[i][c] = rows[i][c]
                            /\ c \notin N /\ after[i][c] = NULL => rows[i][c] = NULL
  BY ZenonT(30) DEF Rewritten
<1>2. Altered(rows[i], after[i], C, N)
  OBVIOUS
<1> QED
  BY <1>2 DEF Altered

\* They stay unique where none of those columns counts.
LEMMA UniqueRewritten ==
    ASSUME NEW rows, NEW after, NEW C, NEW N, Rewritten(rows, after, C, N), NEW u, UniqueHolds(u, rows),
           u.on \cap C = {},
           u.active = TRUE => "status" \notin C /\ \A i \in DOMAIN rows : "status" \in DOMAIN rows[i],
           \A i, j \in DOMAIN rows : u.on \cap DOMAIN rows[i] \subseteq DOMAIN rows[j]
    PROVE  UniqueHolds(u, after)
<1> SUFFICES ASSUME NEW i \in DOMAIN after, NEW j \in DOMAIN after,
                    u.active => after[i].status = "active", u.active => after[j].status = "active",
                    \A c \in u.on \cap DOMAIN after[i] : after[i][c] = after[j][c]
             PROVE  i = j
  BY DEF UniqueHolds
<1>1. i \in DOMAIN rows /\ j \in DOMAIN rows
  BY DEF Rewritten
<1>2. ASSUME NEW c \in u.on \cap DOMAIN rows[i] PROVE rows[i][c] = rows[j][c]
  <2>1. c \in DOMAIN rows[j] /\ c \notin C /\ c \in DOMAIN after[i]
    BY <1>1, <1>2 DEF Rewritten
  <2>2. after[i][c] = rows[i][c] /\ after[j][c] = rows[j][c]
    BY <1>1, <1>2, <2>1 DEF Rewritten
  <2> QED
    BY <2>1, <2>2
<1>3. u.active => rows[i].status = "active" /\ rows[j].status = "active"
  <2> SUFFICES ASSUME u.active PROVE rows[i]["status"] = "active" /\ rows[j]["status"] = "active"
    OBVIOUS
  <2>1. "status" \notin C /\ "status" \in DOMAIN rows[i] /\ "status" \in DOMAIN rows[j]
    BY <1>1
  <2> QED
    BY <1>1, <2>1 DEF Rewritten
<1> QED
  BY <1>1, <1>2, <1>3 DEF UniqueHolds

\* Rewritten rows are legal when what was assigned is not constrained.
LEMMA RewriteLegal ==
    ASSUME NEW d, Fit(d), NEW e, e.tables = d.tables, DOMAIN e.rows = DOMAIN d.rows,
           NEW t \in DOMAIN d.tables, \A u : u # t => e.rows[u] = d.rows[u],
           NEW C, NEW N, Rewritten(d.rows[t], e.rows[t], C, N),
           NullsAllowed(d.tables[t], N), C \cap DOMAIN d.tables[t].checks = {},
           \A k \in d.tables[t].keys : k.col \notin C,
           \A u \in d.tables[t].uniques : UniqueHolds(u, e.rows[t])
    PROVE  Legal(e)
<1> SUFFICES ASSUME NEW v \in DOMAIN d.tables
             PROVE  /\ RowsLegal(d.tables[v], e.rows[v])
                    /\ \A k \in d.tables[v].keys : References(e.rows, v, k)
  BY DEF Legal
<1> DEFINE f == d.tables[v]
           rows == d.rows[v]
           after == e.rows[v]
<1>1. RowsLegal(f, rows) /\ \A k \in f.keys : References(d.rows, v, k)
  BY DEF Fit, Legal
<1>2. \A u : DOMAIN e.rows[u] = DOMAIN d.rows[u]
  BY DEF Rewritten
<1>3. ASSUME NEW k \in f.keys PROVE References(e.rows, v, k)
  <2> SUFFICES ASSUME NEW i \in DOMAIN after, k.col \in DOMAIN after[i], k.to \in DOMAIN Kept
               PROVE  after[i][k.col] \in DOMAIN d.rows[k.to] \cup {NULL}
    BY <1>2 DEF References
  <2>1. CASE v # t
    BY <1>1, <1>3, <2>1 DEF References
  <2>2. CASE v = t
    <3>1. i \in DOMAIN rows /\ k.col \in DOMAIN rows[i] /\ after[i][k.col] = rows[i][k.col]
      BY <1>3, <2>2 DEF Rewritten
    <3> QED
      BY <1>1, <1>3, <3>1 DEF References
  <2> QED
    BY <2>1, <2>2
<1>4. RowsLegal(f, after)
  <2>1. CASE v # t
    BY <1>1, <2>1
  <2>2. CASE v = t
    <3>1. Rewritten(rows, after, C, N) /\ NotNullHolds(f, rows) /\ ChecksHold(f, rows)
      BY <1>1, <2>2 DEF RowsLegal
    <3>2. NullsAllowed(f, N) /\ C \cap DOMAIN f.checks = {}
      BY <2>2
    <3>3. \A u \in f.uniques : UniqueHolds(u, after)
      BY <2>2
    <3> HIDE DEF f, rows, after
    <3>4. NotNullHolds(f, after)
      BY <3>1, <3>2 DEF Rewritten, NullsAllowed, NotNullHolds
    <3>5. ChecksHold(f, after)
      BY <3>1, <3>2 DEF Rewritten, ChecksHold
    <3> QED
      BY <3>3, <3>4, <3>5 DEF RowsLegal
  <2> QED
    BY <2>1, <2>2
<1> QED
  BY <1>3, <1>4

\* The data statements on profiles and memories assign what Writes says.
LEMMA DataRewrites ==
    ASSUME NEW name \in DataNames, NEW t \in OwnerTables \cup {"memories"}, t = DataTable(name),
           NEW rows, t \in DOMAIN rows
    PROVE  Rewritten(rows[t], DataStatement(name, rows)[t], Writes(name), MayLeaveNull(name))
<1> DEFINE after == DataStatement(name, rows)
<1>0. t \in {"characters", "personas", "memories"}
  BY DEF OwnerTables
<1>1. CASE name = "project characters"
  <2>1. /\ t = "characters" /\ Writes(name) = {"name", "tagline", "description", "is_active"}
        /\ MayLeaveNull(name) = {"name", "tagline", "description"}
    BY <1>1 DEF DataTable, Writes, MayLeaveNull
  <2>2. after = ProjectCharacters(rows)
    BY <1>1 DEF DataStatement
  <2>3. /\ DOMAIN after[t] = DOMAIN rows[t]
        /\ \A i \in DOMAIN rows[t] :
              after[t][i] = rows[t][i] \/ \E cv : after[t][i] = ProjectedCharacter(rows[t][i], cv)
    BY <2>1, <2>2 DEF ProjectCharacters
  <2>4. \A r, cv : Altered(r, ProjectedCharacter(r, cv), Writes(name), MayLeaveNull(name))
    BY <2>1 DEF ProjectedCharacter, Altered, NULL
  <2>5. \A r : Altered(r, r, Writes(name), MayLeaveNull(name))
    BY DEF Altered
  <2> HIDE DEF after
  <2>6. \A i \in DOMAIN rows[t] : Altered(rows[t][i], after[t][i], Writes(name), MayLeaveNull(name))
    BY <2>3, <2>4, <2>5
  <2>7. Rewritten(rows[t], after[t], Writes(name), MayLeaveNull(name))
    BY <2>3, <2>6, RewrittenRows
  <2> QED
    BY <2>7 DEF after
<1>2. CASE name = "project personas"
  <2>1. /\ t = "personas" /\ MayLeaveNull(name) = Writes(name)
        /\ Writes(name) = {"name", "instructions", "attributes_traits", "attributes_pronouns"}
    BY <1>2 DEF DataTable, Writes, MayLeaveNull
  <2>2. after = ProjectPersonas(rows)
    BY <1>2 DEF DataStatement
  <2>3. /\ DOMAIN after[t] = DOMAIN rows[t]
        /\ \A i \in DOMAIN rows[t] :
              after[t][i] = rows[t][i] \/ \E pv : after[t][i] = ProjectedPersona(rows[t][i], pv)
    BY <2>1, <2>2 DEF ProjectPersonas
  <2>4. \A r, pv : Altered(r, ProjectedPersona(r, pv), Writes(name), MayLeaveNull(name))
    BY <2>1 DEF ProjectedPersona, Altered, NULL
  <2>5. \A r : Altered(r, r, Writes(name), MayLeaveNull(name))
    BY DEF Altered
  <2> HIDE DEF after
  <2>6. \A i \in DOMAIN rows[t] : Altered(rows[t][i], after[t][i], Writes(name), MayLeaveNull(name))
    BY <2>3, <2>4, <2>5
  <2>7. Rewritten(rows[t], after[t], Writes(name), MayLeaveNull(name))
    BY <2>3, <2>6, RewrittenRows
  <2> QED
    BY <2>7 DEF after
<1>3. CASE name \in {"name characters", "name personas"}
  <2>1. Writes(name) = {"name"} /\ MayLeaveNull(name) = {"name"}
    BY <1>3 DEF Writes, MayLeaveNull
  <2>2. after = NameRows(rows, t, IF t = "characters" THEN "Character" ELSE "Persona")
    BY <1>3 DEF DataStatement, DataTable
  <2>3. /\ DOMAIN after[t] = DOMAIN rows[t]
        /\ \A i \in DOMAIN rows[t] :
              \/ after[t][i] = rows[t][i]
              \/ \E v : after[t][i] = [rows[t][i] EXCEPT !["name"] = v]
    <3>1. ASSUME NEW x
          PROVE  LET q == NameRows(rows, t, x)
                 IN /\ DOMAIN q[t] = DOMAIN rows[t]
                    /\ \A i \in DOMAIN rows[t] :
                          q[t][i] = rows[t][i] \/ q[t][i] = [rows[t][i] EXCEPT !["name"] = x]
      BY DEF NameRows, Updated
    <3>2. PICK x : after = NameRows(rows, t, x)
      BY <2>2
    <3> HIDE DEF after
    <3>3. /\ DOMAIN after[t] = DOMAIN rows[t]
          /\ \A i \in DOMAIN rows[t] :
                after[t][i] = rows[t][i] \/ after[t][i] = [rows[t][i] EXCEPT !["name"] = x]
      BY <3>1, <3>2
    <3> QED
      BY <3>3
  <2> HIDE DEF after
  <2> QED
    BY <2>1, <2>3 DEF Rewritten, after
<1>4. CASE name = "fill bookkeeping"
  <2>1. /\ t = "memories" /\ Writes(name) = {"status", "normalized_key"}
        /\ MayLeaveNull(name) = {"normalized_key"}
    BY <1>4 DEF DataTable, Writes, MayLeaveNull
  <2>2. /\ DOMAIN after[t] = DOMAIN rows[t]
        /\ \A i \in DOMAIN rows[t] : after[t][i] = FilledRow(rows[t][i], i)
    BY <1>4, <2>1, MemoryFilled DEF Refilled
  <2>3. \A m, i : \E v, w : v # NULL /\ FilledRow(m, i) = [m EXCEPT !["status"] = v, !["normalized_key"] = w]
    <3> TAKE m, i
    <3> DEFINE v == Coalesce(m.status, IF m.archived_at = NULL THEN "active" ELSE "archived")
               w == Coalesce(m.normalized_key, i)
    <3>1. v # NULL
      BY DEF Coalesce, NULL
    <3>2. FilledRow(m, i) = [m EXCEPT !["status"] = v, !["normalized_key"] = w]
      BY DEF FilledRow
    <3> HIDE DEF v, w
    <3> QED
      BY <3>1, <3>2
  <2> HIDE DEF after
  <2>4. \A i \in DOMAIN rows[t] :
           \E v, w : v # NULL /\ after[t][i] = [rows[t][i] EXCEPT !["status"] = v, !["normalized_key"] = w]
    <3> TAKE i \in DOMAIN rows[t]
    <3> DEFINE m == rows[t][i]
    <3>1. after[t][i] = FilledRow(m, i)
      BY <2>2
    <3> HIDE DEF m
    <3>2. PICK v, w : v # NULL /\ FilledRow(m, i) = [m EXCEPT !["status"] = v, !["normalized_key"] = w]
      BY <2>3
    <3>3. after[t][i] = [m EXCEPT !["status"] = v, !["normalized_key"] = w]
      BY <3>1, <3>2
    <3> QED
      BY <3>2, <3>3 DEF m
  <2> QED
    BY <2>1, <2>2, <2>4 DEF Rewritten, after
<1>5. CASE name \in {"keep scopes", "map scopes", "keep kinds", "map kinds", "archive memories",
                     "map revised kinds"}
  <2>1. t = "memories"
    BY <1>5 DEF DataTable
  <2> DEFINE F(m) == CASE name = "keep scopes" -> ScopeKept(m) [] name = "map scopes" -> ScopeMapped(m)
                       [] name = "keep kinds" -> KindKept(m) [] name = "map kinds" -> KindMapped(m)
                       [] name = "archive memories" -> MadeArchived(m)
                       [] name = "map revised kinds" -> KindRevised(m)
  <2>2. /\ DOMAIN after[t] = DOMAIN rows[t]
        /\ \A i \in DOMAIN rows[t] : after[t][i] = F(rows[t][i])
    <3>1. \/ name = "keep scopes" /\ Remade(rows, after, ScopeKept)
          \/ name = "map scopes" /\ Remade(rows, after, ScopeMapped)
          \/ name = "keep kinds" /\ Remade(rows, after, KindKept)
          \/ name = "map kinds" /\ Remade(rows, after, KindMapped)
          \/ name = "archive memories" /\ Remade(rows, after, MadeArchived)
          \/ name = "map revised kinds" /\ Remade(rows, after, KindRevised)
      BY <1>5, <2>1, MemoryStatements, KindsRevised
    <3> HIDE DEF after
    <3> QED
      BY <2>1, <3>1 DEF Remade
  <2>3. \A m : /\ DOMAIN F(m) = DOMAIN m
               /\ \A c \in DOMAIN m : /\ c \notin Writes(name) => F(m)[c] = m[c]
                                      /\ c \notin MayLeaveNull(name) /\ F(m)[c] = NULL => m[c] = NULL
    <3> SUFFICES ASSUME NEW m, NEW c \in DOMAIN m
                 PROVE  /\ DOMAIN F(m) = DOMAIN m
                        /\ c \notin Writes(name) => F(m)[c] = m[c]
                        /\ c \notin MayLeaveNull(name) /\ F(m)[c] = NULL => m[c] = NULL
      <4>1. \A m : DOMAIN F(m) = DOMAIN m
        <5> SUFFICES ASSUME NEW m PROVE DOMAIN F(m) = DOMAIN m
          OBVIOUS
        <5>1. /\ DOMAIN ScopeKept(m) = DOMAIN m /\ DOMAIN ScopeMapped(m) = DOMAIN m
              /\ DOMAIN KindKept(m) = DOMAIN m /\ DOMAIN KindMapped(m) = DOMAIN m
              /\ DOMAIN MadeArchived(m) = DOMAIN m /\ DOMAIN KindRevised(m) = DOMAIN m
          BY DEF ScopeKept, ScopeMapped, KindKept, KindMapped, MadeArchived, KindRevised
        <5> QED
          BY <1>5, <5>1
      <4> HIDE DEF F
      <4> QED
        BY <4>1
    <3>1. CASE name = "keep scopes"
      BY <3>1 DEF Writes, MayLeaveNull, ScopeKept
    <3>2. CASE name = "map scopes"
      BY <3>2 DEF Writes, MayLeaveNull, ScopeMapped, NULL
    <3>3. CASE name = "keep kinds"
      BY <3>3 DEF Writes, MayLeaveNull, KindKept
    <3>4. CASE name = "map kinds"
      BY <3>4 DEF Writes, MayLeaveNull, KindMapped, NULL
    <3>5. CASE name = "archive memories"
      BY <3>5 DEF Writes, MayLeaveNull, MadeArchived
    <3>6. CASE name = "map revised kinds"
      BY <3>6 DEF Writes, MayLeaveNull, KindRevised, NULL
    <3> QED
      BY <1>5, <3>1, <3>2, <3>3, <3>4, <3>5, <3>6
  <2> HIDE DEF F, after
  <2> QED
    BY <2>2, <2>3 DEF Rewritten, after
<1>6. CASE name \in {"version characters", "synchronize characters", "version personas",
                     "synchronize personas"}
  BY <1>0, <1>6 DEF DataTable
<1> HIDE DEF after
<1> QED
  BY <1>1, <1>2, <1>3, <1>4, <1>5, <1>6 DEF DataNames, after

\* A data statement leaves the rows legal where no constraint speaks of what it
\* assigns.
LEMMA LoosePasses ==
    ASSUME NEW d, Fit(d), NEW s, s.op = "sql", Sound(s), NEW t, t = DataTable(s.name),
           t \in OwnerTables \cup {"memories"}, t \in DOMAIN d.tables,
           NullsAllowed(d.tables[t], MayLeaveNull(s.name)), Unconstrained(d.tables[t], Writes(s.name))
    PROVE  Passes(d, s)
<1> DEFINE e == [d EXCEPT !.rows = DataStatement(s.name, @)]
           f == d.tables[t]
<1>1. s.name \in DataNames /\ IsDatabase(d) /\ t \in DOMAIN d.rows
  BY DEF Sound, Known, Fit, WellFormed, IsDatabase
<1>2. e.tables = d.tables /\ e.rows = DataStatement(s.name, d.rows)
  BY <1>1 DEF IsDatabase
<1>3. DOMAIN e.rows = DOMAIN d.rows /\ \A u : u # t => e.rows[u] = d.rows[u]
  BY <1>1, <1>2, DataWritten
<1>4. Rewritten(d.rows[t], e.rows[t], Writes(s.name), MayLeaveNull(s.name))
  BY <1>1, <1>2, DataRewrites
<1> HIDE DEF e
<1>5. ASSUME NEW u \in f.uniques PROVE UniqueHolds(u, e.rows[t])
  <2>1. t \in DOMAIN Kept /\ OrderlyTable(d, t)
    BY <1>1, DataTables DEF Fit, Orderly
  <2>2. t = "memories" /\ u.on \subseteq Identity
    BY <1>5, <2>1 DEF OrderlyTable, OwnerTables, VersionTables
  <2>3. UniqueHolds(u, d.rows[t])
    BY <1>5 DEF Fit, Legal, RowsLegal
  <2>4. \A i \in DOMAIN d.rows[t] : MemoryKey \subseteq DOMAIN d.rows[t][i] /\ "user_id" \notin DOMAIN d.rows[t][i]
    BY <2>2 DEF Fit, Orderly
  <2>5. Identity \subseteq MemoryKey \cup {"user_id"} /\ "status" \in MemoryKey
    BY DEF Identity, MemoryKey
  <2>6. \A i, j \in DOMAIN d.rows[t] : u.on \cap DOMAIN d.rows[t][i] \subseteq DOMAIN d.rows[t][j]
    BY <2>2, <2>4, <2>5
  <2>7. u.on \cap Writes(s.name) = {} /\ (u.active = TRUE => "status" \notin Writes(s.name))
    BY <1>5 DEF Unconstrained
  <2>8. \A i \in DOMAIN d.rows[t] : "status" \in DOMAIN d.rows[t][i]
    BY <2>4, <2>5
  <2>9. u.active = TRUE => "status" \notin Writes(s.name) /\ \A i \in DOMAIN d.rows[t] : "status" \in DOMAIN d.rows[t][i]
    BY <2>7, <2>8
  <2> DEFINE rows == d.rows[t]
             after == e.rows[t]
             W == Writes(s.name)
             N == MayLeaveNull(s.name)
  <2>10. /\ Rewritten(rows, after, W, N) /\ UniqueHolds(u, rows) /\ u.on \cap W = {}
         /\ u.active = TRUE => "status" \notin W /\ \A i \in DOMAIN rows : "status" \in DOMAIN rows[i]
         /\ \A i, j \in DOMAIN rows : u.on \cap DOMAIN rows[i] \subseteq DOMAIN rows[j]
    BY <1>4, <2>3, <2>6, <2>7, <2>9
  <2> HIDE DEF rows, after, W, N
  <2>11. UniqueHolds(u, after)
    BY <2>10, UniqueRewritten
  <2> QED
    BY <2>11 DEF after
<1>6. Writes(s.name) \cap DOMAIN f.checks = {} /\ \A k \in f.keys : k.col \notin Writes(s.name)
  BY DEF Unconstrained
<1>7. Legal(e)
  BY <1>2, <1>3, <1>4, <1>5, <1>6, RewriteLegal
<1> QED
  BY <1>7 DEF Passes, e

\* A data statement on a table that is not there changes nothing.
LEMMA AbsentPasses ==
    ASSUME NEW d, Fit(d), NEW s, s.op = "sql", Sound(s), DataTable(s.name) \notin DOMAIN d.tables
    PROVE  Passes(d, s)
<1> DEFINE e == [d EXCEPT !.rows = DataStatement(s.name, @)]
<1>1. s.name \in DataNames /\ IsDatabase(d)
  BY DEF Sound, Known, Fit, WellFormed
<1>2. e.tables = d.tables /\ e.rows = DataStatement(s.name, d.rows)
  BY <1>1 DEF IsDatabase
<1>3. DOMAIN e.rows = DOMAIN d.rows /\ \A u \in DOMAIN d.tables : e.rows[u] = d.rows[u]
  BY <1>1, <1>2, DataWritten
<1> HIDE DEF e
<1>4. \A t \in DOMAIN d.tables : \A k \in d.tables[t].keys : References(e.rows, t, k)
  <2> SUFFICES ASSUME NEW t \in DOMAIN d.tables, NEW k \in d.tables[t].keys, NEW i \in DOMAIN d.rows[t],
                      k.col \in DOMAIN d.rows[t][i], k.to \in DOMAIN Kept
               PROVE  d.rows[t][i][k.col] \in DOMAIN e.rows[k.to] \cup {NULL}
    BY <1>3 DEF References
  <2>1. d.rows[t][i][k.col] \in DOMAIN d.rows[k.to] \cup {NULL}
    BY DEF Fit, Legal, References
  <2>2. t \in DOMAIN Kept => k.to \in DOMAIN d.tables
    BY DEF Fit, Orderly, OrderlyTable
  <2>3. t \in DOMAIN Kept
    BY DEF Fit, Orderly
  <2> QED
    BY <1>3, <2>1, <2>2, <2>3
<1>5. Legal(e)
  BY <1>2, <1>3, <1>4 DEF Legal, Fit
<1> QED
  BY <1>5 DEF Passes, e

\* A harmless statement passes on rows when it passes without any.
LEMMA HarmlessPasses ==
    ASSUME NEW d, NEW b, Twins(d, b), NEW s, Sound(s), Execute(b, s).ok = TRUE,
           NEW B, \A t \in B : Empty(t, d), Harmless(b, s, B)
    PROVE  Passes(d, s)
<1>1. /\ IsDatabase(b) /\ Known(s) /\ d.tables = b.tables /\ Fit(d)
      /\ Done(b, s, Execute(b, s))
  BY Executed DEF Twins, WellFormed, Sound
<1>2. CASE s.op = "sql"
  <2> DEFINE t == DataTable(s.name)
  <2>1. t \in OwnerTables \cup {"memories"} /\ NullsAllowed(d.tables[t], MayLeaveNull(s.name))
        /\ Unconstrained(d.tables[t], Writes(s.name))
    BY <1>1, <1>2 DEF Harmless, RowFree
  <2> QED
    BY <1>1, <1>2, <2>1, LoosePasses, AbsentPasses
<1>3. CASE s.op # "sql"
  <2>1. Accepts(b, s) /\ (s.op \in RowFree \/ s.op \in Alterations)
    BY <1>1, <1>3 DEF Done, RowFree
  <2>2. s.table \in B \/ s.table \notin DOMAIN Kept => Empty(s.table, d)
    BY <1>1 DEF Fit, Orderly, Empty
  <2>3. Mild(d, s)
    BY <1>1, <1>3, <2>1, <2>2 DEF Harmless, Mild
  <2> QED
    BY <1>3, <2>1, <2>3, MildPasses
<1> QED
  BY <1>2, <1>3

\* Every profile has a name after the statement that names them.
LEMMA NamesGiven ==
    ASSUME NEW name \in {"name characters", "name personas"}, NEW t, t = DataTable(name),
           NEW rows, t \in DOMAIN rows, NEW i \in DOMAIN rows[t],
           "name" \in DOMAIN DataStatement(name, rows)[t][i]
    PROVE  DataStatement(name, rows)[t][i]["name"] # NULL
<1> DEFINE after == DataStatement(name, rows)
<1>1. \E x : x # NULL /\ after = NameRows(rows, t, x)
  <2>1. "Character" # NULL /\ "Persona" # NULL
    BY DEF NULL
  <2> QED
    BY <2>1 DEF DataStatement, DataTable
<1>2. PICK x : x # NULL /\ after = NameRows(rows, t, x)
  BY <1>1
<1>3. after[t][i] = IF rows[t][i]["name"] = NULL THEN [rows[t][i] EXCEPT !["name"] = x] ELSE rows[t][i]
  <2>1. NameRows(rows, t, x)[t][i] =
           IF rows[t][i]["name"] = NULL THEN [rows[t][i] EXCEPT !["name"] = x] ELSE rows[t][i]
    BY DEF NameRows, Updated
  <2> HIDE DEF after
  <2> QED
    BY <1>2, <2>1
<1> HIDE DEF after
<1> QED
  BY <1>2, <1>3 DEF after

\* What a statement prepared passes.
LEMMA PreparedPasses ==
    ASSUME NEW d, NEW b, Twins(d, b), NEW x, NEW y, Twins(x, y), NEW r, Sound(r), Done(d, r, x),
           NEW s, Sound(s), Execute(y, s).ok = TRUE, Prepares(b, r, s)
    PROVE  Passes(x, s)
<1>1. /\ IsDatabase(y) /\ Known(s) /\ Known(r) /\ x.tables = y.tables /\ d.tables = b.tables /\ Fit(x) /\ Fit(d)
      /\ Done(y, s, Execute(y, s)) /\ IsDatabase(x) /\ IsDatabase(d)
  BY Executed DEF Twins, Fit, WellFormed, Sound
<1>2. s.op \in {"alter column", "add key"} /\ Accepts(y, s)
  BY <1>1 DEF Prepares, Done
<1> DEFINE t == s.table
           f == x.tables[t]
           rows == x.rows[t]
<1>3. t \in DOMAIN x.tables /\ f = y.tables[t]
  BY <1>1, <1>2 DEF Accepts
<1>4. CASE r.op = "sql"
  <2>1. /\ r.name \in {"name characters", "name personas"} /\ t = DataTable(r.name)
        /\ s.op = "alter column" /\ s.name = "name"
    BY <1>4 DEF Prepares
  <2>2. x.rows = DataStatement(r.name, d.rows) /\ x.tables = d.tables
    BY <1>4 DEF Done
  <2>3. t \in DOMAIN d.rows /\ t \in OwnerTables
    BY <1>1, <1>3, <2>1, <2>2 DEF IsDatabase, DataTable, OwnerTables
  <2>4. Shaped(d.rows[t], rows)
    BY <1>1, <1>4, <2>1, <2>2, <2>3, DataShape DEF Known
  <2>5. \A i \in DOMAIN rows : "name" \in DOMAIN rows[i] => rows[i]["name"] # NULL
    BY <2>1, <2>2, <2>3, <2>4, NamesGiven DEF Shaped
  <2>6. NotNullHolds(f, rows) /\ IsDefinition(f)
    <3>1. t \in DOMAIN Kept
      BY <2>3 DEF OwnerTables, Kept
    <3> QED
      BY <1>1, <1>3, <3>1 DEF Fit, Legal, RowsLegal, WellFormed
  <2>7. "name" \in DOMAIN f.cols
    BY <1>2, <1>3, <2>1 DEF Accepts
  <2> DEFINE h == [f EXCEPT !.cols[s.name] = s.col]
  <2>8. h.cols = [f.cols EXCEPT !["name"] = s.col]
    BY <2>1, <2>6 DEF IsDefinition
  <2>9. NotNullHolds(h, rows)
    <3> HIDE DEF h, f, rows
    <3> QED
      BY <2>5, <2>6, <2>7, <2>8 DEF NotNullHolds
  <2> QED
    BY <1>3, <2>1, <2>7, <2>9 DEF Passes, Accepts
<1>5. CASE r.op # "sql"
  <2>1. /\ r.op = "drop key" /\ s.op = "add key" /\ t = r.table
        /\ \E k \in d.tables[t].keys : k.col = s.key.col /\ k.to = s.key.to
    BY <1>1, <1>5 DEF Prepares
  <2>2. PICK k \in d.tables[t].keys : k.col = s.key.col /\ k.to = s.key.to
    BY <2>1
  <2>3. /\ t \in DOMAIN d.tables /\ rows = RowsAfter(d.rows[t], r)
        /\ \A u : u # t => Same(u, d, x)
    BY <2>1 DEF Done, Touches
  <2>4. rows = d.rows[t]
    BY <2>1, <2>3 DEF RowsAfter
  <2>5. References(d.rows, t, k)
    BY <1>1, <2>2, <2>3 DEF Fit, Legal
  <2>6. CASE t \notin DOMAIN Kept
    <3>1. DOMAIN rows = {}
      BY <1>1, <1>3, <2>6 DEF Fit, Orderly
    <3>2. References(x.rows, t, s.key)
      BY <3>1 DEF References
    <3> QED
      BY <1>1, <1>2, <1>3, <2>1, <3>2 DEF Passes, Accepts
  <2>7. CASE t \in DOMAIN Kept
    <3>1. k.to \in DOMAIN d.tables
      BY <1>1, <2>2, <2>3, <2>7 DEF Fit, Orderly, OrderlyTable
    <3>2. DOMAIN x.rows[k.to] = DOMAIN d.rows[k.to]
      BY <2>3, <2>4, <3>1 DEF Same
    <3>3. References(x.rows, t, s.key)
      BY <2>2, <2>4, <2>5, <3>2 DEF References
    <3> QED
      BY <1>1, <1>2, <1>3, <2>1, <3>3 DEF Passes, Accepts
  <2> QED
    BY <2>6, <2>7
<1> QED
  BY <1>4, <1>5

\* Two runs that have led from twins to twins, through the first i statements.
InStep(f, h, a, i) ==
    /\ \A j \in 0 .. i : Twins(f[j], h[j])
    /\ \A j \in 1 .. i : Done(f[j - 1], a[j], f[j])

\* They stay in step when every statement passes that comes up in step.
LEMMA LockStep ==
    ASSUME NEW a, NEW T, Footprint(a, T), NEW d, NEW b, Twins(d, b),
           NEW f, Through(f, a, d), NEW h, Traces(h, a, b),
           \A i \in 1 .. Len(a) : InStep(f, h, a, i - 1) => Passes(f[i - 1], a[i])
    PROVE  InStep(f, h, a, Len(a)) /\ Twins(Run(a, d), Run(a, b))
<1> DEFINE n == Len(a)
           S == {i \in Nat : InStep(f, h, a, i)}
<1>1. n \in Nat /\ \A i \in 1 .. n : Sound(a[i])
  BY Scripts DEF Footprint, Obeys
<1>2. 0 \in S
  BY DEF InStep, Through, Traces
<1>3. ASSUME NEW i \in 1 .. n, i - 1 \in S PROVE i \in S
  <2>1. i \in Nat /\ i \in 0 .. n /\ InStep(f, h, a, i - 1) /\ Passes(f[i - 1], a[i]) /\ Sound(a[i])
    BY <1>1, <1>3
  <2>2. Twins(f[i - 1], h[i - 1]) /\ f[i] = Execute(f[i - 1], a[i])
    BY <1>3, <2>1 DEF InStep, Through
  <2>3. h[i] = Execute(h[i - 1], a[i]) /\ Execute(h[i - 1], a[i]).ok = TRUE
    BY <1>1, <1>3, <2>1 DEF Traces
  <2>4. Twins(f[i], h[i]) /\ Done(f[i - 1], a[i], f[i])
    BY <2>1, <2>2, <2>3, TwinsStep
  <2>5. \A j \in 0 .. i : j \in 0 .. i - 1 \/ j = i
    BY <2>1
  <2>6. \A j \in 1 .. i : j \in 1 .. i - 1 \/ j = i
    BY <2>1
  <2> QED
    BY <2>1, <2>4, <2>5, <2>6 DEF InStep
<1> HIDE DEF S
<1>4. \A i \in 0 .. n : i \in S
  BY <1>1, <1>2, <1>3, InductionUpTo
<1>5. InStep(f, h, a, n)
  BY <1>1, <1>4 DEF S
<1>6. Run(a, d) = f[n] /\ Run(a, b) = h[n] /\ n \in 0 .. n
  BY <1>1, ThroughRun DEF Traces
<1> QED
  BY <1>5, <1>6 DEF InStep

\* No statement but the versions' fills an empty table.
LEMMA EmptyKept ==
    ASSUME NEW d, IsDatabase(d), NEW s, Known(s), NEW e, Done(d, s, e),
           s.op = "sql" => DataTable(s.name) \in OwnerTables \cup {"memories"},
           NEW t, Empty(t, d)
    PROVE  Empty(t, e)
<1>1. CASE s.op # "sql"
  BY <1>1, StaysEmpty
<1>2. CASE s.op = "sql"
  <2>1. /\ e.tables = d.tables /\ e.rows = DataStatement(s.name, d.rows) /\ s.name \in DataNames
    BY <1>2 DEF Done, Known
  <2>2. CASE t # DataTable(s.name)
    BY <2>1, <2>2, DataWritten DEF Empty
  <2>3. CASE t = DataTable(s.name) /\ t \in DOMAIN d.tables
    <3>1. Shaped(d.rows[t], e.rows[t])
      BY <1>2, <2>1, <2>3, DataShape DEF IsDatabase
    <3> QED
      BY <2>3, <3>1 DEF Shaped, Empty
  <2> QED
    BY <2>1, <2>2, <2>3 DEF Empty
<1> QED
  BY <1>1, <1>2

\* The beginning of a run.
LEMMA AfterSteps ==
    ASSUME NEW a, IsList(a), NEW b, NEW h, Traces(h, a, b), NEW i \in 0 .. Len(a)
    PROVE  After(a, i, b) = h[i]
<1> DEFINE c == SubSeq(a, 1, i)
<1>1. Len(a) \in Nat /\ i \in Nat /\ a \in Seq(Members(a))
  BY Scripts DEF IsList
<1>2. Len(c) = i /\ \A j \in 1 .. i : c[j] = a[j]
  BY <1>1
<1> HIDE DEF c
<1>3. \A j \in 1 .. i : j \in 1 .. Len(a)
  BY <1>1
<1>4. Through(h, c, b)
  BY <1>2, <1>3 DEF Through, Traces
<1>5. Run(c, b) = h[i]
  BY <1>1, <1>2, <1>4, ThroughRun
<1> QED
  BY <1>5 DEF After, c

\* A harmless script is refused on no rows if it is not refused without.
LEMMA HarmlessRuns ==
    ASSUME NEW a, NEW T, Footprint(a, T), NEW d, NEW b, Twins(d, b), Run(a, b).ok = TRUE,
           NEW B, \A t \in B : Empty(t, d), HarmlessRun(a, b, B)
    PROVE  Twins(Run(a, d), Run(a, b)) /\ \A t \in B : Empty(t, Run(a, d))
<1> DEFINE n == Len(a)
<1>1. n \in Nat /\ IsList(a) /\ \A i \in 1 .. n : Sound(a[i])
  BY Scripts DEF Footprint, Obeys
<1>2. PICK h : Traces(h, a, b)
  BY RunSteps DEF Twins
<1>3. PICK f : Through(f, a, d) /\ Run(a, d) = f[n]
  BY <1>1, RunThrough
<1>4. ASSUME NEW i \in 1 .. n
      PROVE  Harmless(h[i - 1], a[i], B) \/ (i > 1 /\ Prepares(h[i - 2], a[i - 1], a[i]))
  <2>1. i - 1 \in 0 .. n /\ (i > 1 => i - 2 \in 0 .. n)
    BY <1>1
  <2>2. After(a, i - 1, b) = h[i - 1] /\ (i > 1 => After(a, i - 2, b) = h[i - 2])
    BY <1>1, <1>2, <2>1, AfterSteps
  <2> QED
    BY <2>2 DEF HarmlessRun
<1>5. ASSUME NEW i \in 1 .. n, a[i].op = "sql"
      PROVE  DataTable(a[i].name) \in OwnerTables \cup {"memories"}
  BY <1>4, <1>5 DEF Harmless, Prepares, RowFree
<1>6. ASSUME NEW i \in 0 .. n, InStep(f, h, a, i)
      PROVE  \A t \in B : Empty(t, f[i])
  <2> DEFINE S == {j \in Nat : \A t \in B : Empty(t, f[j])}
  <2>1. 0 \in S /\ i \in Nat
    BY <1>1, <1>3 DEF Through
  <2>2. ASSUME NEW j \in 1 .. i, j - 1 \in S PROVE j \in S
    <3>1. j \in 1 .. n /\ j \in Nat /\ j - 1 \in 0 .. i
      BY <1>1
    <3>2. Done(f[j - 1], a[j], f[j]) /\ IsDatabase(f[j - 1]) /\ Known(a[j])
      BY <1>1, <1>6, <3>1 DEF InStep, Twins, Fit, WellFormed, Sound
    <3> QED
      BY <1>5, <2>2, <3>1, <3>2, EmptyKept
  <2> HIDE DEF S
  <2>3. \A j \in 0 .. i : j \in S
    BY <2>1, <2>2, InductionUpTo
  <2>4. i \in S
    BY <2>1, <2>3
  <2> QED
    BY <2>4 DEF S
<1>7. ASSUME NEW i \in 1 .. n, InStep(f, h, a, i - 1) PROVE Passes(f[i - 1], a[i])
  <2> DEFINE s == a[i]
             x == f[i - 1]
             y == h[i - 1]
  <2>1. i - 1 \in 0 .. n /\ i - 1 \in 0 .. i - 1
    BY <1>1
  <2>2. Twins(x, y) /\ \A t \in B : Empty(t, x)
    BY <1>6, <1>7, <2>1 DEF InStep
  <2>3. Sound(s) /\ Execute(y, s).ok = TRUE
    <3>1. h[i] = Execute(y, s) /\ i \in 0 .. n
      BY <1>1, <1>2 DEF Traces
    <3> QED
      BY <1>1, <1>2, <3>1 DEF Traces
  <2>4. CASE Harmless(y, s, B)
    <3> HIDE DEF x, y, s
    <3>1. Passes(x, s)
      BY <2>2, <2>3, <2>4, HarmlessPasses
    <3> QED
      BY <3>1 DEF x, s
  <2>5. CASE i > 1 /\ Prepares(h[i - 2], a[i - 1], s)
    <3> DEFINE k == i - 1
    <3>1. k \in 1 .. n /\ k \in 1 .. i - 1 /\ k - 1 \in 0 .. i - 1 /\ k - 1 = i - 2
      BY <1>1, <2>5
    <3> HIDE DEF k
    <3>2. Twins(f[k - 1], h[k - 1]) /\ Done(f[k - 1], a[k], f[k]) /\ Sound(a[k])
      BY <1>1, <1>7, <3>1 DEF InStep
    <3>3. x = f[k] /\ y = h[k] /\ Prepares(h[k - 1], a[k], s)
      BY <2>5, <3>1 DEF k
    <3> HIDE DEF x, y, s
    <3>4. Passes(x, s)
      BY <2>2, <2>3, <3>2, <3>3, PreparedPasses
    <3> QED
      BY <3>4 DEF x, s
  <2> QED
    BY <1>4, <2>4, <2>5
<1>8. InStep(f, h, a, n) /\ Twins(Run(a, d), Run(a, b))
  BY <1>2, <1>3, <1>7, LockStep
<1>9. n \in 0 .. n
  BY <1>1
<1> QED
  BY <1>3, <1>6, <1>8, <1>9

-----------------------------------------------------------------------------
(* Mapping the scopes                                                      *)

\* Two active memories that are told apart by what the bridge does not keep.
Merged(ms) ==
    \E i, j \in DOMAIN ms :
        /\ i # j /\ ms[i]["status"] = "active" /\ ms[j]["status"] = "active"
        /\ \A c \in MemoryKey : ScopeMapped(ms[i])[c] = ScopeMapped(ms[j])[c]

\* The scopes can be mapped when there are none.
LEMMA ScopesPass ==
    ASSUME NEW d, Fit(d), "memories" \in DOMAIN d.tables,
           d.tables["memories"].uniques = {[on |-> Identity, active |-> TRUE]},
           Unconstrained([d.tables["memories"] EXCEPT !.uniques = {}], {"scope"}),
           ~ Merged(d.rows["memories"])
    PROVE  Passes(d, Sql("map scopes"))
<1> DEFINE after == DataStatement("map scopes", d.rows)
           e == [d EXCEPT !.rows = DataStatement("map scopes", @)]
           f == d.tables["memories"]
           rows == d.rows["memories"]
           done == after["memories"]
<1>1. /\ "map scopes" \in DataNames /\ DataTable("map scopes") = "memories" /\ "memories" \in DOMAIN Kept
      /\ Writes("map scopes") = {"scope"} /\ MayLeaveNull("map scopes") = {}
  BY KeptTables DEF DataNames, DataTable, Writes, MayLeaveNull
<1>2. IsDatabase(d) /\ "memories" \in DOMAIN d.rows /\ IsDefinition(f)
  BY <1>1 DEF Fit, WellFormed, IsDatabase
<1>3. e.tables = d.tables /\ e.rows = after
  BY <1>2 DEF IsDatabase
<1>4. DOMAIN after = DOMAIN d.rows /\ \A u : u # "memories" => after[u] = d.rows[u]
  <2>1. /\ DOMAIN DataStatement("map scopes", d.rows) = DOMAIN d.rows
        /\ \A u : u # DataTable("map scopes") => DataStatement("map scopes", d.rows)[u] = d.rows[u]
    BY <1>1, DataWritten
  <2> QED
    BY <1>1, <2>1
<1>5. Rewritten(rows, done, {"scope"}, {})
  BY <1>1, <1>2, DataRewrites
<1>6. {"scope"} \cap DOMAIN f.checks = {} /\ \A k \in f.keys : k.col \notin {"scope"}
  BY <1>2 DEF Unconstrained, IsDefinition
<1>7. DOMAIN done = DOMAIN rows /\ \A i \in DOMAIN rows : done[i] = ScopeMapped(rows[i])
  <2>1. Remade(d.rows, after, ScopeMapped)
    BY <1>2, MemoryStatements
  <2> QED
    BY <2>1 DEF Remade
<1>8. \A i \in DOMAIN rows : MemoryKey \subseteq DOMAIN rows[i] /\ "user_id" \notin DOMAIN rows[i]
  BY DEF Fit, Orderly
<1>9. UniqueHolds([on |-> Identity, active |-> TRUE], done)
  <2> SUFFICES ASSUME NEW i \in DOMAIN done, NEW j \in DOMAIN done,
                      done[i]["status"] = "active", done[j]["status"] = "active",
                      \A c \in Identity \cap DOMAIN done[i] : done[i][c] = done[j][c],
                      i # j
               PROVE  FALSE
    BY DEF UniqueHolds
  <2>1. i \in DOMAIN rows /\ j \in DOMAIN rows
    BY <1>7
  <2>2. MemoryKey \subseteq DOMAIN done[i] /\ MemoryKey \subseteq DOMAIN rows[i] /\ MemoryKey \subseteq DOMAIN rows[j]
    BY <1>5, <1>8, <2>1 DEF Rewritten
  <2>3. rows[i]["status"] = "active" /\ rows[j]["status"] = "active"
    <3>1. "status" \in MemoryKey /\ "status" \notin {"scope"}
      BY DEF MemoryKey
    <3> HIDE DEF rows, done
    <3> QED
      BY <1>5, <2>1, <2>2, <3>1 DEF Rewritten
  <2>4. MemoryKey \subseteq Identity \cup {"status"}
    BY DEF MemoryKey, Identity
  <2>5. \A c \in MemoryKey : done[i][c] = done[j][c]
    BY <2>2, <2>4
  <2>6. \A c \in MemoryKey : ScopeMapped(rows[i])[c] = ScopeMapped(rows[j])[c]
    BY <1>7, <2>1, <2>5
  <2> QED
    BY <2>1, <2>3, <2>6 DEF Merged
<1> HIDE DEF e, after, f
<1>10. NullsAllowed(f, {})
  BY DEF NullsAllowed
<1>11. Legal(e)
  BY <1>3, <1>4, <1>5, <1>6, <1>9, <1>10, RewriteLegal DEF f
<1>12. Sql("map scopes").op = "sql" /\ Sql("map scopes").name = "map scopes"
  BY DEF Sql
<1> QED
  BY <1>11, <1>12 DEF Passes, e

\* The rows have what a statement that restores a constraint asks for.
Restores == {"alter column", "add check", "add unique"}
Meets(rows, s) ==
    /\ s.op = "alter column" => \A i \in DOMAIN rows : s.name \in DOMAIN rows[i] => rows[i][s.name] # NULL
    /\ s.op = "add check" => \A i \in DOMAIN rows : s.name \in DOMAIN rows[i] => rows[i][s.name] \in s.allowed
    /\ s.op = "add unique" => UniqueHolds(s.unique, rows)

\* It is then accepted.
LEMMA MeetsPasses ==
    ASSUME NEW d, NEW b, Twins(d, b), NEW s, Sound(s), Execute(b, s).ok = TRUE, s.op \in Restores,
           s.table \in DOMAIN Kept, Meets(d.rows[s.table], s)
    PROVE  Passes(d, s)
<1> DEFINE t == s.table
           f == d.tables[t]
           rows == d.rows[t]
<1>1. /\ IsDatabase(b) /\ Known(s) /\ d.tables = b.tables /\ Fit(d) /\ s.op # "sql"
      /\ Done(b, s, Execute(b, s))
  BY Executed DEF Twins, WellFormed, Sound, Restores
<1>2. Accepts(b, s) /\ t \in DOMAIN d.tables
  BY <1>1 DEF Done, Accepts, Restores
<1>3. IsDefinition(f) /\ NotNullHolds(f, rows)
  BY <1>1, <1>2 DEF Fit, WellFormed, Legal, RowsLegal
<1>4. CASE s.op = "alter column"
  <2> DEFINE h == [f EXCEPT !.cols[s.name] = s.col]
  <2>1. s.name \in DOMAIN f.cols
    BY <1>1, <1>2, <1>4 DEF Accepts
  <2>2. h.cols = [f.cols EXCEPT ![s.name] = s.col]
    BY <1>3 DEF IsDefinition
  <2>3. \A i \in DOMAIN rows : s.name \in DOMAIN rows[i] => rows[i][s.name] # NULL
    BY <1>4 DEF Meets
  <2>4. NotNullHolds(h, rows)
    <3> HIDE DEF h, f, rows
    <3> QED
      BY <1>3, <2>1, <2>2, <2>3 DEF NotNullHolds
  <2> QED
    BY <1>2, <1>4, <2>1, <2>4 DEF Passes, Accepts
<1>5. CASE s.op = "add check"
  <2> DEFINE h == [f EXCEPT !.checks = With(<<>>, s.name, s.allowed)]
  <2>1. s.name \in DOMAIN f.cols /\ s.name \notin DOMAIN f.checks
    BY <1>1, <1>2, <1>5 DEF Accepts
  <2>2. h.checks = With(<<>>, s.name, s.allowed)
    BY <1>3 DEF IsDefinition
  <2>3. DOMAIN h.checks = {s.name} /\ h.checks[s.name] = s.allowed
    BY <2>2 DEF With
  <2>4. \A i \in DOMAIN rows : s.name \in DOMAIN rows[i] => rows[i][s.name] \in s.allowed
    BY <1>5 DEF Meets
  <2>5. ChecksHold(h, rows)
    <3> HIDE DEF h, f, rows
    <3> QED
      BY <2>3, <2>4 DEF ChecksHold
  <2> QED
    BY <1>2, <1>5, <2>1, <2>5 DEF Passes, Accepts
<1>6. CASE s.op = "add unique"
  <2>1. UniqueHolds(s.unique, rows)
    BY <1>6 DEF Meets
  <2> QED
    BY <1>1, <1>2, <1>6, <2>1 DEF Passes, Accepts
<1> QED
  BY <1>4, <1>5, <1>6 DEF Restores

\* Script a only asks what the rows of table t meet.
AllMeet(a, t, rows) == \A s \in Members(a) : s.op \in Restores /\ s.table = t /\ Meets(rows, s)

\* A script of such statements on one table.
LEMMA MeetsRuns ==
    ASSUME NEW a, NEW T, Footprint(a, T), NEW d, NEW b, Twins(d, b), Run(a, b).ok = TRUE,
           NEW t \in DOMAIN Kept, t \in DOMAIN d.tables,
           AllMeet(a, t, d.rows[t])
    PROVE  Twins(Run(a, d), Run(a, b)) /\ Run(a, d).rows[t] = d.rows[t]
<1> DEFINE n == Len(a)
<1>1. /\ n \in Nat /\ \A i \in 1 .. n : Sound(a[i])
      /\ \A i \in 1 .. n : a[i].op \in Restores /\ a[i].table = t /\ Meets(d.rows[t], a[i])
  BY Scripts DEF Footprint, Obeys, AllMeet
<1>2. PICK h : Traces(h, a, b)
  BY RunSteps DEF Twins
<1>3. PICK f : Through(f, a, d) /\ Run(a, d) = f[n]
  BY <1>1, RunThrough
<1>4. ASSUME NEW i \in 0 .. n, InStep(f, h, a, i) PROVE f[i].rows[t] = d.rows[t]
  <2> DEFINE S == {j \in Nat : f[j].rows[t] = d.rows[t]}
  <2>1. 0 \in S /\ i \in Nat
    BY <1>1, <1>3 DEF Through
  <2>2. ASSUME NEW j \in 1 .. i, j - 1 \in S PROVE j \in S
    <3>1. j \in 1 .. n /\ j \in Nat
      BY <1>1
    <3>2. Done(f[j - 1], a[j], f[j]) /\ a[j].op \in Restores /\ a[j].table = t
      BY <1>1, <1>4, <3>1 DEF InStep
    <3>3. f[j].rows[t] = RowsAfter(f[j - 1].rows[t], a[j])
      BY <3>2 DEF Done, Touches, Restores
    <3>4. f[j].rows[t] = f[j - 1].rows[t]
      BY <3>2, <3>3 DEF RowsAfter, Restores
    <3> QED
      BY <2>2, <3>1, <3>4
  <2> HIDE DEF S
  <2>3. \A j \in 0 .. i : j \in S
    BY <2>1, <2>2, InductionUpTo
  <2>4. i \in S
    BY <2>1, <2>3
  <2> QED
    BY <2>4 DEF S
<1>5. ASSUME NEW i \in 1 .. n, InStep(f, h, a, i - 1) PROVE Passes(f[i - 1], a[i])
  <2> DEFINE s == a[i]
             x == f[i - 1]
             y == h[i - 1]
  <2>1. i - 1 \in 0 .. n /\ i - 1 \in 0 .. i - 1 /\ i \in 0 .. n
    BY <1>1
  <2>2. Twins(x, y) /\ Meets(x.rows[t], s)
    BY <1>1, <1>4, <1>5, <2>1 DEF InStep
  <2>3. Sound(s) /\ Execute(y, s).ok = TRUE /\ s.op \in Restores /\ s.table = t
    BY <1>1, <1>2, <2>1 DEF Traces
  <2> HIDE DEF x, y, s
  <2>4. Passes(x, s)
    BY <2>2, <2>3, MeetsPasses
  <2> QED
    BY <2>4 DEF x, s
<1>6. InStep(f, h, a, n) /\ Twins(Run(a, d), Run(a, b))
  BY <1>2, <1>3, <1>5, LockStep
<1>7. n \in 0 .. n
  BY <1>1
<1> QED
  BY <1>3, <1>4, <1>6, <1>7

-----------------------------------------------------------------------------
(* Writing the versions again                                              *)

\* The versions ws are vs and a first one, with values but in the columns N,
\* for every owner in cs that has none.
FirstAdded(owner, N, cs, vs, ws) ==
    /\ DOMAIN ws = DOMAIN vs \cup {<<i, "1">> : i \in {j \in DOMAIN cs : Bare(vs, j)}}
    /\ \A k \in DOMAIN vs : ws[k] = vs[k]
    /\ \A k \in DOMAIN ws \ DOMAIN vs :
          /\ owner \in DOMAIN ws[k] /\ ws[k][owner] = k[1]
          /\ \A c \in DOMAIN ws[k] : ws[k][c] = NULL => c \in N

\* Every version says whose it is, and of which number.
Named(owner, vs) ==
    \A k \in DOMAIN vs : {owner, "version"} \subseteq DOMAIN vs[k] /\ vs[k][owner] = k[1]

\* They are then told apart by their owners.
LEMMA InsertedUnique ==
    ASSUME NEW owner, NEW N, NEW cs, NEW vs, NEW ws, FirstAdded(owner, N, cs, vs, ws), Named(owner, vs),
           NEW u, UniqueHolds(u, vs), owner \in u.on, u.active = FALSE
    PROVE  UniqueHolds(u, ws)
<1> SUFFICES ASSUME NEW i \in DOMAIN ws, NEW j \in DOMAIN ws,
                    \A c \in u.on \cap DOMAIN ws[i] : ws[i][c] = ws[j][c]
             PROVE  i = j
  BY DEF UniqueHolds
<1>1. ASSUME NEW k \in DOMAIN ws
      PROVE  /\ owner \in DOMAIN ws[k] /\ ws[k][owner] = k[1]
             /\ k \notin DOMAIN vs => k = <<k[1], "1">> /\ Bare(vs, k[1])
  <2>1. CASE k \in DOMAIN vs
    BY <2>1 DEF FirstAdded, Named
  <2>2. CASE k \notin DOMAIN vs
    <3>1. PICK n \in {j0 \in DOMAIN cs : Bare(vs, j0)} : k = <<n, "1">>
      BY <2>2 DEF FirstAdded
    <3>2. k[1] = n
      BY <3>1
    <3> QED
      BY <2>2, <3>1, <3>2 DEF FirstAdded
  <2> QED
    BY <2>1, <2>2
<1>2. i[1] = j[1]
  BY <1>1
<1>3. CASE i \in DOMAIN vs /\ j \in DOMAIN vs
  <2>1. ws[i] = vs[i] /\ ws[j] = vs[j]
    BY <1>3 DEF FirstAdded
  <2> QED
    BY <1>3, <2>1 DEF UniqueHolds
<1>4. CASE i \notin DOMAIN vs /\ j \notin DOMAIN vs
  BY <1>1, <1>2, <1>4
<1>5. CASE i \in DOMAIN vs /\ j \notin DOMAIN vs
  BY <1>1, <1>2, <1>5 DEF Bare
<1>6. CASE i \notin DOMAIN vs /\ j \in DOMAIN vs
  BY <1>1, <1>2, <1>6 DEF Bare
<1> QED
  BY <1>3, <1>4, <1>5, <1>6

\* The inserted versions are legal.
LEMMA InsertLegal ==
    ASSUME NEW d, Fit(d), NEW t \in OwnerTables, NEW vt \in VersionTables,
           t \in DOMAIN d.tables, vt \in DOMAIN d.tables, NEW owner, NEW C, NEW N,
           VersionTable(d.tables[vt], owner, t, C), NullsAllowed(d.tables[vt], N),
           NEW e, e.tables = d.tables, DOMAIN e.rows = DOMAIN d.rows,
           \A u : u # vt => e.rows[u] = d.rows[u],
           Named(owner, d.rows[vt]), FirstAdded(owner, N, d.rows[t], d.rows[vt], e.rows[vt])
    PROVE  Legal(e)
<1> SUFFICES ASSUME NEW v \in DOMAIN d.tables
             PROVE  /\ RowsLegal(d.tables[v], e.rows[v])
                    /\ \A k \in d.tables[v].keys : References(e.rows, v, k)
  BY DEF Legal
<1> DEFINE f == d.tables[v]
           vs == d.rows[vt]
           ws == e.rows[vt]
<1>1. RowsLegal(f, d.rows[v]) /\ \A k \in f.keys : References(d.rows, v, k)
  BY DEF Fit, Legal
<1>2. /\ t # vt /\ vt # "memories" /\ vt \in DOMAIN Kept /\ e.rows[t] = d.rows[t]
      /\ \A u : DOMAIN d.rows[u] \subseteq DOMAIN e.rows[u]
  BY KeptTables DEF OwnerTables, VersionTables, FirstAdded
<1>3. \A u \in d.tables[vt].uniques : u.active = FALSE /\ owner \in u.on
  BY <1>2 DEF Fit, Orderly, OrderlyTable, VersionTable
<1>4. ASSUME NEW i \in DOMAIN ws, i \notin DOMAIN vs
      PROVE  owner \in DOMAIN ws[i] /\ ws[i][owner] \in DOMAIN d.rows[t]
  <2>1. PICK n \in DOMAIN d.rows[t] : i = <<n, "1">>
    BY <1>4 DEF FirstAdded
  <2>2. i[1] = n
    BY <2>1
  <2> QED
    BY <1>4, <2>1, <2>2 DEF FirstAdded
<1>5. ASSUME NEW k \in f.keys PROVE References(e.rows, v, k)
  <2> SUFFICES ASSUME NEW i \in DOMAIN e.rows[v], k.col \in DOMAIN e.rows[v][i], k.to \in DOMAIN Kept
               PROVE  e.rows[v][i][k.col] \in DOMAIN e.rows[k.to] \cup {NULL}
    BY DEF References
  <2>1. CASE i \in DOMAIN d.rows[v] /\ e.rows[v][i] = d.rows[v][i]
    <3>1. d.rows[v][i][k.col] \in DOMAIN d.rows[k.to] \cup {NULL}
      BY <1>1, <1>5, <2>1 DEF References
    <3> QED
      BY <1>2, <2>1, <3>1
  <2>2. CASE ~(i \in DOMAIN d.rows[v] /\ e.rows[v][i] = d.rows[v][i])
    <3>1. v = vt /\ i \notin DOMAIN vs
      BY <2>2 DEF FirstAdded
    <3>2. k.col = owner /\ k.to = t
      BY <1>5, <3>1 DEF VersionTable
    <3> QED
      BY <1>2, <1>4, <3>1, <3>2
  <2> QED
    BY <2>1, <2>2
<1>6. RowsLegal(f, e.rows[v])
  <2>1. CASE v # vt
    BY <1>1, <2>1
  <2>2. CASE v = vt
    <3>1. NotNullHolds(f, vs) /\ \A u \in f.uniques : UniqueHolds(u, vs)
      BY <1>1, <2>2 DEF RowsLegal
    <3>2. NullsAllowed(f, N) /\ DOMAIN f.checks = {} /\ FirstAdded(owner, N, d.rows[t], vs, ws)
      BY <2>2 DEF VersionTable
    <3>3. ASSUME NEW u \in f.uniques PROVE UniqueHolds(u, ws)
      <4> DEFINE cs == d.rows[t]
      <4>1. u.active = FALSE /\ owner \in u.on /\ UniqueHolds(u, vs)
        BY <1>3, <2>2, <3>1, <3>3
      <4>2. FirstAdded(owner, N, cs, vs, ws) /\ Named(owner, vs)
        OBVIOUS
      <4> HIDE DEF cs, vs, ws
      <4> QED
        BY <4>1, <4>2, InsertedUnique
    <3> HIDE DEF f, vs, ws
    <3>4. NotNullHolds(f, ws)
      BY <3>1, <3>2 DEF FirstAdded, NullsAllowed, NotNullHolds
    <3>5. ChecksHold(f, ws)
      BY <3>2 DEF ChecksHold
    <3> QED
      BY <2>2, <3>3, <3>4, <3>5 DEF RowsLegal, ws
  <2> QED
    BY <2>1, <2>2
<1> QED
  BY <1>5, <1>6

\* Versions that take what their owners say are legal.
LEMMA RetoldLegal ==
    ASSUME NEW d, Fit(d), NEW t, NEW vt \in VersionTables, vt \in DOMAIN d.tables,
           NEW owner, NEW C, VersionTable(d.tables[vt], owner, t, C),
           NEW e, e.tables = d.tables, DOMAIN e.rows = DOMAIN d.rows,
           \A u : u # vt => e.rows[u] = d.rows[u],
           NEW N, NullsAllowed(d.tables[vt], N),
           Named(owner, d.rows[vt]), Rewritten(d.rows[vt], e.rows[vt], C, N)
    PROVE  Legal(e)
<1> DEFINE f == d.tables[vt]
           vs == d.rows[vt]
           ws == e.rows[vt]
<1>1. vt # "memories" /\ vt \in DOMAIN Kept
  BY KeptTables DEF VersionTables
<1>2. \A u \in f.uniques : u.active = FALSE /\ u.on \subseteq {owner, "version"} /\ u.on \cap C = {}
  BY <1>1 DEF Fit, Orderly, OrderlyTable, VersionTable, Unconstrained
<1>3. \A u \in f.uniques : UniqueHolds(u, vs)
  BY DEF Fit, Legal, RowsLegal
<1>4. ASSUME NEW u \in f.uniques PROVE UniqueHolds(u, ws)
  <2>1. \A i, j \in DOMAIN vs : u.on \cap DOMAIN vs[i] \subseteq DOMAIN vs[j]
    BY <1>2, <1>4 DEF Named
  <2>2. u.active # TRUE
    BY <1>2, <1>4
  <2> HIDE DEF vs, ws, f
  <2> QED
    BY <1>2, <1>3, <1>4, <2>1, <2>2, UniqueRewritten DEF vs, ws
<1>5. NullsAllowed(f, N) /\ C \cap DOMAIN f.checks = {} /\ \A k \in f.keys : k.col \notin C
  BY DEF VersionTable, Unconstrained
<1> QED
  BY <1>4, <1>5, RewriteLegal

\* The profiles have names, and the versions a profile.
Telling(cs, vs) ==
    /\ \A i \in DOMAIN cs : i # NULL /\ cs[i].name # NULL
    /\ \A k \in DOMAIN vs : k[1] \in DOMAIN cs

\* "version characters" inserts values, but perhaps no summary and no style.
LEMMA CharactersInserted ==
    ASSUME NEW rows, "characters" \in DOMAIN rows, "character_versions" \in DOMAIN rows,
           Telling(rows.characters, rows.character_versions),
           NEW after, after = DataStatement("version characters", rows)
    PROVE  FirstAdded("character_id", {"summary", "speaking_style"}, rows.characters,
                      rows.character_versions, after.character_versions)
<1> DEFINE cs == rows.characters
           vs == rows.character_versions
           ws == after.character_versions
<1>1. /\ VersionsAdded(cs, vs, ws)
      /\ \A k \in DOMAIN ws \ DOMAIN vs : ws[k] = FirstCharacterVersion(k[1], cs[k[1]])
  BY CharactersVersioned
<1> HIDE DEF ws
<1>2. ASSUME NEW k \in DOMAIN ws \ DOMAIN vs
      PROVE  /\ "character_id" \in DOMAIN ws[k] /\ ws[k]["character_id"] = k[1]
             /\ \A c \in DOMAIN ws[k] : ws[k][c] = NULL => c \in {"summary", "speaking_style"}
  <2>1. PICK i \in DOMAIN cs : k = <<i, "1">>
    BY <1>1, <1>2 DEF VersionsAdded
  <2>2. k[1] = i /\ i # NULL /\ cs[i].name # NULL
    BY <2>1 DEF Telling
  <2> DEFINE row == FirstCharacterVersion(i, cs[i])
  <2>3. ws[k] = row
    BY <1>1, <1>2, <2>2
  <2>4. /\ DOMAIN row = {"character_id", "version", "name", "summary", "speaking_style"}
        /\ row["character_id"] = i /\ row["version"] = "1" /\ row["name"] = cs[i].name
    BY DEF FirstCharacterVersion
  <2>5. "1" # NULL
    BY DEF NULL
  <2> HIDE DEF row
  <2> QED
    BY <2>2, <2>3, <2>4, <2>5
<1> QED
  BY <1>1, <1>2 DEF VersionsAdded, FirstAdded, ws

\* The same for personas, whose versions may have no traits and no pronouns.
LEMMA PersonasInserted ==
    ASSUME NEW rows, "personas" \in DOMAIN rows, "persona_versions" \in DOMAIN rows,
           Complete(rows.persona_versions), Telling(rows.personas, rows.persona_versions),
           NEW after, after = DataStatement("version personas", rows)
    PROVE  FirstAdded("persona_id", {"traits", "pronouns"}, rows.personas, rows.persona_versions,
                      after.persona_versions)
<1> DEFINE cs == rows.personas
           vs == rows.persona_versions
           ws == after.persona_versions
<1>1. /\ VersionsAdded(cs, vs, ws)
      /\ \A k \in DOMAIN ws \ DOMAIN vs : ws[k] = FirstPersonaVersion(k[1], cs[k[1]])
  BY PersonasVersioned
<1> HIDE DEF ws
<1>2. ASSUME NEW k \in DOMAIN ws \ DOMAIN vs
      PROVE  /\ "persona_id" \in DOMAIN ws[k] /\ ws[k]["persona_id"] = k[1]
             /\ \A c \in DOMAIN ws[k] : ws[k][c] = NULL => c \in {"traits", "pronouns"}
  <2>1. PICK i \in DOMAIN cs : k = <<i, "1">>
    BY <1>1, <1>2 DEF VersionsAdded
  <2>2. k[1] = i /\ i # NULL /\ cs[i].name # NULL
    BY <2>1 DEF Telling
  <2> DEFINE row == FirstPersonaVersion(i, cs[i])
  <2>3. ws[k] = row
    BY <1>1, <1>2, <2>2
  <2>4. /\ DOMAIN row = {"persona_id", "version", "name", "traits", "pronouns"}
        /\ row["persona_id"] = i /\ row["version"] = "1" /\ row["name"] = cs[i].name
    BY DEF FirstPersonaVersion
  <2>5. "1" # NULL
    BY DEF NULL
  <2>6. ASSUME NEW c \in DOMAIN row, row[c] = NULL PROVE c \in {"traits", "pronouns"}
    <3> HIDE DEF row
    <3> QED
      BY <2>2, <2>4, <2>5, <2>6
  <2> HIDE DEF row
  <2> QED
    BY <2>2, <2>3, <2>4, <2>6
<1> QED
  BY <1>1, <1>2 DEF VersionsAdded, FirstAdded, ws

\* A version that takes a name, and a trait if there is one.
Retold(m, name, trait) == [m EXCEPT !["name"] = name, !["traits"] = Coalesce(trait, m["traits"])]

\* Where the profile has a name, it leaves no value out.
LEMMA RetoldRewritten ==
    ASSUME NEW cs, NEW vs, NEW ws, Telling(cs, vs), DOMAIN ws = DOMAIN vs,
           \A k \in DOMAIN vs :
              ws[k] = IF k[2] = cs[k[1]].current_version
                      THEN Retold(vs[k], cs[k[1]].name, cs[k[1]].attributes_traits) ELSE vs[k]
    PROVE  Rewritten(vs, ws, {"name", "traits"}, {})
<1>1. ASSUME NEW m, NEW x, x # NULL, NEW y
      PROVE  /\ DOMAIN Retold(m, x, y) = DOMAIN m
             /\ \A c \in DOMAIN m : /\ (c \notin {"name", "traits"} => Retold(m, x, y)[c] = m[c])
                                    /\ (Retold(m, x, y)[c] = NULL => m[c] = NULL)
  BY <1>1 DEF Coalesce, Retold
<1>2. \A k \in DOMAIN vs : cs[k[1]].name # NULL
  BY DEF Telling
<1>3. ASSUME NEW k \in DOMAIN vs
      PROVE  /\ DOMAIN ws[k] = DOMAIN vs[k]
             /\ \A c \in DOMAIN vs[k] : /\ (c \notin {"name", "traits"} => ws[k][c] = vs[k][c])
                                        /\ (ws[k][c] = NULL => vs[k][c] = NULL)
  <2>1. CASE ws[k] = vs[k]
    BY <2>1
  <2>2. CASE ws[k] = Retold(vs[k], cs[k[1]].name, cs[k[1]].attributes_traits)
    BY <1>1, <1>2, <1>3, <2>2
  <2> QED
    BY <1>3, <2>1, <2>2
<1> QED
  BY <1>3 DEF Rewritten

\* "synchronize characters" leaves out no value but a summary.
LEMMA CharactersRetold ==
    ASSUME NEW rows, "character_versions" \in DOMAIN rows,
           Telling(rows.characters, rows.character_versions),
           NEW after, after = DataStatement("synchronize characters", rows)
    PROVE  Rewritten(rows.character_versions, after.character_versions, {"name", "summary"}, {"summary"})
<1> DEFINE cs == rows.characters
           vs == rows.character_versions
           ws == after.character_versions
<1>1. after = SynchronizeCharacters(rows)
  BY DEF DataStatement
<1>2. /\ DOMAIN ws = DOMAIN vs
      /\ \A k \in DOMAIN vs :
            ws[k] = IF k[2] = cs[k[1]].current_version THEN RenewedCharacterVersion(cs[k[1]], vs[k]) ELSE vs[k]
  BY <1>1 DEF SynchronizeCharacters
<1>3. ASSUME NEW m, NEW c, c.name # NULL
      PROVE  LET q == RenewedCharacterVersion(c, m)
             IN /\ DOMAIN q = DOMAIN m
                /\ \A x \in DOMAIN m : /\ (x \notin {"name", "summary"} => q[x] = m[x])
                                       /\ (x # "summary" /\ q[x] = NULL => m[x] = NULL)
  BY <1>3 DEF RenewedCharacterVersion
<1>4. \A k \in DOMAIN vs : cs[k[1]].name # NULL
  BY DEF Telling
<1> HIDE DEF cs, vs, ws
<1>5. ASSUME NEW k \in DOMAIN vs
      PROVE  /\ DOMAIN ws[k] = DOMAIN vs[k]
             /\ \A x \in DOMAIN vs[k] : /\ (x \notin {"name", "summary"} => ws[k][x] = vs[k][x])
                                        /\ (x # "summary" /\ ws[k][x] = NULL => vs[k][x] = NULL)
  <2>1. CASE ws[k] = vs[k]
    BY <2>1
  <2>2. CASE ws[k] = RenewedCharacterVersion(cs[k[1]], vs[k])
    <3> DEFINE m == vs[k]
               c == cs[k[1]]
    <3>1. c.name # NULL
      BY <1>4, <1>5
    <3> HIDE DEF m, c
    <3>2. LET q == RenewedCharacterVersion(c, m)
          IN /\ DOMAIN q = DOMAIN m
             /\ \A x \in DOMAIN m : /\ (x \notin {"name", "summary"} => q[x] = m[x])
                                    /\ (x # "summary" /\ q[x] = NULL => m[x] = NULL)
      BY <1>3, <3>1
    <3> QED
      BY <2>2, <3>2 DEF m, c
  <2> QED
    BY <1>2, <1>5, <2>1, <2>2
<1>6. Rewritten(vs, ws, {"name", "summary"}, {"summary"})
  BY <1>2, <1>5 DEF Rewritten
<1> QED
  BY <1>6 DEF vs, ws

\* And for personas, with the traits.
LEMMA PersonasRetold ==
    ASSUME NEW rows, "persona_versions" \in DOMAIN rows,
           Telling(rows.personas, rows.persona_versions),
           NEW after, after = DataStatement("synchronize personas", rows)
    PROVE  Rewritten(rows.persona_versions, after.persona_versions, {"name", "traits"}, {})
<1> DEFINE cs == rows.personas
           vs == rows.persona_versions
           ws == after.persona_versions
<1>1. after = SynchronizePersonas(rows)
  BY DEF DataStatement
<1>2. /\ DOMAIN ws = DOMAIN vs
      /\ \A k \in DOMAIN vs :
            ws[k] = IF k[2] = cs[k[1]].current_version
                    THEN Retold(vs[k], cs[k[1]].name, cs[k[1]].attributes_traits) ELSE vs[k]
  BY <1>1 DEF SynchronizePersonas, RenewedPersonaVersion, Retold
<1> QED
  BY <1>2, RetoldRewritten

\* Versions that were inserted have a profile too.
LEMMA StillTelling ==
    ASSUME NEW owner, NEW N, NEW cs, NEW vs, NEW ws, FirstAdded(owner, N, cs, vs, ws), Telling(cs, vs)
    PROVE  Telling(cs, ws)
<1> SUFFICES ASSUME NEW k \in DOMAIN ws PROVE k[1] \in DOMAIN cs
  BY DEF Telling
<1>1. CASE k \in DOMAIN vs
  BY <1>1 DEF Telling
<1>2. CASE k \notin DOMAIN vs
  <2>1. PICK i \in DOMAIN cs : k = <<i, "1">>
    BY <1>2 DEF FirstAdded
  <2> QED
    BY <2>1
<1> QED
  BY <1>1, <1>2

\* A script of two statements that pass.
LEMMA PairRuns ==
    ASSUME NEW r, NEW s, Sound(r), Sound(s), NEW d, NEW b, Twins(d, b),
           Run(<<r, s>>, b).ok = TRUE, Passes(d, r),
           Twins(Execute(d, r), Execute(b, r)) /\ Done(d, r, Execute(d, r)) => Passes(Execute(d, r), s)
    PROVE  Twins(Run(<<r, s>>, d), Run(<<r, s>>, b))
<1>1. \A x : Run(<<r, s>>, x) = Execute(Execute(x, r), s)
  <2> TAKE x
  <2> DEFINE a == <<r, s>>
  <2>1. Len(a) = 2 /\ Len(a) \in Nat /\ a[1] = r /\ a[2] = s
    OBVIOUS
  <2> HIDE DEF a
  <2>2. PICK f : Through(f, a, x) /\ Run(a, x) = f[2]
    BY <2>1, RunThrough
  <2>3. f[0] = x /\ f[1] = Execute(f[0], a[1]) /\ f[2] = Execute(f[1], a[2])
    BY <2>1, <2>2 DEF Through
  <2> QED
    BY <2>1, <2>2, <2>3 DEF a
<1>2. Execute(Execute(b, r), s).ok = TRUE
  BY <1>1
<1>3. IsDatabase(b) /\ IsDatabase(Execute(b, r)) /\ Known(r) /\ Known(s)
  BY Executed DEF Twins, WellFormed, Sound
<1>4. Execute(b, r).ok = TRUE
  <2>1. Execute(b, r).ok \in BOOLEAN
    BY <1>3 DEF IsDatabase
  <2>2. Execute(b, r).ok # TRUE => Execute(Execute(b, r), s) = Execute(b, r)
    BY <2>1 DEF Execute
  <2> QED
    BY <1>2, <2>2
<1>5. Twins(Execute(d, r), Execute(b, r)) /\ Done(d, r, Execute(d, r))
  BY <1>4, TwinsStep
<1>6. Twins(Execute(Execute(d, r), s), Execute(Execute(b, r), s))
  BY <1>2, <1>5, TwinsStep
<1> QED
  BY <1>1, <1>6

\* The versions of characters can be written again.
LEMMA CharacterVersioningRuns ==
    ASSUME NEW d, NEW b, Twins(d, b), Run(CharacterVersioning, b).ok = TRUE,
           "characters" \in DOMAIN d.tables, "character_versions" \in DOMAIN d.tables,
           VersionTable(d.tables["character_versions"], "character_id", "characters", {"name", "summary"}),
           NullsAllowed(d.tables["character_versions"], {"summary", "speaking_style"}),
           Telling(d.rows["characters"], d.rows["character_versions"])
    PROVE  Twins(Run(CharacterVersioning, d), Run(CharacterVersioning, b))
<1> DEFINE r == Sql("version characters")
           s == Sql("synchronize characters")
           after == DataStatement("version characters", d.rows)
           e == [d EXCEPT !.rows = DataStatement("version characters", @)]
<1>1. /\ Sound(r) /\ Sound(s) /\ r.op = "sql" /\ r.name = "version characters"
      /\ s.op = "sql" /\ s.name = "synchronize characters"
      /\ "version characters" \in DataNames /\ "synchronize characters" \in DataNames
      /\ DataTable("version characters") = "character_versions" /\ DataTable("synchronize characters") = "character_versions"
  BY DEF Sound, Sql, DataNames, DataTable, Known
<1>2. IsDatabase(d) /\ "characters" \in DOMAIN d.rows /\ "character_versions" \in DOMAIN d.rows
  BY DEF Twins, Fit, WellFormed, IsDatabase
<1>3. /\ "characters" \in OwnerTables /\ "character_versions" \in VersionTables /\ "characters" # "character_versions"
      /\ "character_versions" \in DOMAIN Kept
  BY KeptTables, TableKinds
<1>4. /\ DOMAIN after = DOMAIN d.rows
      /\ \A u : u # "character_versions" => after[u] = d.rows[u]
  <2>1. /\ DOMAIN DataStatement("version characters", d.rows) = DOMAIN d.rows
        /\ \A u : u # DataTable("version characters") => DataStatement("version characters", d.rows)[u] = d.rows[u]
    BY <1>1, DataWritten
  <2> QED
    BY <1>1, <2>1
<1>5. FirstAdded("character_id", {"summary", "speaking_style"}, d.rows["characters"], d.rows["character_versions"], after["character_versions"])
  <2>1. /\ "characters" \in DOMAIN d.rows /\ "character_versions" \in DOMAIN d.rows
        /\ Telling(d.rows.characters, d.rows.character_versions)
        /\ after = DataStatement("version characters", d.rows)
    BY <1>2
  <2> HIDE DEF after
  <2>2. FirstAdded("character_id", {"summary", "speaking_style"}, d.rows.characters, d.rows.character_versions, after.character_versions)
    BY <2>1, CharactersInserted
  <2> QED
    BY <2>2
<1>6. e.tables = d.tables /\ e.rows = after
  BY <1>2 DEF IsDatabase
<1>7. ASSUME NEW y, Orderly(y), "character_versions" \in DOMAIN y.rows PROVE Named("character_id", y.rows["character_versions"])
  BY <1>3, <1>7 DEF Orderly, Told, Regular, Named
<1>8. Fit(d) /\ Named("character_id", d.rows["character_versions"])
  BY <1>2, <1>7 DEF Twins, Fit
<1>9. /\ NullsAllowed(d.tables["character_versions"], {"summary", "speaking_style"})
      /\ NullsAllowed(d.tables["character_versions"], {"summary"})
  BY DEF NullsAllowed
<1>10. Legal(e)
  <2> HIDE DEF e, after, r, s
  <2> QED
    BY <1>3, <1>4, <1>5, <1>6, <1>8, <1>9, InsertLegal
<1>11. Passes(d, r)
  BY <1>1, <1>10 DEF Passes
<1>12. ASSUME NEW x, Twins(x, Execute(b, r)), Done(d, r, x) PROVE Passes(x, s)
  <2> DEFINE last == DataStatement("synchronize characters", x.rows)
             f == [x EXCEPT !.rows = DataStatement("synchronize characters", @)]
  <2>1. x.tables = d.tables /\ x.rows = after
    BY <1>12, DataStep
  <2>2. Fit(x) /\ IsDatabase(x) /\ "character_versions" \in DOMAIN x.rows /\ "character_versions" \in DOMAIN x.tables
    BY <1>2, <1>12, <2>1 DEF Twins, Fit, WellFormed, IsDatabase
  <2> HIDE DEF after
  <2>3. x.rows["characters"] = d.rows["characters"] /\ x.rows["character_versions"] = after["character_versions"]
    BY <1>3, <1>4, <2>1
  <2>4. Telling(x.rows["characters"], x.rows["character_versions"])
    <3> DEFINE cs == d.rows["characters"]
               vs == d.rows["character_versions"]
               ws == after["character_versions"]
    <3>1. Telling(cs, vs) /\ FirstAdded("character_id", {"summary", "speaking_style"}, cs, vs, ws)
      BY <1>5
    <3> HIDE DEF cs, vs, ws
    <3>2. Telling(cs, ws)
      BY <3>1, StillTelling
    <3> QED
      BY <2>3, <3>2 DEF cs, ws
  <2>5. Named("character_id", x.rows["character_versions"])
    BY <1>7, <2>2 DEF Fit
  <2>6. /\ DOMAIN last = DOMAIN x.rows
        /\ \A u : u # "character_versions" => last[u] = x.rows[u]
    <3>1. /\ DOMAIN DataStatement("synchronize characters", x.rows) = DOMAIN x.rows
          /\ \A u : u # DataTable("synchronize characters")
                => DataStatement("synchronize characters", x.rows)[u] = x.rows[u]
      BY <1>1, DataWritten
    <3> QED
      BY <1>1, <3>1
  <2>7. Rewritten(x.rows["character_versions"], last["character_versions"], {"name", "summary"}, {"summary"})
    <3>1. /\ "character_versions" \in DOMAIN x.rows /\ Telling(x.rows.characters, x.rows.character_versions)
          /\ last = DataStatement("synchronize characters", x.rows)
      BY <2>2, <2>4
    <3> HIDE DEF last
    <3>2. Rewritten(x.rows.character_versions, last.character_versions, {"name", "summary"}, {"summary"})
      BY <3>1, CharactersRetold
    <3> QED
      BY <3>2
  <2>8. f.tables = x.tables /\ f.rows = last
    BY <2>2 DEF IsDatabase
  <2>9. Legal(f)
    <3>1. /\ VersionTable(x.tables["character_versions"], "character_id", "characters", {"name", "summary"})
          /\ NullsAllowed(x.tables["character_versions"], {"summary"})
      BY <1>9, <2>1
    <3> HIDE DEF f, last
    <3> QED
      BY <1>3, <2>2, <2>5, <2>6, <2>7, <2>8, <3>1, RetoldLegal
  <2> QED
    BY <1>1, <2>9 DEF Passes
<1>13. Run(<<r, s>>, b).ok = TRUE
  BY DEF CharacterVersioning
<1> HIDE DEF r, s
<1>14. Twins(Run(<<r, s>>, d), Run(<<r, s>>, b))
  BY <1>1, <1>11, <1>12, <1>13, PairRuns
<1> QED
  BY <1>14 DEF CharacterVersioning, r, s

\* The versions of personas can be written again.
LEMMA PersonaVersioningRuns ==
    ASSUME NEW d, NEW b, Twins(d, b), Run(PersonaVersioning, b).ok = TRUE,
           "personas" \in DOMAIN d.tables, "persona_versions" \in DOMAIN d.tables,
           VersionTable(d.tables["persona_versions"], "persona_id", "personas", {"name", "traits"}),
           NullsAllowed(d.tables["persona_versions"], {"traits", "pronouns"}), Complete(d.rows["persona_versions"]),
           Telling(d.rows["personas"], d.rows["persona_versions"])
    PROVE  Twins(Run(PersonaVersioning, d), Run(PersonaVersioning, b))
<1> DEFINE r == Sql("version personas")
           s == Sql("synchronize personas")
           after == DataStatement("version personas", d.rows)
           e == [d EXCEPT !.rows = DataStatement("version personas", @)]
<1>1. /\ Sound(r) /\ Sound(s) /\ r.op = "sql" /\ r.name = "version personas"
      /\ s.op = "sql" /\ s.name = "synchronize personas"
      /\ "version personas" \in DataNames /\ "synchronize personas" \in DataNames
      /\ DataTable("version personas") = "persona_versions" /\ DataTable("synchronize personas") = "persona_versions"
  BY DEF Sound, Sql, DataNames, DataTable, Known
<1>2. IsDatabase(d) /\ "personas" \in DOMAIN d.rows /\ "persona_versions" \in DOMAIN d.rows
  BY DEF Twins, Fit, WellFormed, IsDatabase
<1>3. /\ "personas" \in OwnerTables /\ "persona_versions" \in VersionTables /\ "personas" # "persona_versions"
      /\ "persona_versions" \in DOMAIN Kept
  BY KeptTables, TableKinds
<1>4. /\ DOMAIN after = DOMAIN d.rows
      /\ \A u : u # "persona_versions" => after[u] = d.rows[u]
  <2>1. /\ DOMAIN DataStatement("version personas", d.rows) = DOMAIN d.rows
        /\ \A u : u # DataTable("version personas") => DataStatement("version personas", d.rows)[u] = d.rows[u]
    BY <1>1, DataWritten
  <2> QED
    BY <1>1, <2>1
<1>5. FirstAdded("persona_id", {"traits", "pronouns"}, d.rows["personas"], d.rows["persona_versions"], after["persona_versions"])
  <2>1. /\ "personas" \in DOMAIN d.rows /\ "persona_versions" \in DOMAIN d.rows
        /\ Telling(d.rows.personas, d.rows.persona_versions) /\ Complete(d.rows.persona_versions)
        /\ after = DataStatement("version personas", d.rows)
    BY <1>2
  <2> HIDE DEF after
  <2>2. FirstAdded("persona_id", {"traits", "pronouns"}, d.rows.personas, d.rows.persona_versions, after.persona_versions)
    BY <2>1, PersonasInserted
  <2> QED
    BY <2>2
<1>6. e.tables = d.tables /\ e.rows = after
  BY <1>2 DEF IsDatabase
<1>7. ASSUME NEW y, Orderly(y), "persona_versions" \in DOMAIN y.rows PROVE Named("persona_id", y.rows["persona_versions"])
  BY <1>3, <1>7 DEF Orderly, Told, Regular, Named
<1>8. Fit(d) /\ Named("persona_id", d.rows["persona_versions"])
  BY <1>2, <1>7 DEF Twins, Fit
<1>9. /\ NullsAllowed(d.tables["persona_versions"], {"traits", "pronouns"})
      /\ NullsAllowed(d.tables["persona_versions"], {})
  BY DEF NullsAllowed
<1>10. Legal(e)
  <2> HIDE DEF e, after, r, s
  <2> QED
    BY <1>3, <1>4, <1>5, <1>6, <1>8, <1>9, InsertLegal
<1>11. Passes(d, r)
  BY <1>1, <1>10 DEF Passes
<1>12. ASSUME NEW x, Twins(x, Execute(b, r)), Done(d, r, x) PROVE Passes(x, s)
  <2> DEFINE last == DataStatement("synchronize personas", x.rows)
             f == [x EXCEPT !.rows = DataStatement("synchronize personas", @)]
  <2>1. x.tables = d.tables /\ x.rows = after
    BY <1>12, DataStep
  <2>2. Fit(x) /\ IsDatabase(x) /\ "persona_versions" \in DOMAIN x.rows /\ "persona_versions" \in DOMAIN x.tables
    BY <1>2, <1>12, <2>1 DEF Twins, Fit, WellFormed, IsDatabase
  <2> HIDE DEF after
  <2>3. x.rows["personas"] = d.rows["personas"] /\ x.rows["persona_versions"] = after["persona_versions"]
    BY <1>3, <1>4, <2>1
  <2>4. Telling(x.rows["personas"], x.rows["persona_versions"])
    <3> DEFINE cs == d.rows["personas"]
               vs == d.rows["persona_versions"]
               ws == after["persona_versions"]
    <3>1. Telling(cs, vs) /\ FirstAdded("persona_id", {"traits", "pronouns"}, cs, vs, ws)
      BY <1>5
    <3> HIDE DEF cs, vs, ws
    <3>2. Telling(cs, ws)
      BY <3>1, StillTelling
    <3> QED
      BY <2>3, <3>2 DEF cs, ws
  <2>5. Named("persona_id", x.rows["persona_versions"])
    BY <1>7, <2>2 DEF Fit
  <2>6. /\ DOMAIN last = DOMAIN x.rows
        /\ \A u : u # "persona_versions" => last[u] = x.rows[u]
    <3>1. /\ DOMAIN DataStatement("synchronize personas", x.rows) = DOMAIN x.rows
          /\ \A u : u # DataTable("synchronize personas")
                => DataStatement("synchronize personas", x.rows)[u] = x.rows[u]
      BY <1>1, DataWritten
    <3> QED
      BY <1>1, <3>1
  <2>7. Rewritten(x.rows["persona_versions"], last["persona_versions"], {"name", "traits"}, {})
    <3>1. /\ "persona_versions" \in DOMAIN x.rows /\ Telling(x.rows.personas, x.rows.persona_versions)
          /\ last = DataStatement("synchronize personas", x.rows)
      BY <2>2, <2>4
    <3> HIDE DEF last
    <3>2. Rewritten(x.rows.persona_versions, last.persona_versions, {"name", "traits"}, {})
      BY <3>1, PersonasRetold
    <3> QED
      BY <3>2
  <2>8. f.tables = x.tables /\ f.rows = last
    BY <2>2 DEF IsDatabase
  <2>9. Legal(f)
    <3>1. /\ VersionTable(x.tables["persona_versions"], "persona_id", "personas", {"name", "traits"})
          /\ NullsAllowed(x.tables["persona_versions"], {})
      BY <1>9, <2>1
    <3> HIDE DEF f, last
    <3> QED
      BY <1>3, <2>2, <2>5, <2>6, <2>7, <2>8, <3>1, RetoldLegal
  <2> QED
    BY <1>1, <2>9 DEF Passes
<1>13. Run(<<r, s>>, b).ok = TRUE
  BY DEF PersonaVersioning
<1> HIDE DEF r, s
<1>14. Twins(Run(<<r, s>>, d), Run(<<r, s>>, b))
  BY <1>1, <1>11, <1>12, <1>13, PairRuns
<1> QED
  BY <1>14 DEF PersonaVersioning, r, s
=============================================================================
