------------------------------- MODULE Schema -------------------------------
(***************************************************************************)
(* The part of PostgreSQL that the revisions of src/backend/alembic rely   *)
(* on: statements that define tables, their preconditions, and the         *)
(* constraints that rows must satisfy.  A database is a record             *)
(*   tables : name -> [cols, keys, checks, uniques, indexes]               *)
(*   rows   : name -> (identifier -> row)                                  *)
(*   ok     : FALSE once a statement was refused, which aborts the         *)
(*            transaction: no later statement has an effect.               *)
(* A column is [null, default]; a row carries the columns in Kept only,    *)
(* the ones the data statements of revision 0005 read or write, so that a  *)
(* table outside Kept has its definition modelled and no rows.             *)
(***************************************************************************)
EXTENDS FiniteSets, Naturals, Sequences, TLC

NULL == "null"

Required == [null |-> FALSE, default |-> NULL]
Optional == [null |-> TRUE, default |-> NULL]
Default(v) == [null |-> FALSE, default |-> v]

\* f with v at x, and given with what it does not say taken from rest: the @@ of
\* module TLC by the definitions that the proofs expand.
With(f, x, v) == [y \in DOMAIN f \cup {x} |-> IF y = x THEN v ELSE f[y]]
Filled(given, rest) ==
    [y \in DOMAIN given \cup DOMAIN rest |-> IF y \in DOMAIN given THEN given[y] ELSE rest[y]]

\* The columns of a table: names required, names optional, and the defaulted ones.
Columns(required, optional, defaulted) ==
    Filled([c \in required |-> Required], Filled([c \in optional |-> Optional], defaulted))

Key(c, to, del) == [col |-> c, to |-> to, del |-> del]

\* The columns that rows carry: one text for each way that revision 0005 treats
\* the texts of a profile.  The keys of the JSON column memories.metadata are
\* fields of the row, those of personas.attributes columns of their own, NULL
\* where the object lacks the key.
Kept ==
    [memories |-> {"conversation_id", "character_id", "persona_id", "scope", "kind",
                   "status", "normalized_key", "expires_at", "archived_at"},
     characters |-> {"current_version", "archived_at", "name", "tagline", "description", "is_active"},
     character_versions |-> {"character_id", "version", "name", "summary", "speaking_style"},
     personas |-> {"current_version", "archived_at", "name", "instructions", "is_default",
                   "attributes_traits", "attributes_pronouns"},
     persona_versions |-> {"persona_id", "version", "name", "traits", "pronouns"}]

Keeps(t, c) == t \in DOMAIN Kept /\ c \in Kept[t]

EmptyDatabase == [tables |-> <<>>, rows |-> <<>>, ok |-> TRUE]

-----------------------------------------------------------------------------
(* Constraints: whether the rows of table t satisfy its definition d.       *)

NotNullHolds(d, rows) ==
    \A i \in DOMAIN rows : \A c \in DOMAIN rows[i] \cap DOMAIN d.cols :
        rows[i][c] = NULL => d.cols[c].null

ChecksHold(d, rows) ==
    \A i \in DOMAIN rows : \A c \in DOMAIN rows[i] \cap DOMAIN d.checks :
        rows[i][c] \in d.checks[c] \cup {NULL}

\* A unique index on the columns u.on, of the rows that are active or of all;
\* nulls are equal to each other (postgresql_nulls_not_distinct), which for the
\* identity of a version row, never null, makes no difference.
UniqueHolds(u, rows) ==
    LET among == {i \in DOMAIN rows : u.active => rows[i].status = "active"}
    IN \A i, j \in among :
           (\A c \in u.on \cap DOMAIN rows[i] : rows[i][c] = rows[j][c]) => i = j

RowsLegal(d, rows) ==
    /\ NotNullHolds(d, rows)
    /\ ChecksHold(d, rows)
    /\ \A u \in d.uniques : UniqueHolds(u, rows)

References(rows, t, k) ==
    \A i \in DOMAIN rows[t] :
        k.col \in DOMAIN rows[t][i] /\ k.to \in DOMAIN Kept
            => rows[t][i][k.col] \in DOMAIN rows[k.to] \cup {NULL}

Legal(db) ==
    \A t \in DOMAIN db.tables :
        /\ RowsLegal(db.tables[t], db.rows[t])
        /\ \A k \in db.tables[t].keys : References(db.rows, t, k)

-----------------------------------------------------------------------------
(* Statements.  Each constructor gives the record that a revision lists.    *)

CreateTable(t, cols, keys, checks, uniques) ==
    [op |-> "create", table |-> t,
     def |-> [cols |-> cols, keys |-> keys, checks |-> checks, indexes |-> {},
              uniques |-> {[on |-> u, active |-> FALSE] : u \in uniques}]]
DropTable(t) == [op |-> "drop", table |-> t]
AddColumn(t, c, col) == [op |-> "add column", table |-> t, name |-> c, col |-> col]
DropColumn(t, c) == [op |-> "drop column", table |-> t, name |-> c]
AlterColumn(t, c, col) == [op |-> "alter column", table |-> t, name |-> c, col |-> col]
AddKey(t, k) == [op |-> "add key", table |-> t, key |-> k]
DropKey(t, c) == [op |-> "drop key", table |-> t, name |-> c]
AddCheck(t, c, allowed) == [op |-> "add check", table |-> t, name |-> c, allowed |-> allowed]
DropCheck(t, c) == [op |-> "drop check", table |-> t, name |-> c]
AddIndex(t, on) == [op |-> "add index", table |-> t, on |-> on]
DropIndex(t, on) == [op |-> "drop index", table |-> t, on |-> on]
AddUnique(t, on, active) == [op |-> "add unique", table |-> t, unique |-> [on |-> on, active |-> active]]
DropUnique(t, on, active) == [op |-> "drop unique", table |-> t, unique |-> [on |-> on, active |-> active]]
Sql(name) == [op |-> "sql", name |-> name]

\* Several single-column indexes, as the loops of the revisions create them.
AddIndexes(t, cs) == [i \in DOMAIN cs |-> AddIndex(t, <<cs[i]>>)]
DropIndexes(t, cs) == [i \in DOMAIN cs |-> DropIndex(t, <<cs[i]>>)]

\* When PostgreSQL accepts statement s on database db.
Accepts(db, s) ==
    IF s.op = "create"
    THEN /\ s.table \notin DOMAIN db.tables
         /\ \A k \in s.def.keys : /\ k.col \in DOMAIN s.def.cols
                                  /\ k.to \in DOMAIN db.tables \cup {s.table}
         /\ \A u \in s.def.uniques : u.on \subseteq DOMAIN s.def.cols
         /\ DOMAIN s.def.checks \subseteq DOMAIN s.def.cols
    ELSE
      /\ s.table \in DOMAIN db.tables
      /\ LET d == db.tables[s.table] rows == db.rows[s.table]
         IN \/ /\ s.op = "drop"
               /\ \A t \in DOMAIN db.tables \ {s.table} :
                      \A k \in db.tables[t].keys : k.to # s.table
            \/ /\ s.op = "add column"
               /\ s.name \notin DOMAIN d.cols
               /\ s.col = Required => DOMAIN rows = {}
            \/ s.op = "drop column" /\ s.name \in DOMAIN d.cols
            \/ /\ s.op = "alter column"
               /\ s.name \in DOMAIN d.cols
               /\ NotNullHolds([d EXCEPT !.cols[s.name] = s.col], rows)
            \/ /\ s.op = "add key"
               /\ s.key.col \in DOMAIN d.cols /\ s.key.to \in DOMAIN db.tables
               /\ \A k \in d.keys : k.col # s.key.col
               /\ References(db.rows, s.table, s.key)
            \/ s.op = "drop key" /\ \E k \in d.keys : k.col = s.name
            \/ /\ s.op = "add check"
               /\ s.name \in DOMAIN d.cols /\ s.name \notin DOMAIN d.checks
               /\ ChecksHold([d EXCEPT !.checks = With(<<>>, s.name, s.allowed)], rows)
            \/ s.op = "drop check" /\ s.name \in DOMAIN d.checks
            \/ /\ s.op = "add index"
               /\ s.on \notin d.indexes
               /\ \A i \in DOMAIN s.on : s.on[i] \in DOMAIN d.cols
            \/ s.op = "drop index" /\ s.on \in d.indexes
            \/ /\ s.op = "add unique"
               /\ s.unique.on \subseteq DOMAIN d.cols /\ s.unique \notin d.uniques
               /\ UniqueHolds(s.unique, rows)
            \/ s.op = "drop unique" /\ s.unique \in d.uniques

Without(f, x) == [y \in DOMAIN f \ {x} |-> f[y]]

\* Dropping a column drops the indexes and constraints that need it.
DefWithout(d, c) ==
    [cols |-> Without(d.cols, c), checks |-> Without(d.checks, c),
     keys |-> {k \in d.keys : k.col # c},
     uniques |-> {u \in d.uniques : c \notin u.on},
     indexes |-> {x \in d.indexes : \A i \in DOMAIN x : x[i] # c}]

\* The definition of the table after statement s.
Defined(d, s) ==
    CASE s.op \in {"add column", "alter column"} -> [d EXCEPT !.cols = With(@, s.name, s.col)]
      [] s.op = "drop column" -> DefWithout(d, s.name)
      [] s.op = "add key" -> [d EXCEPT !.keys = @ \cup {s.key}]
      [] s.op = "drop key" -> [d EXCEPT !.keys = {k \in @ : k.col # s.name}]
      [] s.op = "add check" -> [d EXCEPT !.checks = With(@, s.name, s.allowed)]
      [] s.op = "drop check" -> [d EXCEPT !.checks = Without(@, s.name)]
      [] s.op = "add index" -> [d EXCEPT !.indexes = @ \cup {s.on}]
      [] s.op = "drop index" -> [d EXCEPT !.indexes = @ \ {s.on}]
      [] s.op = "add unique" -> [d EXCEPT !.uniques = @ \cup {s.unique}]
      [] s.op = "drop unique" -> [d EXCEPT !.uniques = @ \ {s.unique}]

\* The rows of the table after statement s.
RowsAfter(rows, s) ==
    CASE s.op = "add column" /\ Keeps(s.table, s.name) ->
             [i \in DOMAIN rows |-> With(rows[i], s.name, s.col.default)]
      [] s.op = "drop column" -> [i \in DOMAIN rows |-> Without(rows[i], s.name)]
      [] OTHER -> rows

\* A data definition statement, executed or refused.
Define(db, s) ==
    IF ~Accepts(db, s) THEN [db EXCEPT !.ok = FALSE]
    ELSE CASE s.op = "create" -> [db EXCEPT !.tables = With(@, s.table, s.def),
                                            !.rows = With(@, s.table, <<>>)]
           [] s.op = "drop" -> [db EXCEPT !.tables = Without(@, s.table),
                                          !.rows = Without(@, s.table)]
           [] OTHER -> [db EXCEPT !.tables[s.table] = Defined(@, s),
                                  !.rows[s.table] = RowsAfter(@, s)]

\* DELETE of one row: what the keys that refer to it say happens to the rows
\* that hold them.
DeleteRow(db, t, id) ==
    LET hit(u, k, i) == k.to = t /\ k.col \in DOMAIN db.rows[u][i] /\ db.rows[u][i][k.col] = id
        stays(u, i) == ~(u = t /\ i = id)
                       /\ \A k \in db.tables[u].keys : hit(u, k, i) => k.del # "cascade"
        nulled(u, i) == [c \in DOMAIN db.rows[u][i] |->
                            IF \E k \in db.tables[u].keys : k.col = c /\ hit(u, k, i)
                            THEN NULL ELSE db.rows[u][i][c]]
    IN [db EXCEPT !.rows = [u \in DOMAIN @ |->
            [i \in {j \in DOMAIN db.rows[u] : stays(u, j)} |-> nulled(u, i)]]]
=============================================================================
