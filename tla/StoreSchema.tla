----------------------------- MODULE StoreSchema -----------------------------
(***************************************************************************)
(* Opening brain.db (store/db.py).  Several processes, of several releases *)
(* of the plugin and on interpreters with and without FTS5, open one file: *)
(* the first creates it, a newer one migrates it, everyone reconciles the  *)
(* full-text index.  A script runs statement by statement, each committed  *)
(* at once; only what follows it is a transaction.  A process may die, or  *)
(* lose the wait for the write lock, between any two steps.                *)
(***************************************************************************)
EXTENDS Integers, FiniteSets

CONSTANTS
    Openers,        \* processes that open the file
    Release,        \* the schema version each one understands
    Capable,        \* those whose Python has FTS5
    OldVersions,         \* the versions an existing file may have
    Absent,         \* no schema_version row
    Nobody,
    MaxStored, MaxOpens, MaxDeaths    \* bounds

ASSUME OpenersAssumption ==
    /\ Release \in [Openers -> Nat \ {0}] /\ Capable \subseteq Openers
    /\ OldVersions \subseteq Nat \ {0} /\ Absent \notin Nat /\ Nobody \notin Openers
ASSUME StoreBoundsAssumption == {MaxStored, MaxOpens, MaxDeaths} \subseteq Nat

VARIABLES
    tables,         \* versions whose tables exist; 0 is the meta table
    version,        \* meta.schema_version, or Absent
    triggers,       \* the FTS tables and triggers exist
    stored, indexed,  \* rows of the store, and those the index holds
    capsOf,         \* the FTS5 flag of the cached capabilities, or Absent
    writer,         \* who holds the write lock in an open transaction
    opening,        \* how far each process has come
    target,         \* the version a process migrates to next
    opens, deaths   \* history: connections opened, processes that died

storeVars == <<tables, version, triggers, stored, indexed, capsOf, writer,
               opening, target, opens, deaths>>
schemaVars == <<tables, version>>
ftsVars == <<triggers, indexed, capsOf, writer>>
storeCounts == <<opens, deaths>>

Fts(p) == p \in Capable
Free(p) == writer \in {Nobody, p}
Goto(p, where) == opening' = [opening EXCEPT ![p] = where]

StoreInit ==
    /\ \/ tables = {} /\ version = Absent /\ stored = {} /\ triggers = FALSE
          /\ capsOf = Absent
       \/ /\ version \in OldVersions /\ tables = 0..version /\ stored = {0}
          /\ triggers \in BOOLEAN /\ capsOf = triggers
    /\ indexed = IF triggers THEN stored ELSE {}
    /\ writer = Nobody
    /\ opening = [p \in Openers |-> "closed"]
    /\ target = [p \in Openers |-> 0]
    /\ opens = 0 /\ deaths = 0

\* Mutant of Course: a file with a meta table counts as created.
CourseUnhealed(p, v) ==
    CASE v = Absent /\ 0 \notin tables -> "create"
      [] v \in Nat /\ v > Release[p] -> "closed"
      [] v \in Nat /\ v < Release[p] -> "migrate"
      [] OTHER -> "reconcile"
\* What a version read from meta asks of a process of this release.
Course(p, v) ==
    CASE v = Absent -> "create"
      [] v \in Nat /\ v > Release[p] -> "closed"    \* FutureSchemaError
      [] v \in Nat /\ v < Release[p] -> "migrate"
      [] OTHER -> "reconcile"

\* connect and the head of _ensure_schema.
Connect(p) ==
    /\ opening[p] = "closed" /\ opens < MaxOpens
    /\ opens' = opens + 1
    /\ LET v == IF 0 \in tables THEN version ELSE Absent
       IN /\ Goto(p, Course(p, v))
          /\ target' = [target EXCEPT ![p] = IF v = Absent THEN 0 ELSE v + 1]
    /\ UNCHANGED <<schemaVars, ftsVars, stored, deaths>>

\* _create_fresh: schema.sql, meta first; target is the next statement.
CreateTables(p) ==
    /\ opening[p] = "create" /\ Free(p) /\ target[p] <= Release[p]
    /\ tables' = tables \cup {target[p]}
    /\ target' = [target EXCEPT ![p] = @ + 1]
    /\ UNCHANGED <<version, ftsVars, stored, opening, storeCounts>>

\* _create_fresh: the FTS objects, unless this Python lacks them.
CreateIndex(p) ==
    /\ opening[p] = "create" /\ Free(p) /\ target[p] > Release[p]
    /\ triggers' = (triggers \/ Fts(p))
    /\ Goto(p, "seed")
    /\ UNCHANGED <<schemaVars, indexed, capsOf, writer, stored, target, storeCounts>>

\* _create_fresh: the rows of meta.
Seed(p) ==
    /\ opening[p] = "seed" /\ Free(p)
    /\ version' = Release[p] /\ capsOf' = Fts(p)
    /\ Goto(p, "open")
    /\ UNCHANGED <<tables, triggers, indexed, writer, stored, target, storeCounts>>

\* _migrate: the script of one version, its statements IF NOT EXISTS.
MigrateScript(p) ==
    /\ opening[p] = "migrate" /\ Free(p)
    /\ tables' = tables \cup {target[p]}
    /\ Goto(p, "stamp")
    /\ UNCHANGED <<version, ftsVars, stored, target, storeCounts>>

\* _migrate: schema_version after its script.
MigrateStamp(p) ==
    /\ opening[p] = "stamp" /\ Free(p)
    /\ version' = target[p]
    /\ target' = [target EXCEPT ![p] = @ + 1]
    /\ Goto(p, IF target[p] = Release[p] THEN "reconcile" ELSE "migrate")
    /\ UNCHANGED <<tables, ftsVars, stored, storeCounts>>

\* _reconcile_fts.
Reconcile(p) ==
    /\ opening[p] = "reconcile"
    /\ \/ /\ Fts(p) /\ ~triggers /\ Free(p)
          /\ triggers' = TRUE /\ Goto(p, "rebuild")
       \/ /\ ~Fts(p) /\ triggers /\ Free(p)
          /\ triggers' = FALSE /\ Goto(p, "caps")
       \/ /\ Fts(p) <=> triggers
          /\ Goto(p, "caps") /\ UNCHANGED triggers
    /\ UNCHANGED <<schemaVars, indexed, capsOf, writer, stored, target, storeCounts>>

\* _reconcile_fts: the rebuild opens a transaction that nothing here ends.
Rebuild(p) ==
    /\ opening[p] = "rebuild" /\ Free(p)
    /\ writer' = p
    /\ Goto(p, "caps")
    /\ UNCHANGED <<schemaVars, triggers, indexed, capsOf, stored, target, storeCounts>>

\* A commit of p makes its rebuild durable.
IndexAfterCommit(p) == IF writer = p THEN stored ELSE indexed

\* _ensure_schema: the cached capabilities, written when they changed.
Capabilities(p) ==
    /\ opening[p] = "caps"
    /\ \/ /\ capsOf # Fts(p) /\ Free(p)
          /\ capsOf' = Fts(p)
          /\ indexed' = IndexAfterCommit(p)
          /\ writer' = Nobody
       \/ capsOf = Fts(p) /\ UNCHANGED <<indexed, capsOf, writer>>
    /\ Goto(p, "open")
    /\ UNCHANGED <<schemaVars, triggers, stored, target, storeCounts>>

\* _ensure_schema: the lock stayed taken, so the reconcile is deferred.
Deferred(p) ==
    /\ opening[p] \in {"reconcile", "rebuild", "caps"} /\ ~Free(p)
    /\ Goto(p, "open")
    /\ UNCHANGED <<schemaVars, ftsVars, stored, target, storeCounts>>

\* A writer stores one row; without the module, the triggers make it fail.
Write(p) ==
    /\ opening[p] = "open" /\ Free(p) /\ Cardinality(stored) < MaxStored
    /\ triggers => Fts(p)
    /\ stored' = stored \cup {Cardinality(stored)}
    /\ indexed' = IndexAfterCommit(p) \cup
            IF triggers THEN {Cardinality(stored)} ELSE {}
    /\ writer' = Nobody
    /\ UNCHANGED <<schemaVars, triggers, capsOf, opening, target, storeCounts>>

\* A connection is closed, or its process dies: what is open rolls back.
Leave(p) ==
    /\ opening' = [opening EXCEPT ![p] = "closed"]
    /\ writer' = IF writer = p THEN Nobody ELSE writer
    /\ UNCHANGED <<schemaVars, triggers, indexed, capsOf, stored, target, opens>>
CloseStore(p) == opening[p] = "open" /\ Leave(p) /\ UNCHANGED deaths
Dies(p) ==
    /\ opening[p] # "closed" /\ deaths < MaxDeaths
    /\ Leave(p) /\ deaths' = deaths + 1

StoreNext == \E p \in Openers :
    \/ Connect(p) \/ CreateTables(p) \/ CreateIndex(p) \/ Seed(p)
    \/ MigrateScript(p) \/ MigrateStamp(p)
    \/ Reconcile(p) \/ Rebuild(p) \/ Capabilities(p) \/ Deferred(p)
    \/ Write(p) \/ CloseStore(p) \/ Dies(p)

StoreTypeOK ==
    /\ tables \subseteq Nat /\ version \in Nat \cup {Absent}
    /\ indexed \subseteq stored /\ capsOf \in BOOLEAN \cup {Absent}
    /\ writer \in Openers \cup {Nobody}

\* Whatever died or raced before, a process whose connect returned works on
\* every table of its release: the version is stamped after the script it
\* stands for, and a file without one is created again (_ensure_schema).
OpenedWhole == \A p \in Openers :
    opening[p] = "open" => 0..Release[p] \subseteq tables

\* "(re)creating FTS objects and rebuilding index" (_reconcile_fts): outside
\* a reconcile, triggers that exist stand beside an index of every row.
IndexWhole ==
    triggers /\ (\A p \in Openers : opening[p] \in {"closed", "open"} /\ writer # p)
        => indexed = stored
=============================================================================
