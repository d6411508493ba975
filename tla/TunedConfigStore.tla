---------------------------- MODULE TunedConfigStore ----------------------------
(***************************************************************************)
(* The tuned configuration store of utils/models/sql.py, as the tuner of   *)
(* utils/libentry.py uses it: processes that share one SQLite file.        *)
(*                                                                         *)
(* A row is a key with its table; a table holds configurations or          *)
(* benchmarks.  Every process keeps a pool of table classes and the names  *)
(* it has declared in SQLAlchemy's metadata.  A process works on one call  *)
(* at a time; what it does between two statements is one step, and each    *)
(* SQL statement is atomic.  A value gives every column of the table its   *)
(* datum; all values of a table have the same columns.                     *)
(***************************************************************************)
EXTENDS Naturals

CONSTANTS
    Processes,      \* processes with the file open
    Rows,           \* keys, of all tables
    Tables,
    TableOf,        \* the table of a row
    Columns,        \* the columns that are not part of the key
    Data,           \* what a column holds
    Values,         \* what the tuner may choose or measure
    Absent,         \* no row
    MaxFailures     \* bound: failed statements and crashes

ASSUME StoreAssumption ==
    /\ TableOf \in [Rows -> Tables]
    /\ Values \subseteq [Columns -> Data]
    /\ Absent \notin [Columns -> Data]
    /\ MaxFailures \in Nat

VARIABLES
    rows,       \* the file: rows[k] is a value or Absent
    tables,     \* the file: tables that have been created
    pool,       \* pool[p]: sql_model_pool
    declared,   \* declared[p]: names taken in Base.metadata
    pc,         \* pc[p]: where the process is
    call,       \* call[p]: "lookup", "put" or "readback"
    row,        \* row[p]: the row the call is about
    offer,      \* offer[p]: the value the process stores
    loaded,     \* loaded[p]: the row as merge has loaded it
    failures,   \* statements that have failed, and crashes
    writers     \* history: the processes whose statement has changed a row

file == <<rows, tables, writers>>
classes == <<pool, declared>>
vars == <<file, classes, pc, call, row, offer, loaded, failures>>

Table(p) == TableOf[row[p]]

-----------------------------------------------------------------------------
Init ==
    /\ rows = [k \in Rows |-> Absent]
    /\ tables = {}
    /\ pool = [p \in Processes |-> {}]
    /\ declared = [p \in Processes |-> {}]
    /\ pc = [p \in Processes |-> "idle"]
    /\ call = [p \in Processes |-> "lookup"]
    /\ row \in [Processes -> Rows]
    /\ offer = [p \in Processes |-> Absent]
    /\ loaded = [p \in Processes |-> Absent]
    /\ failures = 0
    /\ writers = [k \in Rows |-> {}]

Goto(p, place) == pc' = [pc EXCEPT ![p] = place]

\* A call of the store begins with get_sql_model.
Begin(p, kind) ==
    /\ call' = [call EXCEPT ![p] = kind]
    /\ Goto(p, "model")

\* The call is over; its local variables are gone.
Return(p) ==
    /\ Goto(p, "idle")
    /\ call' = [call EXCEPT ![p] = "lookup"]
    /\ offer' = [offer EXCEPT ![p] = Absent]
    /\ loaded' = [loaded EXCEPT ![p] = Absent]

\* The tuner looks a key up: `key not in self.cache`, `cache.get(config)`.
Lookup(p, k) ==
    /\ pc[p] = "idle"
    /\ Begin(p, "lookup")
    /\ row' = [row EXCEPT ![p] = k]
    /\ UNCHANGED <<file, classes, offer, loaded, failures>>

\* get_sql_model: the pool, then the tables of the file.
FindModel(p) ==
    /\ pc[p] = "model"
    /\ Table(p) \in pool[p] \cup tables
    /\ pool' = [pool EXCEPT ![p] = @ \cup {Table(p)}]
    /\ Goto(p, IF call[p] = "put" THEN "merge" ELSE "get")
    /\ UNCHANGED <<file, declared, call, row, offer, loaded, failures>>

\* Nothing was found: the tuner runs (or, when it reads back what it has
\* stored, a KeyError).
NotFound(p) ==
    IF call[p] = "lookup"
    THEN Goto(p, "tune") /\ UNCHANGED <<call, offer, loaded>>
    ELSE Return(p)

\* Mutant: the class is declared before the early return.
NoModelDeclares(p) ==
    /\ pc[p] = "model"
    /\ call[p] # "put"
    /\ Table(p) \notin pool[p] \cup tables
    /\ NotFound(p)
    /\ declared' = [declared EXCEPT ![p] = @ \cup {Table(p)}]
    /\ UNCHANGED <<file, pool, row, failures>>

\* get_sql_model, without the columns: `if not keys or not values: return None`
NoModel(p) ==
    /\ pc[p] = "model"
    /\ call[p] # "put"
    /\ Table(p) \notin pool[p] \cup tables
    /\ NotFound(p)
    /\ UNCHANGED <<file, classes, row, failures>>

\* get_sql_model, with the columns: build_sql_model_by_py declares the class.
Build(p) ==
    /\ pc[p] = "model"
    /\ call[p] = "put"
    /\ Table(p) \notin pool[p] \cup tables \cup declared[p]
    /\ declared' = [declared EXCEPT ![p] = @ \cup {Table(p)}]
    /\ Goto(p, "create")
    /\ UNCHANGED <<file, pool, call, row, offer, loaded, failures>>

\* The class has to be built, and its name is taken.
NameTaken(p) ==
    /\ pc[p] = "model"
    /\ call[p] = "put"
    /\ Table(p) \notin pool[p] \cup tables
    /\ Table(p) \in declared[p]

\* SQLAlchemy refuses the class.
RefuseClass(p) ==
    /\ NameTaken(p)
    /\ Return(p)
    /\ UNCHANGED <<file, classes, row, failures>>

\* CREATE TABLE IF NOT EXISTS
Create(p) ==
    /\ pc[p] = "create"
    /\ tables' = tables \cup {Table(p)}
    /\ pool' = [pool EXCEPT ![p] = @ \cup {Table(p)}]
    /\ Goto(p, "merge")
    /\ UNCHANGED <<rows, writers, declared, call, row, offer, loaded, failures>>

\* Mutant: the row is not found again.
GetAlwaysTunes(p) ==
    /\ pc[p] = "get"
    /\ NotFound(p)
    /\ UNCHANGED <<file, classes, row, failures>>

\* get_config, get_benchmark: one SELECT.
Get(p) ==
    /\ pc[p] = "get"
    /\ IF rows[row[p]] = Absent THEN NotFound(p) ELSE Return(p)
    /\ UNCHANGED <<file, classes, row, failures>>

\* The policy has chosen a configuration, or a configuration has been timed.
Tune(p, v) ==
    /\ pc[p] = "tune"
    /\ offer' = [offer EXCEPT ![p] = v]
    /\ Begin(p, "put")
    /\ UNCHANGED <<file, classes, row, loaded, failures>>

\* session.merge: a SELECT, outside the transaction of the statement to come.
Merge(p) ==
    /\ pc[p] = "merge"
    /\ loaded' = [loaded EXCEPT ![p] = rows[row[p]]]
    /\ Goto(p, "commit")
    /\ UNCHANGED <<file, classes, call, row, offer, failures>>

\* Mutant: an INSERT leaves the columns at a default.
WrittenDefault(p) ==
    IF loaded[p] = Absent
    THEN [c \in Columns |-> CHOOSE d \in Data : TRUE]
    ELSE offer[p]

\* The row after the statement of the commit: an INSERT, refused when the row
\* exists, or an UPDATE of the columns in which merge has changed what it loaded.
Refused(p) == loaded[p] = Absent /\ rows[row[p]] # Absent

Written(p) ==
    IF loaded[p] = Absent
    THEN offer[p]
    ELSE [c \in Columns |-> IF offer[p][c] # loaded[p][c]
                            THEN offer[p][c] ELSE rows[row[p]][c]]

\* RollbackSession.commit keeps silent about an INSERT that is refused.  The
\* tuner then reads a configuration back, a benchmark it has in hand.
Commit(p) ==
    /\ pc[p] = "commit"
    /\ IF Refused(p)
       THEN UNCHANGED <<rows, writers>>
       ELSE /\ rows' = [rows EXCEPT ![row[p]] = Written(p)]
            /\ writers' = [writers EXCEPT ![row[p]] = @ \cup {p}]
    /\ \/ Begin(p, "readback") /\ UNCHANGED <<offer, loaded>>
       \/ Return(p)
    /\ UNCHANGED <<tables, classes, row, failures>>

\* Mutant: every error of the commit is swallowed.
FailQuietly(p) ==
    /\ pc[p] = "commit"
    /\ failures < MaxFailures
    /\ failures' = failures + 1
    /\ Begin(p, "readback")
    /\ UNCHANGED <<file, classes, row, offer, loaded>>

\* CREATE TABLE or the statement of the commit fails (a locked or full
\* database): an OperationalError that nobody catches.
Fail(p) ==
    /\ pc[p] \in {"create", "commit"}
    /\ failures < MaxFailures
    /\ failures' = failures + 1
    /\ Return(p)
    /\ UNCHANGED <<file, classes, row>>

\* The process is killed; one that takes its place has no classes yet.
Crash(p) ==
    /\ failures < MaxFailures
    /\ failures' = failures + 1
    /\ pool' = [pool EXCEPT ![p] = {}]
    /\ declared' = [declared EXCEPT ![p] = {}]
    /\ Return(p)
    /\ UNCHANGED <<file, row>>

Step(p) ==
    \/ \E k \in Rows : Lookup(p, k)
    \/ FindModel(p) \/ NoModel(p)
    \/ Build(p) \/ RefuseClass(p) \/ Create(p)
    \/ Get(p)
    \/ \E v \in Values : Tune(p, v)
    \/ Merge(p) \/ Commit(p)
    \/ Fail(p) \/ Crash(p)

Next == \E p \in Processes : Step(p)

Spec == Init /\ [][Next]_vars

-----------------------------------------------------------------------------
(* Properties. *)

\* A tuner finds the row it reads back: the table can be read and the row is
\* there, although an INSERT may have been refused in silence.
ReadBackSucceeds ==
    \A p \in Processes : (call[p] = "readback" /\ pc[p] \in {"model", "get"}) =>
        rows[row[p]] # Absent /\ Table(p) \in pool[p] \cup tables

\* The data of different values are mixed in a row only when three processes
\* have written it: one inserts, two load the same row and update it.
TearTakesThree ==
    \A k \in Rows : rows[k] \notin Values \cup {Absent} =>
        \E o, p, q \in writers[k] : o # p /\ o # q /\ p # q

\* SQLAlchemy refuses a class only after a failure: whatever other processes do
\* at the same time, a process that has built the class of a table has it.
RefusedAfterFailure ==
    \A p \in Processes : NameTaken(p) => failures > 0

\* The store implements a table of entries whose columns are registers.
Entries == INSTANCE ColumnStore
ImplementsColumns == Entries!Spec
=============================================================================
