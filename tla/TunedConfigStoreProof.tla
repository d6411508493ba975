------------------------- MODULE TunedConfigStoreProof -------------------------
(***************************************************************************)
(* Proofs about TunedConfigStore, for any number of processes, keys,       *)
(* tables, values and failures.                                            *)
(***************************************************************************)
EXTENDS TunedConfigStore, TLAPS

-----------------------------------------------------------------------------
(* The inductive invariant.  A row is written by a process at most once,   *)
(* since a process stores a value only after it has found no row and rows  *)
(* do not disappear (WritesOnce); a process that has loaded a row which    *)
(* has changed since has seen an insertion and missed an update            *)
(* (StaleLoad).                                                            *)

Places == {"idle", "model", "tune", "get", "create", "merge", "commit"}
Datums == [Columns -> Data]

StoreTypes ==
    /\ rows \in [Rows -> Datums \cup {Absent}]
    /\ tables \subseteq Tables
    /\ pool \in [Processes -> SUBSET Tables]
    /\ declared \in [Processes -> SUBSET Tables]
    /\ pc \in [Processes -> Places]
    /\ call \in [Processes -> {"lookup", "put", "readback"}]
    /\ row \in [Processes -> Rows]
    /\ offer \in [Processes -> Values \cup {Absent}]
    /\ loaded \in [Processes -> Datums \cup {Absent}]
    /\ failures \in Nat
    /\ writers \in [Rows -> SUBSET Processes]

TwoWriters(k) == \E p, q \in writers[k] : p # q
ThreeWriters(k) == \E o, p, q \in writers[k] : o # p /\ o # q /\ p # q

RowInv(k) ==
    /\ rows[k] # Absent <=> writers[k] # {}
    /\ rows[k] # Absent => TableOf[k] \in tables
    /\ rows[k] \notin Values \cup {Absent} => ThreeWriters(k)

CallInv(p) ==
    /\ pc[p] \in {"create", "merge", "commit"} => call[p] = "put"
    /\ pc[p] \in {"idle", "tune"} => call[p] = "lookup"
    /\ call[p] = "put" => offer[p] \in Values /\ pc[p] # "get"
    /\ pc[p] \in {"merge", "commit"} => Table(p) \in tables
    /\ pool[p] \subseteq tables
    /\ call[p] = "readback" => rows[row[p]] # Absent

WritesOnce(p) == p \in writers[row[p]] => pc[p] # "tune" /\ call[p] # "put"

StaleLoad(p) == (pc[p] = "commit" /\ loaded[p] # Absent) =>
    /\ rows[row[p]] # Absent
    /\ loaded[p] # rows[row[p]] => TwoWriters(row[p])

ClassInv(p) == \A t \in declared[p] : t \notin pool[p] =>
    failures > 0 \/ (pc[p] = "create" /\ t = Table(p))

ProcessInv(p) == CallInv(p) /\ WritesOnce(p) /\ StaleLoad(p) /\ ClassInv(p)

StoreInv ==
    /\ StoreTypes
    /\ \A k \in Rows : RowInv(k)
    /\ \A p \in Processes : ProcessInv(p)

-----------------------------------------------------------------------------
LEMMA StoreInit == Init => StoreInv
  <1> SUFFICES ASSUME Init PROVE StoreInv
    OBVIOUS
  <1>1. StoreTypes
    BY DEF Init, StoreTypes, Places
  <1>2. ASSUME NEW k \in Rows PROVE RowInv(k)
    BY DEF Init, RowInv
  <1>3. ASSUME NEW p \in Processes PROVE ProcessInv(p)
    BY DEF Init, ProcessInv, CallInv, WritesOnce, StaleLoad, ClassInv, Table
  <1> QED
    BY <1>1, <1>2, <1>3 DEF StoreInv

\* The variables of one process, as the others see them.
Local(q) == <<pool[q], declared[q], pc[q], call[q], row[q], offer[q], loaded[q]>>

\* A step that leaves the rows alone does not disturb another process.
LEMMA OthersKeep ==
    ASSUME StoreInv, NEW q \in Processes, Local(q)' = Local(q),
           rows' = rows, writers' = writers, tables \subseteq tables',
           failures \in Nat, failures' \in Nat, failures <= failures'
    PROVE  ProcessInv(q)'
  <1>1. ProcessInv(q)
    BY DEF StoreInv
  <1>2. /\ pool'[q] = pool[q] /\ declared'[q] = declared[q] /\ pc'[q] = pc[q]
        /\ call'[q] = call[q] /\ row'[q] = row[q] /\ offer'[q] = offer[q]
        /\ loaded'[q] = loaded[q]
    BY DEF Local
  <1>3. CallInv(q)' /\ WritesOnce(q)' /\ StaleLoad(q)'
    BY <1>1, <1>2 DEF ProcessInv, CallInv, WritesOnce, StaleLoad, Table, TwoWriters
  <1>4. ClassInv(q)'
    BY <1>1, <1>2 DEF ProcessInv, ClassInv, Table
  <1> QED
    BY <1>3, <1>4 DEF ProcessInv

\* ... nor a row.
LEMMA RowsKeep ==
    ASSUME StoreInv, NEW k \in Rows,
           rows' = rows, writers' = writers, tables \subseteq tables'
    PROVE  RowInv(k)'
  BY DEF StoreInv, RowInv, ThreeWriters

\* The steps of a process that leave the rows alone.
LEMMA QuietStep ==
    ASSUME StoreInv, NEW p \in Processes,
           \/ \E k \in Rows : Lookup(p, k)
           \/ FindModel(p) \/ NoModel(p) \/ Build(p) \/ RefuseClass(p) \/ Create(p)
           \/ Get(p) \/ (\E v \in Values : Tune(p, v)) \/ Merge(p)
           \/ Fail(p) \/ Crash(p)
    PROVE  StoreInv'
  <1> DEFINE Here == ProcessInv(p)' /\ StoreTypes'
  <1>1. /\ rows' = rows /\ writers' = writers /\ tables \subseteq tables'
        /\ failures \in Nat /\ failures' \in Nat /\ failures <= failures'
    BY DEF StoreInv, StoreTypes, Lookup, FindModel, NoModel, Build, RefuseClass,
           Create, Get, Tune, Merge, Fail, Crash, file
  <1>2. ASSUME NEW q \in Processes, q # p PROVE Local(q)' = Local(q)
    BY <1>2 DEF StoreInv, StoreTypes, Lookup, FindModel, NoModel, Build, RefuseClass,
           Create, Get, Tune, Merge, Fail, Crash, file, classes, Begin, Goto, Return,
           NotFound, Local
  <1>3. StoreTypes /\ ProcessInv(p) /\ RowInv(row[p]) /\ row[p] \in Rows
    BY DEF StoreInv, StoreTypes
  <1>4. ASSUME NEW k \in Rows, Lookup(p, k) PROVE Here
    <2>1. StoreTypes'
      BY <1>3, <1>4 DEF StoreTypes, Lookup, file, classes, Begin, Goto, Places
    <2>2. ProcessInv(p)'
      BY <1>3, <1>4 DEF StoreTypes, Lookup, file, classes, Begin, Goto,
         ProcessInv, CallInv, WritesOnce, StaleLoad, ClassInv, Table
    <2> QED
      BY <2>1, <2>2
  <1>5. ASSUME FindModel(p) PROVE Here
    <2>1. StoreTypes'
      BY <1>3, <1>5 DEF StoreTypes, FindModel, file, classes, Goto, Places, Table
    <2>2. ProcessInv(p)'
      BY <1>3, <1>5 DEF StoreTypes, FindModel, file, Goto, ProcessInv, CallInv,
         WritesOnce, StaleLoad, ClassInv, Table
    <2> QED
      BY <2>1, <2>2
  <1>6. ASSUME NoModel(p) PROVE Here
    <2>1. StoreTypes'
      BY <1>3, <1>6 DEF StoreTypes, NoModel, NotFound, Return, file, classes, Goto, Places
    <2>2. rows[row[p]] = Absent /\ writers[row[p]] = {}
      BY <1>3, <1>6 DEF NoModel, RowInv, Table
    <2>3. ProcessInv(p)'
      BY <1>3, <1>6, <2>2 DEF StoreTypes, NoModel, NotFound, Return, file,
         classes, Goto, ProcessInv, CallInv, WritesOnce, StaleLoad, ClassInv,
         Table
    <2> QED
      BY <2>1, <2>3
  <1>7. ASSUME Build(p) PROVE Here
    <2>1. StoreTypes'
      BY <1>3, <1>7, StoreAssumption DEF StoreTypes, Build, file, Goto, Places, Table
    <2>2. ProcessInv(p)'
      BY <1>3, <1>7 DEF StoreTypes, Build, file, Goto, ProcessInv, CallInv,
         WritesOnce, StaleLoad, ClassInv, Table
    <2> QED
      BY <2>1, <2>2
  <1>8. ASSUME RefuseClass(p) PROVE Here
    <2>1. StoreTypes'
      BY <1>3, <1>8 DEF StoreTypes, RefuseClass, Return, file, classes, Goto, Places
    <2>2. ProcessInv(p)'
      BY <1>3, <1>8 DEF StoreTypes, RefuseClass, NameTaken, Return, file,
         classes, Goto, ProcessInv, CallInv, WritesOnce, StaleLoad, ClassInv,
         Table
    <2> QED
      BY <2>1, <2>2
  <1>9. ASSUME Create(p) PROVE Here
    <2>1. StoreTypes'
      BY <1>3, <1>9, StoreAssumption DEF StoreTypes, Create, Goto, Places, Table
    <2>2. ProcessInv(p)'
      BY <1>3, <1>9 DEF StoreTypes, Create, Goto, ProcessInv, CallInv,
         WritesOnce, StaleLoad, ClassInv, Table
    <2> QED
      BY <2>1, <2>2
  <1>10. ASSUME Get(p) PROVE Here
    <2>1. StoreTypes'
      BY <1>3, <1>10 DEF StoreTypes, Get, NotFound, Return, file, classes, Goto, Places
    <2>2. rows[row[p]] = Absent => writers[row[p]] = {}
      BY <1>3 DEF RowInv
    <2>3. ProcessInv(p)'
      BY <1>3, <1>10, <2>2 DEF StoreTypes, Get, NotFound, Return, file, classes,
         Goto, ProcessInv, CallInv, WritesOnce, StaleLoad, ClassInv, Table
    <2> QED
      BY <2>1, <2>3
  <1>11. ASSUME NEW v \in Values, Tune(p, v) PROVE Here
    <2>1. StoreTypes'
      BY <1>3, <1>11 DEF StoreTypes, Tune, file, classes, Begin, Goto, Places
    <2>2. ProcessInv(p)'
      BY <1>3, <1>11 DEF StoreTypes, Tune, file, classes, Begin, Goto,
         ProcessInv, CallInv, WritesOnce, StaleLoad, ClassInv, Table
    <2> QED
      BY <2>1, <2>2
  <1>12. ASSUME Merge(p) PROVE Here
    <2>1. StoreTypes'
      BY <1>3, <1>12 DEF StoreTypes, Merge, file, classes, Goto, Places
    <2>2. ProcessInv(p)'
      BY <1>3, <1>12 DEF StoreTypes, Merge, file, classes, Goto, ProcessInv,
         CallInv, WritesOnce, StaleLoad, ClassInv, Table
    <2> QED
      BY <2>1, <2>2
  <1>13. ASSUME Fail(p) PROVE Here
    <2>1. StoreTypes'
      BY <1>3, <1>13 DEF StoreTypes, Fail, Return, file, classes, Goto, Places
    <2>2. ProcessInv(p)'
      BY <1>3, <1>13 DEF StoreTypes, Fail, Return, file, classes, Goto,
         ProcessInv, CallInv, WritesOnce, StaleLoad, ClassInv, Table
    <2> QED
      BY <2>1, <2>2
  <1>14. ASSUME Crash(p) PROVE Here
    <2>1. StoreTypes'
      BY <1>3, <1>14 DEF StoreTypes, Crash, Return, file, Goto, Places
    <2>2. ProcessInv(p)'
      BY <1>3, <1>14 DEF StoreTypes, Crash, Return, file, Goto, ProcessInv,
         CallInv, WritesOnce, StaleLoad, ClassInv, Table
    <2> QED
      BY <2>1, <2>2
  <1>15. Here
    BY <1>4, <1>5, <1>6, <1>7, <1>8, <1>9, <1>10, <1>11, <1>12, <1>13, <1>14
  <1>16. \A q \in Processes : ProcessInv(q)'
    BY <1>1, <1>2, <1>15, OthersKeep
  <1>17. \A k \in Rows : RowInv(k)'
    BY <1>1, RowsKeep
  <1> QED
    BY <1>15, <1>16, <1>17 DEF StoreInv

\* What the statement of a commit writes, when it is not refused: a new row as a
\* whole, or some columns of a row that is there.
LEMMA WhatIsWritten ==
    ASSUME StoreInv, NEW p \in Processes, pc[p] = "commit", ~Refused(p)
    PROVE  /\ row[p] \in Rows /\ offer[p] \in Values
           /\ Written(p) \in Datums
           /\ loaded[p] = Absent => rows[row[p]] = Absent /\ Written(p) = offer[p]
           /\ loaded[p] # Absent => rows[row[p]] # Absent
           /\ (loaded[p] # Absent /\ loaded[p] = rows[row[p]]) => Written(p) = offer[p]
  <1>1. /\ row[p] \in Rows /\ offer[p] \in Values /\ offer[p] \in Datums
        /\ rows[row[p]] \in Datums \cup {Absent} /\ loaded[p] \in Datums \cup {Absent}
        /\ loaded[p] # Absent => rows[row[p]] # Absent
    BY StoreAssumption DEF StoreInv, StoreTypes, ProcessInv, CallInv, StaleLoad, Datums
  <1>2. CASE loaded[p] = Absent
    BY <1>1, <1>2 DEF Written, Refused
  <1>3. CASE loaded[p] # Absent
    <2>1. Written(p) = [c \in Columns |-> IF offer[p][c] # loaded[p][c]
                                          THEN offer[p][c] ELSE rows[row[p]][c]]
      BY <1>3 DEF Written
    <2>2. Written(p) \in Datums
      BY <1>1, <1>3, <2>1 DEF Datums
    <2>3. ASSUME loaded[p] = rows[row[p]] PROVE Written(p) = offer[p]
      <3>1. \A c \in Columns : Written(p)[c] = offer[p][c]
        BY <2>1, <2>3
      <3> QED
        BY <1>1, <2>2, <3>1 DEF Datums
    <2> QED
      BY <1>1, <1>3, <2>2, <2>3
  <1> QED
    BY <1>2, <1>3

\* The process after its commit.
LEMMA AfterCommit ==
    ASSUME StoreInv, NEW p \in Processes, Commit(p)
    PROVE  /\ pc' = [pc EXCEPT ![p] = pc'[p]] /\ pc'[p] \in {"model", "idle"}
           /\ call' = [call EXCEPT ![p] = call'[p]]
           /\ call'[p] \in {"readback", "lookup"}
           /\ offer' \in [Processes -> Values \cup {Absent}]
           /\ loaded' \in [Processes -> Datums \cup {Absent}]
           /\ \A q \in Processes : q # p => Local(q)' = Local(q)
           /\ UNCHANGED <<tables, pool, declared, row, failures>>
  BY DEF Commit, Begin, Return, Goto, Local, classes, StoreInv, StoreTypes

LEMMA CommitStep ==
    ASSUME StoreInv, NEW p \in Processes, Commit(p)
    PROVE  StoreInv'
  <1> DEFINE k == row[p]
  <1>1. /\ k \in Rows /\ pc[p] = "commit" /\ call[p] = "put" /\ Table(p) \in tables
        /\ p \notin writers[k] /\ ProcessInv(p) /\ StoreTypes /\ RowInv(k)
    BY DEF Commit, StoreInv, StoreTypes, ProcessInv, CallInv, WritesOnce
  <1>4. /\ row'[p] = row[p] /\ pool'[p] = pool[p] /\ declared'[p] = declared[p]
        /\ pc'[p] \in {"model", "idle"} /\ call'[p] \in {"readback", "lookup"}
        /\ pc'[p] = "idle" => call'[p] = "lookup"
        /\ tables' = tables /\ failures' = failures
    BY <1>1, AfterCommit DEF StoreTypes, Commit, Begin, Return, Goto
  <1>2. CASE Refused(p)
    <2>1. rows' = rows /\ writers' = writers /\ rows[k] # Absent
      BY <1>2 DEF Commit, Refused
    <2>2. StoreTypes'
      BY <1>1, <2>1, AfterCommit DEF StoreTypes, Places
    <2>3. ProcessInv(p)'
      BY <1>1, <1>4, <2>1
      DEF ProcessInv, CallInv, WritesOnce, StaleLoad, ClassInv, Table
    <2>4. \A q \in Processes : ProcessInv(q)'
      <3>1. failures \in Nat /\ failures' = failures /\ tables' = tables
        BY <1>1, AfterCommit DEF StoreTypes
      <3>2. \A q \in Processes : q # p => ProcessInv(q)'
        BY <2>1, <3>1, AfterCommit, OthersKeep
      <3> QED
        BY <2>3, <3>2
    <2>5. \A j \in Rows : RowInv(j)'
      BY <2>1, AfterCommit, RowsKeep
    <2> QED
      BY <2>2, <2>4, <2>5 DEF StoreInv
  <1>3. CASE ~Refused(p)
    <2>1. /\ rows' = [rows EXCEPT ![k] = Written(p)]
          /\ writers' = [writers EXCEPT ![k] = @ \cup {p}]
      BY <1>3 DEF Commit
    <2>2. Written(p) \in Datums /\ Written(p) # Absent
      BY <1>1, <1>3, WhatIsWritten, StoreAssumption DEF Datums
    <2>3. /\ rows'[k] = Written(p) /\ writers'[k] = writers[k] \cup {p}
          /\ \A j \in Rows : j # k => rows'[j] = rows[j] /\ writers'[j] = writers[j]
      BY <1>1, <2>1 DEF StoreTypes
    <2>4. StoreTypes'
      BY <1>1, <2>1, <2>2, AfterCommit DEF StoreTypes, Places
    <2>5. ProcessInv(p)'
      BY <1>1, <1>4, <2>2, <2>3
      DEF ProcessInv, CallInv, WritesOnce, StaleLoad, ClassInv, Table
    <2>6. ASSUME NEW q \in Processes, q # p PROVE ProcessInv(q)'
      <3>1. ProcessInv(q) /\ row[q] \in Rows
        BY DEF StoreInv, StoreTypes
      <3>2. /\ pool'[q] = pool[q] /\ declared'[q] = declared[q] /\ pc'[q] = pc[q]
            /\ call'[q] = call[q] /\ row'[q] = row[q] /\ offer'[q] = offer[q]
            /\ loaded'[q] = loaded[q] /\ tables' = tables /\ failures' = failures
        BY <2>6, AfterCommit DEF Local
      <3>3. CallInv(q)' /\ WritesOnce(q)'
        BY <2>2, <2>3, <2>6, <3>1, <3>2 DEF ProcessInv, CallInv, WritesOnce, Table
      <3>4. ASSUME pc[q] = "commit", loaded[q] # Absent
            PROVE  /\ rows'[row[q]] # Absent
                   /\ loaded[q] # rows'[row[q]] =>
                         \E o, u \in writers'[row[q]] : o # u
        <4>1. /\ rows[row[q]] # Absent /\ RowInv(row[q])
              /\ loaded[q] # rows[row[q]] => \E o, u \in writers[row[q]] : o # u
          BY <3>1, <3>4 DEF StoreInv, ProcessInv, StaleLoad, TwoWriters
        <4>2. CASE row[q] = k
          <5>1. PICK o \in writers[k] : TRUE
            BY <4>1, <4>2 DEF RowInv
          <5> QED
            BY <1>1, <2>2, <2>3, <4>2, <5>1
        <4>3. CASE row[q] # k
          BY <2>3, <3>1, <4>1, <4>3
        <4> QED
          BY <4>2, <4>3
      <3>5. StaleLoad(q)'
        BY <3>2, <3>4 DEF StaleLoad, TwoWriters
      <3>6. ClassInv(q)'
        BY <3>1, <3>2 DEF ProcessInv, ClassInv, Table
      <3> QED
        BY <3>3, <3>5, <3>6 DEF ProcessInv
    <2>7. ASSUME NEW j \in Rows, j = k PROVE RowInv(j)'
      <3>1. ASSUME Written(p) \notin Values PROVE ThreeWriters(j)'
        <4>1. loaded[p] # Absent /\ loaded[p] # rows[k]
          BY <1>1, <1>3, <3>1, WhatIsWritten
        <4>2. PICK o, u \in writers[k] : o # u
          BY <1>1, <4>1 DEF ProcessInv, StaleLoad, TwoWriters
        <4> QED
          BY <1>1, <2>3, <2>7, <4>2 DEF ThreeWriters
      <3>2. TableOf[j] \in tables'
        BY <1>1, <1>4, <2>7 DEF Table
      <3> QED
        BY <2>2, <2>3, <2>7, <3>1, <3>2 DEF RowInv
    <2>8. ASSUME NEW j \in Rows, j # k PROVE RowInv(j)'
      <3>1. RowInv(j) /\ rows'[j] = rows[j] /\ writers'[j] = writers[j]
        BY <2>3, <2>8 DEF StoreInv
      <3> QED
        BY <3>1, AfterCommit DEF RowInv, ThreeWriters
    <2>9. \A q \in Processes : ProcessInv(q)'
      BY <2>5, <2>6
    <2>10. \A j \in Rows : RowInv(j)'
      BY <2>7, <2>8
    <2> QED
      BY <2>4, <2>9, <2>10 DEF StoreInv
  <1> QED
    BY <1>2, <1>3

LEMMA StoreStep == StoreInv /\ [Next]_vars => StoreInv'
  <1> SUFFICES ASSUME StoreInv, [Next]_vars PROVE StoreInv'
    OBVIOUS
  <1>1. CASE Next
    <2>1. PICK p \in Processes : Step(p)
      BY <1>1 DEF Next
    <2>2. CASE Commit(p)
      BY <2>2, CommitStep
    <2>3. CASE ~Commit(p)
      BY <2>1, <2>3, QuietStep DEF Step
    <2> QED
      BY <2>2, <2>3
  <1>2. CASE UNCHANGED vars
    BY <1>2 DEF vars, file, classes, StoreInv, StoreTypes, RowInv, ThreeWriters,
       ProcessInv, CallInv, WritesOnce, StaleLoad, TwoWriters, ClassInv, Table
  <1> QED
    BY <1>1, <1>2

THEOREM StoreInvariant == Spec => []StoreInv
  <1> QED
    BY StoreInit, StoreStep, PTL DEF Spec

-----------------------------------------------------------------------------
(* The theorems. *)

\* A tuner that has stored a configuration finds one when it reads it back, even
\* if its own INSERT was refused because another process was first.
THEOREM ReadBackFinds == Spec => []ReadBackSucceeds
  <1>1. StoreInv => ReadBackSucceeds
    BY DEF StoreInv, StoreTypes, RowInv, ProcessInv, CallInv, ReadBackSucceeds, Table
  <1> QED
    BY <1>1, StoreInvariant, PTL

\* Two processes cannot mix their values in a row, whatever the interleaving.
THEOREM TearNeedsThreeProcesses == Spec => []TearTakesThree
  <1>1. StoreInv => TearTakesThree
    BY DEF StoreInv, RowInv, ThreeWriters, TearTakesThree
  <1> QED
    BY <1>1, StoreInvariant, PTL

\* No interleaving of processes makes SQLAlchemy refuse a class.
THEOREM ClassesAreRefusedAfterFailures == Spec => []RefusedAfterFailure
  <1>1. StoreInv => RefusedAfterFailure
    BY DEF StoreInv, StoreTypes, ProcessInv, ClassInv, NameTaken, RefusedAfterFailure
  <1> QED
    BY <1>1, StoreInvariant, PTL

\* Every step of the store is a step of the table of registers, or none.
LEMMA EntriesStep == StoreInv /\ [Next]_vars => [Entries!Next]_rows
  <1> SUFFICES ASSUME StoreInv, [Next]_vars, rows' # rows PROVE Entries!Next
    OBVIOUS
  <1>1. PICK p \in Processes : Step(p)
    BY DEF Next, vars, file
  <1>2. Commit(p)
    BY <1>1 DEF Step, Lookup, FindModel, NoModel, Build, RefuseClass, Create, Get, Tune,
       Merge, Fail, Crash, file
  <1>3. /\ ~Refused(p) /\ pc[p] = "commit"
        /\ rows' = [rows EXCEPT ![row[p]] = Written(p)]
    BY <1>2 DEF Commit
  <1>4. CASE loaded[p] = Absent
    <2>1. Entries!Appear(row[p], offer[p])
      BY <1>3, <1>4, WhatIsWritten DEF Entries!Appear
    <2> QED
      BY <1>3, <2>1, WhatIsWritten DEF Entries!Next
  <1>5. CASE loaded[p] # Absent
    <2> DEFINE changed == {c \in Columns : offer[p][c] # loaded[p][c]}
    <2>1. Written(p) = [c \in Columns |-> IF c \in changed THEN offer[p][c]
                                          ELSE rows[row[p]][c]]
      BY <1>5 DEF Written
    <2>2. Entries!Overwrite(row[p], offer[p], changed)
      BY <1>3, <1>5, <2>1, WhatIsWritten DEF Entries!Overwrite
    <2>3. changed \in SUBSET Columns
      OBVIOUS
    <2> HIDE DEF changed
    <2> QED
      BY <1>3, <2>2, <2>3, WhatIsWritten DEF Entries!Next
  <1> QED
    BY <1>4, <1>5

\* The store implements a table of entries that appear as a whole, never disappear
\* and are overwritten column by column.
THEOREM StoreImplementsColumns == Spec => ImplementsColumns
  <1>1. Init => Entries!Init
    BY DEF Init, Entries!Init
  <1> QED
    BY <1>1, EntriesStep, StoreInvariant, PTL DEF Spec, ImplementsColumns, Entries!Spec
=============================================================================
