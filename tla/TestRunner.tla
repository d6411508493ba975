------------------------------- MODULE TestRunner -------------------------------
(***************************************************************************)
(* tools/run_tests.py: the main process fills a queue of operators, starts *)
(* a worker process per GPU and follows them in display_loop; the workers  *)
(* take operators, run their two test phases and write a summary file.     *)
(*                                                                         *)
(* Both queues are multiprocessing.Queue: what a process puts is written   *)
(* to a pipe by a feeder thread of the process, under the write lock of    *)
(* the queue; who takes holds the read lock.  A process that is killed     *)
(* keeps the lock it holds.  "start" and "done" messages only change what  *)
(* is on the screen: the first are left out, the second are followed until *)
(* they are in the pipe, since a worker cannot end before that.            *)
(***************************************************************************)
EXTENDS Integers, FiniteSets

CONSTANTS
    Workers,        \* one per GPU
    OpCount,        \* operators to test: 1 .. OpCount, in the order of the queue
                    \* (without the blank lines of a file, which workers skip)
    Nobody,         \* holder of a free lock
    MaxDeaths,      \* bound: workers killed from outside
    Interrupts      \* does the user interrupt the run?

ASSUME RunnerAssumption ==
    /\ OpCount \in Nat
    /\ IsFiniteSet(Workers) /\ Workers # {}
    /\ Nobody \notin Workers
    /\ MaxDeaths \in Nat
    /\ Interrupts \in BOOLEAN

VARIABLES
    flushed,    \* operators that the feeder of main has written
    next,       \* the operator at the head of the work queue
    readLock,   \* of work_queue
    pc,         \* pc[w]: where worker w is
    op,         \* op[w]: the operator it works on
    raised,     \* operators whose test raised an exception
    results,    \* results[w]: the operators in worker_result of worker w
    saved,      \* saved[w]: the operators in the summary file of worker w
    unsent,     \* unsent[w]: "done" messages still with the feeder of worker w
    farewell,   \* farewell[w]: its "exit" message is "none", "unsent", "piped" or "seen"
    writeLock,  \* of display_queue
    torn,       \* a message was written in part
    main,       \* where the main process is
    exited,     \* the workers that display_loop no longer waits for
    report,     \* the operators in summary.json
    broken,     \* history: workers ended by an exception of ensure_dir
    deaths,     \* workers killed from outside
    starved     \* history: a worker found the queue empty before it was flushed

work == <<flushed, next, readLock>>
tests == <<op, raised, results, saved, broken>>
messages == <<unsent, farewell, writeLock, torn>>
display == <<main, exited, report>>
faults == <<deaths, starved>>
vars == <<work, pc, tests, messages, display, faults>>

Ops == 1 .. OpCount
Phases == {"accuracy", "benchmark", "save"}
Working == {"mkdir"} \cup Phases
Gone == {"gone", "dead"}
Ended(w) == pc[w] \in Gone

Init ==
    /\ flushed = 0
    /\ next = 1
    /\ readLock = Nobody
    /\ pc = [w \in Workers |-> "take"]
    /\ op = [w \in Workers |-> 0]
    /\ raised = {}
    /\ results = [w \in Workers |-> {}]
    /\ saved = [w \in Workers |-> {}]
    /\ unsent = [w \in Workers |-> 0]
    /\ farewell = [w \in Workers |-> "none"]
    /\ writeLock = Nobody
    /\ torn = FALSE
    /\ main = "display"
    /\ exited = {}
    /\ report = {}
    /\ broken = {}
    /\ deaths = 0
    /\ starved = FALSE

Goto(w, place) == pc' = [pc EXCEPT ![w] = place]

-----------------------------------------------------------------------------
(* Workers. *)

\* The feeder of the main process.
Flush ==
    /\ flushed < OpCount
    /\ main # "interrupted"
    /\ flushed' = flushed + 1
    /\ UNCHANGED <<next, readLock, pc, tests, messages, display, faults>>

\* work_queue.get_nowait() takes the read lock, without waiting ...
TakeLock(w) ==
    /\ pc[w] = "take"
    /\ readLock = Nobody
    /\ readLock' = w
    /\ Goto(w, "poll")
    /\ UNCHANGED <<flushed, next, tests, messages, display, faults>>

\* ... and raises Empty when another worker holds it: the worker's loop ends.
LockBusy(w) ==
    /\ pc[w] = "take"
    /\ readLock # Nobody
    /\ Goto(w, "leave")
    /\ UNCHANGED <<work, tests, messages, display, faults>>

\* It takes what is in the pipe; nothing there is Empty as well.
Poll(w) ==
    /\ pc[w] = "poll"
    /\ readLock' = Nobody
    /\ IF next <= flushed
       THEN /\ op' = [op EXCEPT ![w] = next]
            /\ next' = next + 1
            /\ Goto(w, "mkdir")
            /\ UNCHANGED starved
       ELSE /\ Goto(w, "leave")
            /\ starved' = (starved \/ flushed < OpCount)
            /\ UNCHANGED <<op, next>>
    /\ UNCHANGED <<flushed, raised, results, saved, broken, messages, display, deaths>>

\* ensure_dir(op_dir) ...
MakeDir(w) ==
    /\ pc[w] = "mkdir"
    /\ Goto(w, "accuracy")
    /\ UNCHANGED <<work, tests, messages, display, faults>>

\* ... stands before the try of the operator: its OSError ends the worker.
MakeDirFails(w) ==
    /\ pc[w] = "mkdir"
    /\ broken' = broken \cup {w}
    /\ Goto(w, "leave")
    /\ UNCHANGED <<work, op, raised, results, saved, messages, display, faults>>

\* display_queue.put(("done", ...))
Put(w, count) == unsent' = [unsent EXCEPT ![w] = @ + count]

\* A phase ends with its result, or with status NotFound or Timeout.
Accuracy(w) ==
    /\ pc[w] = "accuracy"
    /\ Goto(w, "benchmark")
    /\ Put(w, 1)
    /\ UNCHANGED <<work, tests, farewell, writeLock, torn, display, faults>>

Benchmark(w) ==
    /\ pc[w] = "benchmark"
    /\ Goto(w, "save")
    /\ Put(w, 1)
    /\ UNCHANGED <<work, tests, farewell, writeLock, torn, display, faults>>

\* Mutant: the file holds the last result only.
SaveLast(w) ==
    /\ pc[w] = "save"
    /\ results' = [results EXCEPT ![w] = @ \cup {op[w]}]
    /\ saved' = [saved EXCEPT ![w] = {op[w]}]
    /\ Goto(w, "take")
    /\ UNCHANGED <<work, op, raised, broken, messages, display, faults>>

\* The results so far are written to a temporary file that replaces the summary.
Save(w) ==
    /\ pc[w] = "save"
    /\ results' = [results EXCEPT ![w] = @ \cup {op[w]}]
    /\ saved' = [saved EXCEPT ![w] = results'[w]]
    /\ Goto(w, "take")
    /\ UNCHANGED <<work, op, raised, broken, messages, display, faults>>

\* Mutant: an exception ends the worker.
RaiseAndLeave(w) ==
    /\ pc[w] \in Phases
    /\ raised' = raised \cup {op[w]}
    /\ Put(w, 2)
    /\ Goto(w, "leave")
    /\ UNCHANGED <<work, op, results, saved, broken, farewell, writeLock, torn, display, faults>>

\* An exception of the operator's test: both phases are reported as Error.  A
\* result that could not be written is written with the next.
Raise(w) ==
    /\ pc[w] \in Phases
    /\ raised' = raised \cup {op[w]}
    /\ \/ UNCHANGED results
       \/ pc[w] = "save" /\ results' = [results EXCEPT ![w] = @ \cup {op[w]}]
    /\ Put(w, 2)
    /\ Goto(w, "take")
    /\ UNCHANGED <<work, op, saved, broken, farewell, writeLock, torn, display, faults>>

\* finally: display_queue.put(("exit", gpu_id))
Leave(w) ==
    /\ pc[w] = "leave"
    /\ farewell' = [farewell EXCEPT ![w] = "unsent"]
    /\ Goto(w, "exiting")
    /\ UNCHANGED <<work, tests, unsent, writeLock, torn, display, faults>>

HasMessage(w) == unsent[w] > 0 \/ farewell[w] = "unsent"

\* The feeder takes the write lock ...
LockPipe(w) ==
    /\ ~Ended(w)
    /\ HasMessage(w)
    /\ writeLock = Nobody
    /\ writeLock' = w
    /\ UNCHANGED <<work, pc, tests, unsent, farewell, torn, display, faults>>

\* ... and writes the first message.
Send(w) ==
    /\ writeLock = w
    /\ ~Ended(w)
    /\ writeLock' = Nobody
    /\ IF unsent[w] > 0
       THEN /\ unsent' = [unsent EXCEPT ![w] = @ - 1]
            /\ UNCHANGED farewell
       ELSE /\ farewell' = [farewell EXCEPT ![w] = "piped"]
            /\ UNCHANGED unsent
    /\ UNCHANGED <<work, pc, tests, torn, display, faults>>

\* A process that ends waits for its feeder.
Exit(w) ==
    /\ pc[w] = "exiting"
    /\ ~HasMessage(w)
    /\ Goto(w, "gone")
    /\ UNCHANGED <<work, tests, messages, display, faults>>

\* What is left of a worker that is killed: messages that were not sent are
\* lost, a lock stays locked, and a message may have been written in part.
Dies(w) ==
    /\ ~Ended(w)
    /\ Goto(w, "dead")
    /\ unsent' = [unsent EXCEPT ![w] = 0]
    /\ farewell' = [farewell EXCEPT ![w] = IF @ = "unsent" THEN "none" ELSE @]
    /\ torn' \in {torn, writeLock = w}
    /\ UNCHANGED <<work, tests, writeLock>>

\* The kernel's OOM killer, a segmentation fault, a worker that cannot even
\* open os.devnull.
Die(w) ==
    /\ deaths < MaxDeaths
    /\ main \in {"display", "join"}
    /\ deaths' = deaths + 1
    /\ Dies(w)
    /\ UNCHANGED <<display, starved>>

-----------------------------------------------------------------------------
(* The main process. *)

\* display_loop: queue.get(timeout=1) returns an "exit" message ...
ReceiveExit(w) ==
    /\ main = "display"
    /\ exited # Workers
    /\ farewell[w] = "piped"
    /\ farewell' = [farewell EXCEPT ![w] = "seen"]
    /\ exited' = exited \cup {w}
    /\ UNCHANGED <<work, pc, tests, unsent, writeLock, torn, main, report, faults>>

PipeEmpty == \A w \in Workers : farewell[w] # "piped"

\* Mutants: the loop does not look for dead workers; one dead worker ends it.
TimeoutWaits ==
    /\ main = "display"
    /\ exited # Workers
    /\ PipeEmpty /\ ~torn
    /\ UNCHANGED <<work, pc, tests, messages, display, faults>>
TimeoutBreaks ==
    /\ main = "display"
    /\ exited # Workers
    /\ PipeEmpty /\ ~torn
    /\ exited' = IF \E w \in Workers \ exited : Ended(w) THEN Workers ELSE exited
    /\ UNCHANGED <<work, pc, tests, messages, main, report, faults>>

\* ... or raises after a second without one: workers that are not alive are
\* counted as exited.  With part of a message in the pipe it does neither.
Timeout ==
    /\ main = "display"
    /\ exited # Workers
    /\ PipeEmpty /\ ~torn
    /\ exited' = exited \cup {w \in Workers : Ended(w)}
    /\ UNCHANGED <<work, pc, tests, messages, main, report, faults>>

\* `while len(exited) < len(workers)`
EndDisplay ==
    /\ main = "display"
    /\ exited = Workers
    /\ main' = "join"
    /\ UNCHANGED <<work, pc, tests, messages, exited, report, faults>>

\* `for p in WORKER_PROCESSES: p.join()`, then the summaries are merged.
Merge ==
    /\ main = "join"
    /\ \A w \in Workers : Ended(w)
    /\ main' = "done"
    /\ report' = UNION {saved[w] : w \in Workers}
    /\ UNCHANGED <<work, pc, tests, messages, exited, faults>>

\* handle_interrupt: terminate_workers, then exit without a report.
Interrupt ==
    /\ Interrupts
    /\ main \in {"display", "join"}
    /\ main' = "terminating"
    /\ UNCHANGED <<work, pc, tests, messages, exited, report, faults>>

\* SIGTERM and, five seconds later, SIGKILL.
Terminate(w) ==
    /\ main = "terminating"
    /\ Dies(w)
    /\ UNCHANGED <<display, faults>>

EndInterrupt ==
    /\ main = "terminating"
    /\ \A w \in Workers : Ended(w)
    /\ main' = "interrupted"
    /\ UNCHANGED <<work, pc, tests, messages, exited, report, faults>>

Worker(w) ==
    \/ TakeLock(w) \/ LockBusy(w) \/ Poll(w)
    \/ MakeDir(w) \/ MakeDirFails(w)
    \/ Accuracy(w) \/ Benchmark(w) \/ Save(w) \/ Raise(w)
    \/ Leave(w) \/ Exit(w)

Feeder(w) == LockPipe(w) \/ Send(w)

Main ==
    \/ \E w \in Workers : ReceiveExit(w) \/ Terminate(w)
    \/ Timeout \/ EndDisplay \/ Merge \/ EndInterrupt

Next ==
    \/ Flush \/ Main \/ Interrupt
    \/ \E w \in Workers : Worker(w) \/ Feeder(w) \/ Die(w)

\* Processes and their feeders keep running; every phase has a timeout.  A
\* feeder that waits for the lock gets it when it comes free often enough.
Fairness ==
    /\ WF_vars(Main)
    /\ \A w \in Workers : WF_vars(Worker(w)) /\ WF_vars(Send(w)) /\ SF_vars(LockPipe(w))

Spec == Init /\ [][Next]_vars
FairSpec == Spec /\ Fairness

-----------------------------------------------------------------------------
(* Properties. *)

Places == {"take", "poll", "leave", "exiting"} \cup Working \cup Gone

\* Types of the variables.
TypeOK ==
    /\ flushed \in 0 .. OpCount
    /\ next \in 1 .. OpCount + 1
    /\ readLock \in Workers \cup {Nobody}
    /\ pc \in [Workers -> Places]
    /\ op \in [Workers -> 0 .. OpCount]
    /\ raised \subseteq Ops
    /\ results \in [Workers -> SUBSET Ops]
    /\ saved \in [Workers -> SUBSET Ops]
    /\ unsent \in [Workers -> Nat]
    /\ farewell \in [Workers -> {"none", "unsent", "piped", "seen"}]
    /\ writeLock \in Workers \cup {Nobody}
    /\ torn \in BOOLEAN
    /\ main \in {"display", "join", "done", "terminating", "interrupted"}
    /\ exited \subseteq Workers
    /\ report \subseteq Ops
    /\ broken \subseteq Workers
    /\ deaths \in 0 .. MaxDeaths
    /\ starved \in BOOLEAN

\* Although a worker gives up as soon as it meets another one at the queue, and
\* an exception of a test comes anywhere, operators are left in the queue at the
\* end only if a worker was killed or could not make a directory, or if the
\* workers were faster than the feeder of the main process.
NothingLeftBehind ==
    (main = "done" /\ deaths = 0 /\ ~starved /\ broken = {}) => next > OpCount

\* The workers that were killed or could not make a directory.
Casualties == broken \cup {w \in Workers : pc[w] = "dead"}

\* What is missing in the report is what the code does not save: operators whose
\* test raised, those left in the queue, and at most one for every worker that was
\* killed or could not make a directory, which nothing reports.
ReportComplete ==
    main = "done" =>
        LET missing == (1 .. next - 1) \ (report \cup raised)
        IN  Cardinality(missing) <= Cardinality(Casualties)

\* When display_loop has stopped reading, no worker that is still alive has a
\* message to send: it could wait for room in the pipe, and main for its end.
NoMessageUnread ==
    main \in {"join", "done"} => \A w \in Workers : Ended(w) \/ ~HasMessage(w)

\* Somebody has died with the write lock of the display queue: the remaining
\* workers can neither report nor end.
WriteLockLost == \E w \in Workers : writeLock = w /\ pc[w] = "dead"

\* The run ends, unless a worker dies while it writes a message.
RunEnds == <>(main \in {"done", "interrupted"} \/ WriteLockLost)
=============================================================================
