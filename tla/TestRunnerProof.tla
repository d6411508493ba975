----------------------------- MODULE TestRunnerProof ----------------------------
(***************************************************************************)
(* Proofs about TestRunner, for any number of workers, operators and       *)
(* deaths.                                                                 *)
(***************************************************************************)
EXTENDS TestRunner, FiniteSetTheorems, TLAPS

-----------------------------------------------------------------------------
(* The inductive invariant.                                                *)

\* What holds of a worker: its file holds nothing that it does not hold itself, a
\* worker without a directory takes no operator any more, it polls under the lock
\* and keeps the lock only by dying, and its farewell is the last of its messages.
WorkerInv(w) ==
    /\ pc[w] \in Working => op[w] \in 1 .. next - 1
    /\ saved[w] \subseteq results[w]
    /\ w \in broken => pc[w] \in {"leave", "exiting"} \cup Gone
    /\ pc[w] = "poll" => readLock = w
    /\ readLock = w => pc[w] \in {"poll", "dead"}
    /\ farewell[w] = "unsent" => pc[w] = "exiting"
    /\ farewell[w] \in {"piped", "seen"} =>
           unsent[w] = 0 /\ pc[w] \in {"exiting", "gone", "dead"}
    /\ pc[w] = "exiting" => farewell[w] # "none"
    /\ Ended(w) => ~HasMessage(w)
    /\ writeLock = w => Ended(w) \/ HasMessage(w)
    /\ w \in exited => Ended(w) \/ farewell[w] = "seen"

WorkersInv == \A w \in Workers : WorkerInv(w)

Terminating == main \in {"terminating", "interrupted"}

\* While operators are left, somebody looks for one or works on one.
Busy(w) == pc[w] \in {"take", "poll"} \cup Working
SomebodyBusy ==
    (deaths = 0 /\ ~starved /\ broken = {} /\ ~Terminating /\ next <= OpCount) =>
        \E w \in Workers : Busy(w)

Dead == {w \in Workers : pc[w] = "dead"}
DeathsCounted == ~Terminating => Cardinality(Dead) <= deaths

\* Every operator taken is reported, saved, in work, or the last of a worker that
\* was killed or could not make its directory.
Accounted == \A o \in 1 .. next - 1 :
    \/ o \in raised
    \/ \E w \in Workers : o \in saved[w]
    \/ \E w \in Workers : op[w] = o /\ (pc[w] \in Working \cup {"dead"} \/ w \in broken)

MainInv ==
    /\ main \in {"join", "done"} => exited = Workers
    /\ main = "done" =>
           /\ \A w \in Workers : Ended(w)
           /\ report = UNION {saved[w] : w \in Workers}

RunnerInv ==
    /\ TypeOK
    /\ WorkersInv
    /\ MainInv
    /\ SomebodyBusy
    /\ DeathsCounted
    /\ Accounted

\* The steps of a worker that is alive, but for its end.
Dir(w) == MakeDir(w) \/ MakeDirFails(w)
Test(w) == Accuracy(w) \/ Benchmark(w) \/ Save(w) \/ Raise(w)
Take(w) == TakeLock(w) \/ LockBusy(w) \/ Poll(w)
Talk(w) == Leave(w) \/ Exit(w) \/ LockPipe(w) \/ Send(w)
Kill(w) == Die(w) \/ Terminate(w)
Follow == (\E w \in Workers : ReceiveExit(w)) \/ Timeout
Conclude == EndDisplay \/ Merge \/ Interrupt \/ EndInterrupt

\* A step is one of these.
LEMMA Steps ==
    ASSUME [Next]_vars
    PROVE  \/ \E w \in Workers : Dir(w) \/ Test(w) \/ Take(w) \/ Talk(w) \/ Kill(w)
           \/ Flush \/ Follow \/ Conclude \/ UNCHANGED vars
  BY DEF Next, Main, Worker, Feeder, Dir, Test, Take, Talk, Kill, Follow, Conclude

\* Somebody must be there to look for the first operator.
LEMMA InitInv == Init => RunnerInv
<1> SUFFICES ASSUME Init PROVE RunnerInv
  OBVIOUS
<1> USE RunnerAssumption DEF Init
<1>1. TypeOK
  <2>1. pc \in [Workers -> Places] /\ op \in [Workers -> 0 .. OpCount]
    BY DEF Places
  <2>2. /\ results \in [Workers -> SUBSET Ops] /\ saved \in [Workers -> SUBSET Ops]
        /\ unsent \in [Workers -> Nat]
    OBVIOUS
  <2>3. farewell \in [Workers -> {"none", "unsent", "piped", "seen"}]
    OBVIOUS
  <2>4. starved \in BOOLEAN /\ torn \in BOOLEAN
    OBVIOUS
  <2> QED BY <2>1, <2>2, <2>3, <2>4 DEF TypeOK
<1>2. WorkersInv
  BY DEF WorkersInv, WorkerInv, Working, Phases, Ended, Gone, HasMessage
<1>3. MainInv /\ Accounted
  BY DEF MainInv, Accounted
<1>4. SomebodyBusy
  BY DEF SomebodyBusy, Busy
<1>5. Dead = {}
  BY DEF Dead
<1>6. DeathsCounted
  BY <1>5, FS_EmptySet DEF DeathsCounted
<1> QED BY <1>1, <1>2, <1>3, <1>4, <1>6 DEF RunnerInv

LEMMA TypeStep ==
    ASSUME RunnerInv, [Next]_vars
    PROVE  TypeOK'
<1> USE RunnerAssumption DEF RunnerInv, TypeOK, Goto, Put
<1>1. ASSUME NEW w \in Workers, Test(w) PROVE TypeOK'
  <2>1. op[w] \in Ops
    BY <1>1 DEF Test, Accuracy, Benchmark, Save, Raise, WorkersInv, WorkerInv, Working, Phases, Ops
  <2>2. CASE Accuracy(w) \/ Benchmark(w)
    BY <2>2 DEF Accuracy, Benchmark, Places, Working, Phases, work, tests, display, faults
  <2>3. CASE Save(w)
    BY <2>1, <2>3 DEF Save, Places, work, messages, display, faults
  <2>4. CASE Raise(w)
    BY <2>1, <2>4 DEF Raise, Places, Working, Phases, work, display, faults
  <2> QED BY <1>1, <2>2, <2>3, <2>4 DEF Test
<1>0. ASSUME NEW w \in Workers, Dir(w) PROVE TypeOK'
  BY <1>0 DEF Dir, MakeDir, MakeDirFails, Places, Working, Phases,
       work, tests, messages, display, faults
<1>2. ASSUME NEW w \in Workers, Take(w) PROVE TypeOK'
  <2>1. CASE TakeLock(w) \/ LockBusy(w)
    BY <2>1 DEF TakeLock, LockBusy, Places, work, tests, messages, display, faults
  <2>2. CASE Poll(w)
    <3>1. starved' \in BOOLEAN
      BY <2>2, Zenon DEF Poll
    <3>2. CASE next <= flushed
      BY <2>2, <3>1, <3>2 DEF Poll, Places, Working, Ops, messages, display
    <3>3. CASE ~(next <= flushed)
      BY <2>2, <3>1, <3>3 DEF Poll, Places, Ops, messages, display
    <3> QED BY <3>2, <3>3
  <2> QED BY <1>2, <2>1, <2>2 DEF Take
<1>3. ASSUME NEW w \in Workers, Talk(w) PROVE TypeOK'
  <2>1. CASE Leave(w) \/ Exit(w) \/ LockPipe(w)
    BY <2>1 DEF Leave, Exit, LockPipe, Places, Gone, work, tests, messages, display, faults
  <2>2. CASE Send(w)
    BY <2>2 DEF Send, work, tests, display, faults
  <2> QED BY <1>3, <2>1, <2>2 DEF Talk
<1>4. ASSUME NEW w \in Workers, Kill(w) PROVE TypeOK'
  <2>1. Dies(w)
    BY <1>4 DEF Kill, Die, Terminate
  <2>2. torn' \in BOOLEAN
    <3>1. torn' = torn \/ torn' = (writeLock = w)
      BY <2>1 DEF Dies
    <3> QED BY <3>1, Zenon
  <2>3. deaths' \in 0 .. MaxDeaths
    BY <1>4 DEF Kill, Die, Terminate, faults
  <2>4. starved' \in BOOLEAN /\ main' = main /\ exited' = exited /\ report' = report
    BY <1>4 DEF Kill, Die, Terminate, display, faults
  <2>5. /\ pc' \in [Workers -> Places] /\ unsent' \in [Workers -> Nat]
        /\ farewell' \in [Workers -> {"none", "unsent", "piped", "seen"}]
    BY <2>1 DEF Dies, Places, Gone
  <2> QED BY <2>1, <2>2, <2>3, <2>4, <2>5 DEF Dies, work, tests
<1>5. CASE Flush
  BY <1>5 DEF Flush, tests, messages, display, faults
<1>6. CASE Follow
  BY <1>6 DEF Follow, ReceiveExit, Timeout, work, tests, messages, faults
<1>7. CASE Conclude
  <2>1. CASE Merge
    BY <2>1 DEF Merge, work, tests, messages, faults
  <2> QED BY <1>7, <2>1 DEF Conclude, EndDisplay, Interrupt, EndInterrupt,
            work, tests, messages, faults
<1>8. CASE UNCHANGED vars
  BY <1>8 DEF vars, work, tests, messages, display, faults
<1> QED BY <1>0, <1>1, <1>2, <1>3, <1>4, <1>5, <1>6, <1>7, <1>8, Steps

LEMMA WorkersStep ==
    ASSUME RunnerInv, [Next]_vars
    PROVE  WorkersInv'
<1> USE RunnerAssumption DEF RunnerInv, TypeOK
<1> SUFFICES ASSUME NEW v \in Workers PROVE WorkerInv(v)'
  BY DEF WorkersInv
<1>0. WorkerInv(v)
  BY DEF WorkersInv
<1> USE <1>0 DEF WorkerInv, Ended, Gone, HasMessage, Goto, Put, Working
<1>1. ASSUME NEW w \in Workers, Test(w) PROVE WorkerInv(v)'
  <2>1. WorkerInv(w)
    BY DEF WorkersInv
  <2> QED BY <1>1, <2>1 DEF Test, Accuracy, Benchmark, Save, Raise, Phases,
            work, tests, messages, display, faults
<1>2. ASSUME NEW w \in Workers, Take(w) PROVE WorkerInv(v)'
  <2>1. WorkerInv(w)
    BY DEF WorkersInv
  <2>2. CASE TakeLock(w) \/ LockBusy(w)
    BY <2>1, <2>2 DEF TakeLock, LockBusy, Phases, work, tests, messages, display, faults
  <2>3. CASE Poll(w)
    BY <2>1, <2>3 DEF Poll, Phases, messages, display
  <2> QED BY <1>2, <2>2, <2>3 DEF Take
<1>3. ASSUME NEW w \in Workers, Talk(w) PROVE WorkerInv(v)'
  <2>1. WorkerInv(w)
    BY DEF WorkersInv
  <2>2. CASE Leave(w) \/ Exit(w) \/ LockPipe(w)
    BY <2>1, <2>2 DEF Leave, Exit, LockPipe, Phases, work, tests, messages, display, faults
  <2>3. CASE Send(w) /\ unsent[w] > 0
    BY <2>1, <2>3 DEF Send, Phases, work, tests, display, faults
  <2>4. CASE Send(w) /\ unsent[w] = 0
    <3>1. farewell[w] = "unsent" /\ pc[w] = "exiting"
      BY <2>1, <2>4 DEF Send
    <3> QED BY <2>1, <2>4, <3>1 DEF Send, Phases, work, tests, display, faults
  <2> QED BY <1>3, <2>2, <2>3, <2>4 DEF Talk
<1>4. ASSUME NEW w \in Workers, Kill(w) PROVE WorkerInv(v)'
  BY <1>4 DEF Kill, Die, Terminate, Dies, Phases, work, tests, display, faults
<1>5. CASE Flush
  BY <1>5 DEF Flush, tests, messages, display, faults
<1>6. CASE Follow
  BY <1>6 DEF Follow, ReceiveExit, Timeout, work, tests, messages, faults
<1>7. CASE Conclude
  BY <1>7 DEF Conclude, EndDisplay, Merge, Interrupt, EndInterrupt, work, tests, messages, faults
<1>8. CASE UNCHANGED vars
  BY <1>8 DEF vars, work, tests, messages, display, faults
<1>9. ASSUME NEW w \in Workers, Dir(w) PROVE WorkerInv(v)'
  <2>1. WorkerInv(w)
    BY DEF WorkersInv
  <2> QED BY <1>9, <2>1 DEF Dir, MakeDir, MakeDirFails, Phases,
            work, tests, messages, display, faults
<1> QED BY <1>1, <1>2, <1>3, <1>4, <1>5, <1>6, <1>7, <1>8, <1>9, Steps

\* Workers that have ended do nothing more.
LEMMA MainStep ==
    ASSUME RunnerInv, [Next]_vars
    PROVE  MainInv'
<1> USE DEF RunnerInv, MainInv, Ended, Gone
<1>1. ASSUME NEW w \in Workers, Dir(w) \/ Test(w) \/ Take(w) \/ Talk(w) \/ Kill(w) PROVE MainInv'
  <2>1. exited' = exited /\ main' = main /\ report' = report
    BY <1>1 DEF Dir, MakeDir, MakeDirFails, Test, Accuracy, Benchmark, Save, Raise,
         Take, TakeLock, LockBusy, Poll, Talk, Leave, Exit, LockPipe, Send, Kill, Die, Terminate, display
  <2>2. CASE main = "done"
    <3>1. Ended(w)
      BY <2>2
    <3>2. ~Dir(w) /\ ~Test(w) /\ ~Take(w) /\ ~Kill(w)
      BY <3>1 DEF Dir, MakeDir, MakeDirFails, Test, Accuracy, Benchmark, Save, Raise, Take, TakeLock, LockBusy, Poll,
           Kill, Die, Terminate, Dies, Phases
    <3>3. ~Talk(w)
      BY <3>1 DEF Talk, Leave, Exit, LockPipe, Send
    <3> QED BY <1>1, <3>2, <3>3
  <2> QED BY <2>1, <2>2
<1>2. CASE Flush \/ UNCHANGED vars
  BY <1>2 DEF Flush, tests, display, vars
<1>3. CASE Follow
  <2>1. main = "display" /\ main' = main
    BY <1>3 DEF Follow, ReceiveExit, Timeout
  <2> QED BY <2>1
<1>4. CASE Conclude
  BY <1>4 DEF Conclude, EndDisplay, Merge, Interrupt, EndInterrupt, tests
<1> QED BY <1>1, <1>2, <1>3, <1>4, Steps

\* Nobody has died while no death is counted.
LEMMA NobodyDead ==
    ASSUME RunnerInv, deaths = 0, ~Terminating
    PROVE  Dead = {}
<1>1. IsFiniteSet(Dead)
  BY RunnerAssumption, FS_Subset DEF Dead
<1>2. Cardinality(Dead) \in Nat /\ Cardinality(Dead) <= 0
  BY <1>1, FS_CardinalityType DEF RunnerInv, DeathsCounted
<1> QED BY <1>1, <1>2, FS_EmptySet

\* The clocks of the model: they only go on.
LEMMA Onwards ==
    ASSUME RunnerInv, [Next]_vars
    PROVE  /\ next' >= next /\ deaths' >= deaths
           /\ starved => starved'
           /\ broken \subseteq broken'
           /\ Terminating => Terminating'
<1> USE DEF RunnerInv, TypeOK, Terminating
<1>1. ASSUME NEW w \in Workers, Dir(w) \/ Test(w) \/ Take(w) \/ Talk(w) \/ Kill(w)
      PROVE  /\ next' >= next /\ deaths' >= deaths /\ (starved => starved')
             /\ broken \subseteq broken' /\ main' = main
  BY <1>1 DEF Dir, MakeDir, MakeDirFails, Test, Accuracy, Benchmark, Save, Raise,
       Take, TakeLock, LockBusy, Poll, Talk, Leave, Exit, LockPipe, Send,
       Kill, Die, Terminate, Dies, work, tests, display, faults
<1>2. CASE Flush \/ Follow \/ UNCHANGED vars
  BY <1>2 DEF Flush, Follow, ReceiveExit, Timeout, vars, work, tests, display, faults
<1>3. CASE Conclude
  BY <1>3 DEF Conclude, EndDisplay, Merge, Interrupt, EndInterrupt, work, tests, faults
<1> QED BY <1>1, <1>2, <1>3, Steps

\* A worker gives up when it meets another one at the queue: that one is alive,
\* and it goes on with an operator or finds the queue empty.
LEMMA BusyStep ==
    ASSUME RunnerInv, [Next]_vars
    PROVE  SomebodyBusy'
<1> SUFFICES ASSUME deaths' = 0, ~starved', broken' = {}, ~Terminating', next' <= OpCount
             PROVE  (\E w \in Workers : Busy(w))'
  BY DEF SomebodyBusy
<1>1. deaths = 0 /\ ~starved /\ broken = {} /\ ~Terminating /\ next <= OpCount
  BY Onwards, TypeStep, RunnerAssumption DEF RunnerInv, TypeOK
<1>2. PICK u \in Workers : Busy(u)
  BY <1>1 DEF RunnerInv, SomebodyBusy
<1> USE RunnerAssumption DEF RunnerInv, TypeOK, Busy, Goto
<1>0. ASSUME NEW w \in Workers, Dir(w) PROVE Busy(w)'
  BY <1>0 DEF Dir, MakeDir, MakeDirFails, Working, Phases
<1>3. ASSUME NEW w \in Workers, Test(w) PROVE Busy(w)'
  BY <1>3 DEF Test, Accuracy, Benchmark, Save, Raise, Working, Phases
<1>4. ASSUME NEW w \in Workers, Take(w) PROVE \E v \in Workers : Busy(v)'
  <2>1. CASE TakeLock(w)
    BY <2>1 DEF TakeLock
  <2>2. CASE LockBusy(w)
    <3>1. readLock \in Workers
      BY <2>2 DEF LockBusy
    <3>2. pc[readLock] \in {"poll", "dead"}
      BY <3>1 DEF WorkersInv, WorkerInv
    <3>3. pc[readLock] = "poll"
      BY <1>1, <3>1, <3>2, NobodyDead DEF Dead
    <3>4. pc'[readLock] = "poll"
      BY <2>2, <3>1, <3>3 DEF LockBusy
    <3> QED BY <3>1, <3>4
  <2>3. CASE Poll(w)
    <3>1. SUFFICES ASSUME ~(next <= flushed) PROVE FALSE
      BY <2>3 DEF Poll, Working
    <3>2. starved' = (starved \/ flushed < OpCount)
      BY <2>3, <3>1 DEF Poll
    <3>3. ~(flushed < OpCount)
      BY <3>2
    <3> QED BY <1>1, <3>1, <3>3
  <2> QED BY <1>4, <2>1, <2>2, <2>3 DEF Take
<1>5. ASSUME NEW w \in Workers, Talk(w) PROVE Busy(u)'
  BY <1>2, <1>5 DEF Talk, Leave, Exit, LockPipe, Send, Working, Phases
<1>6. ASSUME NEW w \in Workers PROVE ~Kill(w)
  BY <1>1 DEF Kill, Die, Terminate, Terminating
<1>7. CASE Flush \/ Follow \/ Conclude \/ UNCHANGED vars
  BY <1>2, <1>7 DEF Flush, Follow, ReceiveExit, Timeout, Conclude, EndDisplay, Merge,
       Interrupt, EndInterrupt, vars
<1> QED BY <1>0, <1>3, <1>4, <1>5, <1>6, <1>7, Steps

LEMMA DeathsStep ==
    ASSUME RunnerInv, [Next]_vars
    PROVE  DeathsCounted'
<1> SUFFICES ASSUME ~Terminating' PROVE Cardinality(Dead') <= deaths'
  BY DEF DeathsCounted
<1> USE DEF RunnerInv, TypeOK, Goto
<1>1. IsFiniteSet(Dead)
  BY RunnerAssumption, FS_Subset DEF Dead
<1>2. Cardinality(Dead) \in Nat /\ Cardinality(Dead) <= deaths
  BY <1>1, FS_CardinalityType, Onwards DEF DeathsCounted
<1>3. ASSUME NEW w \in Workers, Die(w) PROVE Cardinality(Dead') <= deaths'
  <2>1. Dead' = Dead \cup {w} /\ w \notin Dead
    BY <1>3 DEF Dead, Die, Dies, Ended, Gone
  <2>2. Cardinality(Dead') = Cardinality(Dead) + 1
    BY <1>1, <2>1, FS_AddElement
  <2> QED BY <1>2, <1>3, <2>2 DEF Die
<1>4. ASSUME NEW w \in Workers, Dir(w) \/ Test(w) \/ Take(w) \/ Talk(w)
      PROVE  Dead' = Dead /\ deaths' = deaths
  BY <1>4 DEF Dead, Dir, MakeDir, MakeDirFails, Test, Accuracy, Benchmark, Save, Raise, Take, TakeLock, LockBusy, Poll,
       Talk, Leave, Exit, LockPipe, Send, Ended, Gone, Phases, faults
<1>5. ASSUME NEW w \in Workers PROVE ~Terminate(w)
  BY DEF Terminate, Terminating, display
<1>6. CASE Flush \/ Follow \/ Conclude \/ UNCHANGED vars
  <2>1. Dead' = Dead /\ deaths' = deaths
    BY <1>6 DEF Dead, Flush, Follow, ReceiveExit, Timeout, Conclude, EndDisplay, Merge,
         Interrupt, EndInterrupt, vars, faults
  <2> QED BY <1>2, <2>1
<1> QED BY <1>2, <1>3, <1>4, <1>5, <1>6, Steps DEF Kill

LEMMA AccountedStep ==
    ASSUME RunnerInv, [Next]_vars
    PROVE  Accounted'
<1> USE RunnerAssumption DEF RunnerInv, TypeOK, Goto
<1> SUFFICES ASSUME NEW o \in 1 .. next' - 1
             PROVE  \/ o \in raised'
                    \/ \E w \in Workers : o \in saved'[w]
                    \/ \E w \in Workers : op'[w] = o /\ (pc'[w] \in Working \cup {"dead"} \/ w \in broken')
  BY DEF Accounted
<1> DEFINE Here == \/ o \in raised'
                   \/ \E w \in Workers : o \in saved'[w]
                   \/ \E w \in Workers : op'[w] = o /\ (pc'[w] \in Working \cup {"dead"} \/ w \in broken')
           Old == \/ o \in raised
                  \/ \E w \in Workers : o \in saved[w]
                  \/ \E w \in Workers : op[w] = o /\ (pc[w] \in Working \cup {"dead"} \/ w \in broken)
<1>0. \A w \in Workers : /\ saved[w] \subseteq results[w]
                         /\ w \in broken => pc[w] \in {"leave", "exiting"} \cup Gone
  BY DEF WorkersInv, WorkerInv
<1>1. o \in 1 .. next - 1 => Old
  BY DEF Accounted
<1>2. ASSUME NEW w \in Workers, Test(w) PROVE Here
  <2>1. next' = next
    BY <1>2 DEF Test, Accuracy, Benchmark, Save, Raise, work
  <2>2. Old
    BY <1>1, <2>1
  <2>3. CASE Accuracy(w) \/ Benchmark(w)
    BY <2>2, <2>3 DEF Accuracy, Benchmark, Working, Phases, tests
  <2>4. CASE Save(w)
    <3>1. \A v \in Workers : saved[v] \subseteq saved'[v]
      BY <1>0, <2>4 DEF Save
    <3>2. op[w] \in saved'[w]
      BY <2>4 DEF Save
    <3> QED BY <2>2, <2>4, <3>1, <3>2 DEF Save
  <2>5. CASE Raise(w)
    BY <2>2, <2>5 DEF Raise, Working
  <2> QED BY <1>2, <2>3, <2>4, <2>5 DEF Test
<1>3. ASSUME NEW w \in Workers, Take(w) PROVE Here
  <2>1. CASE TakeLock(w) \/ LockBusy(w)
    <3>1. next' = next /\ pc[w] = "take"
      BY <2>1 DEF TakeLock, LockBusy, work
    <3>2. Old
      BY <1>1, <3>1
    <3> QED BY <2>1, <3>1, <3>2 DEF TakeLock, LockBusy, Working, Phases, tests
  <2>2. CASE Poll(w) /\ next <= flushed /\ o = next
    BY <2>2 DEF Poll, Working
  <2>3. CASE Poll(w) /\ ~(next <= flushed /\ o = next)
    <3>1. Old
      BY <1>1, <2>3 DEF Poll
    <3>2. w \notin broken /\ broken' = broken
      BY <1>0, <2>3 DEF Poll, Gone
    <3> QED BY <2>3, <3>1, <3>2 DEF Poll, Working, Phases
  <2> QED BY <1>3, <2>1, <2>2, <2>3 DEF Take
<1>4. ASSUME NEW w \in Workers, Talk(w) PROVE Here
  <2>1. next' = next /\ op' = op /\ raised' = raised /\ saved' = saved
    BY <1>4 DEF Talk, Leave, Exit, LockPipe, Send, work, tests
  <2>2. Old
    BY <1>1, <2>1
  <2> QED BY <1>4, <2>1, <2>2 DEF Talk, Leave, Exit, LockPipe, Send, Working, Phases, tests
<1>5. ASSUME NEW w \in Workers, Kill(w) PROVE Here
  <2>1. /\ next' = next /\ op' = op /\ raised' = raised /\ saved' = saved
        /\ pc' = [pc EXCEPT ![w] = "dead"] /\ broken' = broken
    BY <1>5 DEF Kill, Die, Terminate, Dies, work, tests
  <2>2. Old
    BY <1>1, <2>1
  <2> QED BY <2>1, <2>2
<1>6. CASE Flush \/ Follow \/ Conclude \/ UNCHANGED vars
  <2>1. /\ next' = next /\ op' = op /\ raised' = raised /\ saved' = saved /\ pc' = pc
        /\ broken' = broken
    BY <1>6 DEF Flush, Follow, ReceiveExit, Timeout, Conclude, EndDisplay, Merge,
         Interrupt, EndInterrupt, vars, work, tests
  <2> QED BY <1>1, <2>1
<1>7. ASSUME NEW w \in Workers, Dir(w) PROVE Here
  <2>1. next' = next /\ op' = op /\ raised' = raised /\ saved' = saved
    BY <1>7 DEF Dir, MakeDir, MakeDirFails, work, tests
  <2>2. Old
    BY <1>1, <2>1
  <2>3. CASE MakeDir(w)
    BY <2>1, <2>2, <2>3 DEF MakeDir, Working, Phases, tests
  <2>4. CASE MakeDirFails(w)
    BY <2>1, <2>2, <2>4 DEF MakeDirFails
  <2> QED BY <1>7, <2>3, <2>4 DEF Dir
<1> QED BY <1>2, <1>3, <1>4, <1>5, <1>6, <1>7, Steps

-----------------------------------------------------------------------------
(* Results.                                                                *)

\* The runner keeps its invariant: nobody takes an operator twice, holds the
\* queue without being at it, or speaks after its farewell.
THEOREM RunnerInvariant == Spec => []RunnerInv
<1>1. RunnerInv /\ [Next]_vars => RunnerInv'
  BY TypeStep, WorkersStep, MainStep, BusyStep, DeathsStep, AccountedStep DEF RunnerInv
<1> QED BY InitInv, <1>1, PTL DEF Spec

\* The variables keep their types.
THEOREM RunnerTypes == Spec => []TypeOK
<1>1. RunnerInv => TypeOK
  BY DEF RunnerInv
<1> QED BY <1>1, RunnerInvariant, PTL

\* A worker that gives up at a busy queue leaves no operator behind, and an
\* exception of a test does not end a worker: operators are left only after a
\* death, an exception of ensure_dir, or a queue that was not flushed in time.
THEOREM NobodyGivesUpTooEarly == Spec => []NothingLeftBehind
<1>1. RunnerInv => NothingLeftBehind
  <2> SUFFICES ASSUME RunnerInv, main = "done", deaths = 0, ~starved, broken = {}
               PROVE  next > OpCount
    BY DEF NothingLeftBehind
  <2>1. ~Terminating
    BY DEF Terminating
  <2>2. Dead = {}
    BY <2>1, NobodyDead
  <2>3. \A w \in Workers : pc[w] = "gone"
    BY <2>2 DEF RunnerInv, MainInv, Ended, Gone, Dead
  <2>4. ~ \E w \in Workers : Busy(w)
    BY <2>3 DEF Busy, Working, Phases
  <2> QED BY <2>1, <2>4, RunnerAssumption DEF RunnerInv, SomebodyBusy, TypeOK
<1> QED BY <1>1, RunnerInvariant, PTL

\* Every operator that was taken and did not raise is in the report, but for at
\* most one per worker that was killed or could not make a directory.
THEOREM ReportsAreComplete == Spec => []ReportComplete
<1>1. RunnerInv => ReportComplete
  <2> DEFINE missing == (1 .. next - 1) \ (report \cup raised)
             lost == [w \in Casualties |-> op[w]]
             losses == {lost[w] : w \in Casualties}
  <2> SUFFICES ASSUME RunnerInv, main = "done"
               PROVE  Cardinality(missing) <= Cardinality(Casualties)
    BY DEF ReportComplete
  <2>1. \A w \in Workers : pc[w] \in {"gone", "dead"}
    BY DEF RunnerInv, MainInv, Ended, Gone
  <2>2. missing \subseteq losses
    <3> SUFFICES ASSUME NEW o \in missing PROVE \E w \in Casualties : op[w] = o
      OBVIOUS
    <3>1. \A w \in Workers : o \notin saved[w]
      BY DEF RunnerInv, MainInv
    <3>2. PICK w \in Workers : op[w] = o /\ (pc[w] \in Working \cup {"dead"} \/ w \in broken)
      BY <3>1 DEF RunnerInv, Accounted
    <3> QED BY <2>1, <3>2 DEF Casualties, Working, Phases
  <2>3. IsFiniteSet(Casualties)
    <3>1. Casualties \subseteq Workers
      BY DEF Casualties, RunnerInv, TypeOK
    <3> QED BY <3>1, RunnerAssumption, FS_Subset
  <2>4. lost \in Surjection(Casualties, losses)
    BY DEF Surjection
  <2>5. IsFiniteSet(losses) /\ Cardinality(losses) <= Cardinality(Casualties)
    BY <2>3, <2>4, FS_Surjection
  <2>6. IsFiniteSet(missing) /\ Cardinality(missing) <= Cardinality(losses)
    BY <2>2, <2>5, FS_Subset
  <2>7. /\ Cardinality(missing) \in Nat /\ Cardinality(losses) \in Nat
        /\ Cardinality(Casualties) \in Nat
    BY <2>3, <2>5, <2>6, FS_CardinalityType
  <2> QED BY <2>5, <2>6, <2>7
<1> QED BY <1>1, RunnerInvariant, PTL

\* When display_loop stops reading, no living worker has a message left.
THEOREM NobodyIsLeftSpeaking == Spec => []NoMessageUnread
<1>1. RunnerInv => NoMessageUnread
  BY DEF RunnerInv, NoMessageUnread, MainInv, WorkersInv, WorkerInv, HasMessage, TypeOK
<1> QED BY <1>1, RunnerInvariant, PTL
=============================================================================
