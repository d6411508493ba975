-------------------------- MODULE LaunchCacheProof --------------------------
(***************************************************************************)
(* For every number of threads, devices and keys and whatever the switch   *)
(* does: the first run of the function is serialised by the lock, and a    *)
(* cached kernel is never replaced by another one.  When the application   *)
(* follows every turn of the switch by a warm-up call: calls launch what   *)
(* the switch asks for, with its pre-hook, and tables do not mix spaces.   *)
(***************************************************************************)
EXTENDS LaunchCache, TLAPS

USE DEF Steps, Applying, FirstRun, Goto, Cached, Raise

\* A thread inside a call has its arguments, and has a space once it has
\* pruned and a configuration once it has read one.
CallFilled ==
  \A t \in Threads :
    /\ pc[t] # "idle" => call[t].device \in Devices /\ call[t].key \in Keys
    /\ pc[t] = "storeBest" => call[t].pruned \in Spaces
    /\ pc[t] \in {"recoverHook", "compile"} => call[t].config \in Configs

\* Past the second look the entry of the thread's call is empty, until the
\* thread itself fills it.
EntryStaysEmpty ==
  \A t \in Threads : pc[t] \in FirstRun \ {"recheck"} => Cached(t) = None

LaunchInv == TypeOK /\ CallFilled /\ SerializedFirstRun /\ EntryStaysEmpty

-----------------------------------------------------------------------------
\* What the steps write into a call's locals.
LEMMA CallFields ==
  ASSUME NEW c \in Calls
  PROVE  /\ \A x \in BOOLEAN : [c EXCEPT !.enabled = x] \in Calls
         /\ \A x \in BOOLEAN : [c EXCEPT !.hooked = x] \in Calls
         /\ \A x \in Spaces : [c EXCEPT !.pruned = x] \in Calls
         /\ \A x \in Configs : [c EXCEPT !.config = x] \in Calls
         /\ \A x \in Kernels \cup {None} : [c EXCEPT !.kernel = x] \in Calls
  BY DEF Calls

\* and what they leave.
LEMMA Written ==
  ASSUME call \in [Threads -> Calls], NEW t \in Threads, NEW x, NEW u \in Threads
  PROVE  /\ call' = [call EXCEPT ![t].enabled = x]
              => /\ call'[u].device = call[u].device
                 /\ call'[u].key = call[u].key
                 /\ call'[u].pruned = call[u].pruned
                 /\ call'[u].config = call[u].config
         /\ call' = [call EXCEPT ![t].hooked = x]
              => /\ call'[u].device = call[u].device
                 /\ call'[u].key = call[u].key
                 /\ call'[u].pruned = call[u].pruned
                 /\ call'[u].config = call[u].config
         /\ call' = [call EXCEPT ![t].kernel = x]
              => /\ call'[u].device = call[u].device
                 /\ call'[u].key = call[u].key
                 /\ call'[u].pruned = call[u].pruned
                 /\ call'[u].config = call[u].config
         /\ call' = [call EXCEPT ![t].pruned = x]
              => /\ call'[u].device = call[u].device
                 /\ call'[u].key = call[u].key
                 /\ call'[u].pruned = IF u = t THEN x ELSE call[u].pruned
                 /\ call'[u].config = call[u].config
         /\ call' = [call EXCEPT ![t].config = x]
              => /\ call'[u].device = call[u].device
                 /\ call'[u].key = call[u].key
                 /\ call'[u].pruned = call[u].pruned
                 /\ call'[u].config = IF u = t THEN x ELSE call[u].config
  BY DEF Calls

LEMMA NoCallIsCall ==
  /\ NoCall \in Calls
  /\ \A d \in Devices, k \in Keys :
       [NoCall EXCEPT !.device = d, !.key = k] \in Calls
  BY DEF NoCall, Calls

LEMMA LaunchInit == Init => LaunchInv
<1> SUFFICES ASSUME Init PROVE LaunchInv
  OBVIOUS
<1>1. TypeOK
  <2>1. best \in [Spaces -> [Keys -> Configs \cup {None}]]
    BY DEF Init, EmptyTables
  <2>2. kernels \in [Devices -> [Keys -> Kernels \cup {None}]]
    BY DEF Init, NoKernels
  <2>3. call \in [Threads -> Calls]
    BY NoCallIsCall DEF Init
  <2>4. switches \in 0..MaxSwitches /\ failures \in 0..MaxFailures
    BY ConfigAssumption DEF Init
  <2>5. /\ wanted \in BOOLEAN /\ expandable \in BOOLEAN /\ active \in BOOLEAN
        /\ configs \in Spaces /\ tableName \in Spaces /\ table \in Spaces
        /\ hash \in Spaces \cup {None} /\ lock \in Threads \cup {None}
        /\ pc \in [Threads -> Steps]
    BY DEF Init, Spaces
  <2> QED
    BY <2>1, <2>2, <2>3, <2>4, <2>5 DEF TypeOK
<1>2. CallFilled BY DEF Init, CallFilled
<1>3. SerializedFirstRun
  BY ConfigAssumption DEF Init, SerializedFirstRun
<1>4. EntryStaysEmpty BY DEF Init, EntryStaysEmpty
<1> QED BY <1>1, <1>2, <1>3, <1>4 DEF LaunchInv

\* The type of the state.
LEMMA TypeStep ==
  ASSUME TypeOK, CallFilled, [Next]_vars PROVE TypeOK'
<1> USE ConfigAssumption DEF world, tuner, TypeOK, CallFilled
<1>1. CASE Switch BY <1>1 DEF Switch
<1>2. ASSUME NEW t \in Threads, Call(t) PROVE TypeOK'
  <2>1. PICK d \in Devices, k \in Keys :
          call' = [call EXCEPT ![t] = [NoCall EXCEPT !.device = d, !.key = k]]
    BY <1>2 DEF Call
  <2>2. [NoCall EXCEPT !.device = d, !.key = k] \in Calls
    BY NoCallIsCall
  <2>3. call' \in [Threads -> Calls] BY <2>1, <2>2
  <2> QED BY <1>2, <2>3 DEF Call
<1>3. ASSUME NEW t \in Threads, ReadSwitch(t) PROVE TypeOK'
  <2>1. call' \in [Threads -> Calls]
    BY <1>3, CallFields DEF ReadSwitch
  <2> QED BY <1>3, <2>1 DEF ReadSwitch
<1>4. ASSUME NEW t \in Threads, SetConfigs(t) PROVE TypeOK'
  BY <1>4 DEF SetConfigs, SpaceFor, Spaces
<1>5. ASSUME NEW t \in Threads, DropHash(t) PROVE TypeOK'
  BY <1>5 DEF DropHash
<1>6. ASSUME NEW t \in Threads, NameTable(t) PROVE TypeOK'
  BY <1>6 DEF NameTable
<1>7. ASSUME NEW t \in Threads, OpenTable(t) PROVE TypeOK'
  BY <1>7 DEF OpenTable
<1>8. ASSUME NEW t \in Threads, SetActive(t) PROVE TypeOK'
  BY <1>8 DEF SetActive, Calls
<1>9. ASSUME NEW t \in Threads, ClearKernels(t) PROVE TypeOK'
  BY <1>9 DEF ClearKernels, Cleared, NoKernels
<1>10. ASSUME NEW t \in Threads, Probe(t) PROVE TypeOK'
  BY <1>10 DEF Probe
<1>11. ASSUME NEW t \in Threads, Acquire(t) PROVE TypeOK'
  BY <1>11 DEF Acquire
<1>12. ASSUME NEW t \in Threads, Recheck(t) PROVE TypeOK'
  BY <1>12 DEF Recheck
<1>13. ASSUME NEW t \in Threads, Lookup(t) PROVE TypeOK'
  <2>1. pc[t] = "lookup" BY <1>13 DEF Lookup
  <2>2. Cached(t) \in Kernels \cup {None} BY <2>1
  <2>3. [call[t] EXCEPT !.kernel = Cached(t)] \in Calls
    BY <2>2, CallFields
  <2>4. call' \in [Threads -> Calls] BY <1>13, <2>3 DEF Lookup
  <2> QED BY <1>13, <2>4 DEF Lookup
<1>14. ASSUME NEW t \in Threads, TakeOnly(t) PROVE TypeOK'
  <2>1. PICK c \in ConfigsOf[configs] :
          call' = [call EXCEPT ![t].config = c, ![t].hooked = TRUE]
    BY <1>14 DEF TakeOnly
  <2>2. c \in Configs BY DEF ConfigsOf, Spaces, Configs
  <2>3. [call[t] EXCEPT !.config = c] \in Calls BY <2>2, CallFields
  <2>4. [[call[t] EXCEPT !.config = c] EXCEPT !.hooked = TRUE] \in Calls
    BY <2>3, CallFields
  <2>5. call' \in [Threads -> Calls] BY <2>1, <2>4
  <2> QED BY <1>14, <2>5 DEF TakeOnly
<1>15. ASSUME NEW t \in Threads, TuneProbe(t) PROVE TypeOK'
  BY <1>15 DEF TuneProbe
<1>16. ASSUME NEW t \in Threads, Prune(t) PROVE TypeOK'
  <2>1. call' \in [Threads -> Calls]
    BY <1>16, CallFields DEF Prune
  <2> QED BY <1>16, <2>1 DEF Prune
<1>17. ASSUME NEW t \in Threads, StoreBest(t) PROVE TypeOK'
  BY <1>17 DEF StoreBest, ConfigsOf, Spaces, Configs
<1>18. ASSUME NEW t \in Threads, ReadBest(t) PROVE TypeOK'
  <2>1. pc[t] = "readBest" BY <1>18 DEF ReadBest
  <2>2. CASE best[table][call[t].key] = None
    BY <1>18, <2>2 DEF ReadBest
  <2>3. CASE best[table][call[t].key] # None
    <3>1. best[table][call[t].key] \in Configs BY <2>1, <2>3
    <3>2. [call[t] EXCEPT !.config = best[table][call[t].key]] \in Calls
      BY <3>1, CallFields
    <3>3. call' = [call EXCEPT ![t].config = best[table][call[t].key]]
      BY <1>18, <2>3 DEF ReadBest
    <3>4. call' \in [Threads -> Calls] BY <3>2, <3>3
    <3> QED BY <1>18, <2>3, <3>4 DEF ReadBest
  <2> QED BY <2>2, <2>3
<1>19. ASSUME NEW t \in Threads, RecoverHook(t) PROVE TypeOK'
  <2> DEFINE found == call[t].config \in ConfigsOf[configs]
  <2>1. found \in BOOLEAN OBVIOUS
  <2>2. call' = [call EXCEPT ![t].hooked = found] BY <1>19 DEF RecoverHook
  <2> HIDE DEF found
  <2>4. [call[t] EXCEPT !.hooked = found] \in Calls BY <2>1, CallFields
  <2>3. call' \in [Threads -> Calls] BY <2>4, <2>2
  <2> QED BY <1>19, <2>3 DEF RecoverHook
<1>20. ASSUME NEW t \in Threads, Compile(t) PROVE TypeOK'
  <2> DEFINE kernel == [config |-> call[t].config, hooked |-> call[t].hooked,
                        by |-> t]
  <2>1. kernel \in Kernels BY <1>20 DEF Compile, Kernels, Calls
  <2>2. [call[t] EXCEPT !.kernel = kernel] \in Calls BY <2>1, CallFields
  <2> HIDE DEF kernel
  <2>3. /\ call' = [call EXCEPT ![t].kernel = kernel]
        /\ kernels' = [kernels EXCEPT ![call[t].device][call[t].key] = kernel]
    BY <1>20 DEF Compile, kernel
  <2>4. call' \in [Threads -> Calls] BY <2>2, <2>3
  <2>5. kernels' \in [Devices -> [Keys -> Kernels \cup {None}]]
    BY <2>1, <2>3
  <2> QED BY <1>20, <2>4, <2>5 DEF Compile
<1>21. ASSUME NEW t \in Threads, CompileFails(t) PROVE TypeOK'
  BY <1>21 DEF CompileFails
<1>22. ASSUME NEW t \in Threads, Return(t) PROVE TypeOK'
  BY <1>22 DEF Return, NoCall, Calls
<1>23. CASE UNCHANGED vars BY <1>23 DEF vars
<1> QED
  BY <1>1, <1>2, <1>3, <1>4, <1>5, <1>6, <1>7, <1>8, <1>9, <1>10, <1>11,
     <1>12, <1>13, <1>14, <1>15, <1>16, <1>17, <1>18, <1>19, <1>20, <1>21,
     <1>22, <1>23 DEF Next, Run

\* What a call carries from one step to the next.
LEMMA FilledStep ==
  ASSUME TypeOK, CallFilled, [Next]_vars PROVE CallFilled'
<1> USE ConfigAssumption DEF world, tuner, TypeOK, CallFilled
<1>1. CASE UNCHANGED vars BY <1>1 DEF vars
<1>2. CASE Switch BY <1>2 DEF Switch
<1>3. ASSUME NEW t \in Threads, Call(t) PROVE CallFilled'
  BY <1>3 DEF Call, NoCall
<1>4. ASSUME NEW t \in Threads, ReadSwitch(t) PROVE CallFilled'
  BY <1>4, Written DEF ReadSwitch
<1>5. ASSUME NEW t \in Threads,
             SetConfigs(t) \/ DropHash(t) \/ NameTable(t) \/ OpenTable(t)
               \/ SetActive(t) \/ ClearKernels(t)
      PROVE  CallFilled'
  BY <1>5 DEF SetConfigs, DropHash, NameTable, OpenTable, SetActive,
              ClearKernels
<1>6. ASSUME NEW t \in Threads, Probe(t) \/ Acquire(t) \/ Recheck(t)
      PROVE  CallFilled'
  BY <1>6 DEF Probe, Acquire, Recheck
<1>7. ASSUME NEW t \in Threads, Lookup(t) PROVE CallFilled'
  BY <1>7, Written DEF Lookup
<1>8. ASSUME NEW t \in Threads, TakeOnly(t) PROVE CallFilled'
  BY <1>8 DEF TakeOnly, ConfigsOf, Spaces, Configs, Calls
<1>9. ASSUME NEW t \in Threads, TuneProbe(t) \/ StoreBest(t)
      PROVE  CallFilled'
  BY <1>9 DEF TuneProbe, StoreBest
<1>10. ASSUME NEW t \in Threads, Prune(t) PROVE CallFilled'
  BY <1>10, Written DEF Prune
<1>11. ASSUME NEW t \in Threads, ReadBest(t) PROVE CallFilled'
  <2>1. pc[t] = "readBest" BY <1>11 DEF ReadBest
  <2>2. CASE best[table][call[t].key] = None BY <1>11, <2>2 DEF ReadBest
  <2>3. CASE best[table][call[t].key] # None
    <3>1. best[table][call[t].key] \in Configs BY <2>1, <2>3
    <3>2. /\ call' = [call EXCEPT ![t].config = best[table][call[t].key]]
          /\ pc' = [pc EXCEPT ![t] = "recoverHook"]
      BY <1>11, <2>3 DEF ReadBest
    <3> QED BY <2>1, <3>1, <3>2, Written
  <2> QED BY <2>2, <2>3
<1>12. ASSUME NEW t \in Threads, RecoverHook(t) PROVE CallFilled'
  BY <1>12, Written DEF RecoverHook
<1>13. ASSUME NEW t \in Threads, Compile(t) PROVE CallFilled'
  BY <1>13, Written DEF Compile
<1>14. ASSUME NEW t \in Threads, CompileFails(t) \/ Return(t)
       PROVE  CallFilled'
  BY <1>14 DEF CompileFails, Return
<1> QED
  BY <1>1, <1>2, <1>3, <1>4, <1>5, <1>6, <1>7, <1>8, <1>9, <1>10, <1>11,
     <1>12, <1>13, <1>14 DEF Next, Run

\* The lock is taken on the way into the first run and released on every way
\* out of it.
LEMMA LockStep ==
  ASSUME TypeOK, SerializedFirstRun, [Next]_vars PROVE SerializedFirstRun'
<1> USE ConfigAssumption DEF world, tuner, TypeOK, SerializedFirstRun
<1>1. CASE UNCHANGED vars BY <1>1 DEF vars
<1>2. CASE Switch BY <1>2 DEF Switch
<1>3. ASSUME NEW t \in Threads,
             Call(t) \/ ReadSwitch(t) \/ SetConfigs(t) \/ DropHash(t)
               \/ NameTable(t) \/ OpenTable(t) \/ SetActive(t)
               \/ ClearKernels(t) \/ Probe(t) \/ Lookup(t) \/ Return(t)
      PROVE  SerializedFirstRun'
  <2>1. lock' = lock /\ \E s \in Steps \ FirstRun : pc' = [pc EXCEPT ![t] = s]
    BY <1>3 DEF Call, ReadSwitch, SetConfigs, DropHash, NameTable, OpenTable,
                SetActive, ClearKernels, Probe, Lookup, Return
  <2>2. pc[t] \notin FirstRun
    BY <1>3 DEF Call, ReadSwitch, SetConfigs, DropHash, NameTable, OpenTable,
                SetActive, ClearKernels, Probe, Lookup, Return
  <2> QED BY <2>1, <2>2
<1>4. ASSUME NEW t \in Threads, Acquire(t) PROVE SerializedFirstRun'
  BY <1>4 DEF Acquire
<1>5. ASSUME NEW t \in Threads, Recheck(t) PROVE SerializedFirstRun'
  BY <1>5 DEF Recheck
<1>6. ASSUME NEW t \in Threads,
             TakeOnly(t) \/ TuneProbe(t) \/ Prune(t) \/ StoreBest(t)
               \/ RecoverHook(t)
      PROVE  SerializedFirstRun'
  BY <1>6 DEF TakeOnly, TuneProbe, Prune, StoreBest, RecoverHook
<1>7. ASSUME NEW t \in Threads, ReadBest(t) PROVE SerializedFirstRun'
  BY <1>7 DEF ReadBest
<1>8. ASSUME NEW t \in Threads, Compile(t) \/ CompileFails(t)
      PROVE  SerializedFirstRun'
  BY <1>8 DEF Compile, CompileFails
<1> QED
  BY <1>1, <1>2, <1>3, <1>4, <1>5, <1>6, <1>7, <1>8 DEF Next, Run

-----------------------------------------------------------------------------
\* Only the thread in the first run fills an entry, so the entry it has seen
\* empty stays empty while others clear caches and look kernels up.
LEMMA EmptyStep ==
  ASSUME TypeOK, CallFilled, SerializedFirstRun, EntryStaysEmpty, [Next]_vars
  PROVE  EntryStaysEmpty'
<1> USE ConfigAssumption
    DEF world, tuner, TypeOK, CallFilled, SerializedFirstRun, EntryStaysEmpty
<1>1. CASE UNCHANGED vars BY <1>1 DEF vars
<1>2. CASE Switch BY <1>2 DEF Switch
<1>3. ASSUME NEW t \in Threads, Call(t) \/ Return(t) PROVE EntryStaysEmpty'
  <2>1. /\ kernels' = kernels /\ pc'[t] \in {"readSwitch", "idle"}
        /\ \A u \in Threads : u # t => pc'[u] = pc[u] /\ call'[u] = call[u]
    BY <1>3 DEF Call, Return
  <2> QED BY <2>1
<1>4. ASSUME NEW t \in Threads, ReadSwitch(t) PROVE EntryStaysEmpty'
  <2>1. \A u \in Threads : /\ call'[u].device = call[u].device
                           /\ call'[u].key = call[u].key
    BY <1>4, Written DEF ReadSwitch
  <2> QED BY <1>4, <2>1 DEF ReadSwitch
<1>5. ASSUME NEW t \in Threads,
             SetConfigs(t) \/ DropHash(t) \/ NameTable(t) \/ OpenTable(t)
               \/ SetActive(t)
      PROVE  EntryStaysEmpty'
  BY <1>5 DEF SetConfigs, DropHash, NameTable, OpenTable, SetActive
<1>6. ASSUME NEW t \in Threads, ClearKernels(t) PROVE EntryStaysEmpty'
  BY <1>6 DEF ClearKernels, Cleared, NoKernels
<1>7. ASSUME NEW t \in Threads, Probe(t) \/ Acquire(t) \/ Recheck(t)
      PROVE  EntryStaysEmpty'
  BY <1>7 DEF Probe, Acquire, Recheck
<1>8. ASSUME NEW t \in Threads, Lookup(t) PROVE EntryStaysEmpty'
  BY <1>8, Written DEF Lookup
<1>9. ASSUME NEW t \in Threads, TuneProbe(t) \/ StoreBest(t)
      PROVE  EntryStaysEmpty'
  BY <1>9 DEF TuneProbe, StoreBest
<1>10. ASSUME NEW t \in Threads, TakeOnly(t) PROVE EntryStaysEmpty'
  <2>1. \A u \in Threads : /\ call'[u].device = call[u].device
                           /\ call'[u].key = call[u].key
    BY <1>10 DEF TakeOnly, Calls
  <2> QED BY <1>10, <2>1 DEF TakeOnly
<1>11. ASSUME NEW t \in Threads, Prune(t) \/ ReadBest(t) \/ RecoverHook(t)
       PROVE  EntryStaysEmpty'
  <2>1. kernels' = kernels /\ pc[t] \in FirstRun \ {"recheck"}
    BY <1>11 DEF Prune, ReadBest, RecoverHook
  <2>2. \A u \in Threads : u # t => pc'[u] = pc[u]
    BY <1>11 DEF Prune, ReadBest, RecoverHook
  <2>3. \A u \in Threads : /\ call'[u].device = call[u].device
                           /\ call'[u].key = call[u].key
    <3>1. CASE Prune(t) BY <3>1, Written DEF Prune
    <3>2. CASE ReadBest(t)
      <4> DEFINE found == best[table][call[t].key]
      <4>1. call' = call \/ call' = [call EXCEPT ![t].config = found]
        BY <3>2 DEF ReadBest
      <4> HIDE DEF found
      <4>2. CASE call' = call BY <4>2
      <4>3. CASE call' = [call EXCEPT ![t].config = found] BY <4>3, Written
      <4> QED BY <4>1, <4>2, <4>3
    <3>3. CASE RecoverHook(t)
      <4> DEFINE found == call[t].config \in ConfigsOf[configs]
      <4>1. call' = [call EXCEPT ![t].hooked = found]
        BY <3>3 DEF RecoverHook
      <4> HIDE DEF found
      <4> QED BY <4>1, Written
    <3> QED BY <1>11, <3>1, <3>2, <3>3
  <2> QED BY <2>1, <2>2, <2>3
<1>12. ASSUME NEW t \in Threads, Compile(t) PROVE EntryStaysEmpty'
  <2>1. pc[t] \in FirstRun BY <1>12 DEF Compile
  <2>2. \A u \in Threads : u # t => pc'[u] = pc[u] /\ pc[u] \notin FirstRun
    BY <1>12, <2>1 DEF Compile
  <2>3. pc'[t] = "done" BY <1>12 DEF Compile
  <2> QED BY <2>2, <2>3
<1>13. ASSUME NEW t \in Threads, CompileFails(t) PROVE EntryStaysEmpty'
  BY <1>13 DEF CompileFails
<1> QED
  BY <1>1, <1>2, <1>3, <1>4, <1>5, <1>6, <1>7, <1>8, <1>9, <1>10, <1>11, <1>12, <1>13
  DEF Next, Run

LEMMA LaunchStep == LaunchInv /\ [Next]_vars => LaunchInv'
  BY TypeStep, FilledStep, LockStep, EmptyStep DEF LaunchInv

LEMMA LaunchInvariant == Spec => []LaunchInv
  BY LaunchInit, LaunchStep, PTL DEF Spec

-----------------------------------------------------------------------------
\* The state is well typed: a cached kernel has a configuration, a table holds
\* configurations, and the lock is held by a thread or free.
THEOREM LaunchTypeCorrect == Spec => []TypeOK
<1>1. LaunchInv => TypeOK BY DEF LaunchInv
<1> QED BY <1>1, LaunchInvariant, PTL

\* The first run of the function is serialised by the lock (LibEntry.run).
THEOREM FirstRunSerialized == Spec => []SerializedFirstRun
<1>1. LaunchInv => SerializedFirstRun BY DEF LaunchInv
<1> QED BY <1>1, LaunchInvariant, PTL

\* A cached kernel is not replaced by another one: the second look under the
\* lock (LibEntry.run) is enough, whoever clears the caches meanwhile.
THEOREM KernelsNotReplaced == Spec => KernelsStoredOnce
<1> DEFINE Kept == \A d \in Devices, k \in Keys :
      kernels[d][k] # None => kernels'[d][k] \in {kernels[d][k], None}
<1>1. ASSUME LaunchInv, [Next]_vars PROVE [Kept]_vars
  <2> USE <1>1, ConfigAssumption
      DEF LaunchInv, world, tuner, TypeOK, CallFilled
  <2>1. CASE UNCHANGED vars BY <2>1
  <2>2. CASE Switch BY <2>2 DEF Switch
  <2>3. ASSUME NEW t \in Threads, ClearKernels(t) PROVE Kept
    BY <2>3 DEF ClearKernels, Cleared, NoKernels
  <2>4. ASSUME NEW t \in Threads, Compile(t) PROVE Kept
    BY <2>4 DEF Compile, EntryStaysEmpty
  <2>5. ASSUME NEW t \in Threads,
               Call(t) \/ ReadSwitch(t) \/ SetConfigs(t) \/ DropHash(t)
                 \/ NameTable(t) \/ OpenTable(t) \/ SetActive(t) \/ Probe(t)
                 \/ Acquire(t) \/ Recheck(t) \/ Lookup(t) \/ TakeOnly(t)
                 \/ TuneProbe(t) \/ Prune(t) \/ StoreBest(t) \/ ReadBest(t)
                 \/ RecoverHook(t) \/ CompileFails(t) \/ Return(t)
        PROVE  Kept
    <3>1. kernels' = kernels
      BY <2>5 DEF Call, ReadSwitch, SetConfigs, DropHash, NameTable, OpenTable,
                  SetActive, Probe, Acquire, Recheck, Lookup, TakeOnly,
                  TuneProbe, Prune, StoreBest, ReadBest, RecoverHook,
                  CompileFails, Return
    <3> QED BY <3>1
  <2> QED BY <2>1, <2>2, <2>3, <2>4, <2>5 DEF Next, Run
<1> QED BY <1>1, LaunchInvariant, PTL DEF Spec, KernelsStoredOnce

-----------------------------------------------------------------------------
(***************************************************************************)
(* The search space.  When the application warms up after a turn of the    *)
(* switch, and no kernel is kept in _cpu_cache, one thread replaces the    *)
(* search space while all others are idle.  The invariant says who that    *)
(* is, how far the tuner has come, and that everything else (tables,       *)
(* kernels, what calls carry) belongs to the space the tuner believes in.  *)
(***************************************************************************)
Warmed == SwitchPolicy = "warmed" /\ CpuDevices = {}

Current == SpaceFor(active)
Changing == Applying \ {"clear"}

\* A turned switch is followed by one thread, the others are idle.
OneFollows ==
  /\ active => expandable
  /\ \A t \in Threads : pc[t] \in Changing => Pending /\ call[t].enabled = wanted
  /\ \A t \in Threads : pc[t] = "clear" => ~Pending
  /\ Pending => \A t \in Threads : pc[t] \in {"idle", "readSwitch"} \cup Changing
  /\ \A t, u \in Threads :
       (Pending \/ pc[t] = "clear") /\ pc[t] # "idle" /\ pc[u] # "idle" => t = u

\* The tuner's fields, one after the other, go to the space it will follow.
TunerIs(c, h, n, o) == configs = c /\ hash = h /\ tableName = n /\ table = o
HalfChanged == {"dropHash", "nameTable", "openTable", "setActive"}
TunerFollows ==
  LET next == SpaceFor(wanted) IN
  /\ \A t \in Threads :
       /\ pc[t] = "dropHash"  => TunerIs(next, Current, Current, Current)
       /\ pc[t] = "nameTable" => TunerIs(next, None, Current, Current)
       /\ pc[t] = "openTable" => TunerIs(next, next, next, Current)
       /\ pc[t] = "setActive" => TunerIs(next, next, next, next)
  /\ (\A t \in Threads : pc[t] \notin HalfChanged)
       => TunerIs(Current, Current, Current, Current)

KernelsFit ==
  (\A t \in Threads : pc[t] # "clear") =>
    \A d \in Devices, k \in Keys :
      kernels[d][k] # None => kernels[d][k].config \in ConfigsOf[Current]

CallsFit ==
  \A t \in Threads :
    /\ pc[t] = "storeBest" => call[t].pruned = Current
    /\ pc[t] \in {"recoverHook", "compile"} => call[t].config \in ConfigsOf[Current]
    /\ pc[t] = "done" => call[t].kernel.config \in ConfigsOf[Current]
    /\ pc[t] = "lookup" => Cached(t) # None

SpaceInv ==
  LaunchInv /\ OneFollows /\ TunerFollows /\ TablesMatchSpaces /\ KernelsFit /\ CallsFit

-----------------------------------------------------------------------------
\* The steps of a call that neither apply the switch nor start or end a call.
LaunchSteps(t) ==
  \/ Probe(t) \/ Acquire(t) \/ Recheck(t) \/ Lookup(t)
  \/ TakeOnly(t) \/ TuneProbe(t) \/ Prune(t) \/ StoreBest(t) \/ ReadBest(t)
  \/ RecoverHook(t) \/ Compile(t) \/ CompileFails(t)

\* They run only when no switch is pending and leave the tuner alone.
LEMMA LaunchStepsApart ==
  ASSUME TypeOK, NEW t \in Threads, LaunchSteps(t)
  PROVE  /\ pc[t] \in FirstRun \cup {"probe", "acquire", "lookup"}
         /\ \E s \in FirstRun \cup {"acquire", "lookup", "done", "raised"} :
              pc' = [pc EXCEPT ![t] = s]
         /\ UNCHANGED <<wanted, expandable, tuner>>
<1> USE DEF world, TypeOK
<1>1. CASE Probe(t) BY <1>1 DEF Probe
<1>2. CASE Acquire(t) BY <1>2 DEF Acquire
<1>3. CASE Recheck(t) BY <1>3 DEF Recheck
<1>4. CASE Lookup(t) BY <1>4 DEF Lookup
<1>5. CASE TakeOnly(t) BY <1>5 DEF TakeOnly
<1>6. CASE TuneProbe(t) BY <1>6 DEF TuneProbe
<1>7. CASE Prune(t) BY <1>7 DEF Prune
<1>8. CASE StoreBest(t) BY <1>8 DEF StoreBest
<1>9. CASE ReadBest(t) BY <1>9 DEF ReadBest
<1>10. CASE RecoverHook(t) BY <1>10 DEF RecoverHook
<1>11. CASE Compile(t) BY <1>11 DEF Compile
<1>12. CASE CompileFails(t) BY <1>12 DEF CompileFails
<1> QED
  BY <1>1, <1>2, <1>3, <1>4, <1>5, <1>6, <1>7, <1>8, <1>9, <1>10, <1>11,
     <1>12 DEF LaunchSteps

\* One thread follows a turned switch, whatever the others may do meanwhile.
LEMMA FollowsStep ==
  ASSUME Warmed, TypeOK, OneFollows, [Next]_vars PROVE OneFollows'
<1> USE DEF world, tuner, TypeOK, OneFollows, Pending, Changing, Warmed
<1>1. CASE UNCHANGED vars BY <1>1 DEF vars
<1>2. CASE Switch BY <1>2 DEF Switch, Idle
<1>3. ASSUME NEW t \in Threads, Call(t) PROVE OneFollows'
  <2>1. /\ Pending => Idle
        /\ \A u \in Threads : pc[u] \notin Applying
        /\ pc' = [pc EXCEPT ![t] = "readSwitch"]
        /\ UNCHANGED <<wanted, expandable, active>>
    BY <1>3 DEF Call, MayCall
  <2> QED BY <2>1 DEF Idle
<1>4. ASSUME NEW t \in Threads, ReadSwitch(t) PROVE OneFollows'
  <2>1. /\ pc[t] = "readSwitch"
        /\ pc' = [pc EXCEPT ![t] = IF Pending THEN "setConfigs" ELSE "probe"]
        /\ call' = [call EXCEPT ![t].enabled = wanted]
        /\ UNCHANGED <<wanted, expandable, active>>
    BY <1>4 DEF ReadSwitch, SwitchApplied
  <2>2. call'[t].enabled = wanted
    BY <2>1 DEF Calls
  <2>3. \A u \in Threads : u # t => call'[u].enabled = call[u].enabled
    BY <2>1 DEF Calls
  <2> QED BY <2>1, <2>2, <2>3
<1>5. ASSUME NEW t \in Threads,
             SetConfigs(t) \/ DropHash(t) \/ NameTable(t) \/ OpenTable(t)
      PROVE  OneFollows'
  <2>1. /\ pc[t] \in Changing
        /\ \E s \in Changing : pc' = [pc EXCEPT ![t] = s]
        /\ UNCHANGED <<wanted, expandable, active, call>>
    BY <1>5 DEF SetConfigs, DropHash, NameTable, OpenTable
  <2> QED BY <2>1
<1>6. ASSUME NEW t \in Threads, SetActive(t) PROVE OneFollows'
  <2>1. /\ pc[t] = "setActive" /\ pc' = [pc EXCEPT ![t] = "clear"]
        /\ active' = call[t].enabled
        /\ UNCHANGED <<wanted, expandable, call>>
    BY <1>6 DEF SetActive
  <2>2. Pending /\ call[t].enabled = wanted /\ active' = wanted
    BY <2>1
  <2>3. \A u \in Threads : u # t => pc[u] = "idle"
    BY <2>1, <2>2
  <2> QED BY <2>1, <2>2, <2>3
<1>7. ASSUME NEW t \in Threads, ClearKernels(t) PROVE OneFollows'
  <2>1. /\ pc[t] = "clear" /\ pc' = [pc EXCEPT ![t] = "probe"]
        /\ UNCHANGED <<wanted, expandable, active, call>>
    BY <1>7 DEF ClearKernels
  <2>2. ~Pending BY <2>1
  <2> QED BY <2>1, <2>2
<1>8. ASSUME NEW t \in Threads, LaunchSteps(t) PROVE OneFollows'
  <2>1. PICK s \in FirstRun \cup {"acquire", "lookup", "done", "raised"} :
          pc' = [pc EXCEPT ![t] = s]
    BY <1>8, LaunchStepsApart
  <2>2. /\ pc[t] \in FirstRun \cup {"probe", "acquire", "lookup"}
        /\ UNCHANGED <<wanted, expandable, active>>
    BY <1>8, LaunchStepsApart
  <2>3. ~Pending BY <2>2
  <2>4. \A u \in Threads : pc[u] \notin Changing BY <2>3
  <2>5. \A u \in Threads : pc'[u] \notin Changing BY <2>1, <2>4
  <2> QED BY <2>1, <2>2, <2>3, <2>5
<1>9. ASSUME NEW t \in Threads, Return(t) PROVE OneFollows'
  <2>1. /\ pc[t] \in {"done", "raised"} /\ pc' = [pc EXCEPT ![t] = "idle"]
        /\ UNCHANGED <<wanted, expandable, active>>
    BY <1>9 DEF Return
  <2>2. ~Pending BY <2>1
  <2>3. \A u \in Threads : pc'[u] \notin Changing BY <2>1, <2>2
  <2> QED BY <2>1, <2>2, <2>3
<1> QED
  BY <1>1, <1>2, <1>3, <1>4, <1>5, <1>6, <1>7, <1>8, <1>9
  DEF Next, Run, LaunchSteps

\* A thread in the middle of the change is the only one in a call.
LEMMA ChangingAlone ==
  ASSUME TypeOK, OneFollows, NEW t \in Threads, pc[t] \in Applying
  PROVE  /\ \A u \in Threads : u # t => pc[u] = "idle"
         /\ pc[t] # "clear" => call[t].enabled = wanted
BY DEF OneFollows, Changing

\* The tuner's fields change one after the other.
LEMMA TunerStep ==
  ASSUME Warmed, TypeOK, OneFollows, TunerFollows, [Next]_vars
  PROVE  TunerFollows'
<1> USE ConfigAssumption
    DEF world, tuner, TypeOK, TunerFollows, TunerIs, HalfChanged, Current
<1>1. CASE UNCHANGED vars BY <1>1 DEF vars
<1>2. CASE Switch
  <2>1. /\ Idle
        /\ UNCHANGED <<active, configs, hash, tableName, table, pc>>
    BY <1>2 DEF Switch, Warmed
  <2> QED BY <2>1 DEF Idle
<1>3. ASSUME NEW t \in Threads, Call(t) \/ ReadSwitch(t) \/ Return(t)
      PROVE  TunerFollows'
  <2>1. /\ pc[t] \notin HalfChanged /\ pc'[t] \notin HalfChanged
        /\ \A u \in Threads : u # t => pc'[u] = pc[u]
        /\ UNCHANGED <<wanted, active, configs, hash, tableName, table>>
    BY <1>3 DEF Call, ReadSwitch, Return
  <2> QED BY <2>1
<1>4. ASSUME NEW t \in Threads, LaunchSteps(t) PROVE TunerFollows'
  <2>1. /\ pc[t] \notin HalfChanged /\ pc'[t] \notin HalfChanged
        /\ \A u \in Threads : u # t => pc'[u] = pc[u]
        /\ UNCHANGED <<wanted, active, configs, hash, tableName, table>>
    BY <1>4, LaunchStepsApart
  <2> QED BY <2>1
<1>5. ASSUME NEW t \in Threads, ClearKernels(t) PROVE TunerFollows'
  <2>1. /\ pc[t] = "clear" /\ pc' = [pc EXCEPT ![t] = "probe"]
        /\ UNCHANGED <<wanted, active, configs, hash, tableName, table>>
    BY <1>5 DEF ClearKernels
  <2> QED BY <2>1
<1>6. ASSUME NEW t \in Threads,
             SetConfigs(t) \/ DropHash(t) \/ NameTable(t) \/ OpenTable(t)
               \/ SetActive(t)
      PROVE  TunerFollows'
  <2>1. pc[t] \in Applying \ {"clear"}
    BY <1>6 DEF SetConfigs, DropHash, NameTable, OpenTable, SetActive
  <2>2. /\ \A u \in Threads : u # t => pc[u] = "idle"
        /\ call[t].enabled = wanted
    BY <2>1, ChangingAlone
  <2>3. wanted' = wanted
    BY <1>6 DEF SetConfigs, DropHash, NameTable, OpenTable, SetActive
  <2>4. CASE SetConfigs(t) BY <2>2, <2>4 DEF SetConfigs
  <2>5. CASE DropHash(t) BY <2>2, <2>5 DEF DropHash
  <2>6. CASE NameTable(t)
    BY <2>2, <2>6 DEF NameTable, SpaceFor, Spaces
  <2>7. CASE OpenTable(t) BY <2>2, <2>7 DEF OpenTable
  <2>8. CASE SetActive(t) BY <2>2, <2>8 DEF SetActive
  <2> QED BY <1>6, <2>4, <2>5, <2>6, <2>7, <2>8
<1> QED
  BY <1>1, <1>2, <1>3, <1>4, <1>5, <1>6 DEF Next, Run, LaunchSteps

\* Outside the change the tuner's fields are those of one space.
LEMMA TunerSettled ==
  ASSUME TypeOK, OneFollows, TunerFollows, NEW t \in Threads,
         pc[t] \notin {"idle"} \cup Applying
  PROVE  TunerIs(Current, Current, Current, Current)
<1>1. ASSUME NEW u \in Threads, pc[u] \in HalfChanged PROVE FALSE
  <2>1. pc[u] \in Applying BY <1>1 DEF HalfChanged
  <2>2. t # u => pc[t] = "idle" BY <2>1, ChangingAlone
  <2> QED BY <2>1, <2>2
<1> QED BY <1>1 DEF TunerFollows

LEMMA SpacesHaveConfigs ==
  ASSUME NEW s \in Spaces
  PROVE  ConfigsOf[s] \subseteq Configs /\ None \notin ConfigsOf[s]
BY ConfigAssumption DEF Spaces, ConfigsOf, Configs

\* A result is stored in the table of the space that was benchmarked.
LEMMA TablesStep ==
  ASSUME LaunchInv, OneFollows, TunerFollows, CallsFit, TablesMatchSpaces,
         [Next]_vars
  PROVE  TablesMatchSpaces'
<1> USE DEF world, tuner, TablesMatchSpaces
<1>1. CASE UNCHANGED vars BY <1>1 DEF vars
<1>2. CASE Switch BY <1>2 DEF Switch
<1>3. ASSUME NEW t \in Threads, StoreBest(t) PROVE TablesMatchSpaces'
  <2>1. pc[t] = "storeBest" BY <1>3 DEF StoreBest
  <2>2. table = Current
    BY <2>1, TunerSettled DEF LaunchInv, TunerIs
  <2>3. call[t].pruned = Current /\ call[t].key \in Keys
    BY <2>1 DEF CallsFit, LaunchInv, CallFilled
  <2>4. PICK c \in ConfigsOf[Current] :
          best' = [best EXCEPT ![Current][call[t].key] = c]
    BY <1>3, <2>2, <2>3 DEF StoreBest
  <2>5. best \in [Spaces -> [Keys -> Configs \cup {None}]]
    BY DEF LaunchInv, TypeOK
  <2> QED BY <2>4, <2>5
<1>4. ASSUME NEW t \in Threads,
             Call(t) \/ ReadSwitch(t) \/ SetConfigs(t) \/ DropHash(t)
               \/ NameTable(t) \/ OpenTable(t) \/ SetActive(t)
               \/ ClearKernels(t) \/ Probe(t) \/ Acquire(t) \/ Recheck(t)
               \/ Lookup(t) \/ TakeOnly(t) \/ TuneProbe(t) \/ Prune(t)
               \/ ReadBest(t) \/ RecoverHook(t) \/ Compile(t)
               \/ CompileFails(t) \/ Return(t)
      PROVE  TablesMatchSpaces'
  <2>1. best' = best
    BY <1>4 DEF Call, ReadSwitch, SetConfigs, DropHash, NameTable, OpenTable,
                SetActive, ClearKernels, Probe, Acquire, Recheck, Lookup,
                TakeOnly, TuneProbe, Prune, ReadBest, RecoverHook, Compile,
                CompileFails, Return
  <2> QED BY <2>1
<1> QED BY <1>1, <1>2, <1>3, <1>4 DEF Next, Run

\* The kernels that are kept, outside the change, were compiled for the space
\* the tuner follows: the change drops those of the other one.
LEMMA KernelsStep ==
  ASSUME Warmed, LaunchInv, OneFollows, TunerFollows, CallsFit, KernelsFit,
         [Next]_vars
  PROVE  KernelsFit'
<1> USE ConfigAssumption DEF world, tuner, LaunchInv, TypeOK, KernelsFit, Current
<1>1. CASE UNCHANGED vars BY <1>1 DEF vars
<1>2. CASE Switch BY <1>2 DEF Switch
<1>3. ASSUME NEW t \in Threads, SetActive(t) PROVE KernelsFit'
  BY <1>3 DEF SetActive
<1>4. ASSUME NEW t \in Threads, ClearKernels(t) PROVE KernelsFit'
  BY <1>4 DEF ClearKernels, Cleared, NoKernels, Warmed
<1>5. ASSUME NEW t \in Threads, Compile(t) PROVE KernelsFit'
  <2> DEFINE kernel == [config |-> call[t].config, hooked |-> call[t].hooked,
                        by |-> t]
  <2>1. /\ kernels' = [kernels EXCEPT ![call[t].device][call[t].key] = kernel]
        /\ pc[t] = "compile" /\ active' = active
        /\ \A u \in Threads : pc'[u] = "clear" <=> pc[u] = "clear"
    BY <1>5 DEF Compile
  <2>2. kernel.config \in ConfigsOf[Current]
    BY <2>1 DEF CallsFit
  <2>3. call[t].device \in Devices /\ call[t].key \in Keys
    BY <2>1 DEF CallFilled
  <2> HIDE DEF kernel
  <2>4. \A u \in Threads : pc[u] # "clear"
    BY <2>1, ChangingAlone
  <2> QED BY <2>1, <2>2, <2>3, <2>4
<1>6. ASSUME NEW t \in Threads,
             Call(t) \/ ReadSwitch(t) \/ SetConfigs(t) \/ DropHash(t)
               \/ NameTable(t) \/ OpenTable(t) \/ Probe(t) \/ Acquire(t)
               \/ Recheck(t) \/ Lookup(t) \/ TakeOnly(t) \/ TuneProbe(t)
               \/ Prune(t) \/ StoreBest(t) \/ ReadBest(t) \/ RecoverHook(t)
               \/ CompileFails(t) \/ Return(t)
      PROVE  KernelsFit'
  <2>1. /\ kernels' = kernels /\ active' = active
        /\ \A u \in Threads : pc'[u] = "clear" <=> pc[u] = "clear"
    BY <1>6 DEF Call, ReadSwitch, SetConfigs, DropHash, NameTable, OpenTable,
                Probe, Acquire, Recheck, Lookup, TakeOnly, TuneProbe, Prune,
                StoreBest, ReadBest, RecoverHook, CompileFails, Return
  <2> QED BY <2>1
<1> QED BY <1>1, <1>2, <1>3, <1>4, <1>5, <1>6 DEF Next, Run

\* What a call carries belongs to the space the tuner follows, and the entry
\* a call is about to read stays: only the thread that follows the switch
\* drops entries, and it does so alone.
LEMMA CallsStep ==
  ASSUME LaunchInv, OneFollows, TunerFollows, TablesMatchSpaces, KernelsFit,
         CallsFit, [Next]_vars
  PROVE  CallsFit'
<1> USE ConfigAssumption DEF world, tuner, LaunchInv, TypeOK, CallsFit, Current
<1>1. CASE UNCHANGED vars BY <1>1 DEF vars
<1>2. CASE Switch BY <1>2 DEF Switch
<1>3. ASSUME NEW t \in Threads, Call(t) \/ ReadSwitch(t) \/ Return(t)
      PROVE  CallsFit'
  <2>1. /\ kernels' = kernels /\ active' = active
        /\ pc'[t] \in {"readSwitch", "setConfigs", "probe", "idle"}
        /\ \A u \in Threads : u # t => pc'[u] = pc[u] /\ call'[u] = call[u]
    BY <1>3 DEF Call, ReadSwitch, Return
  <2> QED BY <2>1
<1>4. ASSUME NEW t \in Threads,
             SetConfigs(t) \/ DropHash(t) \/ NameTable(t) \/ OpenTable(t)
               \/ SetActive(t) \/ ClearKernels(t)
      PROVE  CallsFit'
  <2>1. /\ pc[t] \in Applying
        /\ \E s \in Applying \cup {"probe"} : pc' = [pc EXCEPT ![t] = s]
    BY <1>4 DEF SetConfigs, DropHash, NameTable, OpenTable, SetActive,
                ClearKernels
  <2>2. \A u \in Threads : u # t => pc[u] = "idle" BY <2>1, ChangingAlone
  <2>3. \A u \in Threads : pc'[u] \in {"idle", "probe"} \cup Applying
    BY <2>1, <2>2
  <2> QED BY <2>3
<1>5. ASSUME NEW t \in Threads, Probe(t) \/ Acquire(t) \/ Recheck(t)
      PROVE  CallsFit'
  BY <1>5 DEF Probe, Acquire, Recheck
<1>6. ASSUME NEW t \in Threads, LaunchSteps(t)
      PROVE  /\ active' = active /\ configs = Current /\ table = Current
             /\ \A u \in Threads : pc[u] # "clear"
  <2>1. /\ pc[t] \in FirstRun \cup {"probe", "acquire", "lookup"}
        /\ UNCHANGED <<wanted, expandable, tuner>>
    BY <1>6, LaunchStepsApart
  <2>2. TunerIs(Current, Current, Current, Current)
    BY <2>1, TunerSettled
  <2>3. \A u \in Threads : pc[u] # "clear" BY <2>1, ChangingAlone
  <2> QED BY <2>1, <2>2, <2>3 DEF TunerIs
<1>7. ASSUME NEW t \in Threads, Lookup(t) PROVE CallsFit'
  <2>1. active' = active /\ \A u \in Threads : pc[u] # "clear"
    BY <1>6, <1>7 DEF LaunchSteps
  <2>2. /\ pc[t] = "lookup" /\ Cached(t) # None /\ kernels' = kernels
        /\ pc' = [pc EXCEPT ![t] = "done"]
        /\ call' = [call EXCEPT ![t].kernel = Cached(t)]
    BY <1>7 DEF Lookup
  <2>3. call[t].device \in Devices /\ call[t].key \in Keys
    BY <2>2 DEF CallFilled
  <2>4. Cached(t).config \in ConfigsOf[Current]
    BY <2>1, <2>2, <2>3 DEF KernelsFit
  <2>5. call'[t].kernel = Cached(t) BY <2>2 DEF Calls
  <2>6. \A u \in Threads : u # t => pc'[u] = pc[u] /\ call'[u] = call[u]
    BY <2>2
  <2> QED BY <2>1, <2>2, <2>4, <2>5, <2>6
<1>8. ASSUME NEW t \in Threads, TakeOnly(t) PROVE CallsFit'
  <2>1. active' = active /\ configs = Current
    BY <1>6, <1>8 DEF LaunchSteps
  <2>2. PICK c \in ConfigsOf[Current] :
          call' = [call EXCEPT ![t].config = c, ![t].hooked = TRUE]
    BY <1>8, <2>1 DEF TakeOnly
  <2>3. call'[t].config = c BY <2>2 DEF Calls
  <2>4. /\ pc'[t] = "compile" /\ kernels' = kernels
        /\ \A u \in Threads : u # t => pc'[u] = pc[u] /\ call'[u] = call[u]
    BY <1>8, <2>2 DEF TakeOnly
  <2> QED BY <2>1, <2>3, <2>4
<1>9. ASSUME NEW t \in Threads, TuneProbe(t) \/ StoreBest(t) \/ CompileFails(t)
      PROVE  CallsFit'
  <2>1. /\ kernels' = kernels /\ active' = active /\ call' = call
        /\ pc'[t] \in {"prune", "readBest", "raised"}
        /\ \A u \in Threads : u # t => pc'[u] = pc[u]
    BY <1>9 DEF TuneProbe, StoreBest, CompileFails
  <2> QED BY <2>1
<1>10. ASSUME NEW t \in Threads, Prune(t) PROVE CallsFit'
  <2>1. active' = active /\ configs = Current
    BY <1>6, <1>10 DEF LaunchSteps
  <2>2. /\ pc' = [pc EXCEPT ![t] = "storeBest"] /\ kernels' = kernels
        /\ call' = [call EXCEPT ![t].pruned = Current]
    BY <1>10, <2>1 DEF Prune
  <2>3. call'[t].pruned = Current BY <2>2 DEF Calls
  <2>4. pc'[t] = "storeBest"
        /\ \A u \in Threads : u # t => pc'[u] = pc[u] /\ call'[u] = call[u]
    BY <2>2
  <2> QED BY <2>1, <2>2, <2>3, <2>4
<1>11. ASSUME NEW t \in Threads, ReadBest(t) PROVE CallsFit'
  <2>1. active' = active /\ table = Current
    BY <1>6, <1>11 DEF LaunchSteps
  <2>2. pc[t] = "readBest" /\ kernels' = kernels BY <1>11 DEF ReadBest
  <2>3. CASE best[table][call[t].key] = None
    BY <1>11, <2>1, <2>3 DEF ReadBest
  <2>4. CASE best[table][call[t].key] # None
    <3>1. PICK c : c = best[Current][call[t].key] OBVIOUS
    <3>2. c \in ConfigsOf[Current]
      BY <2>1, <2>2, <2>4, <3>1 DEF CallFilled, TablesMatchSpaces
    <3>3. /\ pc' = [pc EXCEPT ![t] = "recoverHook"]
          /\ call' = [call EXCEPT ![t].config = c]
      BY <1>11, <2>1, <2>4, <3>1 DEF ReadBest
    <3>4. call'[t].config = c BY <3>3 DEF Calls
    <3>5. pc'[t] = "recoverHook"
          /\ \A u \in Threads : u # t => pc'[u] = pc[u] /\ call'[u] = call[u]
      BY <3>3
    <3> QED BY <2>1, <2>2, <3>2, <3>4, <3>5
  <2> QED BY <2>3, <2>4
<1>12. ASSUME NEW t \in Threads, RecoverHook(t) PROVE CallsFit'
  <2>1. PICK x : call' = [call EXCEPT ![t].hooked = x]
    BY <1>12 DEF RecoverHook
  <2>2. call'[t].config = call[t].config BY <2>1, Written
  <2>3. \A u \in Threads : u # t => call'[u] = call[u] BY <2>1
  <2>4. /\ pc[t] = "recoverHook" /\ kernels' = kernels /\ active' = active
        /\ pc'[t] = "compile" /\ \A u \in Threads : u # t => pc'[u] = pc[u]
    BY <1>12 DEF RecoverHook
  <2> QED BY <2>2, <2>3, <2>4
<1>13. ASSUME NEW t \in Threads, Compile(t) PROVE CallsFit'
  <2> DEFINE made == [config |-> call[t].config, hooked |-> call[t].hooked,
                      by |-> t]
  <2>1. /\ pc[t] = "compile" /\ pc' = [pc EXCEPT ![t] = "done"]
        /\ kernels' = [kernels EXCEPT ![call[t].device][call[t].key] = made]
        /\ call' = [call EXCEPT ![t].kernel = made]
        /\ active' = active
    BY <1>13 DEF Compile
  <2>2. made \in Kernels /\ made.config \in ConfigsOf[Current]
    BY <2>1 DEF Calls, Kernels, CallFilled
  <2> HIDE DEF made
  <2>3. call'[t].kernel = made BY <2>1 DEF Calls
  <2>4. \A u \in Threads : u # t => pc'[u] = pc[u] /\ call'[u] = call[u]
    BY <2>1
  <2>5. \A u \in Threads : pc[u] = "lookup" =>
          kernels'[call[u].device][call[u].key] # None
    <3> SUFFICES ASSUME NEW u \in Threads, pc[u] = "lookup"
                 PROVE  kernels'[call[u].device][call[u].key] # None
      OBVIOUS
    <3>1. /\ call[u].device \in Devices /\ call[u].key \in Keys
          /\ call[t].device \in Devices /\ call[t].key \in Keys
      BY <2>1 DEF CallFilled
    <3>2. kernels[call[u].device][call[u].key] # None OBVIOUS
    <3>3. made # None BY <2>2
    <3> QED BY <2>1, <3>1, <3>2, <3>3
  <2> QED BY <2>1, <2>2, <2>3, <2>4, <2>5
<1> QED
  BY <1>1, <1>2, <1>3, <1>4, <1>5, <1>7, <1>8, <1>9, <1>10, <1>11, <1>12,
     <1>13 DEF Next, Run

LEMMA SpaceInit == Init => SpaceInv
<1> SUFFICES ASSUME Init PROVE SpaceInv
  OBVIOUS
<1> USE ConfigAssumption
<1>1. LaunchInv BY LaunchInit
<1>2. OneFollows BY DEF Init, OneFollows, Pending, Changing
<1>3. TunerFollows
  BY DEF Init, TunerFollows, TunerIs, HalfChanged, Current, SpaceFor
<1>4. TablesMatchSpaces BY DEF Init, TablesMatchSpaces, EmptyTables
<1>5. KernelsFit BY DEF Init, KernelsFit, NoKernels
<1>6. CallsFit BY DEF Init, CallsFit
<1> QED BY <1>1, <1>2, <1>3, <1>4, <1>5, <1>6 DEF SpaceInv

LEMMA SpaceStep == Warmed /\ SpaceInv /\ [Next]_vars => SpaceInv'
<1> SUFFICES ASSUME Warmed, SpaceInv, [Next]_vars PROVE SpaceInv'
  OBVIOUS
<1>1. /\ LaunchInv /\ TypeOK /\ OneFollows /\ TunerFollows
      /\ TablesMatchSpaces /\ KernelsFit /\ CallsFit
  BY DEF SpaceInv, LaunchInv
<1>2. LaunchInv' BY <1>1, LaunchStep
<1>3. OneFollows' BY <1>1, FollowsStep
<1>4. TunerFollows' BY <1>1, TunerStep
<1>5. TablesMatchSpaces' BY <1>1, TablesStep
<1>6. KernelsFit' BY <1>1, KernelsStep
<1>7. CallsFit' BY <1>1, CallsStep
<1> QED BY <1>2, <1>3, <1>4, <1>5, <1>6, <1>7 DEF SpaceInv

LEMMA SpaceInvariant == Warmed /\ Spec => []SpaceInv
<1>1. SUFFICES ASSUME Warmed PROVE Spec => []SpaceInv
  OBVIOUS
<1>2. SpaceInv /\ [Next]_vars => SpaceInv' BY <1>1, SpaceStep
<1> QED BY <1>2, SpaceInit, PTL DEF Spec

\* With the switch turned between calls and followed by one warm-up call
\* (apply_flagtune, LibEntry._apply_flagtune), every call launches a kernel
\* of the space that the switch asks for, and no entry disappears between
\* the test and the read of LibEntry.run.
THEOREM WantedSpaceLaunched == Warmed /\ Spec => []LaunchesWantedSpace
<1>1. ASSUME SpaceInv PROVE LaunchesWantedSpace
  <2> SUFFICES ASSUME NEW t \in Threads
               PROVE  /\ pc[t] = "lookup" => Cached(t) # None
                      /\ pc[t] = "done" =>
                           call[t].kernel.config
                             \in ConfigsOf[SpaceFor(wanted /\ expandable)]
    BY DEF LaunchesWantedSpace
  <2>1. pc[t] = "lookup" => Cached(t) # None
    BY <1>1 DEF SpaceInv, CallsFit
  <2>2. ASSUME pc[t] = "done"
        PROVE  call[t].kernel.config
                 \in ConfigsOf[SpaceFor(wanted /\ expandable)]
    <3>1. active \in BOOLEAN /\ wanted \in BOOLEAN /\ expandable \in BOOLEAN
      BY <1>1 DEF SpaceInv, LaunchInv, TypeOK
    <3>2. ~Pending /\ (active => expandable)
      BY <1>1, <2>2 DEF SpaceInv, OneFollows, Changing
    <3>3. active <=> wanted /\ expandable
      BY <3>1, <3>2 DEF Pending
    <3>4. Current = SpaceFor(wanted /\ expandable)
      BY <3>3 DEF Current, SpaceFor
    <3> QED BY <1>1, <2>2, <3>4 DEF SpaceInv, CallsFit
  <2> QED BY <2>1, <2>2
<1>2. SUFFICES ASSUME Warmed PROVE Spec => []LaunchesWantedSpace
  OBVIOUS
<1> QED BY <1>1, <1>2, SpaceInvariant, PTL

\* The tables (StoreBest through self.cache), which outlive the process, hold
\* the configurations of their own space only.
THEOREM TablesHoldTheirSpace == Warmed /\ Spec => []TablesMatchSpaces
<1>1. SpaceInv => TablesMatchSpaces BY DEF SpaceInv
<1>2. SUFFICES ASSUME Warmed PROVE Spec => []TablesMatchSpaces
  OBVIOUS
<1> QED BY <1>1, <1>2, SpaceInvariant, PTL

\* Between calls a tuner that believes to follow the switch does follow it
\* (apply_flagtune sets _flagtune_active last).
THEOREM SwitchIsSettled == Warmed /\ Spec => []SwitchSettles
<1>1. ASSUME SpaceInv PROVE SwitchSettles
  <2>1. ASSUME Idle, active = wanted
        PROVE  configs = SpaceFor(wanted) /\ table = SpaceFor(wanted)
    BY <1>1, <2>1 DEF SpaceInv, TunerFollows, TunerIs, HalfChanged, Idle,
                      Current
  <2> QED BY <2>1 DEF SwitchSettles
<1>2. SUFFICES ASSUME Warmed PROVE Spec => []SwitchSettles
  OBVIOUS
<1> QED BY <1>1, <1>2, SpaceInvariant, PTL

-----------------------------------------------------------------------------
\* A kernel that is about to be compiled runs the pre-hook.
HookRuns == \A t \in Threads : pc[t] = "compile" => call[t].hooked

LEMMA HookStep ==
  ASSUME SpaceInv, HookRuns, [Next]_vars PROVE HookRuns'
<1> USE DEF world, tuner, SpaceInv, LaunchInv, TypeOK, HookRuns
<1>1. CASE UNCHANGED vars BY <1>1 DEF vars
<1>2. CASE Switch BY <1>2 DEF Switch
<1>3. ASSUME NEW t \in Threads, RecoverHook(t) PROVE HookRuns'
  <2>1. pc[t] = "recoverHook" BY <1>3 DEF RecoverHook
  <2>2. configs = Current BY <2>1, TunerSettled DEF TunerIs
  <2>3. call[t].config \in ConfigsOf[configs]
    BY <2>1, <2>2 DEF CallsFit
  <2>4. call' = [call EXCEPT ![t].hooked = TRUE]
    BY <1>3, <2>3, Zenon DEF RecoverHook
  <2>5. call'[t].hooked BY <2>4 DEF Calls
  <2>6. \A u \in Threads : u # t => pc'[u] = pc[u] /\ call'[u] = call[u]
    BY <1>3, <2>4 DEF RecoverHook
  <2> QED BY <2>5, <2>6
<1>4. ASSUME NEW t \in Threads, TakeOnly(t) PROVE HookRuns'
  BY <1>4 DEF TakeOnly, Calls
<1>5. ASSUME NEW t \in Threads,
             Call(t) \/ ReadSwitch(t) \/ SetConfigs(t) \/ DropHash(t)
               \/ NameTable(t) \/ OpenTable(t) \/ SetActive(t)
               \/ ClearKernels(t) \/ Probe(t) \/ Acquire(t) \/ Recheck(t)
               \/ Lookup(t) \/ TuneProbe(t) \/ Prune(t) \/ StoreBest(t)
               \/ ReadBest(t) \/ Compile(t) \/ CompileFails(t) \/ Return(t)
      PROVE  HookRuns'
  <2>1. /\ pc'[t] # "compile"
        /\ \A u \in Threads : u # t => pc'[u] = pc[u] /\ call'[u] = call[u]
    BY <1>5 DEF Call, ReadSwitch, SetConfigs, DropHash, NameTable, OpenTable,
                SetActive, ClearKernels, Probe, Acquire, Recheck, Lookup,
                TuneProbe, Prune, StoreBest, ReadBest, Compile,
                CompileFails, Return
  <2> QED BY <2>1
<1> QED BY <1>1, <1>2, <1>3, <1>4, <1>5 DEF Next, Run

\* With a warm-up call after each turn of the switch the original of a
\* configuration that was read back is always found (LibTuner.run), so every
\* kernel that is kept runs its pre-hook.
THEOREM HooksRecovered == Warmed /\ Spec => []OriginalConfigFound
<1> DEFINE HookInv == SpaceInv /\ HookRuns /\ OriginalConfigFound
<1>1. SUFFICES ASSUME Warmed PROVE Spec => []OriginalConfigFound
  OBVIOUS
<1>2. Init => HookInv
  BY SpaceInit, ConfigAssumption
  DEF Init, HookRuns, OriginalConfigFound, NoKernels
<1>3. ASSUME HookInv, [Next]_vars PROVE OriginalConfigFound'
  <2> USE DEF world, tuner, OriginalConfigFound
  <2>1. CASE UNCHANGED vars BY <1>3, <2>1 DEF vars
  <2>2. CASE Switch BY <1>3, <2>2 DEF Switch
  <2>3. ASSUME NEW t \in Threads, ClearKernels(t) PROVE OriginalConfigFound'
    BY <1>3, <2>3 DEF ClearKernels, Cleared, NoKernels
  <2>4. ASSUME NEW t \in Threads, Compile(t) PROVE OriginalConfigFound'
    <3> DEFINE made == [config |-> call[t].config, hooked |-> call[t].hooked,
                        by |-> t]
    <3>1. kernels' = [kernels EXCEPT ![call[t].device][call[t].key] = made]
      BY <2>4 DEF Compile
    <3>2. made.hooked BY <1>3, <2>4 DEF Compile, HookRuns
    <3>3. kernels \in [Devices -> [Keys -> Kernels \cup {None}]]
      BY <1>3 DEF SpaceInv, LaunchInv, TypeOK
    <3> HIDE DEF made
    <3> QED BY <1>3, <3>1, <3>2, <3>3
  <2>5. ASSUME NEW t \in Threads,
               Call(t) \/ ReadSwitch(t) \/ SetConfigs(t) \/ DropHash(t)
                 \/ NameTable(t) \/ OpenTable(t) \/ SetActive(t)
                 \/ (LaunchSteps(t) /\ ~Compile(t)) \/ Return(t)
        PROVE  OriginalConfigFound'
    <3>1. kernels' = kernels
      BY <2>5 DEF Call, ReadSwitch, SetConfigs, DropHash, NameTable, OpenTable,
                  SetActive, LaunchSteps, Probe, Acquire, Recheck, Lookup,
                  TakeOnly, TuneProbe, Prune, StoreBest, ReadBest, RecoverHook,
                  CompileFails, Return
    <3> QED BY <1>3, <3>1
  <2> QED
    BY <1>3, <2>1, <2>2, <2>3, <2>4, <2>5 DEF Next, Run, LaunchSteps
<1>4. HookInv /\ [Next]_vars => HookInv'
  BY <1>1, <1>3, SpaceStep, HookStep
<1>5. HookInv => OriginalConfigFound OBVIOUS
<1> QED BY <1>2, <1>4, <1>5, PTL DEF Spec
=============================================================================
