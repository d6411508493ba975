---------------------------- MODULE LaunchCache ----------------------------
(***************************************************************************)
(* The launch path of one operator in one process: LibEntry.run, which     *)
(* keeps the compiled kernels of a jit function per device, LibTuner.run,  *)
(* which keeps the best configuration of a key in a table named after the  *)
(* search space, and LibTuner.apply_flagtune, which replaces the search    *)
(* space when the operator's FlagTune switch has been turned.              *)
(*                                                                         *)
(* Only the first run of a key is serialised by LibEntry.lock; looking a   *)
(* kernel up, launching it and applying the switch are not.  A step is a   *)
(* stretch of Python code that touches shared state once; threads of the   *)
(* process interleave between steps.                                       *)
(*                                                                         *)
(* A key stands for the arguments of a launch and for its tuner bucket; a  *)
(* bucket with several kernels is the same key on several devices.         *)
(***************************************************************************)
EXTENDS Naturals, FiniteSets

CONSTANTS
  Threads,          \* threads that call the operator
  Devices,          \* devices they call it on
  CpuDevices,       \* those whose kernels are kept in _cpu_cache
  Keys,
  DefaultConfigs,   \* the configurations the operator was declared with
  ExpandedConfigs,  \* those of the FlagTune search space
  SwitchPolicy,     \* how the application turns the switch, see MayCall
  MaxSwitches,      \* bound on turns of the switch
  MaxFailures,      \* bound on kernels that fail to compile
  None

Configs == DefaultConfigs \cup ExpandedConfigs
Spaces  == {"default", "expanded"}
ConfigsOf == [default |-> DefaultConfigs, expanded |-> ExpandedConfigs]

\* A compiled kernel: its configuration, whether the pre-hook of that
\* configuration runs before a launch, and the thread that compiled it.
Kernels == [config : Configs, hooked : BOOLEAN, by : Threads]

ASSUME ConfigAssumption ==
  /\ Threads # {} /\ Devices # {} /\ Keys # {} /\ CpuDevices \subseteq Devices
  /\ DefaultConfigs # {} /\ ExpandedConfigs # {}
  /\ SwitchPolicy \in {"warmed", "any"}
  /\ MaxSwitches \in Nat /\ MaxFailures \in Nat
  /\ None \notin Configs \cup Spaces \cup Kernels \cup Threads
  /\ None \notin Devices \cup Keys

VARIABLES
  wanted,      \* flagtune_enabled(op): the operator is in the include list
  expandable,  \* the expanded space can be read from its yaml file
  switches,    \* turns of the switch so far
  failures,    \* failed compilations so far
  active,      \* LibTuner._flagtune_active
  configs,     \* LibTuner.configs, by the name of its space
  hash,        \* the cached configs_hash and kernel_hash, None when dropped
  tableName,   \* LibTuner.config_table_name
  table,       \* LibTuner.cache, the table it reads and writes
  best,        \* best[space][key], the tables of the tuned-configuration store
  kernels,     \* kernels[device][key], LibEntry.kernel_cache and _cpu_cache
  lock,        \* the thread that holds LibEntry.lock
  pc,
  call         \* the locals of each thread's call

tuner == <<active, configs, hash, tableName, table>>
world == <<wanted, expandable, switches, failures>>
vars  == <<world, tuner, best, kernels, lock, pc, call>>

\* pc of a thread that is applying the switch, and of one that holds the lock.
Applying == {"setConfigs", "dropHash", "nameTable", "openTable", "setActive",
             "clear"}
FirstRun == {"recheck", "tuneProbe", "prune", "storeBest", "readBest",
             "recoverHook", "compile"}
Steps == Applying \cup FirstRun
           \cup {"idle", "readSwitch", "probe", "acquire", "lookup", "done",
                 "raised"}

Calls == [device  : Devices \cup {None},
          key     : Keys \cup {None},
          enabled : BOOLEAN,                  \* flagtune_enabled as read
          pruned  : Spaces \cup {None},       \* the space being benchmarked
          config  : Configs \cup {None},      \* the chosen configuration
          hooked  : BOOLEAN,
          kernel  : Kernels \cup {None}]      \* the kernel launched

NoCall == [device |-> None, key |-> None, enabled |-> FALSE, pruned |-> None,
           config |-> None, hooked |-> FALSE, kernel |-> None]

NoKernels == [k \in Keys |-> None]
EmptyTables == [s \in Spaces |-> [k \in Keys |-> None]]

SpaceFor(enabled) == IF enabled THEN "expanded" ELSE "default"

Init ==
  /\ wanted \in BOOLEAN
  /\ expandable \in BOOLEAN
  /\ switches = 0
  /\ failures = 0
  /\ active = FALSE
  /\ configs = "default"
  /\ hash = "default"
  /\ tableName = "default"
  /\ table = "default"
  /\ best = EmptyTables
  /\ kernels = [d \in Devices |-> NoKernels]
  /\ lock = None
  /\ pc = [t \in Threads |-> "idle"]
  /\ call = [t \in Threads |-> NoCall]

Goto(t, from, to) == pc[t] = from /\ pc' = [pc EXCEPT ![t] = to]

Cached(t) == kernels[call[t].device][call[t].key]

-----------------------------------------------------------------------------
(***************************************************************************)
(* The application.  Under "any" it turns the switch and calls the operator *)
(* whenever it likes.  Under "warmed" it turns the switch between calls and *)
(* lets one call finish before it makes others, so that one thread applies  *)
(* the new search space alone.                                              *)
(***************************************************************************)
Idle == \A t \in Threads : pc[t] = "idle"

Pending == wanted # active /\ (wanted => expandable)

MayCall ==
  SwitchPolicy = "warmed" =>
    /\ Pending => Idle
    /\ \A t \in Threads : pc[t] \notin Applying

\* flagtune(include) adds the operator to the include list or leaves it out.
Switch ==
  /\ switches < MaxSwitches
  /\ SwitchPolicy = "warmed" => Idle
  /\ wanted' = ~wanted
  /\ switches' = switches + 1
  /\ UNCHANGED <<expandable, failures, tuner, best, kernels, lock, pc, call>>

Call(t) ==
  /\ Goto(t, "idle", "readSwitch")
  /\ MayCall
  /\ \E d \in Devices, k \in Keys :
       call' = [call EXCEPT ![t] = [NoCall EXCEPT !.device = d, !.key = k]]
  /\ UNCHANGED <<world, tuner, best, kernels, lock>>

-----------------------------------------------------------------------------
(***************************************************************************)
(* LibTuner.apply_flagtune and LibEntry._apply_flagtune, without the lock.  *)
(***************************************************************************)
\* Nothing to do when the tuner already follows the switch, or when the
\* expanded space is not available.
SwitchApplied(enabled) == enabled = active \/ (enabled /\ ~expandable)

ReadSwitch(t) ==
  /\ pc[t] = "readSwitch"
  /\ call' = [call EXCEPT ![t].enabled = wanted]
  /\ pc' = [pc EXCEPT ![t] =
              IF SwitchApplied(wanted) THEN "probe" ELSE "setConfigs"]
  /\ UNCHANGED <<world, tuner, best, kernels, lock>>

\* Mutant: turning the switch off leaves the expanded space in place.
KeepExpanded(t) ==
  /\ Goto(t, "setConfigs", "dropHash")
  /\ configs' = IF call[t].enabled THEN "expanded" ELSE configs
  /\ UNCHANGED <<world, active, hash, tableName, table, best, kernels, lock,
                 call>>

SetConfigs(t) ==
  /\ Goto(t, "setConfigs", "dropHash")
  /\ configs' = SpaceFor(call[t].enabled)
  /\ UNCHANGED <<world, active, hash, tableName, table, best, kernels, lock,
                 call>>

\* Mutant: the cached hash survives the change of configurations.
KeepHash(t) ==
  /\ Goto(t, "dropHash", "nameTable")
  /\ UNCHANGED <<world, tuner, best, kernels, lock, call>>

DropHash(t) ==
  /\ Goto(t, "dropHash", "nameTable")
  /\ hash' = None
  /\ UNCHANGED <<world, active, configs, tableName, table, best, kernels, lock,
                 call>>

\* Mutant: the table is named before the hash is computed again.
NameTableFirst(t) ==
  /\ Goto(t, "nameTable", "openTable")
  /\ hash' = configs
  /\ tableName' = hash
  /\ UNCHANGED <<world, active, configs, table, best, kernels, lock, call>>

\* kernel_hash is computed from the configurations unless it is cached.
NameTable(t) ==
  /\ Goto(t, "nameTable", "openTable")
  /\ hash' = IF hash = None THEN configs ELSE hash
  /\ tableName' = hash'
  /\ UNCHANGED <<world, active, configs, table, best, kernels, lock, call>>

OpenTable(t) ==
  /\ Goto(t, "openTable", "setActive")
  /\ table' = tableName
  /\ UNCHANGED <<world, active, configs, hash, tableName, best, kernels, lock,
                 call>>

SetActive(t) ==
  /\ Goto(t, "setActive", "clear")
  /\ active' = call[t].enabled
  /\ UNCHANGED <<world, configs, hash, tableName, table, best, kernels, lock,
                 call>>

\* Mutant: kernels survive a change of the search space.
NotCleared(d) == kernels[d]

\* The caches of the devices are cleared one after the other; a call looks at
\* one of them, so the loop is one step.  _cpu_cache is not in the loop.
Cleared(d) == IF d \in CpuDevices THEN kernels[d] ELSE NoKernels

ClearKernels(t) ==
  /\ Goto(t, "clear", "probe")
  /\ kernels' = [d \in Devices |-> Cleared(d)]
  /\ UNCHANGED <<world, tuner, best, lock, call>>

-----------------------------------------------------------------------------
(***************************************************************************)
(* LibEntry.run: look for the kernel, and run the function for the first    *)
(* time under the lock if there is none.                                    *)
(***************************************************************************)
Probe(t) ==
  /\ pc[t] = "probe"
  /\ pc' = [pc EXCEPT ![t] = IF Cached(t) = None THEN "acquire" ELSE "lookup"]
  /\ UNCHANGED <<world, tuner, best, kernels, lock, call>>

Acquire(t) ==
  /\ Goto(t, "acquire", "recheck")
  /\ lock = None
  /\ lock' = t
  /\ UNCHANGED <<world, tuner, best, kernels, call>>

\* Mutant: the cache is not looked at again once the lock is held.
NoRecheck(t) ==
  /\ Goto(t, "recheck", "tuneProbe")
  /\ UNCHANGED <<world, tuner, best, kernels, lock, call>>

\* Mutant: leaving the loop early keeps the lock.
RecheckKeepsLock(t) ==
  /\ pc[t] = "recheck"
  /\ pc' = [pc EXCEPT ![t] = IF Cached(t) = None THEN "tuneProbe" ELSE "lookup"]
  /\ UNCHANGED <<world, tuner, best, kernels, lock, call>>

\* Another thread may have stored the kernel while this one waited.
Recheck(t) ==
  /\ pc[t] = "recheck"
  /\ IF Cached(t) = None
       THEN pc' = [pc EXCEPT ![t] = "tuneProbe"] /\ UNCHANGED lock
       ELSE pc' = [pc EXCEPT ![t] = "lookup"] /\ lock' = None
  /\ UNCHANGED <<world, tuner, best, kernels, call>>

\* cache[entry_key] after the test: a KeyError if the entry is gone by now.
Lookup(t) ==
  /\ pc[t] = "lookup"
  /\ pc' = [pc EXCEPT ![t] = IF Cached(t) = None THEN "raised" ELSE "done"]
  /\ call' = [call EXCEPT ![t].kernel = Cached(t)]
  /\ UNCHANGED <<world, tuner, best, kernels, lock>>

-----------------------------------------------------------------------------
(***************************************************************************)
(* LibTuner.run, called with the lock held.                                 *)
(***************************************************************************)
\* A single configuration needs no table.
TakeOnly(t) ==
  /\ Goto(t, "tuneProbe", "compile")
  /\ Cardinality(ConfigsOf[configs]) = 1
  /\ \E c \in ConfigsOf[configs] :
       call' = [call EXCEPT ![t].config = c, ![t].hooked = TRUE]
  /\ UNCHANGED <<world, tuner, best, kernels, lock>>

TuneProbe(t) ==
  /\ pc[t] = "tuneProbe"
  /\ Cardinality(ConfigsOf[configs]) > 1
  /\ pc' = [pc EXCEPT ![t] =
              IF best[table][call[t].key] = None THEN "prune" ELSE "readBest"]
  /\ UNCHANGED <<world, tuner, best, kernels, lock, call>>

\* prune_configs reads self.configs; the benchmarks run on what it returned.
Prune(t) ==
  /\ Goto(t, "prune", "storeBest")
  /\ call' = [call EXCEPT ![t].pruned = configs]
  /\ UNCHANGED <<world, tuner, best, kernels, lock>>

\* The policy's winner is stored in the table that self.cache is by then.
StoreBest(t) ==
  /\ Goto(t, "storeBest", "readBest")
  /\ \E c \in ConfigsOf[call[t].pruned] :
       best' = [best EXCEPT ![table][call[t].key] = c]
  /\ UNCHANGED <<world, tuner, kernels, lock, call>>

\* Mutant: an exception does not release the lock.
RaiseLocked(t) ==
  /\ pc' = [pc EXCEPT ![t] = "raised"]
  /\ UNCHANGED lock

\* An exception leaves the with block, which releases the lock.
Raise(t) ==
  /\ pc' = [pc EXCEPT ![t] = "raised"]
  /\ lock' = None

ReadBest(t) ==
  /\ pc[t] = "readBest"
  /\ LET found == best[table][call[t].key] IN
       IF found = None
         THEN Raise(t) /\ UNCHANGED call
         ELSE /\ Goto(t, "readBest", "recoverHook")
              /\ call' = [call EXCEPT ![t].config = found]
              /\ UNCHANGED lock
  /\ UNCHANGED <<world, tuner, best, kernels>>

\* A configuration read from the store has no pre-hook; it is taken from the
\* member of self.configs with the same parameters, if there is one.
RecoverHook(t) ==
  /\ Goto(t, "recoverHook", "compile")
  /\ call' = [call EXCEPT ![t].hooked = call[t].config \in ConfigsOf[configs]]
  /\ UNCHANGED <<world, tuner, best, kernels, lock>>

\* The kernel is compiled and launched, then stored, and the lock released.
Compile(t) ==
  /\ Goto(t, "compile", "done")
  /\ LET kernel == [config |-> call[t].config, hooked |-> call[t].hooked,
                    by |-> t] IN
       /\ kernels' = [kernels EXCEPT ![call[t].device][call[t].key] = kernel]
       /\ call' = [call EXCEPT ![t].kernel = kernel]
  /\ lock' = None
  /\ UNCHANGED <<world, tuner, best>>

\* Benchmarking or compiling fails.
CompileFails(t) ==
  /\ pc[t] \in {"storeBest", "compile"}
  /\ failures < MaxFailures
  /\ failures' = failures + 1
  /\ Raise(t)
  /\ UNCHANGED <<wanted, expandable, switches, tuner, best, kernels, call>>

Return(t) ==
  /\ pc[t] \in {"done", "raised"}
  /\ pc' = [pc EXCEPT ![t] = "idle"]
  /\ call' = [call EXCEPT ![t] = NoCall]
  /\ UNCHANGED <<world, tuner, best, kernels, lock>>

-----------------------------------------------------------------------------
Run(t) ==
  \/ ReadSwitch(t) \/ SetConfigs(t) \/ DropHash(t) \/ NameTable(t)
  \/ OpenTable(t) \/ SetActive(t) \/ ClearKernels(t)
  \/ Probe(t) \/ Acquire(t) \/ Recheck(t) \/ Lookup(t)
  \/ TakeOnly(t) \/ TuneProbe(t) \/ Prune(t) \/ StoreBest(t) \/ ReadBest(t)
  \/ RecoverHook(t) \/ Compile(t)
  \/ Return(t)

Next ==
  \/ Switch
  \/ \E t \in Threads : Call(t) \/ Run(t) \/ CompileFails(t)

Spec == Init /\ [][Next]_vars

\* A thread inside a call keeps running.  Failures are bounded, so a thread
\* that waits for the lock is not overtaken for ever.
FairSpec == Spec /\ \A t \in Threads : WF_vars(Run(t))

-----------------------------------------------------------------------------
TypeOK ==
  /\ wanted \in BOOLEAN /\ expandable \in BOOLEAN /\ active \in BOOLEAN
  /\ switches \in 0..MaxSwitches /\ failures \in 0..MaxFailures
  /\ configs \in Spaces /\ tableName \in Spaces /\ table \in Spaces
  /\ hash \in Spaces \cup {None}
  /\ best \in [Spaces -> [Keys -> Configs \cup {None}]]
  /\ kernels \in [Devices -> [Keys -> Kernels \cup {None}]]
  /\ lock \in Threads \cup {None}
  /\ pc \in [Threads -> Steps]
  /\ call \in [Threads -> Calls]

\* The first run of the jit function is serialised: at most one thread is in
\* it, on whatever device, and it is the one that holds the lock, also after
\* failures and early exits.
SerializedFirstRun ==
  \A t \in Threads : pc[t] \in FirstRun <=> lock = t

\* A kernel that is in a cache is never compiled again and replaced: it goes
\* only when the cache is cleared, however many threads missed it at once.
KernelsStoredOnce ==
  [][\A d \in Devices, k \in Keys :
       kernels[d][k] # None => kernels'[d][k] \in {kernels[d][k], None}]_vars

\* A thread that found its kernel in the cache also gets it, and what a call
\* launches comes from the search space that the switch asks for, although
\* kernels compiled before the switch was turned are still around.
LaunchesWantedSpace ==
  \A t \in Threads :
    /\ pc[t] = "lookup" => Cached(t) # None
    /\ pc[t] = "done" =>
         call[t].kernel.config \in ConfigsOf[SpaceFor(wanted /\ expandable)]

\* The table of a search space holds configurations of that space only: what
\* a table holds outlives the process.
TablesMatchSpaces ==
  \A s \in Spaces, k \in Keys : best[s][k] \in ConfigsOf[s] \cup {None}

\* Every kernel that is kept runs the pre-hook of its configuration: the
\* configuration read back is found among the originals.
OriginalConfigFound ==
  \A d \in Devices, k \in Keys : kernels[d][k] # None => kernels[d][k].hooked

\* When no call is in progress and the tuner believes that it follows the
\* switch, its search space and its table are those the switch asks for.
SwitchSettles ==
  Idle /\ active = wanted =>
    configs = SpaceFor(wanted) /\ table = SpaceFor(wanted)

\* Every call returns or raises: no thread is left waiting for the lock.
CallsReturn == \A t \in Threads : pc[t] # "idle" ~> pc[t] = "idle"
=============================================================================
