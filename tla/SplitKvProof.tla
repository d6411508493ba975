------------------------------ MODULE SplitKvProof ------------------------------
(***************************************************************************)
(* Proofs about SplitKv: for any number of streams, owners, graphs,        *)
(* programs, pairs and splits, and whatever the order of calls, captures   *)
(* and replays, the pairs are worked once, the splits are combined once,   *)
(* and a counter at rest is zero, unless it is in doubt.                   *)
(*                                                                         *)
(* Two facts carry the proof.  A counter has one owner, and an owner is on *)
(* one stream at a time, so that the kernel that runs has its counter to   *)
(* itself.  And a counter that is not zero is in use by the first kernel   *)
(* of a stream, or the next kernel on it sets it to zero (Resting).        *)
(***************************************************************************)
EXTENDS SplitKv, FiniteSets, FiniteSetTheorems, SequenceTheorems, TLAPS

Kinds == {"reset", "work", "orphan", "combine", "decode"}
AllKernels == [kind : Kinds, counter : Nat \ {0}, owner : Owners]
Places == {"store", "ticket", "combine", "reset", "end"}

\* In a queue, work is followed by the kernel that sets its counter back, and
\* a combine kernel that has a predecessor comes after work.
Linked(q) ==
    \A i \in 1 .. Len(q) :
        /\ q[i].kind = "work" =>
               /\ i < Len(q)
               /\ q[i + 1].counter = q[i].counter
               /\ q[i + 1].kind \in {"reset", "combine"}
        /\ (q[i].kind = "combine" /\ i > 1) => q[i - 1].kind = "work"

\* What is launched or captured does not begin with a combine kernel.
Fresh(q) == q # <<>> => q[1].kind # "combine"

\* Counter c has been given to owner o.
Owns(o, c) ==
    /\ c \in 1 .. allocated
    /\ tileCounter[o] = c \/ \E s \in Streams : decodeCounter[<<o, s>>] = c

Owned(q) == \A i \in 1 .. Len(q) : Owns(q[i].owner, q[i].counter)

HostTypes ==
    /\ allocated \in Nat /\ allocated <= MaxCounters
    /\ counter \in [Counters -> Nat]
    /\ tileCounter \in [Owners -> Nat]
    /\ \A o \in Owners : tileCounter[o] <= allocated
    /\ decodeCounter \in [Owners \X Streams -> Nat]
    /\ \A o \in Owners, s \in Streams : decodeCounter[<<o, s>>] <= allocated
    /\ pool \in [next : Nat \ {0}, last : Nat]
    /\ pool.last <= allocated
    /\ calls \in Nat
    /\ capturing \in [Streams -> Graphs \cup {NoGraph}]
    /\ queue \in [Streams -> Seq(AllKernels)]
    /\ graph \in [Graphs -> Seq(AllKernels)]

DeviceTypes ==
    /\ running \in [Streams -> BOOLEAN]
    /\ tile \in [Streams -> [AllPrograms -> Nat]]
    /\ worked \in [Streams -> [AllPairs -> Nat]]
    /\ split \in [Streams -> [AllSplits -> Places]]
    /\ stored \in [Streams -> SUBSET AllSplits]
    /\ combined \in [Streams -> SUBSET AllSplits]
    /\ sound \in [Streams -> BOOLEAN]

OwnedOnce == \A o, p \in Owners : \A c \in Nat : Owns(o, c) /\ Owns(p, c) => o = p
PoolFree == \A o \in Owners : \A c \in pool.next .. pool.last : ~Owns(o, c)
Apart ==
    \A r, s \in Streams : r # s =>
        \A i \in 1 .. Len(queue[r]), j \in 1 .. Len(queue[s]) :
            queue[r][i].owner # queue[s][j].owner

\* What holds of the host's caches and of what is queued.
HostInv ==
    /\ HostTypes
    /\ OwnedOnce /\ PoolFree /\ Apart
    /\ \A s \in Streams : Linked(queue[s]) /\ Owned(queue[s])
    /\ \A g \in Graphs : Linked(graph[g]) /\ Fresh(graph[g]) /\ Owned(graph[g])

-----------------------------------------------------------------------------
(* Sequences of kernels. *)

LEMMA LinkedAppends ==
    ASSUME NEW q \in Seq(AllKernels), NEW ks \in Seq(AllKernels),
           Linked(q), Linked(ks), Fresh(ks)
    PROVE  /\ q \o ks \in Seq(AllKernels)
           /\ Len(q \o ks) = Len(q) + Len(ks)
           /\ Linked(q \o ks)
           /\ Fresh(q) => Fresh(q \o ks)
           /\ \A i \in 1 .. Len(q) : (q \o ks)[i] = q[i]
           /\ \A i \in 1 .. Len(ks) : (q \o ks)[Len(q) + i] = ks[i]
           /\ \A i \in 1 .. Len(q) + Len(ks) : i > Len(q) => (q \o ks)[i] = ks[i - Len(q)]
  <1> DEFINE a == q \o ks
             m == Len(q)
             n == Len(ks)
  <1>1. m \in Nat /\ n \in Nat
    BY LenProperties
  <1>2. /\ a \in Seq(AllKernels)
        /\ Len(a) = m + n
        /\ \A i \in 1 .. m + n : a[i] = IF i <= m THEN q[i] ELSE ks[i - m]
    BY ConcatProperties
  <1> HIDE DEF a, m, n
  <1>3. ASSUME NEW i \in 1 .. m PROVE a[i] = q[i]
    BY <1>1, <1>2
  <1>5. ASSUME NEW i \in 1 .. m + n, i > m PROVE a[i] = ks[i - m]
    BY <1>1, <1>2, <1>5
  <1>4. ASSUME NEW i \in 1 .. n PROVE a[m + i] = ks[i]
    <2>1. PICK j \in 1 .. m + n : j = m + i /\ j > m /\ j - m = i
      BY <1>1
    <2> QED
      BY <1>5, <2>1
  <1>6. ASSUME NEW i \in 1 .. Len(a), a[i].kind = "work"
        PROVE  i < Len(a) /\ a[i + 1].counter = a[i].counter
               /\ a[i + 1].kind \in {"reset", "combine"}
    <2>1. CASE i <= m
      <3>1. i \in 1 .. Len(q) /\ q[i].kind = "work" /\ a[i] = q[i]
        BY <1>1, <1>2, <1>3, <1>6, <2>1 DEF m
      <3>2. i + 1 \in 1 .. m
        BY <1>1, <3>1 DEF Linked, m
      <3> QED
        BY <1>1, <1>2, <1>3, <3>1, <3>2 DEF Linked
    <2>2. CASE i > m
      <3>1. i - m \in 1 .. n /\ ks[i - m].kind = "work" /\ a[i] = ks[i - m]
        BY <1>1, <1>2, <1>5, <1>6, <2>2
      <3>2. i - m < n /\ ks[i - m + 1].counter = ks[i - m].counter
            /\ ks[i - m + 1].kind \in {"reset", "combine"}
        BY <3>1 DEF Linked, n
      <3>3. i \in Int /\ Len(a) = m + n
        BY <1>1, <1>2
      <3>4. i - m + 1 \in 1 .. n /\ m + (i - m + 1) = i + 1 /\ i < Len(a)
        BY <1>1, <3>1, <3>2, <3>3
      <3> QED
        BY <1>4, <3>1, <3>2, <3>4
    <2> QED
      BY <1>1, <1>2, <2>1, <2>2
  <1>7. ASSUME NEW i \in 1 .. Len(a), a[i].kind = "combine", i > 1
        PROVE  a[i - 1].kind = "work"
    <2>1. CASE i <= m
      <3>1. i \in 1 .. Len(q) /\ q[i].kind = "combine" /\ i - 1 \in 1 .. m
        BY <1>1, <1>2, <1>3, <1>7, <2>1 DEF m
      <3> QED
        BY <1>3, <1>7, <3>1 DEF Linked
    <2>2. CASE i > m
      <3>1. i - m \in 1 .. n /\ ks[i - m].kind = "combine"
        BY <1>1, <1>2, <1>5, <1>7, <2>2
      <3>2. ks # <<>>
        BY <3>1 DEF n
      <3>3. i - m # 1
        BY <3>1, <3>2 DEF Fresh
      <3>4. ks[i - m - 1].kind = "work" /\ i - m - 1 \in 1 .. n /\ m + (i - m - 1) = i - 1
        BY <1>1, <1>2, <3>1, <3>3 DEF Linked, n
      <3> QED
        BY <1>4, <3>4
    <2> QED
      BY <1>1, <1>2, <2>1, <2>2
  <1>8. ASSUME Fresh(q) PROVE Fresh(a)
    <2>1. CASE q = <<>>
      BY <2>1, ConcatEmptySeq DEF a
    <2>2. CASE q # <<>>
      <3>1. 1 \in 1 .. m
        BY <1>1, <2>2, EmptySeq DEF m
      <3> QED
        BY <1>3, <1>8, <2>2, <3>1 DEF Fresh
    <2> QED
      BY <2>1, <2>2
  <1> QED
    BY <1>2, <1>3, <1>4, <1>5, <1>6, <1>7, <1>8 DEF Linked, a, m, n

LEMMA LinkedTail ==
    ASSUME NEW q \in Seq(AllKernels), q # <<>>, Linked(q)
    PROVE  /\ Tail(q) \in Seq(AllKernels)
           /\ Len(Tail(q)) = Len(q) - 1 /\ Len(q) \in Nat \ {0}
           /\ \A i \in 1 .. Len(q) - 1 : Tail(q)[i] = q[i + 1]
           /\ Linked(Tail(q))
           /\ Head(q) = q[1]
  <1>1. /\ Tail(q) \in Seq(AllKernels) /\ Len(Tail(q)) = Len(q) - 1
        /\ \A i \in 1 .. Len(Tail(q)) : Tail(q)[i] = q[i + 1]
        /\ Len(q) \in Nat \ {0}
    BY HeadTailProperties, EmptySeq
  <1> DEFINE t == Tail(q)
  <1> HIDE DEF t
  <1>2. /\ Len(t) = Len(q) - 1
        /\ \A i \in 1 .. Len(t) : t[i] = q[i + 1]
    BY <1>1 DEF t
  <1>3. Linked(t)
    <2>1. ASSUME NEW i \in 1 .. Len(t), t[i].kind = "work"
          PROVE  i < Len(t) /\ t[i + 1].counter = t[i].counter
                 /\ t[i + 1].kind \in {"reset", "combine"}
      <3>1. i + 1 \in 1 .. Len(q) /\ q[i + 1].kind = "work" /\ t[i] = q[i + 1]
        BY <1>1, <1>2, <2>1
      <3>2. i + 1 < Len(q) /\ q[i + 2].counter = q[i + 1].counter
            /\ q[i + 2].kind \in {"reset", "combine"}
        BY <3>1, i + 1 + 1 = i + 2 DEF Linked
      <3>3. i + 1 \in 1 .. Len(t) /\ t[i + 1] = q[i + 2]
        BY <1>1, <1>2, <3>2
      <3> QED
        BY <1>1, <1>2, <3>1, <3>2, <3>3
    <2>2. ASSUME NEW i \in 1 .. Len(t), t[i].kind = "combine", i > 1
          PROVE  t[i - 1].kind = "work"
      <3>1. i + 1 \in 1 .. Len(q) /\ q[i + 1].kind = "combine" /\ i + 1 > 1 /\ i + 1 - 1 = i
        BY <1>1, <1>2, <2>2
      <3>2. q[i].kind = "work"
        BY <3>1 DEF Linked
      <3>3. i - 1 \in 1 .. Len(t) /\ t[i - 1] = q[i - 1 + 1] /\ i - 1 + 1 = i
        BY <1>1, <1>2, <2>2
      <3> QED
        BY <3>2, <3>3
    <2> QED
      BY <2>1, <2>2 DEF Linked
  <1> QED
    BY <1>1, <1>3 DEF t

-----------------------------------------------------------------------------
(* The steps of the host.                                                  *)

OwnsNext(o, c) ==
    /\ c \in 1 .. allocated'
    /\ tileCounter'[o] = c \/ \E s \in Streams : decodeCounter'[<<o, s>>] = c

OwnedNext(q) == \A i \in 1 .. Len(q) : OwnsNext(q[i].owner, q[i].counter)

\* What was given to an owner stays its own.
Grows == \A o \in Owners : \A c \in Nat : Owns(o, c) => OwnsNext(o, c)

\* What a launch does to queues and graphs.
LEMMA LaunchKeepsQueues ==
    ASSUME HostInv, NEW s \in Streams, NEW ks \in Seq(AllKernels),
           Linked(ks), Fresh(ks), Launch(s, ks), capturing' = capturing,
           Captures(s) \/ \A i \in 1 .. Len(ks) : Alone(ks[i].owner, s),
           Grows, \A i \in 1 .. Len(ks) : OwnsNext(ks[i].owner, ks[i].counter)
    PROVE  /\ calls' \in Nat
           /\ queue' \in [Streams -> Seq(AllKernels)]
           /\ graph' \in [Graphs -> Seq(AllKernels)]
           /\ \A r \in Streams : Linked(queue'[r])
           /\ \A g \in Graphs : Linked(graph'[g]) /\ Fresh(graph'[g])
           /\ \A r \in Streams : Owned(queue[r])'
           /\ \A g \in Graphs : Owned(graph[g])'
           /\ Apart'
           /\ \A r \in Streams : r # s => queue'[r] = queue[r]
           /\ Captures(s) => queue'[s] = queue[s]
           /\ ~Captures(s) => queue'[s] = queue[s] \o ks
  <1>1. /\ queue \in [Streams -> Seq(AllKernels)] /\ graph \in [Graphs -> Seq(AllKernels)]
        /\ calls \in Nat /\ capturing \in [Streams -> Graphs \cup {NoGraph}]
    BY DEF HostInv, HostTypes
  <1>2. \A r \in Streams : Linked(queue[r]) /\ Owned(queue[r])
    BY DEF HostInv
  <1>3. \A g \in Graphs : Linked(graph[g]) /\ Fresh(graph[g]) /\ Owned(graph[g])
    BY DEF HostInv
  <1>4. calls' \in Nat
    BY <1>1 DEF Launch
  <1>o. ASSUME NEW q \in Seq(AllKernels), Owned(q) PROVE OwnedNext(q)
    <2> SUFFICES ASSUME NEW i \in 1 .. Len(q) PROVE OwnsNext(q[i].owner, q[i].counter)
      BY DEF OwnedNext
    <2>1. q[i] \in AllKernels
      BY LenProperties
    <2> QED
      BY <1>o, <2>1 DEF Owned, Grows, AllKernels
  <1>p. /\ \A r \in Streams : OwnedNext(queue'[r]) => Owned(queue[r])'
        /\ \A g \in Graphs : OwnedNext(graph'[g]) => Owned(graph[g])'
    BY DEF Owned, Owns, OwnsNext, OwnedNext
  <1>5. CASE Captures(s)
    <2> DEFINE g == capturing[s]
    <2>1. g \in Graphs /\ queue' = queue /\ graph' = [graph EXCEPT ![g] = graph[g] \o ks]
      BY <1>1, <1>5 DEF Captures, Launch
    <2> HIDE DEF g
    <2> DEFINE a == graph[g] \o ks
    <2>2. graph[g] \in Seq(AllKernels) /\ Linked(graph[g]) /\ Fresh(graph[g]) /\ Owned(graph[g])
      BY <1>1, <1>3, <2>1
    <2>3. /\ a \in Seq(AllKernels) /\ Len(a) = Len(graph[g]) + Len(ks)
          /\ Linked(a) /\ Fresh(a)
          /\ \A i \in 1 .. Len(graph[g]) : a[i] = graph[g][i]
          /\ \A i \in 1 .. Len(graph[g]) + Len(ks) :
                 i > Len(graph[g]) => a[i] = ks[i - Len(graph[g])]
      BY <2>2, LinkedAppends
    <2>4. OwnedNext(a)
      <3> SUFFICES ASSUME NEW i \in 1 .. Len(a) PROVE OwnsNext(a[i].owner, a[i].counter)
        BY DEF OwnedNext
      <3>0. Len(graph[g]) \in Nat /\ Len(ks) \in Nat
        BY <2>2, LenProperties
      <3>1. CASE i <= Len(graph[g])
        BY <1>o, <2>2, <2>3, <3>0, <3>1 DEF OwnedNext
      <3>2. CASE i > Len(graph[g])
        <4>1. i - Len(graph[g]) \in 1 .. Len(ks) /\ a[i] = ks[i - Len(graph[g])]
          BY <2>3, <3>0, <3>2
        <4> QED
          BY <4>1
      <3> QED
        BY <2>3, <3>0, <3>1, <3>2
    <2> HIDE DEF a
    <2>5. graph'[g] = a /\ \A h \in Graphs : h # g => graph'[h] = graph[h]
      BY <1>1, <2>1 DEF a
    <2>6. graph' \in [Graphs -> Seq(AllKernels)]
      BY <1>1, <2>1, <2>3 DEF a
    <2>7. ASSUME NEW h \in Graphs
          PROVE  Linked(graph'[h]) /\ Fresh(graph'[h]) /\ Owned(graph[h])'
      <3>1. CASE h = g
        BY <1>p, <2>3, <2>4, <2>5, <3>1
      <3>2. CASE h # g
        BY <1>1, <1>3, <1>o, <1>p, <2>5, <3>2
      <3> QED
        BY <3>1, <3>2
    <2>8. ASSUME NEW r \in Streams PROVE Linked(queue'[r]) /\ Owned(queue[r])'
      BY <1>1, <1>2, <1>o, <1>p, <2>1
    <2>9. Apart'
      BY <2>1 DEF HostInv, Apart
    <2> QED
      BY <1>1, <1>4, <1>5, <2>1, <2>6, <2>7, <2>8, <2>9
  <1>6. CASE ~Captures(s)
    <2> DEFINE a == queue[s] \o ks
    <2>1. graph' = graph /\ queue' = [queue EXCEPT ![s] = a]
      BY <1>1, <1>6 DEF Captures, Launch
    <2>2. queue[s] \in Seq(AllKernels) /\ Linked(queue[s]) /\ Owned(queue[s])
      BY <1>1, <1>2
    <2>3. /\ a \in Seq(AllKernels) /\ Len(a) = Len(queue[s]) + Len(ks)
          /\ Linked(a)
          /\ \A i \in 1 .. Len(queue[s]) : a[i] = queue[s][i]
          /\ \A i \in 1 .. Len(queue[s]) + Len(ks) :
                 i > Len(queue[s]) => a[i] = ks[i - Len(queue[s])]
      BY <2>2, LinkedAppends
    <2>4. /\ Len(queue[s]) \in Nat /\ Len(ks) \in Nat
          /\ \A i \in 1 .. Len(a) : i > Len(queue[s]) =>
                 i - Len(queue[s]) \in 1 .. Len(ks) /\ a[i] = ks[i - Len(queue[s])]
      BY <2>2, <2>3, LenProperties
    <2>5. OwnedNext(a)
      <3> SUFFICES ASSUME NEW i \in 1 .. Len(a) PROVE OwnsNext(a[i].owner, a[i].counter)
        BY DEF OwnedNext
      <3>1. CASE i <= Len(queue[s])
        BY <1>o, <2>2, <2>3, <2>4, <3>1 DEF OwnedNext
      <3>2. CASE i > Len(queue[s])
        BY <2>4, <3>2
      <3> QED
        BY <2>3, <2>4, <3>1, <3>2
    <2> HIDE DEF a
    <2>6. queue'[s] = a /\ \A r \in Streams : r # s => queue'[r] = queue[r]
      BY <1>1, <2>1
    <2>7. queue' \in [Streams -> Seq(AllKernels)]
      BY <1>1, <2>1, <2>3
    <2>8. ASSUME NEW r \in Streams PROVE Linked(queue'[r]) /\ Owned(queue[r])'
      <3>1. CASE r = s
        BY <1>p, <2>3, <2>5, <2>6, <3>1
      <3>2. CASE r # s
        BY <1>1, <1>2, <1>o, <1>p, <2>6, <3>2
      <3> QED
        BY <3>1, <3>2
    <2>9. ASSUME NEW g \in Graphs
          PROVE  Linked(graph'[g]) /\ Fresh(graph'[g]) /\ Owned(graph[g])'
      BY <1>1, <1>3, <1>o, <1>p, <2>1
    <2>10. ASSUME NEW r \in Streams, r # s, NEW i \in 1 .. Len(queue[r]), NEW j \in 1 .. Len(a)
           PROVE  queue[r][i].owner # a[j].owner
      <3>0. i \in DOMAIN queue[r]
        BY <1>1, LenProperties
      <3>1. CASE j <= Len(queue[s])
        <4>1. j \in 1 .. Len(queue[s]) /\ a[j] = queue[s][j]
          BY <2>3, <2>4, <3>1
        <4> QED
          BY <2>10, <4>1 DEF HostInv, Apart
      <3>2. CASE j > Len(queue[s])
        <4>1. j - Len(queue[s]) \in 1 .. Len(ks) /\ a[j] = ks[j - Len(queue[s])]
          BY <2>4, <3>2
        <4>2. Alone(ks[j - Len(queue[s])].owner, s)
          BY <1>6, <4>1
        <4>3. r \in Streams \ {s}
          BY <2>10
        <4> QED
          BY <3>0, <4>1, <4>2, <4>3 DEF Alone
      <3> QED
        BY <2>3, <2>4, <3>1, <3>2
    <2>11. Apart'
      <3> SUFFICES ASSUME NEW r \in Streams, NEW t \in Streams, r # t,
                          NEW i \in 1 .. Len(queue'[r]), NEW j \in 1 .. Len(queue'[t])
                   PROVE  queue'[r][i].owner # queue'[t][j].owner
        BY DEF Apart
      <3>1. CASE r = s
        BY <2>6, <2>10, <3>1
      <3>2. CASE t = s
        BY <2>6, <2>10, <3>2
      <3>3. CASE r # s /\ t # s
        BY <2>6, <3>3 DEF HostInv, Apart
      <3> QED
        BY <3>1, <3>2, <3>3
    <2>12. queue'[s] = queue[s] \o ks
      BY <2>6 DEF a
    <2> QED
      BY <1>1, <1>4, <1>6, <2>1, <2>6, <2>7, <2>8, <2>9, <2>11, <2>12
  <1> QED
    BY <1>5, <1>6

\* What PersistentCall launches.
WorkOf(tunes, fails, c, o) ==
    Trials(tunes, c, o) \o
        (IF fails THEN <<Kernel("orphan", c, o)>>
                  ELSE <<Kernel("work", c, o), Kernel("combine", c, o)>>)

OnlyOn(q, c, o) == \A i \in 1 .. Len(q) : q[i].counter = c /\ q[i].owner = o

\* Kernels on one counter that can be launched.
Launchable(q, c, o) ==
    q \in Seq(AllKernels) /\ Linked(q) /\ Fresh(q) /\ OnlyOn(q, c, o)

LEMMA LaunchableAppends ==
    ASSUME NEW c, NEW o, NEW p, NEW q, Launchable(p, c, o), Launchable(q, c, o)
    PROVE  Launchable(p \o q, c, o)
  <1> DEFINE a == p \o q
  <1>1. /\ a \in Seq(AllKernels) /\ Linked(a) /\ Fresh(a)
        /\ Len(a) = Len(p) + Len(q)
        /\ \A i \in 1 .. Len(p) : a[i] = p[i]
        /\ \A i \in 1 .. Len(p) + Len(q) : i > Len(p) => a[i] = q[i - Len(p)]
    BY LinkedAppends DEF Launchable
  <1> HIDE DEF a
  <1>2. Len(p) \in Nat /\ Len(q) \in Nat
    BY LenProperties DEF Launchable
  <1>3. ASSUME NEW i \in 1 .. Len(a) PROVE a[i].counter = c /\ a[i].owner = o
    <2>1. CASE i <= Len(p)
      BY <1>1, <1>2, <2>1 DEF Launchable, OnlyOn
    <2>2. CASE i > Len(p)
      <3>1. i - Len(p) \in 1 .. Len(q) /\ a[i] = q[i - Len(p)]
        BY <1>1, <1>2, <2>2
      <3> QED
        BY <3>1 DEF Launchable, OnlyOn
    <2> QED
      BY <1>1, <1>2, <2>1, <2>2
  <1> QED
    BY <1>1, <1>3 DEF Launchable, OnlyOn, a

LEMMA ShortLaunches ==
    ASSUME NEW c \in Nat \ {0}, NEW o \in Owners
    PROVE  /\ Launchable(<<>>, c, o)
           /\ Launchable(<<Kernel("reset", c, o)>>, c, o)
           /\ Launchable(<<Kernel("orphan", c, o)>>, c, o)
           /\ Launchable(<<Kernel("decode", c, o)>>, c, o)
           /\ Launchable(<<Kernel("work", c, o), Kernel("combine", c, o)>>, c, o)
           /\ Launchable(<<Kernel("reset", c, o), Kernel("work", c, o), Kernel("reset", c, o)>>,
                         c, o)
  <1>1. ASSUME NEW k \in {"reset", "orphan", "decode"}
        PROVE  Launchable(<<Kernel(k, c, o)>>, c, o)
    BY DEF Launchable, Linked, Fresh, OnlyOn, Kernel, AllKernels, Kinds
  <1>2. Launchable(<<>>, c, o)
    BY DEF Launchable, Linked, Fresh, OnlyOn
  <1>3. Launchable(<<Kernel("work", c, o), Kernel("combine", c, o)>>, c, o)
    BY DEF Launchable, Linked, Fresh, OnlyOn, Kernel, AllKernels, Kinds
  <1>4. Launchable(<<Kernel("reset", c, o), Kernel("work", c, o), Kernel("reset", c, o)>>, c, o)
    BY DEF Launchable, Linked, Fresh, OnlyOn, Kernel, AllKernels, Kinds
  <1> QED
    BY <1>1, <1>2, <1>3, <1>4

LEMMA WorkIsLaunchable ==
    ASSUME NEW c \in Nat \ {0}, NEW o \in Owners,
           NEW tunes \in BOOLEAN, NEW fails \in BOOLEAN
    PROVE  Launchable(WorkOf(tunes, fails, c, o), c, o)
  <1>1. Launchable(Trials(tunes, c, o), c, o)
    BY ShortLaunches DEF Trials
  <1>2. Launchable(IF fails THEN <<Kernel("orphan", c, o)>>
                  ELSE <<Kernel("work", c, o), Kernel("combine", c, o)>>, c, o)
    BY ShortLaunches
  <1> QED
    BY <1>1, <1>2, LaunchableAppends DEF WorkOf

\* Kernel i is the first in q on counter c.
FirstOn(q, c, i) == q[i].counter = c /\ \A j \in 1 .. i - 1 : q[j].counter # c

\* What a step of the host does, as the device sees it: kernels are appended, and
\* a new counter is zero, in doubt, or reset before anything else happens to it.
HostMoves ==
    /\ UNCHANGED <<running, tile, worked, split, stored, combined, sound>>
    /\ counter' \in [Counters -> Nat]
    /\ allocated <= allocated'
    /\ \A c \in 1 .. allocated : counter'[c] = counter[c]
    /\ doubtful \subseteq doubtful'
    /\ \A s \in Streams :
           /\ Len(queue[s]) <= Len(queue'[s])
           /\ \A i \in 1 .. Len(queue[s]) : queue'[s][i] = queue[s][i]
           /\ queue[s] = <<>> => Fresh(queue'[s])
    /\ \A c \in allocated + 1 .. allocated' :
           \/ c \in doubtful' \/ counter'[c] = 0
           \/ \E s \in Streams : \E i \in 1 .. Len(queue'[s]) :
                  queue'[s][i].kind = "reset" /\ FirstOn(queue'[s], c, i)

\* The part of HostMoves that is about queues.
LEMMA LaunchMoves ==
    ASSUME HostInv, NEW s \in Streams, NEW c, NEW o, NEW ks, Launchable(ks, c, o),
           Launch(s, ks), capturing' = capturing,
           Captures(s) \/ Alone(o, s), Grows, OwnsNext(o, c)
    PROVE  /\ calls' \in Nat
           /\ queue' \in [Streams -> Seq(AllKernels)]
           /\ graph' \in [Graphs -> Seq(AllKernels)]
           /\ Apart'
           /\ \A r \in Streams : Linked(queue'[r]) /\ Owned(queue[r])'
           /\ \A g \in Graphs : Linked(graph'[g]) /\ Fresh(graph'[g]) /\ Owned(graph[g])'
           /\ \A r \in Streams :
                  /\ Len(queue[r]) <= Len(queue'[r])
                  /\ \A i \in 1 .. Len(queue[r]) : queue'[r][i] = queue[r][i]
                  /\ queue[r] = <<>> => Fresh(queue'[r])
           /\ ~Captures(s) => queue'[s] = queue[s] \o ks
  <1>1. /\ ks \in Seq(AllKernels) /\ Linked(ks) /\ Fresh(ks)
        /\ \A i \in 1 .. Len(ks) : ks[i].counter = c /\ ks[i].owner = o
    BY DEF Launchable, OnlyOn
  <1>2. /\ calls' \in Nat
        /\ queue' \in [Streams -> Seq(AllKernels)]
        /\ graph' \in [Graphs -> Seq(AllKernels)]
        /\ \A r \in Streams : Linked(queue'[r])
        /\ \A g \in Graphs : Linked(graph'[g]) /\ Fresh(graph'[g])
        /\ \A r \in Streams : Owned(queue[r])'
        /\ \A g \in Graphs : Owned(graph[g])'
        /\ Apart'
        /\ \A r \in Streams : r # s => queue'[r] = queue[r]
        /\ Captures(s) => queue'[s] = queue[s]
        /\ ~Captures(s) => queue'[s] = queue[s] \o ks
    BY <1>1, LaunchKeepsQueues
  <1>3. \A r \in Streams : queue[r] \in Seq(AllKernels) /\ Linked(queue[r])
    BY DEF HostInv, HostTypes
  <1>4. ASSUME NEW r \in Streams
        PROVE  /\ Len(queue[r]) <= Len(queue'[r])
               /\ \A i \in 1 .. Len(queue[r]) : queue'[r][i] = queue[r][i]
               /\ queue[r] = <<>> => Fresh(queue'[r])
    <2>1. CASE queue'[r] = queue[r]
      <3>1. Len(queue[r]) \in Nat
        BY <1>3, LenProperties
      <3> QED
        BY <2>1, <3>1 DEF Fresh
    <2>2. CASE queue'[r] # queue[r]
      <3>1. queue'[r] = queue[r] \o ks
        BY <1>2, <2>2
      <3>2. Len(queue[r]) \in Nat /\ Len(ks) \in Nat
        BY <1>1, <1>3, LenProperties
      <3>3. queue[r] = <<>> => Fresh(queue[r])
        BY DEF Fresh
      <3>4. /\ Len(queue[r] \o ks) = Len(queue[r]) + Len(ks)
            /\ \A i \in 1 .. Len(queue[r]) : (queue[r] \o ks)[i] = queue[r][i]
            /\ Fresh(queue[r]) => Fresh(queue[r] \o ks)
        BY <1>1, <1>3, LinkedAppends
      <3> QED
        BY <3>1, <3>2, <3>3, <3>4
    <2> QED
      BY <2>1, <2>2
  <1> QED
    BY <1>2, <1>4

\* A counter that had no owner may be given to one.
LEMMA OneMoreOwned ==
    ASSUME OwnedOnce, NEW o \in Owners, NEW c, \A p \in Owners : ~Owns(p, c),
           \A p \in Owners : \A d \in Nat : OwnsNext(p, d) => Owns(p, d) \/ (p = o /\ d = c)
    PROVE  OwnedOnce'
  <1>1. \A p, q \in Owners : \A d \in Nat : OwnsNext(p, d) /\ OwnsNext(q, d) => p = q
    BY DEF OwnedOnce
  <1> QED
    BY <1>1 DEF OwnedOnce, Owns, OwnsNext

\* When the caches stay as they are, so do the owners.
LEMMA SameCaches ==
    ASSUME HostInv, UNCHANGED <<allocated, tileCounter, decodeCounter>>
    PROVE  /\ Grows /\ OwnedOnce'
           /\ \A o \in Owners : \A c \in Nat : OwnsNext(o, c) <=> Owns(o, c)
  BY DEF HostInv, OwnedOnce, Owns, OwnsNext, Grows

LEMMA PersistentStep ==
    ASSUME SplitAssumption, HostInv, NEW s \in Streams, NEW o \in Owners,
           NEW tunes \in BOOLEAN, NEW fails \in BOOLEAN, PersistentCall(s, o, tunes, fails)
    PROVE  HostInv' /\ HostMoves
  <1>1. /\ HostTypes /\ OwnedOnce /\ PoolFree
        /\ allocated \in Nat /\ tileCounter[o] \in Nat /\ tileCounter[o] <= allocated
        /\ counter \in [Counters -> Nat] /\ allocated <= MaxCounters
        /\ pool.last <= allocated /\ pool \in [next : Nat \ {0}, last : Nat]
    BY DEF HostInv, HostTypes
  <1>2. /\ capturing' = capturing
        /\ UNCHANGED <<running, tile, worked, split, stored, combined, sound>>
        /\ decodeCounter' = decodeCounter /\ pool' = pool
        /\ Captures(s) \/ Alone(o, s)
    BY DEF PersistentCall, progress, tickets, caches
  <1>3. CASE tileCounter[o] # 0
    <2> DEFINE c == tileCounter[o]
    <2> DEFINE ks == WorkOf(tunes, fails, c, o)
    <2>1. Launch(s, ks) /\ UNCHANGED <<counter, allocated, tileCounter, doubtful>>
      BY <1>3 DEF PersistentCall, WorkOf, caches
    <2>2. c \in Nat \ {0} /\ Launchable(ks, c, o)
      BY <1>1, <1>3, WorkIsLaunchable
    <2>3. /\ Grows /\ OwnedOnce'
          /\ \A p \in Owners : \A d \in Nat : OwnsNext(p, d) <=> Owns(p, d)
      BY <1>2, <2>1, SameCaches
    <2>4. Owns(o, c)
      BY <1>1, <2>2 DEF Owns
    <2>5. OwnsNext(o, c)
      BY <2>2, <2>3, <2>4
    <2> HIDE DEF c, ks
    <2>6. /\ calls' \in Nat
          /\ queue' \in [Streams -> Seq(AllKernels)]
          /\ graph' \in [Graphs -> Seq(AllKernels)]
          /\ Apart'
          /\ \A r \in Streams : Linked(queue'[r]) /\ Owned(queue[r])'
          /\ \A g \in Graphs : Linked(graph'[g]) /\ Fresh(graph'[g]) /\ Owned(graph[g])'
          /\ \A r \in Streams :
                 /\ Len(queue[r]) <= Len(queue'[r])
                 /\ \A i \in 1 .. Len(queue[r]) : queue'[r][i] = queue[r][i]
                 /\ queue[r] = <<>> => Fresh(queue'[r])
      BY <1>2, <2>1, <2>2, <2>3, <2>5, LaunchMoves
    <2>7. HostTypes'
      BY <1>1, <1>2, <2>1, <2>6 DEF HostTypes
    <2>8. PoolFree'
      BY <1>2, <2>1, <1>1 DEF PoolFree, Owns
    <2>9. HostInv'
      BY <2>3, <2>6, <2>7, <2>8 DEF HostInv
    <2>10. HostMoves
      BY <1>1, <1>2, <2>1, <2>6 DEF HostMoves
    <2> QED
      BY <2>9, <2>10
  <1>4. CASE tileCounter[o] = 0
    <2> DEFINE c == allocated + 1
    <2> DEFINE ks == <<Kernel("reset", c, o)>> \o WorkOf(tunes, fails, c, o)
    <2>1. /\ allocated < MaxCounters /\ (\E junk \in Junk : Allocate(c, s, junk))
          /\ tileCounter' = [tileCounter EXCEPT ![o] = c]
          /\ Launch(s, ks)
      BY <1>4 DEF PersistentCall, WorkOf
    <2>0. c \in Nat \ {0} /\ c = allocated + 1
      BY <1>1
    <2>2. /\ c \in Nat \ {0} /\ c = allocated + 1
          /\ Launchable(WorkOf(tunes, fails, c, o), c, o)
          /\ Launchable(<<Kernel("reset", c, o)>>, c, o)
      <3> HIDE DEF c
      <3> QED
        BY <2>0, WorkIsLaunchable, ShortLaunches
    <2>3. Launchable(ks, c, o)
      BY <2>2, LaunchableAppends
    <2>4. ks[1].kind = "reset" /\ ks[1].counter = c /\ 1 \in 1 .. Len(ks)
      <3> DEFINE w == WorkOf(tunes, fails, c, o)
                 h == <<Kernel("reset", c, o)>>
      <3>1. /\ h \in Seq(AllKernels) /\ w \in Seq(AllKernels)
            /\ Linked(h) /\ Linked(w) /\ Fresh(w)
        BY <2>2 DEF Launchable
      <3>2. Len(h) = 1 /\ h[1].kind = "reset" /\ h[1].counter = c
        BY DEF Kernel
      <3> HIDE DEF h, w
      <3>3. Len(w) \in Nat
        BY <3>1, LenProperties
      <3>4. Len(h \o w) = 1 + Len(w) /\ (h \o w)[1] = h[1]
        <4>1. /\ Len(h \o w) = Len(h) + Len(w)
              /\ \A i \in 1 .. Len(h) : (h \o w)[i] = h[i]
          BY <3>1, LinkedAppends
        <4>2. 1 \in 1 .. Len(h)
          BY <3>2
        <4> QED
          BY <3>2, <4>1, <4>2
      <3>5. ks = h \o w
        BY DEF h, w
      <3> HIDE DEF ks
      <3> QED
        BY <3>2, <3>3, <3>4, <3>5
    <2> HIDE DEF ks
    <2>5. /\ allocated' = c
          /\ counter' \in [Counters -> Nat]
          /\ \A d \in 1 .. allocated : counter'[d] = counter[d]
          /\ doubtful \subseteq doubtful'
          /\ Captures(s) => c \in doubtful'
      BY <1>1, <2>1 DEF Allocate, Counters, SplitAssumption
    <2>6. /\ tileCounter' \in [Owners -> Nat]
          /\ \A p \in Owners : tileCounter'[p] <= allocated'
          /\ tileCounter'[o] = c
          /\ \A p \in Owners : p # o => tileCounter'[p] = tileCounter[p]
      BY <1>1, <2>1, <2>2, <2>5 DEF HostTypes
    <2> HIDE DEF c
    <2>7. Grows
      BY <1>1, <1>2, <1>4, <2>2, <2>5, <2>6 DEF Grows, Owns, OwnsNext
    <2>8. OwnsNext(o, c)
      BY <2>2, <2>5, <2>6 DEF OwnsNext
    <2>9. \A p \in Owners : ~Owns(p, c)
      BY <1>1, <2>2 DEF Owns
    <2>10. ASSUME NEW p \in Owners, NEW d \in Nat, OwnsNext(p, d), ~(p = o /\ d = c)
           PROVE  Owns(p, d)
      <3>1. tileCounter'[p] = d \/ \E r \in Streams : decodeCounter[<<p, r>>] = d
        BY <1>2, <2>10 DEF OwnsNext
      <3>2. tileCounter'[p] = d => tileCounter[p] = d
        BY <2>6, <2>10
      <3>3. tileCounter[p] = d \/ \E r \in Streams : decodeCounter[<<p, r>>] = d
        BY <3>1, <3>2
      <3>4. d <= allocated
        <4>1. tileCounter[p] <= allocated /\ \A r \in Streams : decodeCounter[<<p, r>>] <= allocated
          BY <1>1 DEF HostTypes
        <4> QED
          BY <3>3, <4>1
      <3>5. d \in 1 .. allocated
        BY <1>1, <2>10, <3>4 DEF OwnsNext
      <3> QED
        BY <3>3, <3>5 DEF Owns
    <2>11. OwnedOnce'
      BY <1>1, <2>9, <2>10, OneMoreOwned
    <2>12. PoolFree'
      <3> SUFFICES ASSUME NEW p \in Owners, NEW d \in pool.next .. pool.last PROVE ~OwnsNext(p, d)
        BY <1>2 DEF PoolFree, Owns, OwnsNext
      <3>1. d \in Nat /\ d # c /\ ~Owns(p, d)
        BY <1>1, <2>2 DEF PoolFree
      <3> QED
        BY <2>10, <3>1
    <2>13. /\ calls' \in Nat
           /\ queue' \in [Streams -> Seq(AllKernels)]
           /\ graph' \in [Graphs -> Seq(AllKernels)]
           /\ Apart'
           /\ \A r \in Streams : Linked(queue'[r]) /\ Owned(queue[r])'
           /\ \A g \in Graphs : Linked(graph'[g]) /\ Fresh(graph'[g]) /\ Owned(graph[g])'
           /\ \A r \in Streams :
                  /\ Len(queue[r]) <= Len(queue'[r])
                  /\ \A i \in 1 .. Len(queue[r]) : queue'[r][i] = queue[r][i]
                  /\ queue[r] = <<>> => Fresh(queue'[r])
           /\ ~Captures(s) => queue'[s] = queue[s] \o ks
      BY <1>2, <2>1, <2>3, <2>7, <2>8, LaunchMoves
    <2>14. HostTypes'
      BY <1>1, <1>2, <2>1, <2>2, <2>5, <2>6, <2>13 DEF HostTypes
    <2>15. HostInv'
      BY <2>11, <2>12, <2>13, <2>14 DEF HostInv
    <2>16. ASSUME ~Captures(s)
           PROVE  \E i \in 1 .. Len(queue'[s]) :
                      queue'[s][i].kind = "reset" /\ FirstOn(queue'[s], c, i)
      <3>1. /\ queue[s] \in Seq(AllKernels) /\ Linked(queue[s]) /\ Owned(queue[s])
            /\ ks \in Seq(AllKernels) /\ Linked(ks) /\ Fresh(ks)
        BY <2>3 DEF HostInv, HostTypes, Launchable
      <3>2. Len(queue[s]) \in Nat /\ Len(ks) \in Nat
        BY <3>1, LenProperties
      <3>3. /\ Len(queue[s] \o ks) = Len(queue[s]) + Len(ks)
            /\ \A i \in 1 .. Len(queue[s]) : (queue[s] \o ks)[i] = queue[s][i]
            /\ \A i \in 1 .. Len(ks) : (queue[s] \o ks)[Len(queue[s]) + i] = ks[i]
        BY <3>1, LinkedAppends
      <3>4. /\ Len(queue'[s]) = Len(queue[s]) + Len(ks)
            /\ queue'[s][Len(queue[s]) + 1] = ks[1]
            /\ \A i \in 1 .. Len(queue[s]) : queue'[s][i] = queue[s][i]
        BY <2>4, <2>13, <2>16, <3>3
      <3>5. \A i \in 1 .. Len(queue[s]) : queue[s][i].counter # c
        BY <1>1, <2>2, <3>1 DEF Owned, Owns
      <3>6. FirstOn(queue'[s], c, Len(queue[s]) + 1)
        <4>1. \A j \in 1 .. Len(queue[s]) + 1 - 1 : j \in 1 .. Len(queue[s])
          BY <3>2
        <4> QED
          BY <2>4, <3>4, <3>5, <4>1 DEF FirstOn
      <3>7. Len(queue[s]) + 1 \in 1 .. Len(queue'[s])
        BY <2>4, <3>2, <3>4
      <3> QED
        BY <2>4, <3>4, <3>6, <3>7
    <2>17. ASSUME NEW d \in allocated + 1 .. allocated' PROVE d = c
      BY <1>1, <2>2, <2>5
    <2>18. HostMoves
      BY <1>1, <1>2, <2>2, <2>5, <2>13, <2>16, <2>17 DEF HostMoves
    <2> QED
      BY <2>15, <2>18
  <1> QED
    BY <1>3, <1>4

\* The pool after a renewal, if there is one.
LEMMA RenewedPool ==
    ASSUME SplitAssumption, HostTypes, PoolFree, NEW s \in Streams, ZeroPool(s)
    PROVE  /\ allocated' \in Nat /\ allocated' <= MaxCounters /\ allocated <= allocated'
           /\ counter' \in [Counters -> Nat]
           /\ \A d \in 1 .. allocated : counter'[d] = counter[d]
           /\ \A d \in allocated + 1 .. allocated' : counter'[d] = 0
           /\ PoolAfter(s) \in [next : Nat \ {0}, last : Nat]
           /\ PoolAfter(s).last <= allocated'
           /\ \A p \in Owners : \A d \in PoolAfter(s).next .. PoolAfter(s).last : ~Owns(p, d)
  <1>1. /\ allocated \in Nat /\ allocated <= MaxCounters /\ counter \in [Counters -> Nat]
        /\ pool \in [next : Nat \ {0}, last : Nat] /\ pool.last <= allocated
        /\ PoolSize \in Nat /\ MaxCounters \in Nat
    BY DEF HostTypes, SplitAssumption
  <1>2. /\ allocated' = SlotsAfter(s) /\ SlotsAfter(s) <= MaxCounters
        /\ counter' = [d \in Counters |-> IF d \in allocated + 1 .. SlotsAfter(s)
                                          THEN 0 ELSE counter[d]]
    BY DEF ZeroPool
  <1>3. SlotsAfter(s) \in Nat /\ allocated <= SlotsAfter(s)
    BY <1>1 DEF SlotsAfter
  <1>4. /\ counter' \in [Counters -> Nat]
        /\ \A d \in 1 .. allocated : counter'[d] = counter[d]
        /\ \A d \in allocated + 1 .. allocated' : counter'[d] = 0
    BY <1>1, <1>2, <1>3 DEF Counters
  <1>5. CASE Renews(s)
    <2>1. /\ PoolAfter(s) = [next |-> allocated + 1, last |-> allocated + PoolSize]
          /\ allocated' = allocated + PoolSize
      BY <1>2, <1>5 DEF PoolAfter, SlotsAfter
    <2> QED
      BY <1>1, <1>2, <1>3, <1>4, <2>1 DEF Owns
  <1>6. CASE ~Renews(s)
    <2>1. PoolAfter(s) = pool
      BY <1>6 DEF PoolAfter
    <2> QED
      BY <1>1, <1>2, <1>3, <1>4, <2>1 DEF PoolFree
  <1> QED
    BY <1>5, <1>6

\* A capture alone may find the pool exhausted.
LEMMA OnlyCapturesExhaust ==
    ASSUME SplitAssumption, HostTypes, NEW s \in Streams,
           PoolAfter(s).next > PoolAfter(s).last
    PROVE  Captures(s) /\ ~Renews(s)
  <1>1. /\ PoolSize \in Nat /\ PoolSize >= 2 /\ allocated \in Nat
        /\ pool.next \in Nat /\ pool.last \in Nat
    BY DEF SplitAssumption, HostTypes
  <1>2. ~Renews(s)
    BY <1>1 DEF PoolAfter
  <1>3. pool.next > pool.last
    BY <1>2 DEF PoolAfter
  <1>4. PoolSize \div 2 >= 1
    BY <1>1
  <1>5. PoolLow
    BY <1>1, <1>3, <1>4 DEF PoolLow
  <1> QED
    BY <1>2, <1>5 DEF Renews

LEMMA DecodeStep ==
    ASSUME SplitAssumption, HostInv, NEW s \in Streams, NEW o \in Owners, DecodeCall(s, o)
    PROVE  HostInv' /\ HostMoves
  <1> DEFINE slots == PoolAfter(s)
             used == decodeCounter[<<o, s>>]
             decode(c) == <<Kernel("decode", c, o)>>
  <1>1. /\ HostTypes /\ OwnedOnce /\ PoolFree
        /\ allocated \in Nat /\ used \in Nat /\ used <= allocated
        /\ decodeCounter \in [Owners \X Streams -> Nat]
        /\ counter \in [Counters -> Nat] /\ allocated <= MaxCounters
        /\ pool.last <= allocated /\ pool \in [next : Nat \ {0}, last : Nat]
        /\ <<o, s>> \in Owners \X Streams
    BY DEF HostInv, HostTypes
  <1>2. /\ capturing' = capturing /\ tileCounter' = tileCounter
        /\ UNCHANGED <<running, tile, worked, split, stored, combined, sound>>
        /\ Captures(s) \/ Alone(o, s)
    BY DEF DecodeCall, progress, tickets
  <1>3. ASSUME NEW p \in Owners
        PROVE  tileCounter[p] <= allocated /\ tileCounter[p] \in Nat
               /\ \A r \in Streams : decodeCounter[<<p, r>>] <= allocated
                                     /\ decodeCounter[<<p, r>>] \in Nat
    BY <1>1 DEF HostTypes
  \* What is left to show in each of the three cases.
  <1>4. ASSUME NEW c \in Nat \ {0}, NEW ks, Launchable(ks, c, o), Launch(s, ks), OwnsNext(o, c),
               Grows, OwnedOnce', PoolFree', doubtful \subseteq doubtful',
               allocated' \in Nat, allocated <= allocated', allocated' <= MaxCounters,
               counter' \in [Counters -> Nat],
               \A d \in 1 .. allocated : counter'[d] = counter[d],
               \A d \in allocated + 1 .. allocated' : counter'[d] = 0 \/ d \in doubtful',
               pool' \in [next : Nat \ {0}, last : Nat], pool'.last <= allocated',
               decodeCounter' \in [Owners \X Streams -> Nat],
               \A p \in Owners, r \in Streams : decodeCounter'[<<p, r>>] <= allocated'
        PROVE  HostInv' /\ HostMoves
    <2>1. /\ calls' \in Nat
          /\ queue' \in [Streams -> Seq(AllKernels)]
          /\ graph' \in [Graphs -> Seq(AllKernels)]
          /\ Apart'
          /\ \A r \in Streams : Linked(queue'[r]) /\ Owned(queue[r])'
          /\ \A g \in Graphs : Linked(graph'[g]) /\ Fresh(graph'[g]) /\ Owned(graph[g])'
          /\ \A r \in Streams :
                 /\ Len(queue[r]) <= Len(queue'[r])
                 /\ \A i \in 1 .. Len(queue[r]) : queue'[r][i] = queue[r][i]
                 /\ queue[r] = <<>> => Fresh(queue'[r])
      BY <1>2, <1>4, LaunchMoves
    <2>2. \A p \in Owners : tileCounter'[p] <= allocated'
      BY <1>1, <1>2, <1>3, <1>4
    <2>3. HostTypes'
      BY <1>1, <1>2, <1>4, <2>1, <2>2 DEF HostTypes
    <2>4. HostInv'
      BY <1>4, <2>1, <2>3 DEF HostInv
    <2>5. HostMoves
      BY <1>2, <1>4, <2>1 DEF HostMoves
    <2> QED
      BY <2>4, <2>5
  <1>5. CASE used # 0 /\ ZeroPool(s) /\ pool' = slots /\ Launch(s, decode(used))
             /\ UNCHANGED <<decodeCounter, doubtful>>
    <2>1. /\ allocated' \in Nat /\ allocated' <= MaxCounters /\ allocated <= allocated'
          /\ counter' \in [Counters -> Nat]
          /\ \A d \in 1 .. allocated : counter'[d] = counter[d]
          /\ \A d \in allocated + 1 .. allocated' : counter'[d] = 0
          /\ slots \in [next : Nat \ {0}, last : Nat] /\ slots.last <= allocated'
          /\ \A p \in Owners : \A d \in slots.next .. slots.last : ~Owns(p, d)
      BY <1>1, <1>5, RenewedPool
    <2>2. used \in Nat \ {0} /\ Launchable(decode(used), used, o)
      BY <1>1, <1>5, ShortLaunches
    <2>3. ASSUME NEW p \in Owners, NEW d \in Nat PROVE OwnsNext(p, d) <=> Owns(p, d)
      <3> HIDE DEF slots, used, decode
      <3>1. tileCounter' = tileCounter /\ decodeCounter' = decodeCounter
        BY <1>2, <1>5
      <3>2. tileCounter[p] = d => d <= allocated
        BY <1>3
      <3>3. \A r \in Streams : decodeCounter[<<p, r>>] = d => d <= allocated
        BY <1>3
      <3>4. d <= allocated => (d \in 1 .. allocated <=> d \in 1 .. allocated')
        BY <1>1, <2>1
      <3>5. d \in 1 .. allocated => d <= allocated
        BY <1>1
      <3> QED
        BY <3>1, <3>2, <3>3, <3>4, <3>5 DEF Owns, OwnsNext
    <2>4. Grows
      BY <2>3 DEF Grows
    <2>5. OwnedOnce'
      <3>1. \A p, q \in Owners : \A d \in Nat : OwnsNext(p, d) /\ OwnsNext(q, d) => p = q
        BY <1>1, <2>3 DEF OwnedOnce
      <3> QED
        BY <3>1 DEF OwnedOnce, Owns, OwnsNext
    <2>6. PoolFree'
      <3> SUFFICES ASSUME NEW p \in Owners, NEW d \in slots.next .. slots.last PROVE ~OwnsNext(p, d)
        BY <1>5 DEF PoolFree, Owns, OwnsNext
      <3> QED
        BY <2>1, <2>3
    <2>7. OwnsNext(o, used)
      <3>1. used \in 1 .. allocated
        BY <1>1, <1>5
      <3>2. Owns(o, used)
        BY <3>1 DEF Owns
      <3> HIDE DEF used
      <3> QED
        BY <2>2, <2>3, <3>2
    <2>8. ASSUME NEW p \in Owners, NEW r \in Streams
          PROVE  decodeCounter'[<<p, r>>] <= allocated'
      <3>1. /\ decodeCounter'[<<p, r>>] = decodeCounter[<<p, r>>]
            /\ decodeCounter[<<p, r>>] <= allocated /\ decodeCounter[<<p, r>>] \in Nat
        BY <1>3, <1>5
      <3>2. allocated \in Nat /\ allocated' \in Nat /\ allocated <= allocated'
        BY <1>1, <2>1
      <3> QED
        BY <3>1, <3>2
    <2> HIDE DEF slots, used, decode
    <2> QED
      BY <1>1, <1>4, <1>5, <2>1, <2>2, <2>4, <2>5, <2>6, <2>7, <2>8
  \* A counter c that nobody owns is given to the owner.
  <1>6. ASSUME NEW c \in Nat \ {0}, c <= allocated', \A p \in Owners : ~Owns(p, c), used = 0,
               allocated' \in Nat, allocated <= allocated',
               decodeCounter' = [decodeCounter EXCEPT ![<<o, s>>] = c]
        PROVE  /\ Grows /\ OwnedOnce' /\ OwnsNext(o, c)
               /\ decodeCounter' \in [Owners \X Streams -> Nat]
               /\ \A p \in Owners, r \in Streams : decodeCounter'[<<p, r>>] <= allocated'
               /\ \A p \in Owners : \A d \in Nat :
                      OwnsNext(p, d) => Owns(p, d) \/ (p = o /\ d = c)
    <2>1. /\ decodeCounter' \in [Owners \X Streams -> Nat]
          /\ decodeCounter'[<<o, s>>] = c
          /\ \A p \in Owners, r \in Streams :
                 ~(p = o /\ r = s) => decodeCounter'[<<p, r>>] = decodeCounter[<<p, r>>]
      BY <1>1, <1>6
    <2>2. ASSUME NEW p \in Owners, NEW r \in Streams PROVE decodeCounter'[<<p, r>>] <= allocated'
      <3>1. decodeCounter[<<p, r>>] <= allocated /\ decodeCounter[<<p, r>>] \in Nat
        BY <1>3
      <3> QED
        BY <1>1, <1>6, <2>1, <3>1
    <2>3. OwnsNext(o, c)
      BY <1>6, <2>1 DEF OwnsNext
    <2>4. ASSUME NEW p \in Owners, NEW d \in Nat, Owns(p, d) PROVE OwnsNext(p, d)
      <3>1. d \in 1 .. allocated'
        BY <1>1, <1>6, <2>4 DEF Owns
      <3>2. CASE tileCounter[p] = d
        BY <1>2, <3>1, <3>2 DEF OwnsNext
      <3>3. ASSUME NEW r \in Streams, decodeCounter[<<p, r>>] = d PROVE OwnsNext(p, d)
        <4>1. d # 0
          BY <1>1, <2>4 DEF Owns
        <4>2. ~(p = o /\ r = s)
          BY <1>6, <3>3, <4>1
        <4> QED
          BY <2>1, <3>1, <3>3, <4>2 DEF OwnsNext
      <3> QED
        BY <2>4, <3>2, <3>3 DEF Owns
    <2>5. ASSUME NEW p \in Owners, NEW d \in Nat, OwnsNext(p, d), ~(p = o /\ d = c)
          PROVE  Owns(p, d)
      <3>1. CASE tileCounter[p] = d
        BY <1>1, <1>3, <2>5, <1>6, <3>1 DEF Owns, OwnsNext
      <3>2. ASSUME NEW r \in Streams, decodeCounter'[<<p, r>>] = d PROVE Owns(p, d)
        <4>1. decodeCounter[<<p, r>>] = d
          BY <2>1, <2>5, <3>2
        <4>2. d <= allocated /\ d \in 1 .. allocated'
          BY <1>3, <2>5, <4>1 DEF OwnsNext
        <4> QED
          BY <1>1, <1>6, <4>1, <4>2 DEF Owns
      <3> QED
        BY <1>2, <2>5, <3>1, <3>2 DEF OwnsNext
    <2>6. OwnedOnce'
      BY <1>1, <1>6, <2>5, OneMoreOwned
    <2>7. Grows
      BY <2>4 DEF Grows
    <2> QED
      BY <2>1, <2>2, <2>3, <2>5, <2>6, <2>7
  <1>7. CASE used = 0 /\ slots.next <= slots.last /\ ZeroPool(s)
             /\ pool' = [slots EXCEPT !.next = @ + 1]
             /\ decodeCounter' = [decodeCounter EXCEPT ![<<o, s>>] = slots.next]
             /\ Launch(s, decode(slots.next)) /\ UNCHANGED doubtful
    <2>1. /\ allocated' \in Nat /\ allocated' <= MaxCounters /\ allocated <= allocated'
          /\ counter' \in [Counters -> Nat]
          /\ \A d \in 1 .. allocated : counter'[d] = counter[d]
          /\ \A d \in allocated + 1 .. allocated' : counter'[d] = 0
          /\ slots \in [next : Nat \ {0}, last : Nat] /\ slots.last <= allocated'
          /\ \A p \in Owners : \A d \in slots.next .. slots.last : ~Owns(p, d)
      BY <1>1, <1>7, RenewedPool
    <2> DEFINE c == slots.next
    <2> HIDE DEF slots
    <2>2. /\ c \in Nat \ {0} /\ c <= allocated' /\ \A p \in Owners : ~Owns(p, c)
          /\ pool' \in [next : Nat \ {0}, last : Nat] /\ pool'.last <= allocated'
          /\ pool'.next = c + 1 /\ pool'.last = slots.last
      BY <1>7, <2>1
    <2>3. Launchable(decode(c), c, o)
      BY <2>2, ShortLaunches
    <2>4. decodeCounter' = [decodeCounter EXCEPT ![<<o, s>>] = c] /\ Launch(s, decode(c)) /\ used = 0
          /\ doubtful' = doubtful
      BY <1>7
    <2>5. \A d \in c + 1 .. slots.last : d \in Nat /\ d # c /\ d \in slots.next .. slots.last
      BY <2>1, <2>2
    <2> HIDE DEF c, used, decode
    <2>6. /\ Grows /\ OwnedOnce' /\ OwnsNext(o, c)
          /\ decodeCounter' \in [Owners \X Streams -> Nat]
          /\ \A p \in Owners, r \in Streams : decodeCounter'[<<p, r>>] <= allocated'
          /\ \A p \in Owners : \A d \in Nat : OwnsNext(p, d) => Owns(p, d) \/ (p = o /\ d = c)
      <3>1. c \in Nat \ {0} /\ c <= allocated' /\ \A p \in Owners : ~Owns(p, c)
        BY <2>2
      <3>2. allocated' \in Nat /\ allocated <= allocated'
        BY <2>1
      <3> QED
        BY <1>6, <2>4, <3>1, <3>2
    <2>7. PoolFree'
      <3> SUFFICES ASSUME NEW p \in Owners, NEW d \in c + 1 .. slots.last PROVE ~OwnsNext(p, d)
        BY <2>2 DEF PoolFree, Owns, OwnsNext
      <3> QED
        BY <2>1, <2>5, <2>6
    <2> QED
      BY <1>4, <2>1, <2>2, <2>3, <2>4, <2>6, <2>7
  <1>8. CASE used = 0 /\ slots.next > slots.last /\ allocated < MaxCounters
             /\ (\E junk \in Junk : Allocate(allocated + 1, s, junk))
             /\ decodeCounter' = [decodeCounter EXCEPT ![<<o, s>>] = allocated + 1]
             /\ Launch(s, <<Kernel("reset", allocated + 1, o)>> \o decode(allocated + 1))
             /\ UNCHANGED pool
    <2> DEFINE c == allocated + 1
               ks == <<Kernel("reset", c, o)>> \o decode(c)
    <2>0. Captures(s)
      BY <1>1, <1>8, OnlyCapturesExhaust
    <2> HIDE DEF slots
    <2>1. /\ c \in Nat \ {0} /\ c = allocated + 1 /\ allocated' = c
          /\ counter' \in [Counters -> Nat] /\ c <= MaxCounters
          /\ \A d \in 1 .. allocated : counter'[d] = counter[d]
          /\ doubtful \subseteq doubtful' /\ c \in doubtful'
      BY <1>1, <1>8, <2>0 DEF Allocate, Counters, SplitAssumption
    <2>2. decodeCounter' = [decodeCounter EXCEPT ![<<o, s>>] = c] /\ Launch(s, ks) /\ used = 0
          /\ pool' = pool
      BY <1>8
    <2>3. Launchable(ks, c, o)
      <3> HIDE DEF c
      <3> QED
        BY <2>1, ShortLaunches, LaunchableAppends
    <2> HIDE DEF c, ks, used, decode
    <2>4. \A p \in Owners : ~Owns(p, c)
      BY <1>1, <2>1 DEF Owns
    <2>5. /\ Grows /\ OwnedOnce' /\ OwnsNext(o, c)
          /\ decodeCounter' \in [Owners \X Streams -> Nat]
          /\ \A p \in Owners, r \in Streams : decodeCounter'[<<p, r>>] <= allocated'
          /\ \A p \in Owners : \A d \in Nat : OwnsNext(p, d) => Owns(p, d) \/ (p = o /\ d = c)
      <3>1. /\ c \in Nat \ {0} /\ c <= allocated'
            /\ allocated' \in Nat /\ allocated <= allocated'
        BY <1>1, <2>1
      <3> QED
        BY <1>6, <2>2, <2>4, <3>1
    <2>6. PoolFree'
      <3> SUFFICES ASSUME NEW p \in Owners, NEW d \in pool.next .. pool.last PROVE ~OwnsNext(p, d)
        BY <2>2 DEF PoolFree, Owns, OwnsNext
      <3>1. d \in Nat /\ d # c /\ ~Owns(p, d)
        BY <1>1, <2>1 DEF PoolFree
      <3> QED
        BY <2>5, <3>1
    <2>7. \A d \in allocated + 1 .. allocated' : d \in doubtful'
      BY <1>1, <2>1
    <2>8. pool' \in [next : Nat \ {0}, last : Nat] /\ pool'.last <= allocated'
      BY <1>1, <2>1, <2>2
    <2> QED
      BY <1>1, <1>4, <2>1, <2>2, <2>3, <2>5, <2>6, <2>7, <2>8
  <1> QED
    BY <1>5, <1>7, <1>8 DEF DecodeCall

LEMMA ReplayStep ==
    ASSUME HostInv, NEW s \in Streams, NEW g \in Graphs, Replay(g, s)
    PROVE  HostInv' /\ HostMoves
  <1> DEFINE ks == graph[g]
  <1>1. /\ ks \in Seq(AllKernels) /\ Linked(ks) /\ Fresh(ks) /\ Owned(ks)
        /\ counter \in [Counters -> Nat] /\ allocated \in Nat /\ allocated <= MaxCounters
        /\ \A r \in Streams : queue[r] \in Seq(AllKernels) /\ Linked(queue[r])
    BY DEF HostInv, HostTypes
  <1>2. /\ capturing' = capturing /\ Launch(s, ks) /\ ~Captures(s)
        /\ UNCHANGED <<running, tile, worked, split, stored, combined, sound>>
        /\ UNCHANGED <<counter, allocated, tileCounter, decodeCounter, pool, doubtful>>
        /\ \A i \in DOMAIN ks : Alone(ks[i].owner, s)
    BY DEF Replay, progress, tickets, caches, history
  <1>3. /\ Grows /\ OwnedOnce'
        /\ \A p \in Owners : \A c \in Nat : OwnsNext(p, c) <=> Owns(p, c)
    BY <1>2, SameCaches
  <1> HIDE DEF ks
  <1>4. ASSUME NEW i \in 1 .. Len(ks)
        PROVE  Alone(ks[i].owner, s) /\ OwnsNext(ks[i].owner, ks[i].counter)
    <2>1. i \in DOMAIN ks /\ ks[i] \in AllKernels
      BY <1>1, LenProperties
    <2>2. Owns(ks[i].owner, ks[i].counter)
      BY <1>1 DEF Owned
    <2> QED
      BY <1>2, <1>3, <2>1, <2>2 DEF AllKernels
  <1>5. /\ calls' \in Nat
        /\ queue' \in [Streams -> Seq(AllKernels)]
        /\ graph' \in [Graphs -> Seq(AllKernels)]
        /\ \A r \in Streams : Linked(queue'[r])
        /\ \A h \in Graphs : Linked(graph'[h]) /\ Fresh(graph'[h])
        /\ \A r \in Streams : Owned(queue[r])'
        /\ \A h \in Graphs : Owned(graph[h])'
        /\ Apart'
        /\ \A r \in Streams : r # s => queue'[r] = queue[r]
        /\ queue'[s] = queue[s] \o ks
    BY <1>1, <1>2, <1>3, <1>4, LaunchKeepsQueues
  <1>6. ASSUME NEW r \in Streams
        PROVE  /\ Len(queue[r]) <= Len(queue'[r])
               /\ \A i \in 1 .. Len(queue[r]) : queue'[r][i] = queue[r][i]
               /\ queue[r] = <<>> => Fresh(queue'[r])
    <2>0. Len(queue[r]) \in Nat /\ Len(ks) \in Nat
      BY <1>1, LenProperties
    <2>1. CASE r # s
      BY <1>5, <2>0, <2>1 DEF Fresh
    <2>2. CASE r = s
      <3>1. queue[r] = <<>> => Fresh(queue[r])
        BY DEF Fresh
      <3>2. /\ Len(queue[r] \o ks) = Len(queue[r]) + Len(ks)
            /\ \A i \in 1 .. Len(queue[r]) : (queue[r] \o ks)[i] = queue[r][i]
            /\ Fresh(queue[r]) => Fresh(queue[r] \o ks)
        BY <1>1, LinkedAppends
      <3>3. queue'[r] = queue[r] \o ks
        BY <1>5, <2>2
      <3> QED
        BY <2>0, <3>1, <3>2, <3>3
    <2> QED
      BY <2>1, <2>2
  <1>7. HostTypes'
    BY <1>2, <1>5 DEF HostInv, HostTypes
  <1>8. PoolFree'
    BY <1>2 DEF HostInv, PoolFree, Owns
  <1>9. HostInv'
    BY <1>3, <1>5, <1>7, <1>8 DEF HostInv
  <1>10. \A c \in allocated + 1 .. allocated' : FALSE
    BY <1>1, <1>2
  <1>11. /\ allocated <= allocated' /\ doubtful \subseteq doubtful'
         /\ counter' \in [Counters -> Nat]
         /\ \A c \in 1 .. allocated : counter'[c] = counter[c]
    BY <1>1, <1>2
  <1>12. HostMoves
    BY <1>2, <1>6, <1>10, <1>11 DEF HostMoves
  <1> QED
    BY <1>9, <1>12

\* The begin and the end of a capture change nothing else.
LEMMA CaptureStep ==
    ASSUME HostInv, capturing' \in [Streams -> Graphs \cup {NoGraph}],
           UNCHANGED <<counter, caches, queue, graph, calls, running, progress, tickets, history>>
    PROVE  HostInv' /\ HostMoves
  <1>1. /\ UNCHANGED <<running, tile, worked, split, stored, combined, sound>>
        /\ UNCHANGED <<counter, allocated, tileCounter, decodeCounter, pool, doubtful>>
        /\ UNCHANGED <<queue, graph, calls>>
    BY DEF progress, tickets, caches, history
  <1>2. /\ counter \in [Counters -> Nat] /\ allocated \in Nat
        /\ \A r \in Streams : queue[r] \in Seq(AllKernels)
    BY DEF HostInv, HostTypes
  <1>3. HostTypes'
    <2>1. HostTypes
      BY DEF HostInv
    <2> QED
      BY <1>1, <2>1 DEF HostTypes
  <1>4. OwnedOnce' /\ PoolFree' /\ Apart'
    <2>1. OwnedOnce'
      BY <1>1, SameCaches
    <2>2. PoolFree'
      BY <1>1 DEF HostInv, PoolFree, Owns
    <2>3. Apart'
      BY <1>1 DEF HostInv, Apart
    <2> QED
      BY <2>1, <2>2, <2>3
  <1>5. /\ \A s \in Streams : Linked(queue'[s]) /\ Owned(queue[s])'
        /\ \A g \in Graphs : Linked(graph'[g]) /\ Fresh(graph'[g]) /\ Owned(graph[g])'
    BY <1>1 DEF HostInv, Owned, Owns
  <1>6. HostInv'
    BY <1>3, <1>4, <1>5 DEF HostInv
  <1>7. \A r \in Streams : Len(queue[r]) \in Nat
    BY <1>2, LenProperties
  <1>8. \A c \in allocated + 1 .. allocated' : FALSE
    BY <1>1, <1>2
  <1>9. \A r \in Streams : queue[r] = <<>> => Fresh(queue'[r])
    BY <1>1 DEF Fresh
  <1>10. HostMoves
    BY <1>1, <1>2, <1>7, <1>8, <1>9 DEF HostMoves
  <1> QED
    BY <1>6, <1>10

LEMMA HostStep ==
    ASSUME SplitAssumption, HostInv, Host
    PROVE  HostInv' /\ HostMoves
  <1>1. PICK s \in Streams :
            \/ \E o \in Owners :
                   \/ \E tunes, fails \in BOOLEAN : PersistentCall(s, o, tunes, fails)
                   \/ DecodeCall(s, o)
            \/ \E g \in Graphs : BeginCapture(s, g) \/ Replay(g, s)
            \/ EndCapture(s)
    BY DEF Host
  <1>2. capturing \in [Streams -> Graphs \cup {NoGraph}]
    BY DEF HostInv, HostTypes
  <1>3. ASSUME NEW o \in Owners, NEW tunes \in BOOLEAN, NEW fails \in BOOLEAN,
               PersistentCall(s, o, tunes, fails)
        PROVE  HostInv' /\ HostMoves
    BY <1>3, PersistentStep
  <1>4. ASSUME NEW o \in Owners, DecodeCall(s, o) PROVE HostInv' /\ HostMoves
    BY <1>4, DecodeStep
  <1>5. ASSUME NEW g \in Graphs, Replay(g, s) PROVE HostInv' /\ HostMoves
    BY <1>5, ReplayStep
  <1>6. ASSUME NEW g \in Graphs, BeginCapture(s, g) PROVE HostInv' /\ HostMoves
    <2>1. capturing' \in [Streams -> Graphs \cup {NoGraph}]
      BY <1>2, <1>6 DEF BeginCapture
    <2> QED
      BY <1>6, <2>1, CaptureStep DEF BeginCapture
  <1>7. CASE EndCapture(s)
    <2>1. capturing' \in [Streams -> Graphs \cup {NoGraph}]
      BY <1>2, <1>7 DEF EndCapture
    <2> QED
      BY <1>7, <2>1, CaptureStep DEF EndCapture
  <1> QED
    BY <1>1, <1>3, <1>4, <1>5, <1>6, <1>7

-----------------------------------------------------------------------------
(* The pairs of one launch: f is the pair in hand of each program, w how often *)
(* each pair was worked, n the counter.                                    *)

TilesOK(f, w, n) ==
    /\ \A p \in AllPrograms : f[p] < n + Programs
    /\ \A p, q \in AllPrograms : p # q => f[p] # f[q]
    /\ \A t \in AllPairs :
           w[t] = IF t < n + Programs /\ \A p \in AllPrograms : f[p] # t THEN 1 ELSE 0

LEMMA FirstTiles ==
    ASSUME SplitAssumption
    PROVE  TilesOK([p \in AllPrograms |-> p], [t \in AllPairs |-> 0], 0)
  <1>1. Programs \in Nat /\ Tiles \in Nat
    BY DEF SplitAssumption
  <1>2. ASSUME NEW t \in AllPairs, t < 0 + Programs PROVE t \in AllPrograms
    BY <1>1, <1>2 DEF AllPairs, AllPrograms
  <1> QED
    BY <1>1, <1>2 DEF TilesOK, AllPrograms

LEMMA NextTile ==
    ASSUME SplitAssumption, NEW f \in [AllPrograms -> Nat], NEW w \in [AllPairs -> Nat],
           NEW n \in Nat, TilesOK(f, w, n), NEW p \in AllPrograms, f[p] < Tiles
    PROVE  TilesOK([f EXCEPT ![p] = n + Programs], [w EXCEPT ![f[p]] = @ + 1], n + 1)
  <1> DEFINE g == [f EXCEPT ![p] = n + Programs]
             v == [w EXCEPT ![f[p]] = @ + 1]
  <1>1. Programs \in Nat \ {0} /\ Tiles \in Nat
    BY DEF SplitAssumption
  <1>2. f[p] \in AllPairs /\ f[p] \in Nat
    BY <1>1 DEF AllPairs
  <1>3. /\ g[p] = n + Programs
        /\ \A q \in AllPrograms : q # p => g[q] = f[q]
        /\ v[f[p]] = w[f[p]] + 1
        /\ \A t \in AllPairs : t # f[p] => v[t] = w[t]
    BY <1>2
  <1>4. /\ \A q \in AllPrograms : f[q] < n + Programs /\ f[q] \in Nat
        /\ \A q, r \in AllPrograms : q # r => f[q] # f[r]
    BY DEF TilesOK
  <1>5. \A t \in AllPairs :
           w[t] = IF t < n + Programs /\ \A q \in AllPrograms : f[q] # t THEN 1 ELSE 0
    BY DEF TilesOK
  <1> HIDE DEF g, v
  <1>6. ASSUME NEW q \in AllPrograms PROVE g[q] < n + 1 + Programs
    <2>1. f[q] < n + Programs /\ f[q] \in Nat
      BY <1>4
    <2> QED
      BY <1>1, <1>3, <2>1
  <1>7. ASSUME NEW q \in AllPrograms, NEW r \in AllPrograms, q # r PROVE g[q] # g[r]
    <2>1. f[q] < n + Programs /\ f[q] \in Nat /\ f[r] < n + Programs /\ f[r] \in Nat
          /\ f[q] # f[r]
      BY <1>4, <1>7
    <2> QED
      BY <1>1, <1>3, <1>7, <2>1
  <1>8. ASSUME NEW t \in AllPairs
        PROVE v[t] = IF t < n + 1 + Programs /\ \A q \in AllPrograms : g[q] # t THEN 1 ELSE 0
    <2>0. t \in Nat
      BY <1>1 DEF AllPairs
    <2>1. CASE t = f[p]
      <3>1. v[t] = 1
        BY <1>2, <1>3, <1>5, <2>1
      <3>2. t < n + 1 + Programs
        BY <1>1, <1>2, <1>4, <2>1
      <3>3. ASSUME NEW q \in AllPrograms PROVE g[q] # t
        <4>1. f[p] < n + Programs /\ (q # p => f[q] # f[p])
          BY <1>4
        <4> QED
          BY <1>1, <1>2, <1>3, <2>1, <4>1
      <3> QED
        BY <3>1, <3>2, <3>3
    <2>2. CASE t # f[p] /\ t = n + Programs
      <3>1. v[t] = w[t] /\ g[p] = t /\ ~(t < n + Programs)
        BY <1>1, <1>3, <2>0, <2>2
      <3>2. w[t] = 0
        BY <1>5, <3>1
      <3> QED
        BY <3>1, <3>2
    <2>3. CASE t # f[p] /\ t # n + Programs
      <3>1. v[t] = w[t]
        BY <1>3, <2>3
      <3>2. t < n + Programs <=> t < n + 1 + Programs
        BY <1>1, <2>0, <2>3
      <3>3. (\A q \in AllPrograms : f[q] # t) <=> (\A q \in AllPrograms : g[q] # t)
        BY <1>3, <2>3
      <3>4. w[t] = IF t < n + Programs /\ \A q \in AllPrograms : f[q] # t THEN 1 ELSE 0
        BY <1>5
      <3> QED
        BY <3>1, <3>2, <3>3, <3>4
    <2> QED
      BY <2>1, <2>2, <2>3
  <1> QED
    BY <1>6, <1>7, <1>8 DEF TilesOK, g, v

LEMMA LastTile ==
    ASSUME SplitAssumption, NEW f \in [AllPrograms -> Nat], NEW w, NEW n \in Nat,
           TilesOK(f, w, n), \A p \in AllPrograms : f[p] >= Tiles
    PROVE  \A t \in AllPairs : w[t] = 1
  <1>1. Programs \in Nat \ {0} /\ Tiles \in Nat
    BY DEF SplitAssumption
  <1>2. 0 \in AllPrograms
    BY <1>1 DEF AllPrograms
  <1>3. f[0] \in Nat /\ f[0] < n + Programs /\ f[0] >= Tiles
    BY <1>2 DEF TilesOK
  <1> SUFFICES ASSUME NEW t \in AllPairs PROVE w[t] = 1
    OBVIOUS
  <1>4. t \in Nat /\ t < Tiles
    BY <1>1 DEF AllPairs
  <1>5. t < n + Programs
    BY <1>1, <1>3, <1>4
  <1>6. ASSUME NEW p \in AllPrograms PROVE f[p] # t
    <2>1. f[p] \in Nat /\ f[p] >= Tiles
      OBVIOUS
    <2> QED
      BY <1>1, <1>4, <2>1
  <1> QED
    BY <1>5, <1>6 DEF TilesOK

-----------------------------------------------------------------------------
(* The tickets of one launch: m is where the CTA of each split is, b the set *)
(* of those that have combined, n the counter.                             *)

Past(m) == {i \in AllSplits : m[i] \in {"combine", "reset", "end"}}

\* Some split has no ticket yet: the counter is the number of those that have.
Waiting(m, b, n) ==
    /\ Past(m) # AllSplits
    /\ n = Cardinality(Past(m))
    /\ \A i \in Past(m) : m[i] = "end"
    /\ b = {}

\* CTA l got the last ticket.
LastOut(m, b, n) ==
    \E l \in AllSplits :
        /\ \A i \in AllSplits : i # l => m[i] = "end"
        /\ \/ m[l] = "combine" /\ b = {} /\ n = Splits
           \/ m[l] = "reset" /\ b = {l} /\ n = Splits
           \/ m[l] = "end" /\ b = {l} /\ n = 0

TicketsOK(m, b, n) == Waiting(m, b, n) \/ LastOut(m, b, n)

LEMMA SplitsCounted ==
    ASSUME SplitAssumption
    PROVE  /\ Splits \in Nat /\ Splits >= 2 /\ 1 \in AllSplits /\ 2 \in AllSplits
           /\ IsFiniteSet(AllSplits) /\ Cardinality(AllSplits) = Splits
  <1>1. Splits \in Nat /\ Splits >= 2
    BY DEF SplitAssumption
  <1>2. IsFiniteSet(1 .. Splits) /\ Cardinality(1 .. Splits) = Splits
    BY <1>1, FS_Interval
  <1> QED
    BY <1>1, <1>2 DEF AllSplits

LEMMA FirstTickets ==
    ASSUME SplitAssumption
    PROVE  TicketsOK([i \in AllSplits |-> "store"], {}, 0)
  <1>1. Past([i \in AllSplits |-> "store"]) = {}
    BY DEF Past
  <1>2. {} # AllSplits
    BY SplitsCounted
  <1> QED
    BY <1>1, <1>2, FS_EmptySet DEF TicketsOK, Waiting

\* Storing a partial result leaves the tickets as they are.
LEMMA StoreTickets ==
    ASSUME NEW m \in [AllSplits -> Places], NEW b, NEW n, TicketsOK(m, b, n),
           NEW i \in AllSplits, m[i] = "store"
    PROVE  TicketsOK([m EXCEPT ![i] = "ticket"], b, n)
  <1> DEFINE k == [m EXCEPT ![i] = "ticket"]
  <1>1. k[i] = "ticket" /\ \A j \in AllSplits : j # i => k[j] = m[j]
    OBVIOUS
  <1> HIDE DEF k
  <1>2. Past(k) = Past(m)
    BY <1>1 DEF Past
  <1>3. ~LastOut(m, b, n)
    BY DEF LastOut
  <1>4. \A j \in Past(m) : k[j] = m[j]
    BY <1>1 DEF Past
  <1> QED
    BY <1>2, <1>3, <1>4 DEF TicketsOK, Waiting, k

LEMMA TakeTicket ==
    ASSUME SplitAssumption, NEW m \in [AllSplits -> Places], NEW b, NEW n, TicketsOK(m, b, n),
           NEW i \in AllSplits, m[i] = "ticket"
    PROVE  /\ n \in Nat
           /\ TicketsOK([m EXCEPT ![i] = IF n = Splits - 1 THEN "combine" ELSE "end"], b, n + 1)
  <1> DEFINE to == IF n = Splits - 1 THEN "combine" ELSE "end"
             k == [m EXCEPT ![i] = to]
  <1>1. k[i] = to /\ \A j \in AllSplits : j # i => k[j] = m[j]
    OBVIOUS
  <1>2. ~LastOut(m, b, n)
    BY DEF LastOut
  <1>3. Waiting(m, b, n)
    BY <1>2 DEF TicketsOK
  <1>4. /\ n = Cardinality(Past(m)) /\ b = {} /\ i \notin Past(m) /\ Past(m) \subseteq AllSplits
        /\ \A j \in Past(m) : m[j] = "end"
    BY <1>3 DEF Waiting, Past
  <1>5. IsFiniteSet(Past(m))
    BY <1>4, SplitsCounted, FS_Subset
  <1>6. n \in Nat
    BY <1>4, <1>5, FS_CardinalityType
  <1>7. Past(k) = Past(m) \cup {i}
    BY <1>1 DEF Past
  <1>8. IsFiniteSet(Past(k)) /\ Cardinality(Past(k)) = n + 1 /\ Past(k) \subseteq AllSplits
    <2> HIDE DEF k
    <2>1. IsFiniteSet(Past(m) \cup {i}) /\ Cardinality(Past(m) \cup {i}) = n + 1
      BY <1>4, <1>5, FS_AddElement
    <2> QED
      BY <1>4, <1>7, <2>1
  <1> HIDE DEF k
  <1>9. CASE n = Splits - 1
    <2>1. Cardinality(Past(k)) = Cardinality(AllSplits)
      BY <1>8, <1>9, SplitsCounted
    <2>2. Past(k) = AllSplits
      BY <1>8, <2>1, SplitsCounted, FS_Subset
    <2>3. \A j \in AllSplits : j # i => k[j] = "end"
      BY <1>1, <1>4, <1>7, <2>2
    <2>4. n + 1 = Splits /\ k[i] = "combine"
      BY <1>1, <1>9, SplitsCounted
    <2>5. LastOut(k, b, n + 1)
      BY <1>4, <2>3, <2>4 DEF LastOut
    <2> QED
      BY <1>6, <2>5 DEF TicketsOK, k
  <1>10. CASE n # Splits - 1
    <2>1. Past(k) # AllSplits
      BY <1>6, <1>8, <1>10, SplitsCounted
    <2>2. \A j \in Past(k) : k[j] = "end"
      <3>1. \A j \in Past(m) : j \in AllSplits /\ j # i
        BY <1>4
      <3> QED
        BY <1>1, <1>4, <1>7, <1>10, <3>1
    <2>3. Waiting(k, b, n + 1)
      BY <1>4, <1>8, <2>1, <2>2 DEF Waiting
    <2> QED
      BY <1>6, <2>3 DEF TicketsOK, k
  <1> QED
    BY <1>9, <1>10

LEMMA OneCombines ==
    ASSUME NEW m \in [AllSplits -> Places], NEW b, NEW n, TicketsOK(m, b, n),
           NEW i \in AllSplits, m[i] \in {"combine", "reset"}
    PROVE  /\ \A j \in AllSplits : j # i => m[j] = "end"
           /\ n = Splits
           /\ b = IF m[i] = "combine" THEN {} ELSE {i}
  <1>1. ~Waiting(m, b, n)
    BY DEF Waiting, Past
  <1>2. LastOut(m, b, n)
    BY <1>1 DEF TicketsOK
  <1> QED
    BY <1>2 DEF LastOut

LEMMA CombineTickets ==
    ASSUME NEW m \in [AllSplits -> Places], NEW b, NEW n, TicketsOK(m, b, n),
           NEW i \in AllSplits
    PROVE  /\ m[i] = "combine" => TicketsOK([m EXCEPT ![i] = "reset"], b \cup {i}, n)
           /\ m[i] = "reset" => TicketsOK([m EXCEPT ![i] = "end"], b, 0)
  <1>1. ASSUME m[i] = "combine" PROVE TicketsOK([m EXCEPT ![i] = "reset"], b \cup {i}, n)
    <2>1. (\A j \in AllSplits : j # i => m[j] = "end") /\ n = Splits /\ b \cup {i} = {i}
      BY <1>1, OneCombines
    <2> QED
      BY <2>1 DEF TicketsOK, LastOut
  <1>2. ASSUME m[i] = "reset" PROVE TicketsOK([m EXCEPT ![i] = "end"], b, 0)
    <2>1. (\A j \in AllSplits : j # i => m[j] = "end") /\ b = {i}
      BY <1>2, OneCombines
    <2> QED
      BY <2>1 DEF TicketsOK, LastOut
  <1> QED
    BY <1>1, <1>2

LEMMA AllTicketsEnd ==
    ASSUME SplitAssumption, NEW m, NEW b, NEW n, TicketsOK(m, b, n),
           \A i \in AllSplits : m[i] = "end"
    PROVE  n = 0 /\ \E i \in AllSplits : b = {i}
  <1>1. Past(m) = AllSplits
    BY DEF Past
  <1>2. LastOut(m, b, n)
    BY <1>1 DEF TicketsOK, Waiting
  <1> QED
    BY <1>2 DEF LastOut

-----------------------------------------------------------------------------
(* The kernel that runs on a stream, and the counters nobody uses.         *)

\* A running kernel whose counter was in doubt leaves it in doubt.
RunInv(s) ==
    running[s] =>
        /\ Has(s, WorkKinds \cup {"decode"})
        /\ sound[s] \/ Current(s) \in doubtful
        /\ Has(s, {"orphan"}) => Current(s) \in doubtful

WorkInv(s) ==
    (running[s] /\ sound[s] /\ Has(s, WorkKinds)) =>
        TilesOK(tile[s], worked[s], counter[Current(s)])

DoneInv(s) ==
    (sound[s] /\ Has(s, {"combine"})) => \A t \in AllPairs : worked[s][t] = 1

DecodeInv(s) ==
    (running[s] /\ Has(s, {"decode"})) =>
        /\ stored[s] = {i \in AllSplits : split[s][i] # "store"}
        /\ sound[s] => TicketsOK(split[s], combined[s], counter[Current(s)])

StreamInv(s) == RunInv(s) /\ WorkInv(s) /\ DoneInv(s) /\ DecodeInv(s)

\* The next kernel on c sets it to zero, or a kernel that uses c runs.
Holder(s, c) ==
    \E i \in 1 .. Len(queue[s]) :
        /\ FirstOn(queue[s], c, i)
        /\ queue[s][i].kind \in {"reset", "combine"} \/ (i = 1 /\ running[s])

Settled(c) == c \in doubtful \/ counter[c] = 0 \/ \E s \in Streams : Holder(s, c)

Resting == \A c \in 1 .. allocated : Settled(c)

IInv ==
    /\ HostInv
    /\ DeviceTypes
    /\ \A s \in Streams : StreamInv(s)
    /\ Resting

LEMMA HeadOf ==
    ASSUME HostInv, NEW s \in Streams, queue[s] # <<>>
    PROVE  /\ queue[s] \in Seq(AllKernels) /\ Len(queue[s]) \in Nat \ {0}
           /\ 1 \in 1 .. Len(queue[s])
           /\ Head(queue[s]) = queue[s][1] /\ queue[s][1] \in AllKernels
           /\ Current(s) = queue[s][1].counter
           /\ Current(s) \in 1 .. allocated /\ Current(s) \in Counters
           /\ counter[Current(s)] \in Nat
           /\ Owns(queue[s][1].owner, Current(s))
  <1>1. queue[s] \in Seq(AllKernels) /\ Linked(queue[s]) /\ Owned(queue[s])
    BY DEF HostInv, HostTypes
  <1>2. Head(queue[s]) = queue[s][1] /\ Len(queue[s]) \in Nat \ {0}
    BY <1>1, LinkedTail
  <1>3. 1 \in 1 .. Len(queue[s])
    BY <1>2
  <1>4. queue[s][1] \in AllKernels
    BY <1>1, <1>3
  <1>5. Owns(queue[s][1].owner, queue[s][1].counter)
    BY <1>1, <1>3 DEF Owned
  <1>6. queue[s][1].counter \in 1 .. allocated
    BY <1>5 DEF Owns
  <1>7. allocated \in Nat /\ allocated <= MaxCounters /\ counter \in [Counters -> Nat]
    BY DEF HostInv, HostTypes
  <1>8. queue[s][1].counter \in Counters
    BY <1>6, <1>7, SplitAssumption DEF Counters, SplitAssumption
  <1> QED
    BY <1>1, <1>2, <1>3, <1>4, <1>5, <1>6, <1>7, <1>8 DEF Current

\* A counter is in the queue of one stream only.
LEMMA OneStream ==
    ASSUME HostInv, NEW r \in Streams, NEW s \in Streams, r # s,
           NEW i \in 1 .. Len(queue[r]), NEW j \in 1 .. Len(queue[s])
    PROVE  queue[r][i].counter # queue[s][j].counter
  <1>1. /\ queue[r] \in Seq(AllKernels) /\ Owned(queue[r])
        /\ queue[s] \in Seq(AllKernels) /\ Owned(queue[s])
        /\ OwnedOnce /\ Apart
    BY DEF HostInv, HostTypes
  <1>2. queue[r][i] \in AllKernels /\ queue[s][j] \in AllKernels
    BY <1>1
  <1>3. /\ Owns(queue[r][i].owner, queue[r][i].counter)
        /\ Owns(queue[s][j].owner, queue[s][j].counter)
    BY <1>1 DEF Owned
  <1>4. queue[r][i].owner # queue[s][j].owner
    BY <1>1 DEF Apart
  <1>5. /\ queue[r][i].owner \in Owners /\ queue[s][j].owner \in Owners
        /\ queue[r][i].counter \in Nat
    BY <1>2 DEF AllKernels
  <1> QED
    BY <1>1, <1>3, <1>4, <1>5 DEF OwnedOnce

\* What a stream keeps as long as its kernel and the counter of it are left alone.
LEMMA StreamKept ==
    ASSUME NEW s \in Streams, StreamInv(s),
           running'[s] = running[s], sound'[s] = sound[s],
           tile'[s] = tile[s], worked'[s] = worked[s],
           split'[s] = split[s], stored'[s] = stored[s], combined'[s] = combined[s],
           queue[s] # <<>> => queue'[s] # <<>> /\ Head(queue'[s]) = Head(queue[s]),
           queue[s] = <<>> /\ queue'[s] # <<>> => Head(queue'[s]).kind # "combine",
           queue[s] # <<>> =>
               /\ counter'[Current(s)] = counter[Current(s)]
               /\ Current(s) \in doubtful => Current(s) \in doubtful'
    PROVE  StreamInv(s)'
  <1>1. CASE queue[s] = <<>>
    <2>1. ~running[s]
      BY <1>1 DEF StreamInv, RunInv, Has
    <2>2. ~Has(s, {"combine"})'
      BY <1>1 DEF Has
    <2> QED
      BY <2>1, <2>2 DEF StreamInv, RunInv, WorkInv, DoneInv, DecodeInv
  <1>2. CASE queue[s] # <<>>
    <2>1. /\ queue'[s] # <<>> /\ Head(queue'[s]) = Head(queue[s])
          /\ counter'[Current(s)] = counter[Current(s)]
          /\ Current(s) \in doubtful => Current(s) \in doubtful'
      BY <1>2
    <2>2. RunInv(s)'
      BY <1>2, <2>1 DEF StreamInv, RunInv, Has, Current
    <2>3. WorkInv(s)'
      BY <1>2, <2>1 DEF StreamInv, WorkInv, Has, Current
    <2>4. DoneInv(s)'
      BY <1>2, <2>1 DEF StreamInv, DoneInv, Has
    <2>5. DecodeInv(s)'
      BY <1>2, <2>1 DEF StreamInv, DecodeInv, Has, Current
    <2> QED
      BY <2>2, <2>3, <2>4, <2>5 DEF StreamInv
  <1> QED
    BY <1>1, <1>2

\* A step of the host changes nothing for the device.
LEMMA HostKeepsDevice ==
    ASSUME IInv, HostInv', HostMoves
    PROVE  DeviceTypes' /\ (\A s \in Streams : StreamInv(s)') /\ Resting'
  <1>1. /\ UNCHANGED <<running, tile, worked, split, stored, combined, sound>>
        /\ counter' \in [Counters -> Nat]
        /\ allocated <= allocated'
        /\ \A c \in 1 .. allocated : counter'[c] = counter[c]
        /\ doubtful \subseteq doubtful'
    BY DEF HostMoves
  <1>2. \A s \in Streams :
           /\ Len(queue[s]) <= Len(queue'[s])
           /\ \A i \in 1 .. Len(queue[s]) : queue'[s][i] = queue[s][i]
           /\ queue[s] = <<>> => Fresh(queue'[s])
    BY DEF HostMoves
  <1>3. \A s \in Streams : queue[s] \in Seq(AllKernels) /\ queue'[s] \in Seq(AllKernels)
    BY DEF IInv, HostInv, HostTypes
  <1>4. DeviceTypes'
    BY <1>1 DEF IInv, DeviceTypes
  <1>5. ASSUME NEW s \in Streams PROVE StreamInv(s)'
    <2>1. ASSUME queue[s] # <<>> PROVE queue'[s] # <<>> /\ Head(queue'[s]) = Head(queue[s])
      <3>1. Len(queue[s]) \in Nat \ {0} /\ Head(queue[s]) = queue[s][1]
        BY <1>3, <2>1, LenProperties, EmptySeq, HeadTailProperties
      <3>2. Len(queue'[s]) \in Nat \ {0}
        BY <1>2, <1>3, <3>1, LenProperties
      <3>3. queue'[s] # <<>> /\ Head(queue'[s]) = queue'[s][1]
        BY <1>3, <3>2, EmptySeq, HeadTailProperties
      <3>4. queue'[s][1] = queue[s][1]
        BY <1>2, <3>1
      <3> QED
        BY <3>1, <3>3, <3>4
    <2>2. ASSUME queue[s] = <<>>, queue'[s] # <<>> PROVE Head(queue'[s]).kind # "combine"
      <3>1. Head(queue'[s]) = queue'[s][1]
        BY <1>3, <2>2
      <3> QED
        BY <1>2, <2>2, <3>1 DEF Fresh
    <2>3. ASSUME queue[s] # <<>>
          PROVE  /\ counter'[Current(s)] = counter[Current(s)]
                 /\ Current(s) \in doubtful => Current(s) \in doubtful'
      <3>1. Current(s) \in 1 .. allocated
        BY <2>3, HeadOf DEF IInv
      <3> QED
        BY <1>1, <3>1
    <2>4. StreamInv(s)
      BY DEF IInv
    <2> QED
      BY <1>1, <2>1, <2>2, <2>3, <2>4, StreamKept
  <1>6. ASSUME NEW s \in Streams, NEW c \in Nat, Holder(s, c) PROVE Holder(s, c)'
    <2>1. PICK i \in 1 .. Len(queue[s]) :
              /\ FirstOn(queue[s], c, i)
              /\ queue[s][i].kind \in {"reset", "combine"} \/ (i = 1 /\ running[s])
      BY <1>6 DEF Holder
    <2>2. Len(queue[s]) \in Nat /\ Len(queue'[s]) \in Nat /\ Len(queue[s]) <= Len(queue'[s])
      BY <1>2, <1>3, LenProperties
    <2>3. i \in 1 .. Len(queue'[s]) /\ \A j \in 1 .. i : queue'[s][j] = queue[s][j]
      BY <1>2, <2>1, <2>2
    <2>4. i \in 1 .. i /\ \A j \in 1 .. i - 1 : j \in 1 .. i
      BY <2>2
    <2>5. FirstOn(queue'[s], c, i)
      BY <2>1, <2>3, <2>4 DEF FirstOn
    <2> QED
      BY <1>1, <2>1, <2>3, <2>4, <2>5 DEF Holder
  <1>7. Resting'
    <2> SUFFICES ASSUME NEW c \in 1 .. allocated' PROVE Settled(c)'
      BY DEF Resting
    <2>0. allocated \in Nat /\ allocated' \in Nat
      BY DEF IInv, HostInv, HostTypes
    <2>1. CASE c \in 1 .. allocated
      <3>1. Settled(c)
        BY <2>1 DEF IInv, Resting
      <3> QED
        BY <1>1, <1>6, <2>1, <3>1 DEF Settled
    <2>2. CASE c \in allocated + 1 .. allocated'
      <3>1. \/ c \in doubtful' \/ counter'[c] = 0
            \/ \E s \in Streams : \E i \in 1 .. Len(queue'[s]) :
                   queue'[s][i].kind = "reset" /\ FirstOn(queue'[s], c, i)
        BY <2>2 DEF HostMoves
      <3> QED
        BY <3>1 DEF Settled, Holder
    <2> QED
      BY <2>0, <2>1, <2>2
  <1> QED
    BY <1>4, <1>5, <1>7

-----------------------------------------------------------------------------
(* The steps of the device.                                                *)

LocalSame(r) ==
    /\ running'[r] = running[r] /\ sound'[r] = sound[r]
    /\ tile'[r] = tile[r] /\ worked'[r] = worked[r]
    /\ split'[r] = split[r] /\ stored'[r] = stored[r] /\ combined'[r] = combined[r]

\* The kernel of s moves on or ends; its counter is settled or still in use.
DeviceMoves(s) ==
    /\ UNCHANGED <<allocated, tileCounter, decodeCounter, pool, graph, capturing, calls>>
    /\ queue[s] # <<>>
    /\ queue' = queue \/ queue' = [queue EXCEPT ![s] = Tail(@)]
    /\ \A r \in Streams : r # s => LocalSame(r)
    /\ counter' \in [Counters -> Nat]
    /\ \A c \in Counters : c # Current(s) => counter'[c] = counter[c]
    /\ \A c \in doubtful : c # Current(s) => c \in doubtful'
    /\ \A c \in Nat : c = Current(s) => Settled(c)'

LEMMA DeviceKeepsHost ==
    ASSUME HostInv, NEW s \in Streams, DeviceMoves(s)
    PROVE  HostInv'
  <1>1. /\ UNCHANGED <<allocated, tileCounter, decodeCounter, pool, graph, capturing, calls>>
        /\ queue[s] # <<>>
        /\ queue' = queue \/ queue' = [queue EXCEPT ![s] = Tail(@)]
        /\ counter' \in [Counters -> Nat]
    BY DEF DeviceMoves
  <1>2. HostTypes /\ queue \in [Streams -> Seq(AllKernels)]
    BY DEF HostInv, HostTypes
  <1>3. \A p \in Owners : \A c \in Nat : Owns(p, c)' <=> Owns(p, c)
    BY <1>1 DEF Owns
  <1>4. OwnedOnce' /\ PoolFree'
    <2>1. OwnedOnce'
      BY <1>1, SameCaches
    <2>2. PoolFree'
      BY <1>1 DEF HostInv, PoolFree, Owns
    <2> QED
      BY <2>1, <2>2
  <1>5. \A g \in Graphs : Linked(graph'[g]) /\ Fresh(graph'[g]) /\ Owned(graph[g])'
    BY <1>1 DEF HostInv, Owned, Owns
  <1>6. CASE queue' = queue
    <2>1. HostTypes'
      BY <1>1, <1>2, <1>6 DEF HostTypes
    <2>2. Apart'
      BY <1>6 DEF HostInv, Apart
    <2>3. \A r \in Streams : Linked(queue'[r]) /\ Owned(queue[r])'
      BY <1>1, <1>6 DEF HostInv, Owned, Owns
    <2> QED
      BY <1>4, <1>5, <2>1, <2>2, <2>3 DEF HostInv
  <1>7. CASE queue' = [queue EXCEPT ![s] = Tail(@)]
    <2> DEFINE q == queue[s]
               t == Tail(q)
    <2>1. /\ t \in Seq(AllKernels)
          /\ Len(t) = Len(q) - 1 /\ Len(q) \in Nat \ {0}
          /\ \A i \in 1 .. Len(q) - 1 : t[i] = q[i + 1]
          /\ Linked(t)
      BY <1>1, <1>2, LinkedTail DEF HostInv
    <2>2. queue'[s] = t /\ \A r \in Streams : r # s => queue'[r] = queue[r]
      BY <1>2, <1>7
    <2>3. queue' \in [Streams -> Seq(AllKernels)]
      BY <1>2, <1>7, <2>1
    <2> HIDE DEF t
    <2>4. \A i \in 1 .. Len(t) : i + 1 \in 1 .. Len(q) /\ t[i] = q[i + 1]
      BY <2>1
    <2>5. HostTypes'
      BY <1>1, <1>2, <2>3 DEF HostTypes
    <2>6. ASSUME NEW r \in Streams, NEW i \in 1 .. Len(queue'[r])
          PROVE  \E j \in 1 .. Len(queue[r]) : queue'[r][i] = queue[r][j]
      BY <2>2, <2>4
    <2>7. Apart'
      <3> SUFFICES ASSUME NEW r \in Streams, NEW u \in Streams, r # u,
                          NEW i \in 1 .. Len(queue'[r]), NEW j \in 1 .. Len(queue'[u])
                   PROVE  queue'[r][i].owner # queue'[u][j].owner
        BY DEF Apart
      <3>1. PICK k \in 1 .. Len(queue[r]) : queue'[r][i] = queue[r][k]
        BY <2>6
      <3>2. PICK m \in 1 .. Len(queue[u]) : queue'[u][j] = queue[u][m]
        BY <2>6
      <3> QED
        BY <3>1, <3>2 DEF HostInv, Apart
    <2>8. ASSUME NEW r \in Streams PROVE Linked(queue'[r]) /\ Owned(queue[r])'
      <3>1. Linked(queue'[r])
        BY <2>1, <2>2 DEF HostInv
      <3>2. ASSUME NEW i \in 1 .. Len(queue'[r])
            PROVE OwnsNext(queue'[r][i].owner, queue'[r][i].counter)
        <4>1. PICK k \in 1 .. Len(queue[r]) : queue'[r][i] = queue[r][k]
          BY <2>6
        <4>2. Owns(queue[r][k].owner, queue[r][k].counter)
          BY DEF HostInv, Owned
        <4> QED
          BY <1>1, <4>1, <4>2 DEF Owns, OwnsNext
      <3> QED
        BY <3>1, <3>2 DEF Owned, Owns, OwnsNext
    <2> QED
      BY <1>4, <1>5, <2>5, <2>7, <2>8 DEF HostInv
  <1> QED
    BY <1>1, <1>6, <1>7

LEMMA DeviceKeepsOthers ==
    ASSUME HostInv, NEW s \in Streams, DeviceMoves(s), NEW r \in Streams, r # s, StreamInv(r)
    PROVE  StreamInv(r)'
  <1>1. /\ LocalSame(r) /\ queue'[r] = queue[r]
    BY DEF DeviceMoves, HostInv, HostTypes
  <1>2. ASSUME queue[r] # <<>>
        PROVE  /\ counter'[Current(r)] = counter[Current(r)]
               /\ Current(r) \in doubtful => Current(r) \in doubtful'
    <2>1. /\ Current(r) = queue[r][1].counter /\ 1 \in 1 .. Len(queue[r])
          /\ Current(r) \in Counters
      BY <1>2, HeadOf
    <2>2. Current(s) = queue[s][1].counter /\ 1 \in 1 .. Len(queue[s])
      BY HeadOf DEF DeviceMoves
    <2>3. Current(r) # Current(s)
      BY <2>1, <2>2, OneStream
    <2> QED
      BY <2>1, <2>3 DEF DeviceMoves
  <1> QED
    BY <1>1, <1>2, StreamKept DEF LocalSame

LEMMA DeviceKeepsResting ==
    ASSUME HostInv, Resting, NEW s \in Streams, DeviceMoves(s)
    PROVE  Resting'
  <1>1. allocated' = allocated /\ allocated \in Nat /\ allocated <= MaxCounters
    BY DEF DeviceMoves, HostInv, HostTypes
  <1> SUFFICES ASSUME NEW c \in 1 .. allocated PROVE Settled(c)'
    BY <1>1 DEF Resting
  <1>2. c \in Nat /\ c \in Counters
    BY <1>1, SplitAssumption DEF Counters, SplitAssumption
  <1>3. CASE c = Current(s)
    BY <1>2, <1>3 DEF DeviceMoves
  <1>4. CASE c # Current(s)
    <2>1. Settled(c)
      BY DEF Resting
    <2>2. ASSUME NEW r \in Streams, Holder(r, c) PROVE Holder(r, c)'
      <3>1. PICK i \in 1 .. Len(queue[r]) :
                /\ FirstOn(queue[r], c, i)
                /\ queue[r][i].kind \in {"reset", "combine"} \/ (i = 1 /\ running[r])
        BY <2>2 DEF Holder
      <3>2. CASE r # s
        <4>1. queue'[r] = queue[r] /\ running'[r] = running[r]
          BY <3>2 DEF DeviceMoves, HostInv, HostTypes, LocalSame
        <4> QED
          BY <3>1, <4>1 DEF Holder
      <3>3. CASE r = s
        <4>1. Current(s) = queue[s][1].counter /\ queue[s] # <<>> /\ queue[s] \in Seq(AllKernels)
              /\ Len(queue[s]) \in Nat /\ Linked(queue[s])
          BY HeadOf DEF DeviceMoves, HostInv
        <4>2. i # 1 /\ queue[s][i].kind \in {"reset", "combine"} /\ FirstOn(queue[s], c, i)
          BY <1>4, <3>1, <3>3, <4>1 DEF FirstOn
        <4>3. CASE queue' = queue
          BY <3>1, <3>3, <4>2, <4>3 DEF Holder
        <4>4. CASE queue' = [queue EXCEPT ![s] = Tail(@)]
          <5> DEFINE t == Tail(queue[s])
          <5>1. /\ Len(t) = Len(queue[s]) - 1
                /\ \A j \in 1 .. Len(queue[s]) - 1 : t[j] = queue[s][j + 1]
            BY <4>1, LinkedTail
          <5>2. queue'[s] = t
            BY <4>4 DEF HostInv, HostTypes
          <5> HIDE DEF t
          <5>3. i \in 1 .. Len(queue[s])
            BY <3>1, <3>3
          <5>4. i - 1 \in 1 .. Len(t) /\ t[i - 1] = queue[s][i]
            BY <4>1, <4>2, <5>1, <5>3
          <5>5. ASSUME NEW j \in 1 .. i - 1 - 1 PROVE t[j].counter # c
            <6>1. j + 1 \in 1 .. i - 1 /\ j \in 1 .. Len(queue[s]) - 1
              BY <4>1, <5>3
            <6> QED
              BY <4>2, <5>1, <6>1 DEF FirstOn
          <5>6. FirstOn(t, c, i - 1)
            BY <4>2, <5>4, <5>5 DEF FirstOn
          <5>7. queue'[s][i - 1].kind \in {"reset", "combine"}
            BY <4>2, <5>2, <5>4
          <5>8. \E j \in 1 .. Len(queue'[s]) :
                    FirstOn(queue'[s], c, j) /\ queue'[s][j].kind \in {"reset", "combine"}
            BY <5>2, <5>4, <5>6, <5>7
          <5> QED
            BY <3>3, <5>8 DEF Holder
        <4> QED
          BY <4>3, <4>4 DEF DeviceMoves
      <3> QED
        BY <3>2, <3>3
    <2>3. CASE c \in doubtful
      BY <1>4, <2>3 DEF DeviceMoves, Settled
    <2>4. CASE counter[c] = 0
      BY <1>2, <1>4, <2>4 DEF DeviceMoves, Settled
    <2>5. ASSUME NEW r \in Streams, Holder(r, c) PROVE Settled(c)'
      BY <2>2, <2>5 DEF Settled
    <2> QED
      BY <2>1, <2>3, <2>4, <2>5 DEF Settled
  <1> QED
    BY <1>3, <1>4

\* Together: what a device action on s must show.
LEMMA DeviceKeeps ==
    ASSUME IInv, NEW s \in Streams, DeviceMoves(s), DeviceTypes', StreamInv(s)'
    PROVE  IInv'
  <1>1. HostInv' /\ Resting'
    BY DeviceKeepsHost, DeviceKeepsResting DEF IInv
  <1>2. ASSUME NEW r \in Streams PROVE StreamInv(r)'
    <2>1. CASE r = s
      BY <2>1
    <2>2. CASE r # s
      BY <2>2, DeviceKeepsOthers DEF IInv
    <2> QED
      BY <2>1, <2>2
  <1> QED
    BY <1>1, <1>2 DEF IInv

\* The kernel at the head of a queue ends; only work is followed by a combine kernel.
LEMMA AfterFinish ==
    ASSUME HostInv, NEW s \in Streams, queue[s] # <<>>, Finish(s), ~running'[s],
           Has(s, {"work"}) /\ sound'[s] => \A t \in AllPairs : worked'[s][t] = 1
    PROVE  /\ queue' = [queue EXCEPT ![s] = Tail(@)]
           /\ StreamInv(s)'
  <1> DEFINE q == queue[s]
             t == Tail(q)
  <1>1. /\ t \in Seq(AllKernels) /\ Linked(q)
        /\ Len(t) = Len(q) - 1 /\ Len(q) \in Nat \ {0}
        /\ \A i \in 1 .. Len(q) - 1 : t[i] = q[i + 1]
        /\ Head(q) = q[1]
    BY LinkedTail DEF HostInv, HostTypes
  <1>2. queue' = [queue EXCEPT ![s] = Tail(@)] /\ queue'[s] = t
    BY DEF Finish, HostInv, HostTypes
  <1> HIDE DEF t
  <1>3. ASSUME t # <<>>, Head(t).kind = "combine" PROVE q[1].kind = "work"
    <2>1. Head(t) = t[1] /\ Len(t) \in Nat \ {0}
      BY <1>1, <1>3, HeadTailProperties, EmptySeq, LenProperties
    <2>2. t[1] = q[2] /\ 2 \in 1 .. Len(q)
      <3>0. Len(q) \in Nat /\ Len(t) = Len(q) - 1 /\ Len(t) # 0 /\ Len(t) \in Nat
        BY <1>1, <2>1
      <3>1. 1 \in 1 .. Len(q) - 1 /\ 1 + 1 = 2 /\ 2 \in 1 .. Len(q)
        <4> HIDE DEF q
        <4> QED
          BY <3>0
      <3> QED
        BY <1>1, <2>1, <3>1
    <2> QED
      BY <1>1, <1>3, <2>1, <2>2, 2 - 1 = 1 DEF Linked
  <1>4. DoneInv(s)'
    <2>1. ASSUME t # <<>>, Head(t).kind = "combine" PROVE Has(s, {"work"})
      BY <1>1, <1>3, <2>1 DEF Has
    <2> QED
      BY <1>2, <2>1 DEF DoneInv, Has
  <1>5. RunInv(s)' /\ WorkInv(s)' /\ DecodeInv(s)'
    BY DEF RunInv, WorkInv, DecodeInv
  <1> QED
    BY <1>2, <1>4, <1>5 DEF StreamInv

\* Reset and combine kernels.
LEMMA ZeroStep ==
    ASSUME IInv, NEW s \in Streams, Reset(s) \/ Combine(s)
    PROVE  IInv'
  <1>1. /\ queue[s] # <<>> /\ Head(queue[s]).kind \in {"reset", "combine"}
        /\ counter' = [counter EXCEPT ![Current(s)] = 0]
        /\ doubtful' = doubtful \ {Current(s)}
        /\ Finish(s)
        /\ UNCHANGED <<allocated, tileCounter, decodeCounter, pool, graph, capturing, calls>>
        /\ UNCHANGED <<running, tile, worked, split, stored, combined, sound>>
    BY DEF Reset, Combine, Has, caches, progress, tickets
  <1>2. HostInv /\ DeviceTypes /\ StreamInv(s)
    BY DEF IInv
  <1>3. ~running[s]
    BY <1>1, <1>2 DEF StreamInv, RunInv, Has, WorkKinds
  <1>4. ~Has(s, {"work"})
    BY <1>1 DEF Has
  <1>5. queue' = [queue EXCEPT ![s] = Tail(@)] /\ StreamInv(s)'
    BY <1>1, <1>2, <1>3, <1>4, AfterFinish
  <1>6. Current(s) \in Counters /\ counter \in [Counters -> Nat]
    BY <1>1, <1>2, HeadOf DEF HostInv, HostTypes
  <1>7. /\ counter' \in [Counters -> Nat] /\ counter'[Current(s)] = 0
        /\ \A c \in Counters : c # Current(s) => counter'[c] = counter[c]
    BY <1>1, <1>6
  <1>8. \A c \in Nat : c = Current(s) => Settled(c)'
    BY <1>7 DEF Settled
  <1>9. \A c \in doubtful : c # Current(s) => c \in doubtful'
    BY <1>1
  <1>10. DeviceMoves(s)
    BY <1>1, <1>5, <1>7, <1>8, <1>9 DEF DeviceMoves, LocalSame
  <1>11. DeviceTypes'
    BY <1>1, <1>2 DEF DeviceTypes
  <1> QED
    BY <1>5, <1>10, <1>11, DeviceKeeps

\* A kernel that neither resets nor combines, and whose counter is not in doubt,
\* finds it at zero.
LEMMA StartsAtZero ==
    ASSUME IInv, NEW s \in Streams, queue[s] # <<>>, ~running[s],
           Head(queue[s]).kind \notin {"reset", "combine"}, Current(s) \notin doubtful
    PROVE  counter[Current(s)] = 0
  <1>1. HostInv /\ Resting
    BY DEF IInv
  <1>2. /\ Current(s) \in 1 .. allocated /\ Current(s) = queue[s][1].counter
        /\ 1 \in 1 .. Len(queue[s]) /\ Head(queue[s]) = queue[s][1]
        /\ Len(queue[s]) \in Nat \ {0}
    BY <1>1, HeadOf
  <1>3. ASSUME NEW r \in Streams, Holder(r, Current(s)) PROVE FALSE
    <2>1. PICK i \in 1 .. Len(queue[r]) :
              /\ FirstOn(queue[r], Current(s), i)
              /\ queue[r][i].kind \in {"reset", "combine"} \/ (i = 1 /\ running[r])
      BY <1>3 DEF Holder
    <2>2. CASE r = s
      <3>1. i = 1
        <4>1. ASSUME i # 1 PROVE FALSE
          <5>1. 1 \in 1 .. i - 1
            BY <1>2, <2>1, <2>2, <4>1
          <5> QED
            BY <1>2, <2>1, <2>2, <5>1 DEF FirstOn
        <4> QED
          BY <4>1
      <3> QED
        BY <1>2, <2>1, <2>2, <3>1
    <2>3. CASE r # s
      BY <1>1, <1>2, <2>1, <2>3, OneStream DEF FirstOn
    <2> QED
      BY <2>2, <2>3
  <1>4. Settled(Current(s))
    BY <1>1, <1>2 DEF Resting
  <1>5. \/ Current(s) \in doubtful \/ counter[Current(s)] = 0
        \/ \E r \in Streams : Holder(r, Current(s))
    BY <1>4 DEF Settled
  <1> QED
    BY <1>3, <1>5

\* The counter of a running kernel is in use.
LEMMA RunningHolds ==
    ASSUME HostInv, NEW s \in Streams, queue[s] # <<>>, queue' = queue, running'[s]
    PROVE  \A c \in Nat : c = Current(s) => Settled(c)'
  <1>1. /\ Current(s) = queue[s][1].counter /\ 1 \in 1 .. Len(queue[s])
    BY HeadOf
  <1>2. ASSUME NEW c \in Nat, c = Current(s) PROVE FirstOn(queue[s], c, 1)
    BY <1>1, <1>2 DEF FirstOn
  <1>3. ASSUME NEW c \in Nat, c = Current(s) PROVE Holder(s, c)'
    BY <1>1, <1>2, <1>3 DEF Holder
  <1> QED
    BY <1>3 DEF Settled

LEMMA StartWorkStep ==
    ASSUME IInv, NEW s \in Streams, StartWork(s)
    PROVE  IInv'
  <1>1. /\ queue[s] # <<>> /\ Head(queue[s]).kind \in {"work", "orphan"} /\ ~running[s]
        /\ running' = [running EXCEPT ![s] = TRUE]
        /\ tile' = [tile EXCEPT ![s] = [p \in AllPrograms |-> p]]
        /\ worked' = [worked EXCEPT ![s] = [t \in AllPairs |-> 0]]
        /\ sound' = [sound EXCEPT ![s] = Current(s) \notin doubtful]
        /\ doubtful' = IF Has(s, {"orphan"}) THEN doubtful \cup {Current(s)} ELSE doubtful
        /\ UNCHANGED <<counter, queue, split, stored, combined>>
        /\ UNCHANGED <<allocated, tileCounter, decodeCounter, pool, graph, capturing, calls>>
    BY DEF StartWork, Has, WorkKinds, caches, launches, tickets
  <1>2. HostInv /\ DeviceTypes /\ counter \in [Counters -> Nat]
    BY DEF IInv, HostInv, HostTypes
  <1>3. /\ running'[s] = TRUE
        /\ tile'[s] = [p \in AllPrograms |-> p]
        /\ worked'[s] = [t \in AllPairs |-> 0]
        /\ sound'[s] = (Current(s) \notin doubtful)
    BY <1>1, <1>2 DEF DeviceTypes
  <1>4. \A r \in Streams : r # s => LocalSame(r)
    BY <1>1, <1>2 DEF DeviceTypes, LocalSame
  <1>5. DeviceTypes'
    <2>1. [p \in AllPrograms |-> p] \in [AllPrograms -> Nat]
      BY DEF AllPrograms
    <2>2. [t \in AllPairs |-> 0] \in [AllPairs -> Nat]
      OBVIOUS
    <2>3. /\ running' \in [Streams -> BOOLEAN] /\ sound' \in [Streams -> BOOLEAN]
          /\ tile' \in [Streams -> [AllPrograms -> Nat]]
          /\ worked' \in [Streams -> [AllPairs -> Nat]]
      BY <1>1, <1>2, <2>1, <2>2 DEF DeviceTypes
    <2> QED
      BY <1>1, <1>2, <2>3 DEF DeviceTypes
  <1>6. \A c \in Nat : c = Current(s) => Settled(c)'
    BY <1>1, <1>2, <1>3, RunningHolds
  <1>7. DeviceMoves(s)
    BY <1>1, <1>2, <1>4, <1>6 DEF DeviceMoves
  <1>8. Current(s)' = Current(s)
    BY <1>1 DEF Current
  <1>9. RunInv(s)'
    <2>1. Has(s, WorkKinds \cup {"decode"})'
      BY <1>1 DEF Has, WorkKinds
    <2>2. (sound[s] \/ Current(s) \in doubtful)'
      BY <1>1, <1>3, <1>8
    <2>3. (Has(s, {"orphan"}) => Current(s) \in doubtful)'
      BY <1>1, <1>8 DEF Has
    <2> QED
      BY <2>1, <2>2, <2>3 DEF RunInv
  <1>10. WorkInv(s)'
    <2>1. ASSUME sound'[s] PROVE TilesOK(tile'[s], worked'[s], counter'[Current(s)])
      <3>1. counter[Current(s)] = 0
        BY <1>1, <1>3, <2>1, StartsAtZero
      <3> QED
        BY <1>1, <1>3, <3>1, SplitAssumption, FirstTiles
    <2> QED
      BY <1>8, <2>1 DEF WorkInv
  <1>11. DoneInv(s)' /\ DecodeInv(s)'
    BY <1>1 DEF DoneInv, DecodeInv, Has
  <1> QED
    BY <1>5, <1>7, <1>9, <1>10, <1>11, DeviceKeeps DEF StreamInv

LEMMA ClaimStep ==
    ASSUME IInv, NEW s \in Streams, NEW p \in AllPrograms, Claim(s, p)
    PROVE  IInv'
  <1> DEFINE n == counter[Current(s)]
  <1>1. /\ queue[s] # <<>> /\ Head(queue[s]).kind \in {"work", "orphan"} /\ running[s]
        /\ tile[s][p] < Tiles
        /\ worked' = [worked EXCEPT ![s][tile[s][p]] = @ + 1]
        /\ tile' = [tile EXCEPT ![s][p] = n + Programs]
        /\ counter' = [counter EXCEPT ![Current(s)] = @ + 1]
        /\ UNCHANGED <<running, queue, split, stored, combined, sound, doubtful>>
        /\ UNCHANGED <<allocated, tileCounter, decodeCounter, pool, graph, capturing, calls>>
    BY DEF Claim, Has, WorkKinds, caches, launches, tickets, history
  <1>2. HostInv /\ DeviceTypes /\ counter \in [Counters -> Nat] /\ StreamInv(s)
    BY DEF IInv, HostInv, HostTypes
  <1>3. Current(s) \in Counters /\ n \in Nat /\ Programs \in Nat /\ Tiles \in Nat
    BY <1>1, <1>2, HeadOf, SplitAssumption DEF SplitAssumption
  <1>4. /\ counter' \in [Counters -> Nat] /\ counter'[Current(s)] = n + 1
        /\ \A c \in Counters : c # Current(s) => counter'[c] = counter[c]
    BY <1>1, <1>2, <1>3
  <1>5. tile[s][p] \in AllPairs /\ tile[s] \in [AllPrograms -> Nat] /\ worked[s] \in [AllPairs -> Nat]
    BY <1>1, <1>2, <1>3 DEF DeviceTypes, AllPairs
  <1>6. /\ tile'[s] = [tile[s] EXCEPT ![p] = n + Programs]
        /\ worked'[s] = [worked[s] EXCEPT ![tile[s][p]] = @ + 1]
    BY <1>1, <1>2, <1>5 DEF DeviceTypes
  <1> HIDE DEF n
  <1>7. \A r \in Streams : r # s => LocalSame(r)
    BY <1>1, <1>2 DEF DeviceTypes, LocalSame
  <1>8. DeviceTypes'
    <2>1. tile'[s] \in [AllPrograms -> Nat]
      BY <1>3, <1>5, <1>6
    <2>2. worked'[s] \in [AllPairs -> Nat]
      BY <1>5, <1>6
    <2>3. tile' = [tile EXCEPT ![s] = tile'[s]] /\ worked' = [worked EXCEPT ![s] = worked'[s]]
      BY <1>1, <1>6
    <2>4. tile' \in [Streams -> [AllPrograms -> Nat]] /\ worked' \in [Streams -> [AllPairs -> Nat]]
      BY <1>2, <2>1, <2>2, <2>3 DEF DeviceTypes
    <2> QED
      BY <1>1, <1>2, <2>4 DEF DeviceTypes
  <1>9. running'[s]
    BY <1>1
  <1>10. DeviceMoves(s)
    <2>1. \A c \in Nat : c = Current(s) => Settled(c)'
      BY <1>1, <1>2, <1>9, RunningHolds
    <2> QED
      BY <1>1, <1>4, <1>7, <2>1 DEF DeviceMoves
  <1>11. Current(s)' = Current(s)
    BY <1>1 DEF Current
  <1>12. RunInv(s)'
    BY <1>1, <1>2, <1>11 DEF StreamInv, RunInv, Has
  <1>13. WorkInv(s)'
    <2>1. ASSUME sound[s] PROVE TilesOK(tile'[s], worked'[s], n + 1)
      <3>1. TilesOK(tile[s], worked[s], n)
        BY <1>1, <1>2, <2>1 DEF StreamInv, WorkInv, Has, WorkKinds, n
      <3>2. tile[s][p] < Tiles /\ n \in Nat
        BY <1>1, <1>3
      <3>3. TilesOK([tile[s] EXCEPT ![p] = n + Programs],
                    [worked[s] EXCEPT ![tile[s][p]] = @ + 1], n + 1)
        BY ONLY <1>5, <3>1, <3>2, SplitAssumption, NextTile
      <3> QED
        BY <1>6, <3>3
    <2> QED
      BY <1>1, <1>4, <1>11, <2>1 DEF WorkInv
  <1>14. DoneInv(s)' /\ DecodeInv(s)'
    BY <1>1 DEF DoneInv, DecodeInv, Has
  <1> QED
    BY <1>8, <1>10, <1>12, <1>13, <1>14, DeviceKeeps DEF StreamInv

LEMMA EndWorkStep ==
    ASSUME IInv, NEW s \in Streams, EndWork(s)
    PROVE  IInv'
  <1>1. /\ queue[s] # <<>> /\ Head(queue[s]).kind \in {"work", "orphan"} /\ running[s]
        /\ \A p \in AllPrograms : tile[s][p] >= Tiles
        /\ running' = [running EXCEPT ![s] = FALSE]
        /\ Finish(s)
        /\ UNCHANGED <<counter, tile, worked, split, stored, combined, sound, doubtful>>
        /\ UNCHANGED <<allocated, tileCounter, decodeCounter, pool, graph, capturing, calls>>
    BY DEF EndWork, Has, WorkKinds, caches, progress, tickets, history
  <1>2. HostInv /\ DeviceTypes /\ counter \in [Counters -> Nat] /\ StreamInv(s)
    BY DEF IInv, HostInv, HostTypes
  <1>3. /\ queue[s] \in Seq(AllKernels) /\ Linked(queue[s]) /\ Head(queue[s]) = queue[s][1]
        /\ 1 \in 1 .. Len(queue[s]) /\ Len(queue[s]) \in Nat \ {0}
        /\ Current(s) = queue[s][1].counter /\ counter[Current(s)] \in Nat
    BY <1>1, <1>2, HeadOf DEF HostInv
  <1>4. ~running'[s]
    BY <1>1, <1>2 DEF DeviceTypes
  <1>5. ASSUME Has(s, {"work"}), sound'[s] PROVE \A t \in AllPairs : worked'[s][t] = 1
    <2>1. TilesOK(tile[s], worked[s], counter[Current(s)])
      BY <1>1, <1>2, <1>5 DEF StreamInv, WorkInv, Has, WorkKinds
    <2>2. tile[s] \in [AllPrograms -> Nat]
      BY <1>2 DEF DeviceTypes
    <2> QED
      BY <1>1, <1>3, <2>1, <2>2, SplitAssumption, LastTile
  <1>6. queue' = [queue EXCEPT ![s] = Tail(@)] /\ StreamInv(s)'
    BY <1>1, <1>2, <1>4, <1>5, AfterFinish
  <1>7. ASSUME NEW c \in Nat, c = Current(s) PROVE Settled(c)'
    <2>1. CASE Head(queue[s]).kind = "orphan"
      <3>1. Current(s) \in doubtful
        BY <1>1, <1>2, <2>1 DEF StreamInv, RunInv, Has
      <3> QED
        BY <1>1, <1>7, <3>1 DEF Settled
    <2>2. CASE Head(queue[s]).kind = "work"
      <3> DEFINE q == queue[s]
                 t == Tail(q)
      <3>1. 1 < Len(q) /\ q[2].counter = q[1].counter /\ q[2].kind \in {"reset", "combine"}
        BY <1>3, <2>2, 1 + 1 = 2 DEF Linked
      <3>2. Len(t) = Len(q) - 1 /\ \A i \in 1 .. Len(q) - 1 : t[i] = q[i + 1]
        BY <1>1, <1>3, LinkedTail
      <3>3. queue'[s] = t
        BY <1>2, <1>6 DEF HostInv, HostTypes
      <3> HIDE DEF t
      <3>4. 1 \in 1 .. Len(t) /\ t[1] = q[2]
        <4>1. 1 \in 1 .. Len(q) - 1 /\ 1 + 1 = 2
          BY <1>3, <3>1
        <4> QED
          BY <3>2, <4>1
      <3>5. FirstOn(t, c, 1)
        BY <1>3, <1>7, <3>1, <3>4 DEF FirstOn
      <3>6. Holder(s, c)'
        BY <3>1, <3>3, <3>4, <3>5 DEF Holder
      <3> QED
        BY <3>6 DEF Settled
    <2> QED
      BY <1>1, <2>1, <2>2
  <1>8. \A r \in Streams : r # s => LocalSame(r)
    BY <1>1, <1>2 DEF DeviceTypes, LocalSame
  <1>9. DeviceMoves(s)
    BY <1>1, <1>2, <1>6, <1>7, <1>8 DEF DeviceMoves
  <1>10. DeviceTypes'
    BY <1>1, <1>2 DEF DeviceTypes
  <1> QED
    BY <1>6, <1>9, <1>10, DeviceKeeps

LEMMA StartDecodeStep ==
    ASSUME IInv, NEW s \in Streams, StartDecode(s)
    PROVE  IInv'
  <1>1. /\ queue[s] # <<>> /\ Head(queue[s]).kind = "decode" /\ ~running[s]
        /\ running' = [running EXCEPT ![s] = TRUE]
        /\ split' = [split EXCEPT ![s] = [i \in AllSplits |-> "store"]]
        /\ stored' = [stored EXCEPT ![s] = {}]
        /\ combined' = [combined EXCEPT ![s] = {}]
        /\ sound' = [sound EXCEPT ![s] = Current(s) \notin doubtful]
        /\ UNCHANGED <<counter, queue, tile, worked, doubtful>>
        /\ UNCHANGED <<allocated, tileCounter, decodeCounter, pool, graph, capturing, calls>>
    BY DEF StartDecode, Has, caches, launches, progress
  <1>2. HostInv /\ DeviceTypes /\ counter \in [Counters -> Nat]
    BY DEF IInv, HostInv, HostTypes
  <1>3. /\ running'[s] = TRUE
        /\ split'[s] = [i \in AllSplits |-> "store"]
        /\ stored'[s] = {} /\ combined'[s] = {}
        /\ sound'[s] = (Current(s) \notin doubtful)
    BY <1>1, <1>2 DEF DeviceTypes
  <1>4. \A r \in Streams : r # s => LocalSame(r)
    BY <1>1, <1>2 DEF DeviceTypes, LocalSame
  <1>5. DeviceTypes'
    <2>1. [i \in AllSplits |-> "store"] \in [AllSplits -> Places]
      BY DEF Places
    <2>2. /\ running' \in [Streams -> BOOLEAN] /\ sound' \in [Streams -> BOOLEAN]
          /\ split' \in [Streams -> [AllSplits -> Places]]
          /\ stored' \in [Streams -> SUBSET AllSplits]
          /\ combined' \in [Streams -> SUBSET AllSplits]
      BY <1>1, <1>2, <2>1 DEF DeviceTypes
    <2> QED
      BY <1>1, <1>2, <2>2 DEF DeviceTypes
  <1>6. \A c \in Nat : c = Current(s) => Settled(c)'
    BY <1>1, <1>2, <1>3, RunningHolds
  <1>7. DeviceMoves(s)
    BY <1>1, <1>2, <1>4, <1>6 DEF DeviceMoves
  <1>8. Current(s)' = Current(s)
    BY <1>1 DEF Current
  <1>9. RunInv(s)'
    <2>1. Has(s, WorkKinds \cup {"decode"})' /\ ~Has(s, {"orphan"})'
      BY <1>1 DEF Has
    <2>2. (sound[s] \/ Current(s) \in doubtful)'
      BY <1>1, <1>3, <1>8
    <2> QED
      BY <2>1, <2>2 DEF RunInv
  <1>10. DecodeInv(s)'
    <2>1. ASSUME sound'[s] PROVE TicketsOK(split'[s], combined'[s], counter'[Current(s)])
      <3>1. counter[Current(s)] = 0
        BY <1>1, <1>3, <2>1, StartsAtZero
      <3> QED
        BY <1>1, <1>3, <3>1, SplitAssumption, FirstTickets
    <2>2. stored'[s] = {i \in AllSplits : split'[s][i] # "store"}
      BY <1>3
    <2> QED
      BY <1>8, <2>1, <2>2 DEF DecodeInv
  <1>11. DoneInv(s)' /\ WorkInv(s)'
    BY <1>1 DEF DoneInv, WorkInv, Has, WorkKinds
  <1> QED
    BY <1>5, <1>7, <1>9, <1>10, <1>11, DeviceKeeps DEF StreamInv

\* What the steps of the CTAs of the decode kernel have in common.
LEMMA SplitMoves ==
    ASSUME IInv, NEW s \in Streams, NEW i \in AllSplits, NEW place \in Places,
           Has(s, {"decode"}), running[s],
           split' = [split EXCEPT ![s][i] = place],
           NEW n \in Nat,
           \/ counter' = counter /\ n = counter[Current(s)]
           \/ counter' = [counter EXCEPT ![Current(s)] = n],
           stored' \in [Streams -> SUBSET AllSplits],
           combined' \in [Streams -> SUBSET AllSplits],
           \A r \in Streams : r # s => stored'[r] = stored[r] /\ combined'[r] = combined[r],
           stored'[s] = {j \in AllSplits : split'[s][j] # "store"},
           sound[s] => TicketsOK([split[s] EXCEPT ![i] = place], combined'[s], n),
           UNCHANGED <<caches, launches, running, progress, history>>
    PROVE  IInv'
  <1>1. /\ queue[s] # <<>> /\ Head(queue[s]).kind = "decode"
        /\ UNCHANGED <<running, queue, tile, worked, sound, doubtful>>
        /\ UNCHANGED <<allocated, tileCounter, decodeCounter, pool, graph, capturing, calls>>
    BY DEF Has, caches, launches, progress, history
  <1>2. HostInv /\ DeviceTypes /\ counter \in [Counters -> Nat] /\ StreamInv(s)
    BY DEF IInv, HostInv, HostTypes
  <1>3. Current(s) \in Counters
    BY <1>1, <1>2, HeadOf
  <1>4. /\ counter' \in [Counters -> Nat] /\ counter'[Current(s)] = n
        /\ \A c \in Counters : c # Current(s) => counter'[c] = counter[c]
    BY <1>2, <1>3
  <1>5. /\ split'[s] = [split[s] EXCEPT ![i] = place]
        /\ split' \in [Streams -> [AllSplits -> Places]]
        /\ \A r \in Streams : r # s => split'[r] = split[r]
    BY <1>2 DEF DeviceTypes
  <1>6. \A r \in Streams : r # s => LocalSame(r)
    BY <1>1, <1>5 DEF LocalSame
  <1>7. DeviceTypes'
    BY <1>1, <1>2, <1>5 DEF DeviceTypes
  <1>8. \A c \in Nat : c = Current(s) => Settled(c)'
    BY <1>1, <1>2, RunningHolds
  <1>9. DeviceMoves(s)
    BY <1>1, <1>4, <1>6, <1>8 DEF DeviceMoves
  <1>10. Current(s)' = Current(s)
    BY <1>1 DEF Current
  <1>11. RunInv(s)'
    BY <1>1, <1>2, <1>10 DEF StreamInv, RunInv, Has
  <1>12. DecodeInv(s)'
    BY <1>1, <1>4, <1>5, <1>10 DEF DecodeInv
  <1>13. DoneInv(s)' /\ WorkInv(s)'
    BY <1>1 DEF DoneInv, WorkInv, Has, WorkKinds
  <1> QED
    BY <1>7, <1>9, <1>11, <1>12, <1>13, DeviceKeeps DEF StreamInv

\* What is known before such a step.
LEMMA SplitFacts ==
    ASSUME IInv, NEW s \in Streams, Has(s, {"decode"}), running[s]
    PROVE  /\ counter \in [Counters -> Nat] /\ Current(s) \in Counters
           /\ counter[Current(s)] \in Nat
           /\ split \in [Streams -> [AllSplits -> Places]]
           /\ split[s] \in [AllSplits -> Places]
           /\ stored \in [Streams -> SUBSET AllSplits]
           /\ combined \in [Streams -> SUBSET AllSplits]
           /\ stored[s] = {i \in AllSplits : split[s][i] # "store"}
           /\ sound[s] => TicketsOK(split[s], combined[s], counter[Current(s)])
  <1>1. HostInv /\ DeviceTypes /\ StreamInv(s) /\ counter \in [Counters -> Nat]
    BY DEF IInv, HostInv, HostTypes
  <1>2. queue[s] # <<>>
    BY DEF Has
  <1>3. Current(s) \in Counters /\ counter[Current(s)] \in Nat
    BY <1>1, <1>2, HeadOf
  <1> QED
    BY <1>1, <1>3 DEF StreamInv, DecodeInv, DeviceTypes

LEMMA StorePartialStep ==
    ASSUME IInv, NEW s \in Streams, NEW i \in AllSplits, StorePartial(s, i)
    PROVE  IInv'
  <1>1. /\ Has(s, {"decode"}) /\ running[s] /\ split[s][i] = "store"
        /\ stored' = [stored EXCEPT ![s] = @ \cup {i}]
        /\ split' = [split EXCEPT ![s][i] = "ticket"]
        /\ counter' = counter /\ combined' = combined
        /\ UNCHANGED <<caches, launches, running, progress, history>>
    BY DEF StorePartial, At, Goto
  <1>2. /\ counter[Current(s)] \in Nat
        /\ split \in [Streams -> [AllSplits -> Places]]
        /\ split[s] \in [AllSplits -> Places]
        /\ stored \in [Streams -> SUBSET AllSplits]
        /\ combined \in [Streams -> SUBSET AllSplits]
        /\ stored[s] = {j \in AllSplits : split[s][j] # "store"}
        /\ sound[s] => TicketsOK(split[s], combined[s], counter[Current(s)])
    BY <1>1, SplitFacts
  <1>3. sound[s] => TicketsOK([split[s] EXCEPT ![i] = "ticket"], combined'[s], counter[Current(s)])
    BY <1>1, <1>2, StoreTickets
  <1>4. stored'[s] = {j \in AllSplits : split'[s][j] # "store"}
    <2>1. split'[s][i] = "ticket" /\ \A j \in AllSplits : j # i => split'[s][j] = split[s][j]
      BY <1>1, <1>2
    <2>2. stored'[s] = stored[s] \cup {i}
      BY <1>1, <1>2
    <2> QED
      BY <1>2, <2>1, <2>2
  <1>5. /\ stored' \in [Streams -> SUBSET AllSplits]
        /\ \A r \in Streams : r # s => stored'[r] = stored[r]
    BY <1>1, <1>2
  <1>6. "ticket" \in Places
    BY DEF Places
  <1> QED
    BY <1>1, <1>2, <1>3, <1>4, <1>5, <1>6, SplitMoves

LEMMA TicketStep ==
    ASSUME IInv, NEW s \in Streams, NEW i \in AllSplits, Ticket(s, i)
    PROVE  IInv'
  <1> DEFINE n == counter[Current(s)]
             place == IF n = Splits - 1 THEN "combine" ELSE "end"
  <1>1. /\ Has(s, {"decode"}) /\ running[s] /\ split[s][i] = "ticket"
        /\ counter' = [counter EXCEPT ![Current(s)] = n + 1]
        /\ split' = [split EXCEPT ![s][i] = place]
        /\ stored' = stored /\ combined' = combined
        /\ UNCHANGED <<caches, launches, running, progress, history>>
    BY DEF Ticket, At, Goto
  <1>2. /\ n \in Nat
        /\ split \in [Streams -> [AllSplits -> Places]]
        /\ split[s] \in [AllSplits -> Places]
        /\ stored \in [Streams -> SUBSET AllSplits]
        /\ combined \in [Streams -> SUBSET AllSplits]
        /\ stored[s] = {j \in AllSplits : split[s][j] # "store"}
        /\ sound[s] => TicketsOK(split[s], combined[s], n)
    BY <1>1, SplitFacts
  <1> HIDE DEF n
  <1>3. sound[s] => TicketsOK([split[s] EXCEPT ![i] = place], combined[s], n + 1)
    BY <1>1, <1>2, SplitAssumption, TakeTicket
  <1>4. place \in Places /\ place # "store"
    BY DEF Places
  <1> HIDE DEF place
  <1>5. stored'[s] = {j \in AllSplits : split'[s][j] # "store"}
    <2>1. split'[s][i] = place /\ \A j \in AllSplits : j # i => split'[s][j] = split[s][j]
      BY <1>1, <1>2
    <2> QED
      BY <1>1, <1>2, <1>4, <2>1
  <1>6. n + 1 \in Nat
    BY <1>2
  <1> QED
    BY <1>1, <1>2, <1>3, <1>4, <1>5, <1>6, SplitMoves

LEMMA CombineSplitsStep ==
    ASSUME IInv, NEW s \in Streams, NEW i \in AllSplits, CombineSplits(s, i)
    PROVE  IInv'
  <1>1. /\ Has(s, {"decode"}) /\ running[s] /\ split[s][i] = "combine"
        /\ combined' = [combined EXCEPT ![s] = @ \cup {i}]
        /\ split' = [split EXCEPT ![s][i] = "reset"]
        /\ counter' = counter /\ stored' = stored
        /\ UNCHANGED <<caches, launches, running, progress, history>>
    BY DEF CombineSplits, At, Goto
  <1>2. /\ counter[Current(s)] \in Nat
        /\ split \in [Streams -> [AllSplits -> Places]]
        /\ split[s] \in [AllSplits -> Places]
        /\ stored \in [Streams -> SUBSET AllSplits]
        /\ combined \in [Streams -> SUBSET AllSplits]
        /\ stored[s] = {j \in AllSplits : split[s][j] # "store"}
        /\ sound[s] => TicketsOK(split[s], combined[s], counter[Current(s)])
    BY <1>1, SplitFacts
  <1>3. /\ combined'[s] = combined[s] \cup {i}
        /\ combined' \in [Streams -> SUBSET AllSplits]
        /\ \A r \in Streams : r # s => combined'[r] = combined[r]
    BY <1>1, <1>2
  <1>4. sound[s] => TicketsOK([split[s] EXCEPT ![i] = "reset"], combined'[s], counter[Current(s)])
    BY <1>1, <1>2, <1>3, CombineTickets
  <1>5. stored'[s] = {j \in AllSplits : split'[s][j] # "store"}
    <2>1. split'[s][i] = "reset" /\ \A j \in AllSplits : j # i => split'[s][j] = split[s][j]
      BY <1>1, <1>2
    <2> QED
      BY <1>1, <1>2, <2>1
  <1>6. "reset" \in Places
    BY DEF Places
  <1> QED
    BY <1>1, <1>2, <1>3, <1>4, <1>5, <1>6, SplitMoves

LEMMA ResetTicketStep ==
    ASSUME IInv, NEW s \in Streams, NEW i \in AllSplits, ResetTicket(s, i)
    PROVE  IInv'
  <1>1. /\ Has(s, {"decode"}) /\ running[s] /\ split[s][i] = "reset"
        /\ counter' = [counter EXCEPT ![Current(s)] = 0]
        /\ split' = [split EXCEPT ![s][i] = "end"]
        /\ stored' = stored /\ combined' = combined
        /\ UNCHANGED <<caches, launches, running, progress, history>>
    BY DEF ResetTicket, At, Goto
  <1>2. /\ split \in [Streams -> [AllSplits -> Places]]
        /\ split[s] \in [AllSplits -> Places]
        /\ stored \in [Streams -> SUBSET AllSplits]
        /\ combined \in [Streams -> SUBSET AllSplits]
        /\ stored[s] = {j \in AllSplits : split[s][j] # "store"}
        /\ sound[s] => TicketsOK(split[s], combined[s], counter[Current(s)])
    BY <1>1, SplitFacts
  <1>3. sound[s] => TicketsOK([split[s] EXCEPT ![i] = "end"], combined[s], 0)
    BY <1>1, <1>2, CombineTickets
  <1>4. stored'[s] = {j \in AllSplits : split'[s][j] # "store"}
    <2>1. split'[s][i] = "end" /\ \A j \in AllSplits : j # i => split'[s][j] = split[s][j]
      BY <1>1, <1>2
    <2> QED
      BY <1>1, <1>2, <2>1
  <1>5. "end" \in Places
    BY DEF Places
  <1> QED
    BY <1>1, <1>2, <1>3, <1>4, <1>5, SplitMoves

LEMMA EndDecodeStep ==
    ASSUME IInv, NEW s \in Streams, EndDecode(s)
    PROVE  IInv'
  <1>1. /\ \A i \in AllSplits : split[s][i] = "end"
        /\ running' = [running EXCEPT ![s] = FALSE]
        /\ Finish(s)
        /\ UNCHANGED <<counter, tile, worked, split, stored, combined, sound, doubtful>>
        /\ UNCHANGED <<allocated, tileCounter, decodeCounter, pool, graph, capturing, calls>>
    BY DEF EndDecode, At, caches, progress, tickets, history
  <1>2. Has(s, {"decode"}) /\ running[s]
    BY SplitAssumption, SplitsCounted DEF EndDecode, At
  <1>3. HostInv /\ DeviceTypes /\ counter \in [Counters -> Nat] /\ StreamInv(s)
    BY DEF IInv, HostInv, HostTypes
  <1>4. ~running'[s] /\ queue[s] # <<>> /\ ~Has(s, {"work"})
    BY <1>1, <1>2, <1>3 DEF DeviceTypes, Has
  <1>5. queue' = [queue EXCEPT ![s] = Tail(@)] /\ StreamInv(s)'
    BY <1>1, <1>3, <1>4, AfterFinish
  <1>6. Current(s) \in doubtful \/ counter[Current(s)] = 0
    <2>1. CASE sound[s]
      <3>1. TicketsOK(split[s], combined[s], counter[Current(s)])
        BY <1>2, <2>1, SplitFacts
      <3> QED
        BY <1>1, <3>1, SplitAssumption, AllTicketsEnd
    <2>2. CASE ~sound[s]
      BY <1>2, <1>3, <2>2 DEF StreamInv, RunInv
    <2> QED
      BY <2>1, <2>2
  <1>7. \A c \in Nat : c = Current(s) => Settled(c)'
    BY <1>1, <1>6 DEF Settled
  <1>8. \A r \in Streams : r # s => LocalSame(r)
    BY <1>1, <1>3 DEF DeviceTypes, LocalSame
  <1>9. DeviceMoves(s)
    BY <1>1, <1>3, <1>4, <1>5, <1>7, <1>8 DEF DeviceMoves
  <1>10. DeviceTypes'
    BY <1>1, <1>3 DEF DeviceTypes
  <1> QED
    BY <1>5, <1>9, <1>10, DeviceKeeps

-----------------------------------------------------------------------------
(* The invariant.                                                          *)

LEMMA InitHolds == Init => IInv
  <1> SUFFICES ASSUME Init PROVE IInv
    OBVIOUS
  <1>0. /\ MaxCounters \in Nat /\ Programs \in Nat /\ Tiles \in Nat
    BY SplitAssumption DEF SplitAssumption
  <1>1. \A s \in Streams : queue[s] = <<>> /\ running[s] = FALSE
    BY DEF Init
  <1>2. HostTypes
    BY <1>0 DEF Init, HostTypes
  <1>3. \A o \in Owners : \A c \in Nat : ~Owns(o, c)
    BY DEF Init, Owns
  <1>4. OwnedOnce /\ PoolFree
    <2>1. OwnedOnce
      BY <1>3 DEF OwnedOnce
    <2>2. PoolFree
      BY DEF Init, PoolFree
    <2> QED
      BY <2>1, <2>2
  <1>5. Apart
    BY <1>1 DEF Apart
  <1>6. Linked(<<>>) /\ Fresh(<<>>) /\ Owned(<<>>)
    BY DEF Linked, Fresh, Owned
  <1>7. HostInv
    BY <1>1, <1>2, <1>4, <1>5, <1>6 DEF HostInv, Init
  <1>8. DeviceTypes
    <2>1. \A p \in AllPrograms : p \in Nat
      BY <1>0 DEF AllPrograms
    <2> QED
      BY <2>1 DEF Init, DeviceTypes, Places
  <1>9. ASSUME NEW s \in Streams PROVE StreamInv(s)
    BY <1>1 DEF StreamInv, RunInv, WorkInv, DoneInv, DecodeInv, Has
  <1>10. Resting
    BY DEF Init, Resting
  <1> QED
    BY <1>7, <1>8, <1>9, <1>10 DEF IInv

LEMMA DeviceStep ==
    ASSUME IInv, Device
    PROVE  IInv'
  <1>1. PICK s \in Streams :
            \/ Reset(s) \/ StartWork(s) \/ EndWork(s) \/ Combine(s)
            \/ \E p \in AllPrograms : Claim(s, p)
            \/ StartDecode(s) \/ EndDecode(s)
            \/ \E i \in AllSplits :
                   StorePartial(s, i) \/ Ticket(s, i) \/ CombineSplits(s, i) \/ ResetTicket(s, i)
    BY DEF Device
  <1>2. CASE Reset(s) \/ Combine(s)
    BY <1>2, ZeroStep
  <1>3. CASE StartWork(s)
    BY <1>3, StartWorkStep
  <1>4. CASE EndWork(s)
    BY <1>4, EndWorkStep
  <1>5. CASE \E p \in AllPrograms : Claim(s, p)
    BY <1>5, ClaimStep
  <1>6. CASE StartDecode(s)
    BY <1>6, StartDecodeStep
  <1>7. CASE EndDecode(s)
    BY <1>7, EndDecodeStep
  <1>8. ASSUME NEW i \in AllSplits,
               StorePartial(s, i) \/ Ticket(s, i) \/ CombineSplits(s, i) \/ ResetTicket(s, i)
        PROVE  IInv'
    BY <1>8, StorePartialStep, TicketStep, CombineSplitsStep, ResetTicketStep
  <1> QED
    BY <1>1, <1>2, <1>3, <1>4, <1>5, <1>6, <1>7, <1>8

LEMMA IdleStep ==
    ASSUME IInv, UNCHANGED vars
    PROVE  IInv'
  <1>1. /\ UNCHANGED <<counter, caches, queue, graph, calls, running, progress, tickets, history>>
        /\ capturing' = capturing
    BY DEF vars, launches
  <1>2. HostInv
    BY DEF IInv
  <1>3. capturing' \in [Streams -> Graphs \cup {NoGraph}]
    BY <1>1, <1>2 DEF HostInv, HostTypes
  <1>4. HostInv' /\ HostMoves
    BY <1>1, <1>2, <1>3, CaptureStep
  <1> QED
    BY <1>4, HostKeepsDevice DEF IInv

\* The invariant holds in every reachable state.
THEOREM SplitInvariant == Spec => []IInv
  <1>1. ASSUME IInv, [Next]_vars PROVE IInv'
    <2>1. CASE Host
      <3>1. HostInv' /\ HostMoves
        BY <1>1, <2>1, SplitAssumption, HostStep DEF IInv
      <3> QED
        BY <1>1, <3>1, HostKeepsDevice DEF IInv
    <2>2. CASE Device
      BY <1>1, <2>2, DeviceStep
    <2>3. CASE UNCHANGED vars
      BY <1>1, <2>3, IdleStep
    <2> QED
      BY <1>1, <2>1, <2>2, <2>3 DEF Next
  <1> QED
    BY <1>1, InitHolds, PTL DEF Spec

\* Whatever the number of programs and pairs and the order of their claims, a
\* combine kernel finds every pair worked exactly once, unless the counter of
\* the launch was in doubt.
THEOREM PairsAreWorkedOnce == Spec => []PairsWorkedOnce
  <1>1. IInv => PairsWorkedOnce
    BY DEF IInv, StreamInv, DoneInv, PairsWorkedOnce
  <1> QED
    BY <1>1, SplitInvariant, PTL

\* Whatever the number of splits and the order of their tickets, the CTA that
\* combines finds all partial results in memory, and one CTA combines.
THEOREM SplitsAreCombinedOnce == Spec => []SplitsCombinedOnce
  <1>1. ASSUME IInv PROVE SplitsCombinedOnce
    <2> SUFFICES ASSUME NEW s \in Streams, Has(s, {"decode"}), running[s], sound[s]
                 PROVE  /\ \A i \in AllSplits : split[s][i] = "combine" => stored[s] = AllSplits
                        /\ (\A i \in AllSplits : split[s][i] = "end") =>
                               \E i \in AllSplits : combined[s] = {i}
      BY DEF SplitsCombinedOnce
    <2>1. /\ split[s] \in [AllSplits -> Places]
          /\ stored[s] = {i \in AllSplits : split[s][i] # "store"}
          /\ TicketsOK(split[s], combined[s], counter[Current(s)])
      BY <1>1, SplitFacts
    <2>2. ASSUME NEW i \in AllSplits, split[s][i] = "combine" PROVE stored[s] = AllSplits
      <3>1. \A j \in AllSplits : j # i => split[s][j] = "end"
        BY <2>1, <2>2, OneCombines
      <3> QED
        BY <2>1, <2>2, <3>1
    <2>3. ASSUME \A i \in AllSplits : split[s][i] = "end"
          PROVE  \E i \in AllSplits : combined[s] = {i}
      BY <2>1, <2>3, SplitAssumption, AllTicketsEnd
    <2> QED
      BY <2>2, <2>3
  <1> QED
    BY <1>1, SplitInvariant, PTL

\* A counter that no queued kernel uses is zero, unless a failed call or a capture
\* has left it in doubt: a replay needs no initialisation.
THEOREM CountersComeToRest == Spec => []CountersRest
  <1>1. ASSUME IInv PROVE CountersRest
    <2> SUFFICES ASSUME NEW c \in 1 .. allocated
                 PROVE  \/ c \in doubtful
                        \/ \E s \in Streams : \E i \in DOMAIN queue[s] : queue[s][i].counter = c
                        \/ counter[c] = 0
      BY DEF CountersRest
    <2>1. Settled(c)
      BY <1>1 DEF IInv, Resting
    <2>2. ASSUME NEW s \in Streams, Holder(s, c)
          PROVE  \E i \in DOMAIN queue[s] : queue[s][i].counter = c
      <3>1. queue[s] \in Seq(AllKernels)
        BY <1>1 DEF IInv, HostInv, HostTypes
      <3>2. DOMAIN queue[s] = 1 .. Len(queue[s])
        BY <3>1, LenProperties
      <3> QED
        BY <2>2, <3>2 DEF Holder, FirstOn
    <2> QED
      BY <2>1, <2>2 DEF Settled
  <1> QED
    BY <1>1, SplitInvariant, PTL
=============================================================================
