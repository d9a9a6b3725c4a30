--------------------------- MODULE NcThreadProofs ---------------------------
(* The thread management of the pthread library for any number of threads,  *)
(* blocks and ids, and any programs.                                        *)
EXTENDS NcThread, FunctionTheorems, FiniteSetTheorems, SequenceTheorems,
        WellFoundedInduction, TLAPS

-----------------------------------------------------------------------------
(* The inductive invariants.                                                *)

Queued(m) == {m.queue[k] : k \in 1 .. Len(m.queue)}

(* Places of a creator whose thread is not started, and started.            *)
Preparing == {"allocated", "create_failed"}
Waiting == {"join_wait", "join_woken"}

(* A created thread that has not given its TLS area back, and one that has  *)
(* not got it yet, because it is not started.                               *)
Child(x) == x # Main /\ HasTdb(x)
Holder(x) == Child(x) \/ \E c \in Threads : pc[c] \in Preparing /\ on[c] = x

(* The stack that the TLS area of a thread names.                           *)
StackOf(x) == tdb[basic[x].tdb].stack

(* Where a thread is fits what its locals and ghosts say.                   *)
Places ==
  /\ pc[Main] \notin {"unborn", "exiting", "leaving"}
  /\ \A c \in Threads :
       /\ pc[c] \in Preparing \cup {"started", "uncounted"} =>
            on[c] \in Threads /\ on[c] # Main /\ parent[on[c]] = c
       /\ pc[c] \in Preparing => pc[on[c]] = "unborn"
       /\ pc[c] \in Waiting => on[c] \in Threads /\ meant[c] \in Threads

(* The TLS area of a thread is its own: it points back to it.               *)
TdbOwned ==
  /\ \A x \in Threads :
       Holder(x) => /\ basic[x].live
                    /\ basic[x].tdb \in mem["tls"].heap \ Queued(mem["tls"])
                    /\ tdb[basic[x].tdb].basic_data = x
  /\ basic[Main].live /\ basic[Main].tdb = MainTls /\ basic[Main].id = 0
  /\ tdb[MainTls].basic_data = Main
  /\ \A t \in Threads : HasTdb(t) => regs[t].gs = basic[t].tdb
  /\ \A t \in Threads : basic[t].terminated => basic[t].tdb = NoBlock
  /\ \A t \in Threads : pc[t] = "exiting" => saved[t].basic_data = t

(* The stack of a thread is its own; that of a leaving thread is queued and *)
(* in use.                                                                  *)
StackOwned ==
  /\ \A x \in Threads :
       Holder(x) /\ StackOf(x) # NoBlock =>
         /\ StackOf(x) \in mem["stack"].heap \ Queued(mem["stack"])
         /\ StackOf(x) \in mem["stack"].used
         /\ \A y \in Threads : Holder(y) /\ StackOf(y) = StackOf(x) => y = x
  /\ \A t \in Threads :
       /\ Child(t) => regs[t].sp # NoBlock /\ regs[t].sp = StackOf(t)
       /\ pc[t] = "allocated" => StackOf(on[t]) # NoBlock
       /\ pc[t] = "exiting" => saved[t].stack = regs[t].sp
       /\ pc[t] = "leaving" =>
            /\ saved[t].stack = regs[t].sp
            /\ regs[t].sp \in Queued(mem["stack"]) \cap mem["stack"].used
            /\ \A u \in Threads : pc[u] = "leaving" /\ regs[u].sp = regs[t].sp => u = t

(* What is queued is queued once.                                           *)
NoneTwice(q) == \A i, j \in 1 .. Len(q) : q[i] = q[j] => i = j
QueuesSound ==
  \A ty \in {"stack", "tls"} :
    NoneTwice(mem[ty].queue) /\ Queued(mem[ty]) \subseteq mem[ty].heap

(* And nothing is lost.                                                     *)
NoneLost ==
  /\ \A b \in mem["tls"].heap :
       b \in Queued(mem["tls"]) \/ \E x \in Threads : Holder(x) /\ basic[x].tdb = b
  /\ \A b \in mem["stack"].heap :
       b \in Queued(mem["stack"]) \/ \E x \in Threads : Holder(x) /\ StackOf(x) = b

Ownership == Places /\ TdbOwned /\ StackOwned /\ QueuesSound /\ NoneLost

(* Ids: those of the table are below the counter until it has been through  *)
(* all of them.                                                             *)
IdsBelow ==
  /\ \A x, y \in table : basic[x].id = basic[y].id => x = y
  /\ \A x \in table : basic[x].live /\ basic[x].id # IllegalId
  /\ ~wrapped => \A x \in table : basic[x].id < nextId
  /\ \A x \in table : x # Main => parent[x] # NoThread
  /\ nextId # 0

(* What a joiner finds of a thread: alive and joinable, or ended with its   *)
(* value.                                                                   *)
Joinable(x) ==
  /\ basic[x].live /\ basic[x].id # IllegalId
  /\ HasTdb(x) => tdb[basic[x].tdb].joinable
  /\ pc[x] = "exiting" => saved[x].joinable
  /\ ~HasTdb(x) => basic[x].tdb = NoBlock /\ basic[x].terminated

(* What holds when each thread is joined or detached once: the data of a    *)
(* thread that has not been is there, under its id, and says how it ended;  *)
(* and so is that of a thread somebody waits for.                           *)
InTable(x) == basic[x].live /\ basic[x].id # IllegalId => x \in table
Returned(x) == basic[x].live /\ basic[x].tdb = NoBlock => basic[x].retval = x
Unclaimed(x) ==
  x \notin claimed =>
    /\ pc[x] # "unborn" => /\ Joinable(x)
                           /\ HasTdb(x) => ~tdb[basic[x].tdb].join_waiting
    /\ handle[x] # NoId => pc[x] # "unborn" /\ handle[x] = basic[x].id
Prepared(c) ==
  /\ pc[c] = "allocated" => basic[on[c]].id # IllegalId
  /\ pc[c] \in Preparing /\ on[c] \notin claimed =>
       tdb[basic[on[c]].tdb].joinable /\ ~tdb[basic[on[c]].tdb].join_waiting
  /\ pc[c] = "started" => pc[on[c]] # "unborn"
Awaited(t) ==
  pc[t] \in Waiting =>
    /\ on[t] \in claimed /\ meant[t] = on[t] /\ pc[on[t]] # "unborn"
    /\ Joinable(on[t])
    /\ \A u \in Threads : pc[u] \in Waiting /\ on[u] = on[t] => u = t
ClaimedOnce ==
  /\ \A x \in Threads :
       InTable(x) /\ Returned(x) /\ Unclaimed(x) /\ Prepared(x) /\ Awaited(x)
  /\ \A d \in delivered : d[1] = d[2]
Claims == program.one_claim => ClaimedOnce

(* Only the main thread creates threads, ...                                *)
OnlyMainCreates ==
  program.creators \subseteq {Main} =>
    /\ \A c \in Threads :
         pc[c] \in Preparing \cup {"started", "uncounted"} => c = Main
    /\ ShutdownWaitsForAll

-----------------------------------------------------------------------------
(* The caches of memory blocks.                                             *)

(* A set of numbers that is not empty has a least one.                      *)
LEMMA LeastNumber ==
  ASSUME NEW T, T \subseteq Nat, T # {}
  PROVE  \E x \in T : \A y \in T : x <= y
<1>1. PICK x \in T : \A y \in T : ~(<<y, x>> \in OpToRel(<, Nat))
  BY WFMin, NatLessThanWellFounded
<1>2. ASSUME NEW y \in T PROVE x <= y
  <2>1. <<y, x>> \in Nat \X Nat OBVIOUS
  <2>2. ~(y < x) BY <1>1, <2>1 DEF OpToRel
  <2> QED BY <2>2
<1> QED BY <1>2

(* The trimming loop stops, and has passed no block that is in use.         *)
LEMMA TrimStops ==
  ASSUME NEW q \in Seq(Blocks), NEW used
  PROVE  /\ TrimCount(q, used) \in 0 .. Len(q)
         /\ \A j \in 1 .. TrimCount(q, used) : q[j] \notin used
<1> DEFINE Stops(k) == Len(q) - k <= MaxCachedMemoryBlocks \/ q[k + 1] \in used
           T == {k \in 0 .. Len(q) : Stops(k)}
           Passed(k) == /\ k = 0 \/ k <= Len(q) - MaxCachedMemoryBlocks
                        /\ \A j \in 1 .. k : q[j] \notin used
                        /\ Stops(k)
<1>1. Len(q) \in Nat BY LenProperties
<1>2. Len(q) \in T BY <1>1, LimitsAssumption
<1>3. T \subseteq Nat /\ T # {} BY <1>1, <1>2
<1>4. PICK k \in T : \A y \in T : k <= y BY <1>3, LeastNumber
<1>5. ASSUME NEW j \in 0 .. k - 1 PROVE ~Stops(j)
  <2>1. j \in 0 .. Len(q) /\ ~(k <= j) BY <1>1, <1>4
  <2> QED BY <1>4, <2>1
<1>6. Passed(k)
  <2>1. k = 0 \/ k <= Len(q) - MaxCachedMemoryBlocks
    <3>1. CASE k # 0
      <4>a. k - 1 \in 0 .. k - 1 BY <1>3, <3>1
      <4>1. ~Stops(k - 1) BY <1>5, <4>a
      <4> QED BY <4>1, <1>1, <1>4, LimitsAssumption
    <3> QED BY <3>1
  <2>2. ASSUME NEW j \in 1 .. k PROVE q[j] \notin used
    <3>1. ~Stops(j - 1) BY <1>5, <1>4
    <3> QED BY <3>1
  <2> QED BY <2>1, <2>2, <1>4
<1>7. /\ TrimCount(q, used) \in 0 .. Len(q)
      /\ Passed(TrimCount(q, used))
  BY <1>4, <1>6 DEF TrimCount
<1> QED BY <1>7

(* A cache of which no block is queued twice and all that is queued is      *)
(* malloc'ed.                                                               *)
SoundCache(m) == m \in Cache /\ NoneTwice(m.queue) /\ Queued(m) \subseteq m.heap

(* What allocating from a cache gives and leaves: a block that nobody uses, *)
(* and every block that is in use where it was.                             *)
Allocates(m, b, n) ==
  /\ SoundCache(n)
  /\ b \in Blocks /\ b \in n.heap /\ b \notin Queued(n)
  /\ n.used = m.used \cup {b}
  /\ b \notin m.heap \/ (b \in Queued(m) /\ b \notin m.used)
  /\ m.heap \ Queued(m) \subseteq n.heap
  /\ Queued(n) \subseteq Queued(m)
  /\ Queued(m) \cap m.used \subseteq Queued(n)
  /\ \A x \in n.heap : x \in Queued(n) \/ x = b \/ x \in m.heap \ Queued(m)

(* Both outcomes of nc_allocate_memory_block_mu do.                         *)
LEMMA AllocateBlock ==
  ASSUME NEW m, SoundCache(m), NEW a \in nc_allocate_memory_block_mu(m)
  PROVE  Allocates(m, a.node, a.cache)
<1> DEFINE q == m.queue
           n == Len(q)
<1>1. /\ q \in Seq(Blocks) /\ m.used \in SUBSET Blocks /\ m.heap \in SUBSET Blocks
      /\ m = [queue |-> q, used |-> m.used, heap |-> m.heap]
  BY DEF SoundCache, Cache
<1>2. n \in Nat /\ \A j \in 1 .. n : q[j] \in Blocks
  BY <1>1, LenProperties, ElementOfSeq
<1>3. CASE q # <<>> /\ Head(q) \notin m.used
  <2> DEFINE rest == Tail(q)
             k == TrimCount(rest, m.used)
             left == SubSeq(rest, k + 1, Len(rest))
  <2>1. /\ rest \in Seq(Blocks) /\ Len(rest) = n - 1 /\ Head(q) = q[1]
        /\ \A j \in 1 .. n - 1 : rest[j] = q[j + 1]
    BY <1>1, <1>3, HeadTailProperties
  <2>2. k \in 0 .. n - 1 /\ \A j \in 1 .. k : rest[j] \notin m.used
    BY <2>1, TrimStops
  <2> HIDE DEF k
  <2>3. n >= 1 BY <1>1, <1>2, <1>3, EmptySeq
  <2>4. /\ left \in Seq(Blocks) /\ Len(left) = n - 1 - k
        /\ \A j \in 1 .. n - 1 - k : left[j] = rest[k + j]
    <3>1. \A j \in 1 .. n - 1 : rest[j] \in Blocks BY <1>2, <2>1, <2>3
    <3>2. \A j \in k + 1 .. Len(rest) : rest[j] \in Blocks BY <2>1, <2>2, <3>1
    <3>3. k + 1 \in Int /\ Len(rest) \in Int /\ 1 .. Len(rest) = 1 .. n - 1
      BY <1>2, <2>1, <2>2
    <3>4. \A j \in k + 1 .. Len(rest) : j \in 1 .. Len(rest)
      BY <1>2, <2>1, <2>2
    <3>5. /\ left \in Seq(Blocks)
          /\ Len(left) = IF k + 1 <= Len(rest) THEN Len(rest) - (k + 1) + 1 ELSE 0
          /\ \A j \in 1 .. Len(rest) - (k + 1) + 1 : left[j] = rest[(k + 1) + j - 1]
      BY <2>1, <2>2, <3>3, <1>2, SubSeqProperties
    <3> QED BY <3>5, <1>2, <2>1, <2>2
  <2>5. \A j \in 1 .. n - 1 - k : left[j] = q[k + j + 1] /\ k + j + 1 \in 1 .. n
    BY <2>1, <2>2, <2>4, <1>2
  <2>6. /\ a.node = q[1]
        /\ a.cache = [queue |-> left, used |-> m.used \cup {q[1]},
                      heap |-> m.heap \ {rest[j] : j \in 1 .. k}]
    <3>1. a \in {[node |-> Head(q),
                  cache |-> [queue |-> left, used |-> m.used \cup {Head(q)},
                             heap |-> m.heap \ {rest[j] : j \in 1 .. k}]]}
      BY <1>3, Zenon DEF nc_allocate_memory_block_mu, k
    <3> HIDE DEF left, rest
    <3> QED BY <2>1, <3>1
  <2> HIDE DEF left, rest
  <2>7. \A x, y \in 1 .. n : q[x] = q[y] => x = y
    BY DEF SoundCache, NoneTwice
  <2>8. Queued(m) = {q[j] : j \in 1 .. n} /\ Queued(m) \subseteq m.heap
    BY DEF SoundCache, Queued
  <2>9. Queued(a.cache) = {left[j] : j \in 1 .. n - 1 - k}
    BY <2>4, <2>6 DEF Queued
  <2>10. a.cache \in Cache
    BY <1>1, <1>2, <2>3, <2>4, <2>6 DEF Cache
  <2>11. NoneTwice(a.cache.queue)
    <3> SUFFICES ASSUME NEW x \in 1 .. n - 1 - k, NEW y \in 1 .. n - 1 - k, left[x] = left[y]
                 PROVE  x = y
      BY <2>4, <2>6 DEF NoneTwice
    <3>1. q[k + x + 1] = q[k + y + 1] BY <2>5
    <3>2. k + x + 1 = k + y + 1 BY <2>5, <2>7, <3>1
    <3> QED BY <3>2, <2>2, <1>2
  <2>12. ASSUME NEW j \in 1 .. n - 1 - k
         PROVE  /\ left[j] \in Queued(m) /\ left[j] # q[1]
                /\ \A x \in 1 .. k : left[j] # rest[x]
    <3>1. left[j] = q[k + j + 1] /\ k + j + 1 \in 1 .. n BY <2>5
    <3>2. k + j + 1 # 1 BY <2>2, <1>2
    <3>3. left[j] # q[1] BY <3>1, <3>2, <2>7, <2>3, <1>2
    <3>4. ASSUME NEW x \in 1 .. k PROVE left[j] # rest[x]
      <4>1. rest[x] = q[x + 1] /\ x + 1 \in 1 .. n /\ x + 1 # k + j + 1
        BY <2>1, <2>2, <1>2
      <4> QED BY <3>1, <4>1, <2>7
    <3> QED BY <3>1, <3>3, <3>4, <2>8
  <2>13. Queued(a.cache) \subseteq a.cache.heap /\ Queued(a.cache) \subseteq Queued(m)
         /\ q[1] \notin Queued(a.cache)
    BY <2>6, <2>8, <2>9, <2>12
  <2>14. ASSUME NEW j \in 1 .. n
         PROVE  \/ q[j] = q[1]
                \/ \E x \in 1 .. k : q[j] = rest[x]
                \/ q[j] \in Queued(a.cache)
    <3>1. CASE j = 1 BY <3>1
    <3>2. CASE j > 1 /\ j <= k + 1
      <4>1. j - 1 \in 1 .. k /\ j - 1 \in 1 .. n - 1 /\ (j - 1) + 1 = j
        BY <3>2, <2>2, <1>2
      <4>2. rest[j - 1] = q[j] BY <4>1, <2>1
      <4> QED BY <4>1, <4>2
    <3>3. CASE j > k + 1
      <4>1. j - k - 1 \in 1 .. n - 1 - k /\ k + (j - k - 1) + 1 = j
        BY <3>3, <2>2, <1>2
      <4>2. left[j - k - 1] = q[j] BY <4>1, <2>5
      <4> QED BY <4>1, <4>2, <2>9
    <3> QED BY <3>1, <3>2, <3>3, <2>2, <1>2
  <2>15. \A x \in 1 .. k : rest[x] \in Queued(m) /\ rest[x] \notin m.used /\ rest[x] # q[1]
    <3> SUFFICES ASSUME NEW x \in 1 .. k
                 PROVE  rest[x] \in Queued(m) /\ rest[x] \notin m.used /\ rest[x] # q[1]
      OBVIOUS
    <3>1. rest[x] = q[x + 1] /\ x + 1 \in 1 .. n /\ x + 1 # 1 BY <2>1, <2>2, <1>2
    <3> QED BY <3>1, <2>2, <2>3, <2>7, <2>8, <1>2
  <2>16. q[1] \in Queued(m) /\ q[1] \notin m.used /\ q[1] \in Blocks /\ q[1] \in m.heap
    BY <1>2, <1>3, <2>1, <2>3, <2>8
  <2>17. q[1] \in a.cache.heap BY <2>6, <2>15, <2>16
  <2>18. m.heap \ Queued(m) \subseteq a.cache.heap BY <2>6, <2>15
  <2>19. Queued(m) \cap m.used \subseteq Queued(a.cache)
    BY <2>8, <2>14, <2>15, <2>16
  <2>20. \A b \in a.cache.heap :
           b \in Queued(a.cache) \/ b = a.node \/ b \in m.heap \ Queued(m)
    BY <2>6, <2>8, <2>14
  <2> QED
    BY <2>6, <2>10, <2>11, <2>13, <2>16, <2>17, <2>18, <2>19, <2>20
       DEF Allocates, SoundCache
<1>4. CASE ~(q # <<>> /\ Head(q) \notin m.used)
  <2>1. PICK b \in Blocks \ m.heap :
          a = [node |-> b, cache |-> [m EXCEPT !.used = @ \cup {b}, !.heap = @ \cup {b}]]
    <3>1. a \in {[node |-> b, cache |-> [m EXCEPT !.used = @ \cup {b}, !.heap = @ \cup {b}]] :
                   b \in Blocks \ m.heap}
      BY <1>4, Zenon DEF nc_allocate_memory_block_mu
    <3> QED BY <3>1
  <2>2. /\ a.cache \in Cache /\ a.cache.queue = m.queue
        /\ a.cache.used = m.used \cup {b} /\ a.cache.heap = m.heap \cup {b}
    <3>1. m \in [queue : Seq(Blocks), used : SUBSET Blocks, heap : SUBSET Blocks] /\ b \in Blocks
      BY DEF SoundCache, Cache
    <3>2. a.cache = [m EXCEPT !.used = @ \cup {b}, !.heap = @ \cup {b}] BY <2>1
    <3> HIDE DEF q, n
    <3> QED BY ONLY <3>1, <3>2 DEF Cache
  <2>3. Queued(a.cache) = Queued(m) BY <2>2 DEF Queued
  <2>4. SoundCache(a.cache) /\ b \notin Queued(a.cache)
    BY <2>1, <2>2, <2>3 DEF SoundCache
  <2>5. a.node = b /\ b \in Blocks /\ b \notin m.heap BY <2>1
  <2> QED BY ONLY <2>2, <2>3, <2>4, <2>5 DEF Allocates
<1> QED BY <1>3, <1>4

(* A block given back is queued behind the others.                          *)
LEMMA FreeBlock ==
  ASSUME NEW m, SoundCache(m), NEW b \in m.heap, b \notin Queued(m),
         NEW a, a = nc_free_memory_block_mu(m, b)
  PROVE  /\ SoundCache(a) /\ a.heap = m.heap /\ a.used = m.used
         /\ Queued(a) = Queued(m) \cup {b}
<1> DEFINE n == Len(m.queue)
<1>1. /\ m.queue \in Seq(Blocks) /\ m.heap \subseteq Blocks /\ b \in Blocks
      /\ m = [queue |-> m.queue, used |-> m.used, heap |-> m.heap]
  BY DEF SoundCache, Cache
<1>2. a = [queue |-> Append(m.queue, b), used |-> m.used, heap |-> m.heap]
  BY <1>1 DEF nc_free_memory_block_mu
<1>3. /\ Append(m.queue, b) \in Seq(Blocks) /\ Len(Append(m.queue, b)) = n + 1
      /\ \A j \in 1 .. n : Append(m.queue, b)[j] = m.queue[j]
      /\ Append(m.queue, b)[n + 1] = b /\ n \in Nat
  BY <1>1, AppendProperties, LenProperties
<1>4. a \in Cache BY <1>1, <1>2, <1>3 DEF Cache, SoundCache
<1>5. Queued(m) = {m.queue[j] : j \in 1 .. n} BY DEF Queued
<1>6. Queued(a) = Queued(m) \cup {b}
  <2>1. Queued(a) = {Append(m.queue, b)[j] : j \in 1 .. n + 1}
    BY <1>2, <1>3 DEF Queued
  <2>2. 1 .. n + 1 = (1 .. n) \cup {n + 1} BY <1>3
  <2> QED BY <2>1, <2>2, <1>3, <1>5
<1>7. NoneTwice(a.queue)
  <2> SUFFICES ASSUME NEW x \in 1 .. n + 1, NEW y \in 1 .. n + 1,
                      Append(m.queue, b)[x] = Append(m.queue, b)[y]
               PROVE  x = y
    BY <1>2, <1>3 DEF NoneTwice
  <2>1. \A j \in 1 .. n : m.queue[j] # b BY <1>5
  <2>2. \A u, v \in 1 .. n : m.queue[u] = m.queue[v] => u = v
    BY DEF SoundCache, NoneTwice
  <2>3. (x \in 1 .. n \/ x = n + 1) /\ (y \in 1 .. n \/ y = n + 1) BY <1>3
  <2> QED BY <1>3, <2>1, <2>2, <2>3
<1>8. Queued(m) \subseteq m.heap BY DEF SoundCache
<1>9. a.heap = m.heap /\ a.used = m.used BY <1>2
<1> QED BY ONLY <1>4, <1>6, <1>7, <1>8, <1>9, b \in m.heap DEF SoundCache

-----------------------------------------------------------------------------
(* Types.                                                                   *)

(* A pair of caches is what the library keeps.                              *)
LEMMA CachePair ==
  ASSUME NEW a \in Cache, NEW b \in Cache, NEW m, m = [stack |-> a, tls |-> b]
  PROVE  m \in [{"stack", "tls"} -> Cache] /\ m["stack"] = a /\ m["tls"] = b
OBVIOUS

(* The caches are sound.                                                    *)
LEMMA SoundCaches ==
  ASSUME TypeOK, QueuesSound
  PROVE  SoundCache(mem["stack"]) /\ SoundCache(mem["tls"])
BY DEF TypeOK, QueuesSound, SoundCache

(* A counter that is below its last value stays in range.                   *)
LEMMA AdvanceTyped ==
  ASSUME TypeOK, AdvanceIds
  PROVE  nextId' \in Ids /\ wrapped' \in BOOLEAN
BY LimitsAssumption DEF TypeOK, AdvanceIds, Ids

(* What nc_allocate_thread_id_mu gives is an id or the illegal one.         *)
LEMMA AllocatedTyped ==
  ASSUME TypeOK
  PROVE  /\ AllocatedId \in Ids \cup {IllegalId}
         /\ AllocatedId # IllegalId /\ wrapped => AllocatedId \in FreeIds
<1>1. FreeIds \subseteq Ids /\ Ids \subseteq Nat
  BY LimitsAssumption DEF FreeIds, Ids
<1>2. CASE FreeIds = {} BY <1>2 DEF TypeOK, AllocatedId
<1>3. CASE FreeIds # {}
  <2>1. \E i \in FreeIds : \A j \in FreeIds : i <= j BY <1>1, <1>3, LeastNumber
  <2>2. (CHOOSE i \in FreeIds : \A j \in FreeIds : i <= j) \in FreeIds BY <2>1, Zenon
  <2> QED BY <1>1, <1>3, <2>2 DEF TypeOK, AllocatedId
<1> QED BY <1>2, <1>3

(* Releasing basic data keeps the types.                                    *)
LEMMA ReleaseTyped ==
  ASSUME TypeOK, NEW bs \in [Threads -> BasicData], NEW x \in Threads,
         nc_release_basic_data_mu(bs, x)
  PROVE  /\ basic' \in [Threads -> BasicData] /\ table' \subseteq table
         /\ \A y \in Threads : /\ basic'[y].tdb = bs[y].tdb /\ basic'[y].id = bs[y].id
                               /\ basic'[y].terminated = bs[y].terminated
                               /\ basic'[y].retval = bs[y].retval
                               /\ y # x => basic'[y] = bs[y]
         /\ ~basic'[x].live
<1> DEFINE r == [bs[x] EXCEPT !.live = FALSE]
<1>1. bs[x] \in BasicData OBVIOUS
<1>2. /\ r \in BasicData /\ r.tdb = bs[x].tdb /\ r.id = bs[x].id
      /\ r.terminated = bs[x].terminated /\ r.retval = bs[x].retval /\ r.live = FALSE
  BY <1>1 DEF BasicData
<1>3. basic' = [bs EXCEPT ![x] = r] BY DEF nc_release_basic_data_mu
<1>4. table' \subseteq table BY DEF nc_release_basic_data_mu
<1> HIDE DEF r
<1> QED BY <1>2, <1>3, <1>4

(* The TLS area that %gs points to is the thread's own, and so is that of a *)
(* thread that is not started.                                              *)
LEMMA OwnArea ==
  ASSUME TypeOK, TdbOwned
  PROVE  /\ \A t \in Threads : HasTdb(t) =>
              /\ regs[t].gs = basic[t].tdb /\ basic[t].tdb \in Sites
              /\ tdb[basic[t].tdb].basic_data = t /\ basic[t].live
         /\ \A x \in Threads : Holder(x) =>
              /\ basic[x].tdb \in Blocks /\ basic[x].tdb \in Sites
              /\ tdb[basic[x].tdb].basic_data = x
<1>1. mem["tls"] \in Cache BY DEF TypeOK
<1>2. mem["tls"].heap \subseteq Blocks BY <1>1 DEF Cache
<1>3. \A x \in Threads : Holder(x) => basic[x].tdb \in Blocks
  BY <1>2 DEF TdbOwned
<1>4. \A x \in Threads : Holder(x) => tdb[basic[x].tdb].basic_data = x /\ basic[x].live
  BY DEF TdbOwned
<1>5. \A t \in Threads : HasTdb(t) /\ t # Main => Holder(t)
  BY DEF Holder, Child
<1>6. basic[Main].tdb = MainTls /\ tdb[MainTls].basic_data = Main /\ basic[Main].live
  BY DEF TdbOwned
<1>7. \A t \in Threads : HasTdb(t) => regs[t].gs = basic[t].tdb
  BY DEF TdbOwned
<1> QED BY <1>3, <1>4, <1>5, <1>6, <1>7 DEF Sites

(* A block that is no longer in use is queued behind the others.            *)
LEMMA FreeUnused ==
  ASSUME NEW m, SoundCache(m), NEW b \in m.heap, b \notin Queued(m),
         NEW a, a = nc_free_memory_block_mu(ClearUsed(m, b), b)
  PROVE  /\ SoundCache(a) /\ a.heap = m.heap /\ a.used = m.used \ {b}
         /\ Queued(a) = Queued(m) \cup {b}
<1> DEFINE n == ClearUsed(m, b)
<1>1. m \in Cache BY DEF SoundCache
<1>2. n \in Cache /\ n.queue = m.queue /\ n.heap = m.heap /\ n.used = m.used \ {b}
  BY <1>1 DEF Cache, ClearUsed
<1> HIDE DEF n
<1>3. Queued(n) = Queued(m) BY <1>2 DEF Queued
<1>4. SoundCache(n) BY <1>2, <1>3 DEF SoundCache
<1>5. a = nc_free_memory_block_mu(n, b) BY DEF n
<1> QED BY <1>2, <1>3, <1>4, <1>5, FreeBlock

(* The failure path of pthread_create gives back what the thread would have *)
(* used.                                                                    *)
LEMMA CleanupEffect ==
  ASSUME TypeOK, Places, TdbOwned, StackOwned, QueuesSound,
         NEW c \in Threads, CreateCleanup(c),
         NEW x, x = on[c], NEW b, b = basic[x].tdb, NEW s, s = tdb[b].stack
  PROVE  /\ x \in Threads /\ x # Main /\ Holder(x) /\ b \in Blocks
         /\ basic' \in [Threads -> BasicData] /\ table' \subseteq table
         /\ basic'[x].tdb = NoBlock /\ ~basic'[x].live
         /\ basic'[x].id = basic[x].id /\ basic'[x].terminated = basic[x].terminated
         /\ \A y \in Threads : y # x => basic'[y] = basic[y]
         /\ tdb' \in [Sites -> Descriptor]
         /\ \A y \in Sites : y # b => tdb'[y] = tdb[y]
         /\ mem' \in [{"stack", "tls"} -> Cache]
         /\ SoundCache(mem'["tls"]) /\ SoundCache(mem'["stack"])
         /\ mem'["tls"].heap = mem["tls"].heap
         /\ Queued(mem'["tls"]) = Queued(mem["tls"]) \cup {b}
         /\ s = NoBlock => mem'["stack"] = mem["stack"]
         /\ s # NoBlock => /\ mem'["stack"].heap = mem["stack"].heap
                           /\ mem'["stack"].used = mem["stack"].used \ {s}
                           /\ Queued(mem'["stack"]) = Queued(mem["stack"]) \cup {s}
<1> DEFINE bs == [basic EXCEPT ![tdb[b].basic_data].tdb = NoBlock]
<1>1. x \in Threads /\ x # Main /\ Holder(x)
  BY DEF CreateCleanup, Places, Preparing, Holder
<1>2. b \in Blocks /\ tdb[b].basic_data = x /\ b \in Sites BY <1>1, OwnArea
<1>3. basic[x] \in BasicData BY <1>1 DEF TypeOK
<1>4. [basic[x] EXCEPT !.tdb = NoBlock] \in BasicData BY <1>3 DEF BasicData
<1>5. bs = [basic EXCEPT ![x] = [basic[x] EXCEPT !.tdb = NoBlock]] BY <1>2
<1>8. nc_release_basic_data_mu(bs, x) BY DEF CreateCleanup
<1> HIDE DEF bs
<1>6. /\ bs \in [Threads -> BasicData]
      /\ \A y \in Threads : y # x => bs[y] = basic[y]
      /\ bs[x] = [basic[x] EXCEPT !.tdb = NoBlock]
  BY <1>1, <1>4, <1>5 DEF TypeOK
<1>7. /\ bs[x].tdb = NoBlock /\ bs[x].id = basic[x].id
      /\ bs[x].terminated = basic[x].terminated
  BY <1>3, <1>6 DEF BasicData
<1>9. /\ basic' \in [Threads -> BasicData] /\ table' \subseteq table
      /\ basic'[x].tdb = NoBlock /\ ~basic'[x].live
      /\ basic'[x].id = basic[x].id /\ basic'[x].terminated = basic[x].terminated
      /\ \A y \in Threads : y # x => basic'[y] = basic[y]
  <2>1. /\ basic' \in [Threads -> BasicData] /\ table' \subseteq table
        /\ \A y \in Threads : /\ basic'[y].tdb = bs[y].tdb /\ basic'[y].id = bs[y].id
                              /\ basic'[y].terminated = bs[y].terminated
                              /\ basic'[y].retval = bs[y].retval
                              /\ y # x => basic'[y] = bs[y]
        /\ ~basic'[x].live
    BY ONLY TypeOK, <1>1, <1>6, <1>8, ReleaseTyped
  <2> QED BY ONLY <1>1, <1>6, <1>7, <2>1, Zenon
<1>10. /\ tdb' \in [Sites -> Descriptor]
       /\ \A y \in Sites : y # b => tdb'[y] = tdb[y]
  BY <1>2, ThreadsAssumption DEF CreateCleanup, TypeOK, DeadTdb, FreshTdb, Descriptor
<1>11. SoundCache(mem["stack"]) /\ SoundCache(mem["tls"]) BY SoundCaches
<1> DEFINE ft == nc_free_memory_block_mu(ClearUsed(mem["tls"], b), b)
           fs == ReleaseStack(mem["stack"], s)
<1>12. /\ SoundCache(ft) /\ ft.heap = mem["tls"].heap
       /\ Queued(ft) = Queued(mem["tls"]) \cup {b}
  <2>1. b \in mem["tls"].heap /\ b \notin Queued(mem["tls"]) BY <1>1 DEF TdbOwned
  <2> QED BY <1>11, <2>1, FreeUnused
<1>13. /\ SoundCache(fs)
       /\ s = NoBlock => fs = mem["stack"]
       /\ s # NoBlock => /\ fs.heap = mem["stack"].heap
                         /\ fs.used = mem["stack"].used \ {s}
                         /\ Queued(fs) = Queued(mem["stack"]) \cup {s}
  <2>1. CASE s = NoBlock BY <1>11, <2>1 DEF ReleaseStack
  <2>2. CASE s # NoBlock
    <3>1. s \in mem["stack"].heap /\ s \notin Queued(mem["stack"])
      BY <1>1, <2>2 DEF StackOwned, StackOf
    <3>2. fs = nc_free_memory_block_mu(ClearUsed(mem["stack"], s), s)
      BY <2>2 DEF ReleaseStack
    <3> HIDE DEF fs, ft
    <3> QED BY ONLY <1>11, <2>2, <3>1, <3>2, FreeUnused
  <2> QED BY <2>1, <2>2
<1>14. mem' = [stack |-> fs, tls |-> ft] BY DEF CreateCleanup
<1> HIDE DEF fs, ft
<1>15. mem' \in [{"stack", "tls"} -> Cache] /\ mem'["stack"] = fs /\ mem'["tls"] = ft
  BY <1>12, <1>13, <1>14, CachePair DEF SoundCache
<1> QED BY ONLY <1>1, <1>2, <1>9, <1>10, <1>12, <1>13, <1>15

(* The basic data that pthread_exit of t leaves for y.                      *)
EndedData(b, y, t, j) ==
  [b EXCEPT ![y].retval = t, ![y].terminated = (@ \/ j), ![y].tdb = NoBlock]

(* What it holds.                                                           *)
LEMMA ExitData ==
  ASSUME NEW b \in [Threads -> BasicData], NEW y \in Threads, NEW t \in Threads,
         NEW j \in BOOLEAN, NEW bs, bs = EndedData(b, y, t, j)
  PROVE  /\ bs \in [Threads -> BasicData]
         /\ \A x \in Threads : x # y => bs[x] = b[x]
         /\ bs[y].retval = t /\ bs[y].tdb = NoBlock /\ bs[y].id = b[y].id
         /\ bs[y].live = b[y].live /\ (j => bs[y].terminated)
<1> DEFINE b1 == [b EXCEPT ![y].retval = t]
           b2 == [b1 EXCEPT ![y].terminated = (@ \/ j)]
           b3 == [b2 EXCEPT ![y].tdb = NoBlock]
<1>1. bs = b3 BY DEF EndedData
<1>2. /\ b1 \in [Threads -> BasicData]
      /\ \A x \in Threads : x # y => b1[x] = b[x]
      /\ b1[y].retval = t /\ b1[y].id = b[y].id /\ b1[y].live = b[y].live
  BY DEF BasicData
<1> HIDE DEF b1
<1>3. /\ b2 \in [Threads -> BasicData]
      /\ \A x \in Threads : x # y => b2[x] = b1[x]
      /\ b2[y].retval = b1[y].retval /\ b2[y].id = b1[y].id /\ b2[y].live = b1[y].live
      /\ (j => b2[y].terminated)
  <2> DEFINE r == [b1[y] EXCEPT !.terminated = (b1[y].terminated \/ j)]
  <2>1. b1[y] \in BasicData BY <1>2
  <2>2. /\ r \in BasicData /\ r.retval = b1[y].retval /\ r.id = b1[y].id
        /\ r.live = b1[y].live /\ (j => r.terminated)
    BY <2>1 DEF BasicData
  <2>3. b2 = [b1 EXCEPT ![y] = r] OBVIOUS
  <2> HIDE DEF r, b2
  <2> QED BY <1>2, <2>2, <2>3
<1> HIDE DEF b2
<1>4. /\ b3 \in [Threads -> BasicData]
      /\ \A x \in Threads : x # y => b3[x] = b2[x]
      /\ b3[y].retval = b2[y].retval /\ b3[y].id = b2[y].id /\ b3[y].live = b2[y].live
      /\ b3[y].terminated = b2[y].terminated /\ b3[y].tdb = NoBlock
  BY <1>3 DEF BasicData
<1> HIDE DEF b3
<1> QED BY ONLY <1>1, <1>2, <1>3, <1>4

(* Who goes on where when a thread leaves: it, the joiner it wakes and the  *)
(* main thread.                                                             *)
LEMMA ExitPlaces ==
  ASSUME TypeOK, NEW t \in Threads, ExitLocked(t), t # Main
  PROVE  /\ pc' \in [Threads -> PCs] /\ pc'[t] = "leaving"
         /\ \A u \in Threads : u # t =>
              \/ pc'[u] = pc[u]
              \/ pc[u] = "join_wait" /\ pc'[u] = "join_woken"
              \/ u = Main /\ pc[u] = "shutdown_wait" /\ pc'[u] = "shutdown"
<1> DEFINE Left(p) ==
      /\ p \in [Threads -> PCs] /\ p[t] = "leaving"
      /\ \A u \in Threads : u # t =>
           p[u] = pc[u] \/ (pc[u] = "join_wait" /\ p[u] = "join_woken")
<1>1. \E p : Left(p) /\ pc' = WakeMain(p, running')
  <2>1. CASE saved[t].joinable
    <3>1. PICK woken \in Signalled(saved[t].basic_data) :
            pc' = WakeMain([u \in Threads |-> IF u = t THEN "leaving"
                                              ELSE IF u \in woken THEN "join_woken"
                                              ELSE pc[u]], running')
      BY <2>1 DEF ExitLocked
    <3> DEFINE p == [u \in Threads |-> IF u = t THEN "leaving"
                                       ELSE IF u \in woken THEN "join_woken"
                                       ELSE pc[u]]
    <3>2. \A u \in woken : pc[u] = "join_wait"
      BY DEF Signalled
    <3>3. Left(p) BY <3>2 DEF TypeOK, PCs
    <3> QED BY <3>1, <3>3
  <2>2. CASE ~saved[t].joinable
    <3> DEFINE p == [pc EXCEPT ![t] = "leaving"]
    <3>1. Left(p) BY DEF TypeOK, PCs
    <3>2. pc' = WakeMain(p, running') BY <2>2 DEF ExitLocked
    <3> QED BY <3>1, <3>2
  <2> QED BY <2>1, <2>2
<1>2. PICK p : Left(p) /\ pc' = WakeMain(p, running') BY <1>1
<1>3. CASE running' = 1 /\ p[Main] = "shutdown_wait"
  <2>1. pc' = [p EXCEPT ![Main] = "shutdown"] BY <1>2, <1>3 DEF WakeMain
  <2>2. pc[Main] = "shutdown_wait" BY <1>2, <1>3, ThreadsAssumption
  <2> QED BY <1>2, <2>1, <2>2, ThreadsAssumption DEF PCs
<1>4. CASE ~(running' = 1 /\ p[Main] = "shutdown_wait")
  <2>1. pc' = p BY <1>2, <1>4 DEF WakeMain
  <2> QED BY <1>2, <2>1
<1> QED BY <1>3, <1>4

(* The critical section of pthread_exit: the TLS area is given back unused, *)
(* the stack still in use.                                                  *)
LEMMA ExitEffect ==
  ASSUME TypeOK, Places, TdbOwned, StackOwned, QueuesSound,
         NEW t \in Threads, ExitLocked(t),
         NEW b, b = regs[t].gs, NEW s, s = regs[t].sp
  PROVE  /\ pc[t] = "exiting" /\ t # Main /\ Child(t) /\ b = basic[t].tdb /\ b \in Blocks
         /\ s = StackOf(t) /\ s # NoBlock /\ saved[t].stack = s /\ saved[t].basic_data = t
         /\ basic' \in [Threads -> BasicData] /\ table' \subseteq table
         /\ basic'[t].tdb = NoBlock /\ basic'[t].id = basic[t].id /\ basic'[t].retval = t
         /\ saved[t].joinable => /\ basic'[t].live = basic[t].live /\ basic'[t].terminated
                                 /\ table' = table
         /\ ~saved[t].joinable => ~basic'[t].live
         /\ \A y \in Threads : y # t => basic'[y] = basic[y]
         /\ tdb' \in [Sites -> Descriptor]
         /\ \A y \in Sites : y # b => tdb'[y] = tdb[y]
         /\ mem' \in [{"stack", "tls"} -> Cache]
         /\ SoundCache(mem'["tls"]) /\ SoundCache(mem'["stack"])
         /\ mem'["tls"].heap = mem["tls"].heap
         /\ Queued(mem'["tls"]) = Queued(mem["tls"]) \cup {b}
         /\ mem'["stack"].heap = mem["stack"].heap
         /\ mem'["stack"].used = mem["stack"].used
         /\ Queued(mem'["stack"]) = Queued(mem["stack"]) \cup {s}
<1> DEFINE j == saved[t].joinable
           bs == [basic EXCEPT ![saved[t].basic_data].retval = t,
                               ![saved[t].basic_data].terminated = (@ \/ j),
                               ![saved[t].basic_data].tdb = NoBlock]
<1>1. pc[t] = "exiting" BY DEF ExitLocked
<1>2. t # Main /\ Child(t) /\ Holder(t) /\ saved[t].basic_data = t /\ saved[t].stack = s
  BY <1>1 DEF Places, TdbOwned, StackOwned, Child, HasTdb, Holder
<1>3. b = basic[t].tdb /\ b \in Blocks /\ b \in Sites
  BY <1>2, OwnArea DEF Child
<1>4. s = StackOf(t) /\ s # NoBlock BY <1>2 DEF StackOwned
<1>5. j \in BOOLEAN BY DEF TypeOK
<1>6. basic \in [Threads -> BasicData] BY DEF TypeOK
<1>7. /\ bs \in [Threads -> BasicData]
      /\ \A x \in Threads : x # t => bs[x] = basic[x]
      /\ bs[t].retval = t /\ bs[t].tdb = NoBlock /\ bs[t].id = basic[t].id
      /\ bs[t].live = basic[t].live /\ (j => bs[t].terminated)
  <2>1. bs = EndedData(basic, t, t, j) BY <1>2, Zenon DEF EndedData
  <2> HIDE DEF bs, j
  <2> QED BY ONLY <1>5, <1>6, <2>1, t \in Threads, ExitData
<1>8. /\ j => basic' = bs /\ table' = table
      /\ ~j => nc_release_basic_data_mu(bs, t)
  BY <1>2 DEF ExitLocked
<1> HIDE DEF bs
<1>9. /\ basic' \in [Threads -> BasicData] /\ table' \subseteq table
      /\ basic'[t].tdb = NoBlock /\ basic'[t].id = basic[t].id /\ basic'[t].retval = t
      /\ j => /\ basic'[t].live = basic[t].live /\ basic'[t].terminated
              /\ table' = table
      /\ ~j => ~basic'[t].live
      /\ \A y \in Threads : y # t => basic'[y] = basic[y]
  <2>1. CASE j BY <1>7, <1>8, <2>1, Zenon
  <2>2. CASE ~j
    <3>1. /\ basic' \in [Threads -> BasicData] /\ table' \subseteq table
          /\ \A y \in Threads : /\ basic'[y].tdb = bs[y].tdb /\ basic'[y].id = bs[y].id
                                /\ basic'[y].terminated = bs[y].terminated
                                /\ basic'[y].retval = bs[y].retval
                                /\ y # t => basic'[y] = bs[y]
          /\ ~basic'[t].live
      BY ONLY TypeOK, <1>7, <1>8, <2>2, t \in Threads, ReleaseTyped
    <3> QED BY ONLY <1>7, <2>2, <3>1, t \in Threads, Zenon
  <2> QED BY <2>1, <2>2
<1>10. /\ tdb' \in [Sites -> Descriptor]
       /\ \A y \in Sites : y # b => tdb'[y] = tdb[y]
  BY <1>3, ThreadsAssumption DEF ExitLocked, TypeOK, DeadTdb, FreshTdb, Descriptor
<1>11. SoundCache(mem["stack"]) /\ SoundCache(mem["tls"]) BY SoundCaches
<1> DEFINE ft == nc_free_memory_block_mu(ClearUsed(mem["tls"], b), b)
           fs == nc_free_memory_block_mu(mem["stack"], s)
<1>12. b \in mem["tls"].heap /\ b \notin Queued(mem["tls"]) BY <1>2, <1>3 DEF TdbOwned
<1>13. s \in mem["stack"].heap /\ s \notin Queued(mem["stack"])
  BY <1>2, <1>4 DEF StackOwned
<1>14. mem' = [stack |-> fs, tls |-> ft] BY <1>2 DEF ExitLocked
<1>15. /\ SoundCache(ft) /\ ft.heap = mem["tls"].heap
       /\ Queued(ft) = Queued(mem["tls"]) \cup {b}
  BY ONLY <1>11, <1>12, FreeUnused
<1>16. /\ SoundCache(fs) /\ fs.heap = mem["stack"].heap /\ fs.used = mem["stack"].used
       /\ Queued(fs) = Queued(mem["stack"]) \cup {s}
  BY ONLY <1>11, <1>13, FreeBlock
<1> HIDE DEF fs, ft
<1>17. mem' \in [{"stack", "tls"} -> Cache] /\ mem'["stack"] = fs /\ mem'["tls"] = ft
  BY <1>14, <1>15, <1>16, CachePair DEF SoundCache
<1> QED BY ONLY <1>1, <1>2, <1>3, <1>4, <1>9, <1>10, <1>15, <1>16, <1>17

(* The first critical section of pthread_create: the thread gets a TLS area *)
(* and, when there is an id for it, a stack that nobody uses.               *)
LEMMA AllocateEffect ==
  ASSUME TypeOK, Places, QueuesSound, NEW c \in Threads, NEW x \in Threads, NEW j \in BOOLEAN,
         CreateAllocate(c, x, j)
  PROVE  /\ pc[c] = "run" /\ pc[x] = "unborn" /\ c # x /\ x # Main /\ ~Holder(x)
         /\ nextId' \in Ids /\ wrapped' \in BOOLEAN
         /\ basic' \in [Threads -> BasicData]
         /\ \A y \in Threads : y # x => basic'[y] = basic[y]
         /\ basic'[x].live /\ basic'[x].id = AllocatedId /\ ~basic'[x].terminated
         /\ \E b \in Blocks :
              /\ basic'[x].tdb = b /\ Allocates(mem["tls"], b, mem'["tls"])
              /\ tdb' \in [Sites -> Descriptor]
              /\ \A y \in Sites : y # b => tdb'[y] = tdb[y]
              /\ tdb'[b].basic_data = x /\ ~tdb'[b].join_waiting
              /\ \/ /\ AllocatedId # IllegalId /\ tdb'[b].joinable = j
                    /\ tdb'[b].stack # NoBlock
                    /\ Allocates(mem["stack"], tdb'[b].stack, mem'["stack"])
                    /\ pc' = [pc EXCEPT ![c] = "allocated"] /\ table' = table \cup {x}
                 \/ /\ AllocatedId = IllegalId /\ tdb'[b].joinable
                    /\ tdb'[b].stack = NoBlock /\ mem'["stack"] = mem["stack"]
                    /\ pc' = [pc EXCEPT ![c] = "create_failed"] /\ table' = table
         /\ mem' \in [{"stack", "tls"} -> Cache]
<1>1. pc[c] = "run" /\ pc[x] = "unborn" /\ c # x /\ x # Main /\ parent[x] = NoThread
  BY DEF CreateAllocate, Places
<1>2. ~Holder(x)
  BY <1>1, ThreadsAssumption DEF Places, Holder, Child, HasTdb, Preparing
<1>3. nextId' \in Ids /\ wrapped' \in BOOLEAN BY AdvanceTyped DEF CreateAllocate
<1>4. SoundCache(mem["stack"]) /\ SoundCache(mem["tls"]) BY SoundCaches
<1> DEFINE fresh == [FreshTdb(x) EXCEPT !.joinable = j]
           Given(tls) ==
             \/ /\ AllocatedId # IllegalId
                /\ \E stack \in nc_allocate_memory_block_mu(mem["stack"]) :
                     /\ mem' = [stack |-> stack.cache, tls |-> tls.cache]
                     /\ tdb' = [tdb EXCEPT ![tls.node] =
                                  [fresh EXCEPT !.stack = stack.node]]
                /\ table' = table \cup {x}
                /\ pc' = [pc EXCEPT ![c] = "allocated"]
             \/ /\ AllocatedId = IllegalId
                /\ mem' = [mem EXCEPT !["tls"] = tls.cache]
                /\ tdb' = [tdb EXCEPT ![tls.node] = FreshTdb(x)]
                /\ pc' = [pc EXCEPT ![c] = "create_failed"]
                /\ UNCHANGED table
<1>5. PICK tls \in nc_allocate_memory_block_mu(mem["tls"]) :
        /\ basic' = [basic EXCEPT ![x] = [FreshBasic(tls.node) EXCEPT !.id = AllocatedId]]
        /\ Given(tls)
  BY Zenon DEF CreateAllocate
<1> DEFINE b == tls.node
<1>6. Allocates(mem["tls"], b, tls.cache) BY <1>4, AllocateBlock
<1>7. b \in Blocks /\ b \in Sites /\ tls.cache \in Cache
  BY <1>6 DEF Allocates, SoundCache, Sites
<1> HIDE DEF b
<1>8. /\ basic' \in [Threads -> BasicData]
      /\ \A y \in Threads : y # x => basic'[y] = basic[y]
      /\ basic'[x].live /\ basic'[x].id = AllocatedId /\ ~basic'[x].terminated
      /\ basic'[x].tdb = b
  <2> DEFINE r == [FreshBasic(b) EXCEPT !.id = AllocatedId]
  <2>1. AllocatedId \in Ids \cup {IllegalId} BY AllocatedTyped
  <2>2. FreshBasic(b) \in BasicData BY <1>7 DEF FreshBasic, BasicData
  <2>3. /\ FreshBasic(b).live /\ ~FreshBasic(b).terminated /\ FreshBasic(b).tdb = b
    BY DEF FreshBasic
  <2>4. r \in BasicData /\ r.live /\ r.id = AllocatedId /\ ~r.terminated /\ r.tdb = b
    <3> HIDE DEF FreshBasic
    <3> QED BY <2>1, <2>2, <2>3 DEF BasicData
  <2>5. basic' = [basic EXCEPT ![x] = r] BY <1>5 DEF b
  <2> HIDE DEF r
  <2> QED BY <2>4, <2>5 DEF TypeOK
<1>9. /\ FreshTdb(x) \in Descriptor /\ FreshTdb(x).basic_data = x /\ ~FreshTdb(x).join_waiting
      /\ FreshTdb(x).joinable /\ FreshTdb(x).stack = NoBlock
  BY DEF FreshTdb, Descriptor
<1>10. /\ fresh \in Descriptor /\ fresh.basic_data = x /\ ~fresh.join_waiting
       /\ fresh.joinable = j
  BY <1>9 DEF Descriptor
<1> HIDE DEF fresh
<1>11. CASE AllocatedId # IllegalId
  <2>1. PICK stack \in nc_allocate_memory_block_mu(mem["stack"]) :
          /\ mem' = [stack |-> stack.cache, tls |-> tls.cache]
          /\ tdb' = [tdb EXCEPT ![b] = [fresh EXCEPT !.stack = stack.node]]
    BY <1>5, <1>11 DEF b
  <2> DEFINE s == stack.node
             r == [fresh EXCEPT !.stack = s]
  <2>2. Allocates(mem["stack"], s, stack.cache) BY <1>4, AllocateBlock
  <2>3. s \in Blocks /\ s # NoBlock /\ stack.cache \in Cache
    BY <2>2, BlocksAssumption DEF Allocates, SoundCache
  <2>4. /\ mem' \in [{"stack", "tls"} -> Cache]
        /\ mem'["stack"] = stack.cache /\ mem'["tls"] = tls.cache
    BY <1>7, <2>1, <2>3, CachePair
  <2> HIDE DEF s
  <2>5. r \in Descriptor /\ r.basic_data = x /\ ~r.join_waiting /\ r.joinable = j /\ r.stack = s
    BY <1>10, <2>3 DEF Descriptor
  <2>6. tdb' = [tdb EXCEPT ![b] = r] BY <2>1 DEF s
  <2> HIDE DEF r
  <2>7. /\ tdb' \in [Sites -> Descriptor]
        /\ \A y \in Sites : y # b => tdb'[y] = tdb[y]
        /\ tdb'[b] = r
    BY <1>7, <2>5, <2>6 DEF TypeOK
  <2>8. pc' = [pc EXCEPT ![c] = "allocated"] /\ table' = table \cup {x}
    BY <1>5, <1>11
  <2> QED
    BY ONLY <1>1, <1>2, <1>3, <1>6, <1>7, <1>8, <1>11, <2>2, <2>3, <2>4, <2>5, <2>7, <2>8
<1>12. CASE AllocatedId = IllegalId
  <2>1. /\ mem' = [mem EXCEPT !["tls"] = tls.cache]
        /\ tdb' = [tdb EXCEPT ![b] = FreshTdb(x)]
        /\ pc' = [pc EXCEPT ![c] = "create_failed"] /\ table' = table
    BY <1>5, <1>12 DEF b
  <2>2. /\ mem' \in [{"stack", "tls"} -> Cache]
        /\ mem'["stack"] = mem["stack"] /\ mem'["tls"] = tls.cache
    BY <1>7, <2>1 DEF TypeOK
  <2>3. /\ tdb' \in [Sites -> Descriptor]
        /\ \A y \in Sites : y # b => tdb'[y] = tdb[y]
        /\ tdb'[b] = FreshTdb(x)
    BY <1>7, <1>9, <2>1 DEF TypeOK
  <2> QED
    BY ONLY <1>1, <1>2, <1>3, <1>6, <1>7, <1>8, <1>9, <1>12, <2>1, <2>2, <2>3
<1> QED BY <1>11, <1>12

(* What is found in the table is a thread.                                  *)
LEMMA FoundThread ==
  ASSUME TypeOK, NEW id
  PROVE  nc_find_tdb_mu(id) \subseteq Threads
BY DEF TypeOK, nc_find_tdb_mu

(* The basic data of threads and what their TLS areas name stay, but for    *)
(* the data freed of a thread that has given its area back.                 *)
DataKept ==
  /\ basic' \in [Threads -> BasicData] /\ table' \subseteq table
  /\ \A y \in Threads :
       /\ basic'[y].tdb = basic[y].tdb /\ basic'[y].id = basic[y].id
       /\ basic'[y].terminated = basic[y].terminated /\ basic'[y].retval = basic[y].retval
       /\ basic[y].tdb # NoBlock => basic'[y].live = basic[y].live
       /\ basic'[y].live => basic[y].live
  /\ tdb' \in [Sites -> Descriptor]
  /\ \A b \in Sites : tdb'[b].basic_data = tdb[b].basic_data /\ tdb'[b].stack = tdb[b].stack

(* Nothing is changed of them.                                              *)
LEMMA NoneChanged ==
  ASSUME TypeOK, basic' = basic, tdb' = tdb, table' \subseteq table
  PROVE  DataKept
BY DEF TypeOK, DataKept

(* pthread_join and pthread_detach set a flag of a TLS area.                *)
LEMMA FlagSet ==
  ASSUME TypeOK, NEW b \in Sites,
         \/ tdb' = [tdb EXCEPT ![b].join_waiting = TRUE]
         \/ tdb' = [tdb EXCEPT ![b].joinable = FALSE]
  PROVE  /\ tdb' \in [Sites -> Descriptor]
         /\ \A a \in Sites : tdb'[a].basic_data = tdb[a].basic_data /\ tdb'[a].stack = tdb[a].stack
         /\ \A a \in Sites : a # b => tdb'[a] = tdb[a]
<1>1. tdb \in [Sites -> Descriptor] /\ tdb[b] \in Descriptor BY DEF TypeOK
<1>2. ASSUME tdb' = [tdb EXCEPT ![b].join_waiting = TRUE]
      PROVE  \E r \in Descriptor : /\ tdb' = [tdb EXCEPT ![b] = r]
                                   /\ r.basic_data = tdb[b].basic_data /\ r.stack = tdb[b].stack
  <2> DEFINE r == [tdb[b] EXCEPT !.join_waiting = TRUE]
  <2>1. r \in Descriptor /\ r.basic_data = tdb[b].basic_data /\ r.stack = tdb[b].stack
    BY <1>1 DEF Descriptor
  <2>2. tdb' = [tdb EXCEPT ![b] = r] BY <1>2
  <2> QED BY <2>1, <2>2
<1>3. ASSUME tdb' = [tdb EXCEPT ![b].joinable = FALSE]
      PROVE  \E r \in Descriptor : /\ tdb' = [tdb EXCEPT ![b] = r]
                                   /\ r.basic_data = tdb[b].basic_data /\ r.stack = tdb[b].stack
  <2> DEFINE r == [tdb[b] EXCEPT !.joinable = FALSE]
  <2>1. r \in Descriptor /\ r.basic_data = tdb[b].basic_data /\ r.stack = tdb[b].stack
    BY <1>1 DEF Descriptor
  <2>2. tdb' = [tdb EXCEPT ![b] = r] BY <1>3
  <2> QED BY <2>1, <2>2
<1>4. PICK r \in Descriptor : /\ tdb' = [tdb EXCEPT ![b] = r]
                              /\ r.basic_data = tdb[b].basic_data /\ r.stack = tdb[b].stack
  BY <1>2, <1>3
<1> QED BY <1>1, <1>4

(* Only what the TLS areas say of joining is changed.                       *)
LEMMA AreaChanged ==
  ASSUME TypeOK, basic' = basic, table' = table, tdb' \in [Sites -> Descriptor],
         \A b \in Sites : tdb'[b].basic_data = tdb[b].basic_data /\ tdb'[b].stack = tdb[b].stack
  PROVE  DataKept
BY DEF TypeOK, DataKept

(* Only one that has given its area back loses its data.                    *)
LEMMA ReleaseKeeps ==
  ASSUME TypeOK, NEW y \in Threads, basic[y].tdb = NoBlock,
         nc_release_basic_data_mu(basic, y), tdb' = tdb
  PROVE  DataKept /\ ~basic'[y].live /\ \A z \in Threads : z # y => basic'[z] = basic[z]
<1>1. basic \in [Threads -> BasicData] /\ tdb \in [Sites -> Descriptor] BY DEF TypeOK
<1>2. /\ basic' \in [Threads -> BasicData] /\ table' \subseteq table
      /\ \A z \in Threads : /\ basic'[z].tdb = basic[z].tdb /\ basic'[z].id = basic[z].id
                            /\ basic'[z].terminated = basic[z].terminated
                            /\ basic'[z].retval = basic[z].retval
                            /\ z # y => basic'[z] = basic[z]
      /\ ~basic'[y].live
  BY <1>1, ReleaseTyped
<1> QED BY <1>1, <1>2, Zenon DEF DataKept

(* The end of pthread_join.                                                 *)
LEMMA ReapKeeps ==
  ASSUME TypeOK, TdbOwned, NEW t \in Threads, NEW x \in Threads, NEW y \in Threads,
         basic[y].tdb = NoBlock, Reap(t, x, y), tdb' = tdb
  PROVE  /\ DataKept /\ ~basic'[y].live /\ \A z \in Threads : z # y => basic'[z] = basic[z]
         /\ pc' = [pc EXCEPT ![t] = "run"] /\ on' = [on EXCEPT ![t] = NoThread]
         /\ meant' = [meant EXCEPT ![t] = NoThread]
         /\ delivered' \subseteq Threads \X (Threads \cup {NoThread})
<1>1. nc_release_basic_data_mu(basic, y) BY DEF Reap
<1>2. basic[y].retval \in Threads \cup {NoThread} BY DEF TypeOK, BasicData
<1>3. delivered' \subseteq Threads \X (Threads \cup {NoThread})
  BY <1>2 DEF Reap, Deliver, TypeOK
<1> QED BY <1>1, <1>3, ReleaseKeeps DEF Reap

(* pthread_join up to its wait, or to its end when there is nothing to      *)
(* wait for.                                                                *)
LEMMA JoinCallKeeps ==
  ASSUME TypeOK, TdbOwned, NEW t \in Threads, NEW x \in Threads, JoinCall(t, x)
  PROVE  /\ DataKept /\ pc[t] = "run"
         /\ delivered' \subseteq Threads \X (Threads \cup {NoThread})
         /\ claimed' \subseteq Threads
         /\ \/ pc' = pc /\ on' = on /\ meant' = meant
            \/ /\ pc' = [pc EXCEPT ![t] = "run"] /\ on' = [on EXCEPT ![t] = NoThread]
               /\ meant' = [meant EXCEPT ![t] = NoThread]
            \/ \E y \in Threads :
                 /\ pc' = [pc EXCEPT ![t] = "join_wait"] /\ on' = [on EXCEPT ![t] = y]
                 /\ meant' = [meant EXCEPT ![t] = x]
<1>1. pc[t] = "run" BY DEF JoinCall, MayClaim
<1>2. claimed' \subseteq Threads BY DEF JoinCall, Claim, TypeOK
<1> DEFINE own == basic[tdb[regs[t].gs].basic_data].id
           found == nc_find_tdb_mu(handle[x])
<1>3. CASE Deliver(x, NoThread) /\ UNCHANGED <<pc, basic, tdb, on, table, meant>>
  <2>1. delivered' \subseteq Threads \X (Threads \cup {NoThread})
    BY <1>3 DEF Deliver, TypeOK
  <2> QED BY <1>1, <1>2, <1>3, <2>1, NoneChanged
<1>4. ASSUME NEW y \in found,
             tdb' = IF basic[y].tdb = NoBlock THEN tdb
                    ELSE [tdb EXCEPT ![basic[y].tdb].join_waiting = TRUE],
             IF basic[y].tdb = NoBlock \/ Ended(y)
             THEN Reap(t, x, y)
             ELSE /\ pc' = [pc EXCEPT ![t] = "join_wait"]
                  /\ on' = [on EXCEPT ![t] = y]
                  /\ meant' = [meant EXCEPT ![t] = x]
                  /\ UNCHANGED <<basic, table, delivered>>
      PROVE  /\ DataKept
             /\ delivered' \subseteq Threads \X (Threads \cup {NoThread})
             /\ \/ /\ pc' = [pc EXCEPT ![t] = "run"] /\ on' = [on EXCEPT ![t] = NoThread]
                   /\ meant' = [meant EXCEPT ![t] = NoThread]
                \/ \E z \in Threads :
                     /\ pc' = [pc EXCEPT ![t] = "join_wait"] /\ on' = [on EXCEPT ![t] = z]
                     /\ meant' = [meant EXCEPT ![t] = x]
  <2>1. y \in Threads BY FoundThread
  <2>2. CASE basic[y].tdb = NoBlock \/ Ended(y)
    <3>1. basic[y].tdb = NoBlock BY <2>1, <2>2 DEF Ended, TdbOwned
    <3>2. Reap(t, x, y) /\ tdb' = tdb BY <1>4, <2>2, <3>1
    <3> QED BY <2>1, <3>1, <3>2, ReapKeeps
  <2>3. CASE ~(basic[y].tdb = NoBlock \/ Ended(y))
    <3>1. /\ pc' = [pc EXCEPT ![t] = "join_wait"] /\ on' = [on EXCEPT ![t] = y]
          /\ meant' = [meant EXCEPT ![t] = x] /\ basic' = basic /\ table' = table
          /\ delivered' = delivered
          /\ tdb' = [tdb EXCEPT ![basic[y].tdb].join_waiting = TRUE]
      BY <1>4, <2>3
    <3>2. basic[y].tdb \in Sites BY <2>1, <2>3 DEF TypeOK, BasicData
    <3>3. DataKept BY <3>1, <3>2, FlagSet, AreaChanged
    <3> QED BY <2>1, <3>1, <3>3 DEF TypeOK
  <2> QED BY <2>2, <2>3
<1>5. \/ Deliver(x, NoThread) /\ UNCHANGED <<pc, basic, tdb, on, table, meant>>
      \/ \E y \in found :
           /\ tdb' = IF basic[y].tdb = NoBlock THEN tdb
                     ELSE [tdb EXCEPT ![basic[y].tdb].join_waiting = TRUE]
           /\ IF basic[y].tdb = NoBlock \/ Ended(y)
              THEN Reap(t, x, y)
              ELSE /\ pc' = [pc EXCEPT ![t] = "join_wait"]
                   /\ on' = [on EXCEPT ![t] = y]
                   /\ meant' = [meant EXCEPT ![t] = x]
                   /\ UNCHANGED <<basic, table, delivered>>
  BY Zenon DEF JoinCall
<1> HIDE DEF found
<1> QED BY <1>1, <1>2, <1>3, <1>4, <1>5

(* The joiner's wake-up.                                                    *)
LEMMA JoinWakeKeeps ==
  ASSUME TypeOK, TdbOwned, Places, NEW t \in Threads, JoinWake(t)
  PROVE  /\ DataKept /\ pc[t] = "join_woken" /\ on[t] \in Threads /\ meant[t] \in Threads
         /\ delivered' \subseteq Threads \X (Threads \cup {NoThread})
         /\ \/ /\ pc' = [pc EXCEPT ![t] = "run"] /\ on' = [on EXCEPT ![t] = NoThread]
               /\ meant' = [meant EXCEPT ![t] = NoThread]
            \/ pc' = [pc EXCEPT ![t] = "join_wait"] /\ on' = on /\ meant' = meant
<1>1. /\ pc[t] = "join_woken" /\ on[t] \in Threads /\ meant[t] \in Threads /\ tdb' = tdb
  BY DEF JoinWake, Places, Waiting
<1>2. CASE basic[on[t]].live /\ Ended(on[t]) /\ Reap(t, meant[t], on[t])
  <2>1. basic[on[t]].tdb = NoBlock BY <1>1, <1>2 DEF Ended, TdbOwned
  <2> QED BY <1>1, <1>2, <2>1, ReapKeeps
<1>3. CASE /\ \E v \in Threads \cup {NoThread} : Deliver(meant[t], v)
           /\ \E id \in Ids : table' = table \ nc_find_tdb_mu(id)
           /\ pc' = [pc EXCEPT ![t] = "run"]
           /\ on' = [on EXCEPT ![t] = NoThread]
           /\ meant' = [meant EXCEPT ![t] = NoThread]
           /\ UNCHANGED basic
  <2>1. delivered' \subseteq Threads \X (Threads \cup {NoThread})
    BY <1>1, <1>3 DEF Deliver, TypeOK
  <2>2. table' \subseteq table BY <1>3
  <2> QED BY <1>1, <1>3, <2>1, <2>2, NoneChanged
<1>4. CASE /\ pc' = [pc EXCEPT ![t] = "join_wait"]
           /\ UNCHANGED <<basic, table, on, meant, delivered>>
  BY <1>1, <1>4, NoneChanged DEF TypeOK
<1> QED BY <1>2, <1>3, <1>4, Zenon DEF JoinWake

(* pthread_detach.                                                          *)
LEMMA DetachKeeps ==
  ASSUME TypeOK, NEW t \in Threads, NEW x \in Threads, Detach(t, x)
  PROVE  DataKept /\ claimed' \subseteq Threads
<1>1. claimed' \subseteq Threads BY DEF Detach, Claim, TypeOK
<1>2. CASE UNCHANGED <<basic, tdb, table>>
  <2>1. basic' = basic /\ tdb' = tdb /\ table' \subseteq table BY <1>2
  <2> QED BY <1>1, <2>1, NoneChanged
<1>3. ASSUME NEW y \in Threads, basic[y].tdb = NoBlock, nc_release_basic_data_mu(basic, y),
             tdb' = tdb
      PROVE  DataKept
  BY <1>3, ReleaseKeeps
<1>4. ASSUME NEW y \in Threads, basic[y].tdb # NoBlock, basic' = basic, table' = table,
             tdb' = IF tdb[basic[y].tdb].join_waiting THEN tdb
                    ELSE [tdb EXCEPT ![basic[y].tdb].joinable = FALSE]
      PROVE  DataKept
  <2>1. basic[y].tdb \in Sites /\ basic \in [Threads -> BasicData]
    BY <1>4 DEF TypeOK, BasicData
  <2>2. CASE tdb' = tdb BY <1>4, <2>2, NoneChanged
  <2>3. CASE tdb' = [tdb EXCEPT ![basic[y].tdb].joinable = FALSE]
    BY <1>4, <2>1, <2>3, FlagSet, AreaChanged
  <2> QED BY <1>4, <2>2, <2>3
<1> DEFINE id == IF t = x THEN basic[tdb[regs[t].gs].basic_data].id ELSE handle[x]
<1>5. \/ UNCHANGED <<basic, tdb, table>>
      \/ \E y \in nc_find_tdb_mu(id) :
           /\ basic[y].tdb = NoBlock /\ nc_release_basic_data_mu(basic, y) /\ UNCHANGED tdb
      \/ \E y \in nc_find_tdb_mu(id) :
           /\ basic[y].tdb # NoBlock
           /\ tdb' = IF tdb[basic[y].tdb].join_waiting THEN tdb
                     ELSE [tdb EXCEPT ![basic[y].tdb].joinable = FALSE]
           /\ UNCHANGED <<basic, table>>
  BY Zenon DEF Detach
<1> HIDE DEF id
<1> QED BY <1>1, <1>2, <1>3, <1>4, <1>5, FoundThread

(* Every step keeps the types.                                              *)
LEMMA TypeStep ==
  ASSUME TypeOK, Places, TdbOwned, StackOwned, QueuesSound, [Next]_<<vars, program>>
  PROVE  TypeOK'
<1>1. ASSUME NEW c \in Threads, CreateRefused(c), program' = program PROVE TypeOK'
  BY <1>1 DEF CreateRefused, TypeOK, PCs
<1>2. ASSUME NEW c \in Threads, CreateCount(c), program' = program PROVE TypeOK'
  BY <1>2 DEF CreateCount, TypeOK, PCs
<1>3. ASSUME NEW c \in Threads, CreateStoreId(c), program' = program PROVE TypeOK'
  <2>1. on[c] \in Threads BY <1>3 DEF CreateStoreId, Places
  <2>2. handle' \in [Threads -> Ids \cup {IllegalId, NoId}]
    BY <1>3, <2>1 DEF CreateStoreId, TypeOK, BasicData
  <2> QED BY <1>3, <2>2 DEF CreateStoreId, TypeOK, PCs
<1>4. ASSUME NEW t \in Threads, ThreadExitSyscall(t), program' = program PROVE TypeOK'
  <2>1. mem' \in [{"stack", "tls"} -> Cache]
    BY <1>4 DEF ThreadExitSyscall, TypeOK, ClearUsed, Cache
  <2> QED BY <1>4, <2>1 DEF ThreadExitSyscall, TypeOK, PCs, NoLocals
<1>5. ASSUME MainExit, program' = program PROVE TypeOK'
  BY <1>5, ThreadsAssumption DEF MainExit, TypeOK, PCs
<1>6. ASSUME Shutdown, program' = program PROVE TypeOK'
  BY <1>6, ThreadsAssumption DEF Shutdown, TypeOK, PCs
<1>7. ASSUME NEW t \in Threads, SpuriousWake(t), program' = program PROVE TypeOK'
  BY <1>7 DEF SpuriousWake, TypeOK, PCs
<1>8. ASSUME NEW t \in Threads, ExitBegin(t), program' = program PROVE TypeOK'
  <2>1. HasTdb(t) BY <1>8 DEF ExitBegin, HasTdb
  <2>2. regs[t].gs \in Sites BY <2>1, OwnArea
  <2>3. tdb[regs[t].gs] \in Descriptor BY <2>2 DEF TypeOK
  <2>4. saved' \in [Threads -> [basic_data : Threads \cup {NoThread}, joinable : BOOLEAN,
                                stack : Blocks \cup {NoBlock}]]
    BY <1>8, <2>3 DEF ExitBegin, TypeOK, Descriptor
  <2> QED BY <1>8, <2>4 DEF ExitBegin, TypeOK, PCs
<1>9. ASSUME NEW c \in Threads, CreateStart(c), program' = program PROVE TypeOK'
  <2>1. on[c] \in Threads /\ Holder(on[c])
    BY <1>9 DEF CreateStart, Places, Preparing, Holder
  <2>2. basic[on[c]].tdb \in Sites BY <2>1, OwnArea
  <2>3. tdb[basic[on[c]].tdb] \in Descriptor BY <2>2 DEF TypeOK
  <2>4. regs' \in [Threads -> [gs : Sites \cup {NoBlock}, sp : Blocks \cup {NoBlock}]]
    BY <1>9, <2>1, <2>2, <2>3 DEF CreateStart, TypeOK, Descriptor
  <2>5. pc' \in [Threads -> PCs] BY <1>9 DEF CreateStart, TypeOK, PCs
  <2> QED BY <1>9, <2>4, <2>5 DEF CreateStart, TypeOK
<1>10. ASSUME NEW c \in Threads, CreateCleanup(c), program' = program PROVE TypeOK'
  <2>1. /\ basic' \in [Threads -> BasicData] /\ table' \subseteq table
        /\ tdb' \in [Sites -> Descriptor] /\ mem' \in [{"stack", "tls"} -> Cache]
    BY <1>10, CleanupEffect
  <2> QED BY <1>10, <2>1 DEF CreateCleanup, TypeOK, PCs
<1>11. ASSUME NEW t \in Threads, ExitLocked(t), program' = program PROVE TypeOK'
  <2>1. /\ basic' \in [Threads -> BasicData] /\ table' \subseteq table /\ t # Main
        /\ tdb' \in [Sites -> Descriptor] /\ mem' \in [{"stack", "tls"} -> Cache]
    BY <1>11, ExitEffect
  <2>2. pc' \in [Threads -> PCs] BY <1>11, <2>1, ExitPlaces
  <2> QED BY <1>11, <2>1, <2>2 DEF ExitLocked, TypeOK
<1>12. ASSUME NEW c \in Threads, NEW x \in Threads, NEW j \in BOOLEAN,
              CreateAllocate(c, x, j), program' = program
       PROVE TypeOK'
  <2>1. /\ nextId' \in Ids /\ wrapped' \in BOOLEAN /\ basic' \in [Threads -> BasicData]
        /\ tdb' \in [Sites -> Descriptor] /\ mem' \in [{"stack", "tls"} -> Cache]
        /\ \/ pc' = [pc EXCEPT ![c] = "allocated"] /\ table' = table \cup {x}
           \/ pc' = [pc EXCEPT ![c] = "create_failed"] /\ table' = table
    BY <1>12, AllocateEffect
  <2>2. pc' \in [Threads -> PCs] /\ table' \subseteq Threads BY <2>1 DEF TypeOK, PCs
  <2> QED BY <1>12, <2>1, <2>2 DEF CreateAllocate, TypeOK
<1>13. ASSUME NEW t \in Threads, NEW x \in Threads, JoinCall(t, x), program' = program
       PROVE TypeOK'
  <2>1. /\ DataKept /\ delivered' \subseteq Threads \X (Threads \cup {NoThread})
        /\ claimed' \subseteq Threads
        /\ \/ pc' = pc /\ on' = on /\ meant' = meant
           \/ /\ pc' = [pc EXCEPT ![t] = "run"] /\ on' = [on EXCEPT ![t] = NoThread]
              /\ meant' = [meant EXCEPT ![t] = NoThread]
           \/ \E y \in Threads :
                /\ pc' = [pc EXCEPT ![t] = "join_wait"] /\ on' = [on EXCEPT ![t] = y]
                /\ meant' = [meant EXCEPT ![t] = x]
    BY ONLY TypeOK, TdbOwned, t \in Threads, x \in Threads, <1>13, JoinCallKeeps
  <2>2. /\ pc' \in [Threads -> PCs]
        /\ on' \in [Threads -> Threads \cup {NoThread}]
        /\ meant' \in [Threads -> Threads \cup {NoThread}]
    <3>1. CASE pc' = pc /\ on' = on /\ meant' = meant BY <3>1 DEF TypeOK
    <3>2. CASE /\ pc' = [pc EXCEPT ![t] = "run"] /\ on' = [on EXCEPT ![t] = NoThread]
               /\ meant' = [meant EXCEPT ![t] = NoThread]
      BY <3>2 DEF TypeOK, PCs
    <3>3. ASSUME NEW y \in Threads,
                 pc' = [pc EXCEPT ![t] = "join_wait"] /\ on' = [on EXCEPT ![t] = y],
                 meant' = [meant EXCEPT ![t] = x]
          PROVE  /\ pc' \in [Threads -> PCs]
                 /\ on' \in [Threads -> Threads \cup {NoThread}]
                 /\ meant' \in [Threads -> Threads \cup {NoThread}]
      BY <3>3 DEF TypeOK, PCs
    <3> QED BY <2>1, <3>1, <3>2, <3>3
  <2>3. UNCHANGED <<regs, saved, mem, nextId, wrapped, running, handle, parent>>
    BY <1>13 DEF JoinCall
  <2> QED BY <1>13, <2>1, <2>2, <2>3 DEF TypeOK, DataKept
<1>14. ASSUME NEW t \in Threads, JoinWake(t), program' = program PROVE TypeOK'
  <2>1. /\ DataKept /\ delivered' \subseteq Threads \X (Threads \cup {NoThread})
        /\ \/ /\ pc' = [pc EXCEPT ![t] = "run"] /\ on' = [on EXCEPT ![t] = NoThread]
              /\ meant' = [meant EXCEPT ![t] = NoThread]
           \/ pc' = [pc EXCEPT ![t] = "join_wait"] /\ on' = on /\ meant' = meant
    BY ONLY TypeOK, TdbOwned, Places, t \in Threads, <1>14, JoinWakeKeeps
  <2>2. /\ pc' \in [Threads -> PCs]
        /\ on' \in [Threads -> Threads \cup {NoThread}]
        /\ meant' \in [Threads -> Threads \cup {NoThread}]
    BY <2>1 DEF TypeOK, PCs
  <2>3. UNCHANGED <<regs, saved, mem, nextId, wrapped, running, handle, parent, claimed>>
    BY <1>14 DEF JoinWake
  <2> QED BY <1>14, <2>1, <2>2, <2>3 DEF TypeOK, DataKept
<1>15. ASSUME NEW t \in Threads, NEW x \in Threads, Detach(t, x), program' = program
       PROVE TypeOK'
  <2>1. DataKept /\ claimed' \subseteq Threads BY <1>15, DetachKeeps
  <2> QED BY <1>15, <2>1 DEF Detach, TypeOK, DataKept
<1>16. ASSUME UNCHANGED <<vars, program>> PROVE TypeOK'
  BY <1>16 DEF vars, TypeOK
<1> QED
  BY <1>1, <1>2, <1>3, <1>4, <1>5, <1>6, <1>7, <1>8, <1>9, <1>10, <1>11, <1>12, <1>13,
     <1>14, <1>15, <1>16, Zenon
     DEF Next, Call, Continue, Create, Terminated

-----------------------------------------------------------------------------
(* Blocks.                                                                  *)

(* A step that moves no block and starts and ends no thread.                *)
Quiet ==
  /\ DataKept
  /\ UNCHANGED <<mem, regs, saved, parent>>
  /\ \A t \in Threads :
       /\ pc'[t] # pc[t] => /\ pc[t] \notin {"unborn", "exiting", "leaving", "gone"}
                            /\ pc'[t] \notin {"unborn", "exiting", "leaving"}
                            /\ pc'[t] = "gone" => t = Main
       /\ pc'[t] \in Preparing <=> pc[t] \in Preparing
       /\ pc'[t] = "allocated" => pc[t] = "allocated"
       /\ pc'[t] \in {"started", "uncounted"} => pc[t] \in {"started", "uncounted"}
       /\ pc'[t] \in Preparing \cup {"started", "uncounted"} => on'[t] = on[t]
       /\ pc'[t] \in Waiting => on'[t] \in Threads /\ meant'[t] \in Threads

(* Such a step leaves everything owned as it is.                            *)
LEMMA QuietStep ==
  ASSUME TypeOK, Ownership, Quiet
  PROVE  Ownership'
<1>1. mem' = mem /\ regs' = regs /\ saved' = saved /\ parent' = parent
  BY DEF Quiet
<1>2. \A t \in Threads : /\ HasTdb(t)' <=> HasTdb(t)
                         /\ Child(t)' <=> Child(t)
                         /\ Holder(t)' <=> Holder(t)
                         /\ pc'[t] \in {"unborn", "exiting", "leaving"} => pc'[t] = pc[t]
                         /\ pc[t] = "unborn" => pc'[t] = "unborn"
  BY DEF Quiet, HasTdb, Child, Holder, Preparing
<1>3. \A t \in Threads : HasTdb(t) \/ Holder(t) => basic[t].tdb \in Sites /\ basic[t].tdb # NoBlock
  <2>1. \A a \in Sites : a # NoBlock BY BlocksAssumption DEF Sites
  <2> QED BY <2>1, OwnArea DEF Ownership
<1>4. \A t \in Threads : HasTdb(t) \/ Holder(t) => /\ basic'[t].tdb = basic[t].tdb
                                                   /\ basic'[t].live = basic[t].live
                                                   /\ tdb'[basic[t].tdb].basic_data
                                                        = tdb[basic[t].tdb].basic_data
                                                   /\ StackOf(t)' = StackOf(t)
  BY <1>3 DEF Quiet, DataKept, StackOf
<1>5. Places'
  BY <1>1, <1>2, ThreadsAssumption DEF Ownership, Places, Quiet
<1>6. TdbOwned'
  <2>1. HasTdb(Main) BY DEF HasTdb
  <2>2. MainTls \in Sites BY DEF Sites
  <2> QED
    BY <1>1, <1>2, <1>4, <2>1, <2>2, ThreadsAssumption
       DEF Ownership, TdbOwned, Quiet, DataKept
<1>7. StackOwned'
  <2>1. ASSUME NEW x \in Threads, Holder(x)', StackOf(x)' # NoBlock
        PROVE  /\ StackOf(x)' \in mem'["stack"].heap \ Queued(mem'["stack"])
               /\ StackOf(x)' \in mem'["stack"].used
               /\ \A y \in Threads : Holder(y)' /\ StackOf(y)' = StackOf(x)' => y = x
    <3>1. Holder(x) /\ StackOf(x)' = StackOf(x) BY <1>2, <1>4, <2>1
    <3>2. \A y \in Threads : Holder(y)' => Holder(y) /\ StackOf(y)' = StackOf(y)
      BY <1>2, <1>4
    <3> QED BY <1>1, <2>1, <3>1, <3>2 DEF Ownership, StackOwned
  <2>2. ASSUME NEW t \in Threads
        PROVE  /\ Child(t)' => regs'[t].sp # NoBlock /\ regs'[t].sp = StackOf(t)'
               /\ pc'[t] = "allocated" => StackOf(on[t])' # NoBlock /\ on'[t] = on[t]
               /\ pc'[t] = "exiting" => saved'[t].stack = regs'[t].sp
    <3>1. Child(t)' => Child(t) /\ StackOf(t)' = StackOf(t)
      BY <1>2, <1>4 DEF Child
    <3>2. pc'[t] = "allocated" =>
            /\ pc[t] = "allocated" /\ on'[t] = on[t] /\ on[t] \in Threads /\ Holder(on[t])
            /\ StackOf(on[t])' = StackOf(on[t])
      <4>1. pc'[t] = "allocated" => /\ pc[t] = "allocated" /\ on'[t] = on[t] /\ on[t] \in Threads
                                    /\ Holder(on[t])
        BY DEF Quiet, Ownership, Places, Holder, Preparing
      <4> QED BY <4>1, <1>4
    <3> QED BY <1>1, <1>2, <3>1, <3>2 DEF Ownership, StackOwned
  <2>3. ASSUME NEW t \in Threads, pc'[t] = "leaving"
        PROVE  /\ saved'[t].stack = regs'[t].sp
               /\ regs'[t].sp \in Queued(mem'["stack"]) \cap mem'["stack"].used
               /\ \A u \in Threads : pc'[u] = "leaving" /\ regs'[u].sp = regs'[t].sp => u = t
    BY <1>1, <1>2, <2>3 DEF Ownership, StackOwned
  <2> QED BY <2>1, <2>2, <2>3 DEF StackOwned
<1>8. QueuesSound' BY <1>1 DEF Ownership, QueuesSound
<1>9. NoneLost'
  BY <1>1, <1>2, <1>4 DEF Ownership, NoneLost
<1> QED BY <1>5, <1>6, <1>7, <1>8, <1>9 DEF Ownership

(* thread_create starts the thread on the TLS area and stack it was given.  *)
LEMMA StartOwns ==
  ASSUME TypeOK, Ownership, NEW c \in Threads, CreateStart(c), NEW x, x = on[c]
  PROVE  Ownership'
<1>1. /\ pc[c] = "allocated" /\ x \in Threads /\ x # Main /\ parent[x] = c /\ pc[x] = "unborn"
      /\ x # c
  BY DEF CreateStart, Ownership, Places, Preparing
<1>2. Holder(x) BY <1>1 DEF Holder, Preparing
<1>3. /\ pc' \in [Threads -> PCs] /\ pc'[c] = "started" /\ pc'[x] = "run"
      /\ \A u \in Threads : u # c /\ u # x => pc'[u] = pc[u]
  BY <1>1 DEF CreateStart, TypeOK, PCs
<1>4. /\ regs'[x].gs = basic[x].tdb /\ regs'[x].sp = StackOf(x)
      /\ \A u \in Threads : u # x => regs'[u] = regs[u]
  BY <1>1 DEF CreateStart, TypeOK, StackOf
<1>5. /\ basic' = basic /\ tdb' = tdb /\ saved' = saved /\ on' = on /\ mem' = mem
      /\ parent' = parent /\ meant' = meant
  BY DEF CreateStart
<1>6. \A u \in Threads : u # c /\ pc[u] \in Preparing => on[u] # x
  BY <1>1 DEF Ownership, Places
<1>7. \A u \in Threads : /\ Holder(u)' <=> Holder(u)
                         /\ StackOf(u)' = StackOf(u)
                         /\ u # x => (HasTdb(u)' <=> HasTdb(u)) /\ (Child(u)' <=> Child(u))
  <2>1. \A u \in Threads : u # x => (HasTdb(u)' <=> HasTdb(u)) /\ (Child(u)' <=> Child(u))
    BY <1>1, <1>3 DEF HasTdb, Child
  <2>2. Child(x)' BY <1>1, <1>3 DEF HasTdb, Child
  <2>3. Holder(x)' BY <1>1, <2>2 DEF Holder
  <2>4. \A u \in Threads : u # x => (Holder(u)' <=> Holder(u))
    BY <1>1, <1>3, <1>5, <2>1 DEF Holder, Preparing
  <2>5. \A u \in Threads : StackOf(u)' = StackOf(u) BY <1>5 DEF StackOf
  <2> QED BY <1>2, <2>1, <2>3, <2>4, <2>5
<1>8. Places'
  <2>1. pc'[Main] \notin {"unborn", "exiting", "leaving"}
    BY <1>1, <1>3, ThreadsAssumption DEF Ownership, Places
  <2>2. ASSUME NEW u \in Threads
        PROVE  /\ pc'[u] \in Preparing \cup {"started", "uncounted"} =>
                    on'[u] \in Threads /\ on'[u] # Main /\ parent'[on'[u]] = u
               /\ pc'[u] \in Preparing => pc'[on'[u]] = "unborn"
               /\ pc'[u] \in Waiting => on'[u] \in Threads /\ meant'[u] \in Threads
    <3>1. CASE u = c BY <1>1, <1>3, <1>5, <3>1 DEF Preparing, Waiting
    <3>2. CASE u = x BY <1>1, <1>3, <3>2 DEF Preparing, Waiting
    <3>3. CASE u # c /\ u # x
      <4>1. pc'[u] = pc[u] BY <1>3, <3>3
      <4>2. pc[u] \in Preparing => on[u] # c /\ on[u] # x
        BY <1>1, <1>6, <3>3 DEF Ownership, Places
      <4> QED BY <1>3, <1>5, <4>1, <4>2 DEF Ownership, Places
    <3> QED BY <3>1, <3>2, <3>3
  <2> QED BY <2>1, <2>2 DEF Places
<1>9. TdbOwned'
  BY <1>1, <1>3, <1>4, <1>5, <1>7 DEF Ownership, TdbOwned
<1>10. StackOwned'
  <2>1. ASSUME NEW y \in Threads, Holder(y)', StackOf(y)' # NoBlock
        PROVE  /\ StackOf(y)' \in mem'["stack"].heap \ Queued(mem'["stack"])
               /\ StackOf(y)' \in mem'["stack"].used
               /\ \A z \in Threads : Holder(z)' /\ StackOf(z)' = StackOf(y)' => z = y
    BY <1>5, <1>7, <2>1 DEF Ownership, StackOwned
  <2>2. ASSUME NEW t \in Threads
        PROVE  /\ Child(t)' => regs'[t].sp # NoBlock /\ regs'[t].sp = StackOf(t)'
               /\ pc'[t] = "allocated" => StackOf(on[t])' # NoBlock
               /\ pc'[t] = "exiting" => saved'[t].stack = regs'[t].sp
    <3>1. StackOf(x) # NoBlock BY <1>1 DEF Ownership, StackOwned
    <3>2. pc'[t] = "allocated" => pc[t] = "allocated" /\ on[t] \in Threads
      BY <1>3 DEF Ownership, Places, Preparing
    <3>3. pc'[t] = "allocated" => StackOf(on[t])' # NoBlock
      BY <1>5, <3>2 DEF Ownership, StackOwned, StackOf
    <3> QED BY <1>3, <1>4, <1>5, <1>7, <3>1, <3>3 DEF Ownership, StackOwned
  <2>3. ASSUME NEW t \in Threads, pc'[t] = "leaving"
        PROVE  /\ saved'[t].stack = regs'[t].sp
               /\ regs'[t].sp \in Queued(mem'["stack"]) \cap mem'["stack"].used
               /\ \A u \in Threads : pc'[u] = "leaving" /\ regs'[u].sp = regs'[t].sp => u = t
    BY <1>3, <1>4, <1>5, <2>3 DEF Ownership, StackOwned
  <2> QED BY <2>1, <2>2, <2>3 DEF StackOwned
<1>11. QueuesSound' BY <1>5 DEF Ownership, QueuesSound
<1>12. NoneLost' BY <1>5, <1>7 DEF Ownership, NoneLost
<1> QED BY <1>8, <1>9, <1>10, <1>11, <1>12 DEF Ownership

(* The start of pthread_exit reads the thread's own TLS area.               *)
LEMMA ExitBeginOwns ==
  ASSUME TypeOK, Ownership, NEW t \in Threads, ExitBegin(t)
  PROVE  Ownership' /\ t # Main /\ saved'[t].joinable = tdb[basic[t].tdb].joinable
<1>1. pc[t] = "run" /\ HasTdb(t) BY DEF ExitBegin, HasTdb
<1>2. /\ regs[t].gs = basic[t].tdb /\ basic[t].tdb \in Sites /\ tdb[basic[t].tdb].basic_data = t
  BY <1>1, OwnArea DEF Ownership
<1>3. t # Main BY <1>2 DEF ExitBegin, Ownership, TdbOwned
<1>4. /\ pc'[t] = "exiting" /\ \A u \in Threads : u # t => pc'[u] = pc[u]
  BY DEF ExitBegin, TypeOK
<1>5. /\ saved'[t].basic_data = t /\ saved'[t].stack = StackOf(t)
      /\ saved'[t].joinable = tdb[basic[t].tdb].joinable
      /\ \A u \in Threads : u # t => saved'[u] = saved[u]
  BY <1>2 DEF ExitBegin, TypeOK, StackOf
<1>6. /\ basic' = basic /\ tdb' = tdb /\ regs' = regs /\ on' = on /\ mem' = mem
      /\ parent' = parent /\ meant' = meant
  BY DEF ExitBegin
<1>7. \A u \in Threads : /\ HasTdb(u)' <=> HasTdb(u)
                         /\ Child(u)' <=> Child(u)
                         /\ Holder(u)' <=> Holder(u)
                         /\ StackOf(u)' = StackOf(u)
  BY <1>1, <1>4, <1>6 DEF HasTdb, Child, Holder, Preparing, StackOf
<1>8. Places'
  <2>1. pc'[Main] \notin {"unborn", "exiting", "leaving"}
    BY <1>3, <1>4, ThreadsAssumption DEF Ownership, Places
  <2>2. ASSUME NEW u \in Threads
        PROVE  /\ pc'[u] \in Preparing \cup {"started", "uncounted"} =>
                    on'[u] \in Threads /\ on'[u] # Main /\ parent'[on'[u]] = u
               /\ pc'[u] \in Preparing => pc'[on'[u]] = "unborn"
               /\ pc'[u] \in Waiting => on'[u] \in Threads /\ meant'[u] \in Threads
    <3>1. CASE u = t BY <1>4, <3>1 DEF Preparing, Waiting
    <3>2. CASE u # t
      <4>1. pc[u] \in Preparing => on[u] # t
        BY <1>1 DEF Ownership, Places
      <4> QED BY <1>4, <1>6, <3>2, <4>1 DEF Ownership, Places
    <3> QED BY <3>1, <3>2
  <2> QED BY <2>1, <2>2 DEF Places
<1>9. TdbOwned'
  BY <1>4, <1>5, <1>6, <1>7 DEF Ownership, TdbOwned
<1>10. StackOwned'
  <2>1. ASSUME NEW y \in Threads, Holder(y)', StackOf(y)' # NoBlock
        PROVE  /\ StackOf(y)' \in mem'["stack"].heap \ Queued(mem'["stack"])
               /\ StackOf(y)' \in mem'["stack"].used
               /\ \A z \in Threads : Holder(z)' /\ StackOf(z)' = StackOf(y)' => z = y
    BY <1>6, <1>7, <2>1 DEF Ownership, StackOwned
  <2>2. ASSUME NEW u \in Threads
        PROVE  /\ Child(u)' => regs'[u].sp # NoBlock /\ regs'[u].sp = StackOf(u)'
               /\ pc'[u] = "allocated" => StackOf(on[u])' # NoBlock
               /\ pc'[u] = "exiting" => saved'[u].stack = regs'[u].sp
    <3>1. pc'[u] = "allocated" => pc[u] = "allocated" BY <1>4
    <3>2. pc'[u] = "allocated" => StackOf(on[u])' # NoBlock
      BY <1>6, <3>1 DEF Ownership, StackOwned, StackOf
    <3>3. Child(t) BY <1>1, <1>3 DEF Child
    <3> QED BY <1>4, <1>5, <1>6, <1>7, <3>2, <3>3 DEF Ownership, StackOwned
  <2>3. ASSUME NEW u \in Threads, pc'[u] = "leaving"
        PROVE  /\ saved'[u].stack = regs'[u].sp
               /\ regs'[u].sp \in Queued(mem'["stack"]) \cap mem'["stack"].used
               /\ \A z \in Threads : pc'[z] = "leaving" /\ regs'[z].sp = regs'[u].sp => z = u
    BY <1>4, <1>5, <1>6, <2>3 DEF Ownership, StackOwned
  <2> QED BY <2>1, <2>2, <2>3 DEF StackOwned
<1>11. QueuesSound' BY <1>6 DEF Ownership, QueuesSound
<1>12. NoneLost' BY <1>6, <1>7 DEF Ownership, NoneLost
<1> QED BY <1>3, <1>5, <1>8, <1>9, <1>10, <1>11, <1>12 DEF Ownership

(* The trusted thread_exit clears the flag of the stack the thread has      *)
(* left; nobody else uses that stack.                                       *)
LEMMA SyscallOwns ==
  ASSUME TypeOK, Ownership, NEW t \in Threads, ThreadExitSyscall(t)
  PROVE  Ownership'
<1> DEFINE s == regs[t].sp
<1>1. /\ pc[t] = "leaving" /\ t # Main /\ saved[t].stack = s
      /\ s \in Queued(mem["stack"])
  BY ThreadsAssumption DEF ThreadExitSyscall, Ownership, Places, StackOwned
<1>2. pc'[t] = "gone" /\ \A u \in Threads : u # t => pc'[u] = pc[u]
  BY DEF ThreadExitSyscall, TypeOK
<1>3. \A u \in Threads : u # t => regs'[u] = regs[u] /\ saved'[u] = saved[u]
  BY DEF ThreadExitSyscall, TypeOK
<1>4. /\ basic' = basic /\ tdb' = tdb /\ on' = on /\ parent' = parent /\ meant' = meant
  BY DEF ThreadExitSyscall
<1>5. /\ mem'["tls"] = mem["tls"] /\ mem'["stack"].queue = mem["stack"].queue
      /\ mem'["stack"].heap = mem["stack"].heap
      /\ mem'["stack"].used = mem["stack"].used \ {s}
  <2>1. mem' = [mem EXCEPT !["stack"] = ClearUsed(mem["stack"], s)]
    BY <1>1 DEF ThreadExitSyscall
  <2>2. mem["stack"] \in Cache BY DEF TypeOK
  <2>3. /\ ClearUsed(mem["stack"], s).queue = mem["stack"].queue
        /\ ClearUsed(mem["stack"], s).heap = mem["stack"].heap
        /\ ClearUsed(mem["stack"], s).used = mem["stack"].used \ {s}
    BY <2>2 DEF ClearUsed, Cache
  <2> HIDE DEF s
  <2> QED BY <2>1, <2>3 DEF TypeOK
<1> HIDE DEF s
<1>6. Queued(mem'["stack"]) = Queued(mem["stack"]) BY <1>5 DEF Queued
<1>7. \A u \in Threads : /\ HasTdb(u)' <=> HasTdb(u)
                         /\ Child(u)' <=> Child(u)
                         /\ Holder(u)' <=> Holder(u)
                         /\ StackOf(u)' = StackOf(u)
  BY <1>1, <1>2, <1>4 DEF HasTdb, Child, Holder, Preparing, StackOf
<1>8. Places'
  <2>1. pc'[Main] \notin {"unborn", "exiting", "leaving"}
    BY <1>1, <1>2, ThreadsAssumption DEF Ownership, Places
  <2>2. ASSUME NEW u \in Threads
        PROVE  /\ pc'[u] \in Preparing \cup {"started", "uncounted"} =>
                    on'[u] \in Threads /\ on'[u] # Main /\ parent'[on'[u]] = u
               /\ pc'[u] \in Preparing => pc'[on'[u]] = "unborn"
               /\ pc'[u] \in Waiting => on'[u] \in Threads /\ meant'[u] \in Threads
    <3>1. CASE u = t BY <1>2, <3>1 DEF Preparing, Waiting
    <3>2. CASE u # t
      <4>1. pc[u] \in Preparing => on[u] # t
        BY <1>1 DEF Ownership, Places
      <4> QED BY <1>2, <1>4, <3>2, <4>1 DEF Ownership, Places
    <3> QED BY <3>1, <3>2
  <2> QED BY <2>1, <2>2 DEF Places
<1>9. TdbOwned'
  <2>1. ~HasTdb(t) BY <1>1 DEF HasTdb
  <2> QED BY <1>2, <1>3, <1>4, <1>5, <1>7, <2>1 DEF Ownership, TdbOwned
<1>10. StackOwned'
  <2>1. ASSUME NEW y \in Threads, Holder(y)', StackOf(y)' # NoBlock
        PROVE  /\ StackOf(y)' \in mem'["stack"].heap \ Queued(mem'["stack"])
               /\ StackOf(y)' \in mem'["stack"].used
               /\ \A z \in Threads : Holder(z)' /\ StackOf(z)' = StackOf(y)' => z = y
    <3>1. Holder(y) /\ StackOf(y)' = StackOf(y) /\ StackOf(y) # NoBlock BY <1>7, <2>1
    <3>2. StackOf(y) \in mem["stack"].heap \ Queued(mem["stack"])
          /\ StackOf(y) \in mem["stack"].used
      BY <3>1 DEF Ownership, StackOwned
    <3>3. \A z \in Threads : Holder(z)' /\ StackOf(z)' = StackOf(y)' => z = y
      BY <1>7, <3>1 DEF Ownership, StackOwned
    <3> QED BY <1>1, <1>5, <1>6, <3>1, <3>2, <3>3
  <2>2. ASSUME NEW u \in Threads
        PROVE  /\ Child(u)' => regs'[u].sp # NoBlock /\ regs'[u].sp = StackOf(u)'
               /\ pc'[u] = "allocated" => StackOf(on[u])' # NoBlock
               /\ pc'[u] = "exiting" => saved'[u].stack = regs'[u].sp
    <3>1. pc'[u] = "allocated" => pc[u] = "allocated" BY <1>2
    <3>2. pc'[u] = "allocated" => StackOf(on[u])' # NoBlock
      BY <1>4, <3>1 DEF Ownership, StackOwned, StackOf
    <3>3. ~Child(t) BY <1>1 DEF Child, HasTdb
    <3> QED BY <1>2, <1>3, <1>7, <3>2, <3>3 DEF Ownership, StackOwned
  <2>3. ASSUME NEW u \in Threads, pc'[u] = "leaving"
        PROVE  /\ saved'[u].stack = regs'[u].sp
               /\ regs'[u].sp \in Queued(mem'["stack"]) \cap mem'["stack"].used
               /\ \A z \in Threads : pc'[z] = "leaving" /\ regs'[z].sp = regs'[u].sp => z = u
    <3>1. u # t /\ pc[u] = "leaving" BY <1>2, <2>3
    <3>2. regs[u].sp # s BY <1>1, <3>1 DEF Ownership, StackOwned, s
    <3>3. \A z \in Threads : pc'[z] = "leaving" => z # t /\ pc[z] = "leaving" BY <1>2
    <3> QED BY <1>3, <1>5, <1>6, <3>1, <3>2, <3>3 DEF Ownership, StackOwned
  <2> QED BY <2>1, <2>2, <2>3 DEF StackOwned
<1>11. QueuesSound' BY <1>5, <1>6 DEF Ownership, QueuesSound
<1>12. NoneLost' BY <1>4, <1>5, <1>6, <1>7 DEF Ownership, NoneLost
<1> QED BY <1>8, <1>9, <1>10, <1>11, <1>12 DEF Ownership

(* The failure path of pthread_create gives back what only the thread that  *)
(* is not started had.                                                      *)
LEMMA CleanupOwns ==
  ASSUME TypeOK, Ownership, NEW c \in Threads, CreateCleanup(c),
         NEW x, x = on[c], NEW b, b = basic[x].tdb, NEW s, s = tdb[b].stack
  PROVE  Ownership'
<1>1. /\ x \in Threads /\ x # Main /\ Holder(x) /\ b \in Blocks
      /\ basic'[x].tdb = NoBlock
      /\ basic'[x].id = basic[x].id /\ basic'[x].terminated = basic[x].terminated
      /\ \A y \in Threads : y # x => basic'[y] = basic[y]
      /\ \A y \in Sites : y # b => tdb'[y] = tdb[y]
      /\ SoundCache(mem'["tls"]) /\ SoundCache(mem'["stack"])
      /\ mem'["tls"].heap = mem["tls"].heap
      /\ Queued(mem'["tls"]) = Queued(mem["tls"]) \cup {b}
      /\ s = NoBlock => mem'["stack"] = mem["stack"]
      /\ s # NoBlock => /\ mem'["stack"].heap = mem["stack"].heap
                        /\ mem'["stack"].used = mem["stack"].used \ {s}
                        /\ Queued(mem'["stack"]) = Queued(mem["stack"]) \cup {s}
  BY CleanupEffect DEF Ownership
<1>2. /\ pc[c] = "create_failed" /\ pc[x] = "unborn" /\ parent[x] = c /\ x # c
  BY DEF CreateCleanup, Ownership, Places, Preparing
<1>3. pc'[c] = "run" /\ \A u \in Threads : u # c => pc'[u] = pc[u]
  BY DEF CreateCleanup, TypeOK
<1>4. \A u \in Threads : u # c => on'[u] = on[u]
  BY DEF CreateCleanup, TypeOK
<1>5. regs' = regs /\ saved' = saved /\ parent' = parent /\ meant' = meant
  BY DEF CreateCleanup
<1>6. \A u \in Threads : u # c /\ pc[u] \in Preparing => on[u] # x
  BY <1>2 DEF Ownership, Places
<1>7. \A u \in Threads : /\ HasTdb(u)' <=> HasTdb(u)
                         /\ Child(u)' <=> Child(u)
                         /\ Holder(u)' <=> (Holder(u) /\ u # x)
  <2>1. \A u \in Threads : (HasTdb(u)' <=> HasTdb(u)) /\ (Child(u)' <=> Child(u))
    BY <1>2, <1>3 DEF HasTdb, Child
  <2>2. ~Child(x) BY <1>2 DEF HasTdb, Child
  <2>3. ~Holder(x)'
    BY <1>3, <1>4, <1>6, <2>1, <2>2, <1>1 DEF Holder, Preparing
  <2>4. \A u \in Threads : u # x => (Holder(u)' <=> Holder(u))
    BY <1>2, <1>3, <1>4, <2>1 DEF Holder, Preparing
  <2> QED BY <2>1, <2>3, <2>4
<1>8. \A u \in Threads : u # x /\ (HasTdb(u) \/ Holder(u)) =>
        /\ basic'[u] = basic[u] /\ basic[u].tdb \in Sites /\ basic[u].tdb # b
        /\ tdb'[basic[u].tdb] = tdb[basic[u].tdb] /\ StackOf(u)' = StackOf(u)
  <2>1. ASSUME NEW u \in Threads, u # x, HasTdb(u) \/ Holder(u)
        PROVE  basic[u].tdb \in Sites /\ basic[u].tdb # b
    <3>1. basic[u].tdb \in Sites /\ tdb[basic[u].tdb].basic_data = u
      BY <2>1, OwnArea DEF Ownership
    <3>2. tdb[b].basic_data = x BY <1>1, OwnArea DEF Ownership
    <3> QED BY <2>1, <3>1, <3>2
  <2> QED BY <1>1, <2>1 DEF StackOf
<1>9. ~HasTdb(x) BY <1>1, <1>2 DEF HasTdb
<1>10. Places'
  <2>1. pc'[Main] \notin {"unborn", "exiting", "leaving"}
    BY <1>3, ThreadsAssumption DEF Ownership, Places
  <2>2. ASSUME NEW u \in Threads
        PROVE  /\ pc'[u] \in Preparing \cup {"started", "uncounted"} =>
                    on'[u] \in Threads /\ on'[u] # Main /\ parent'[on'[u]] = u
               /\ pc'[u] \in Preparing => pc'[on'[u]] = "unborn"
               /\ pc'[u] \in Waiting => on'[u] \in Threads /\ meant'[u] \in Threads
    <3>1. CASE u = c BY <1>3, <3>1 DEF Preparing, Waiting
    <3>2. CASE u # c
      <4>1. pc[u] \in Preparing => on[u] # c
        BY <1>2 DEF Ownership, Places
      <4> QED BY <1>3, <1>4, <1>5, <3>2, <4>1 DEF Ownership, Places
    <3> QED BY <3>1, <3>2
  <2> QED BY <2>1, <2>2 DEF Places
<1>11. TdbOwned'
  <2>1. ASSUME NEW y \in Threads, Holder(y)'
        PROVE  /\ basic'[y].live
               /\ basic'[y].tdb \in mem'["tls"].heap \ Queued(mem'["tls"])
               /\ tdb'[basic'[y].tdb].basic_data = y
    BY <1>1, <1>7, <1>8, <2>1 DEF Ownership, TdbOwned
  <2>2. /\ basic'[Main] = basic[Main]
        /\ tdb'[MainTls] = tdb[MainTls]
    BY <1>1, <1>8, ThreadsAssumption DEF HasTdb, Ownership, TdbOwned
  <2>3. \A t \in Threads : HasTdb(t)' => regs'[t].gs = basic'[t].tdb
    BY <1>5, <1>7, <1>8, <1>9 DEF Ownership, TdbOwned
  <2>4. \A t \in Threads : basic'[t].terminated => basic'[t].tdb = NoBlock
    BY <1>1 DEF Ownership, TdbOwned
  <2>5. \A t \in Threads : pc'[t] = "exiting" => saved'[t].basic_data = t
    BY <1>3, <1>5 DEF Ownership, TdbOwned
  <2> QED BY <2>1, <2>2, <2>3, <2>4, <2>5 DEF Ownership, TdbOwned
<1>12. StackOwned'
  <2>0. s = StackOf(x) BY DEF StackOf
  <2>1. ASSUME NEW y \in Threads, Holder(y)', StackOf(y)' # NoBlock
        PROVE  /\ StackOf(y)' \in mem'["stack"].heap \ Queued(mem'["stack"])
               /\ StackOf(y)' \in mem'["stack"].used
               /\ \A z \in Threads : Holder(z)' /\ StackOf(z)' = StackOf(y)' => z = y
    <3>1. /\ Holder(y) /\ y # x /\ StackOf(y)' = StackOf(y) /\ StackOf(y) # NoBlock
      BY <1>7, <1>8, <2>1
    <3>2. StackOf(y) \in mem["stack"].heap \ Queued(mem["stack"])
          /\ StackOf(y) \in mem["stack"].used
          /\ \A z \in Threads : Holder(z) /\ StackOf(z) = StackOf(y) => z = y
      BY <3>1 DEF Ownership, StackOwned
    <3>3. StackOf(y) # s BY <1>1, <2>0, <3>1, <3>2
    <3>4. \A z \in Threads : Holder(z)' => Holder(z) /\ StackOf(z)' = StackOf(z)
      BY <1>7, <1>8
    <3> QED BY <1>1, <3>1, <3>2, <3>3, <3>4
  <2>2. ASSUME NEW u \in Threads
        PROVE  /\ Child(u)' => regs'[u].sp # NoBlock /\ regs'[u].sp = StackOf(u)'
               /\ pc'[u] = "allocated" => StackOf(on[u])' # NoBlock
               /\ pc'[u] = "exiting" => saved'[u].stack = regs'[u].sp
    <3>1. Child(u)' => Child(u) /\ StackOf(u)' = StackOf(u)
      BY <1>7, <1>8, <1>9 DEF Child
    <3>2. pc'[u] = "allocated" =>
            /\ pc[u] = "allocated" /\ on'[u] = on[u] /\ on[u] \in Threads
            /\ Holder(on[u]) /\ on[u] # x
      BY <1>3, <1>4, <1>6 DEF Ownership, Places, Holder, Preparing
    <3>3. pc'[u] = "allocated" => StackOf(on[u])' # NoBlock
      <4>1. \A z \in Threads : z # x /\ Holder(z) => StackOf(z)' = StackOf(z)
        BY <1>8
      <4>2. pc'[u] = "allocated" => StackOf(on[u])' = StackOf(on[u])
        BY <1>8, <3>2 DEF StackOf
      <4> QED BY <3>2, <4>2 DEF Ownership, StackOwned
    <3>4. pc'[u] = "exiting" => saved'[u].stack = regs'[u].sp
      BY <1>3, <1>5 DEF Ownership, StackOwned
    <3> QED BY <1>5, <3>1, <3>3, <3>4 DEF Ownership, StackOwned
  <2>3. ASSUME NEW u \in Threads, pc'[u] = "leaving"
        PROVE  /\ saved'[u].stack = regs'[u].sp
               /\ regs'[u].sp \in Queued(mem'["stack"]) \cap mem'["stack"].used
               /\ \A z \in Threads : pc'[z] = "leaving" /\ regs'[z].sp = regs'[u].sp => z = u
    <3>1. pc[u] = "leaving" /\ \A z \in Threads : pc'[z] = "leaving" => pc[z] = "leaving"
      BY <1>3, <2>3
    <3>2. /\ saved[u].stack = regs[u].sp
          /\ regs[u].sp \in Queued(mem["stack"]) \cap mem["stack"].used
          /\ \A z \in Threads : pc[z] = "leaving" /\ regs[z].sp = regs[u].sp => z = u
      BY <3>1 DEF Ownership, StackOwned
    <3>3. s # NoBlock => regs[u].sp # s
      BY <1>1, <2>0, <3>2 DEF Ownership, StackOwned
    <3> QED BY <1>1, <1>5, <3>1, <3>2, <3>3
  <2> QED BY <2>1, <2>2, <2>3 DEF StackOwned
<1>13. QueuesSound' BY <1>1 DEF SoundCache, QueuesSound
<1>14. NoneLost'
  <2>1. ASSUME NEW a \in mem'["tls"].heap
        PROVE  a \in Queued(mem'["tls"]) \/ \E y \in Threads : Holder(y)' /\ basic'[y].tdb = a
    BY <1>1, <1>7, <1>8 DEF Ownership, NoneLost
  <2>2. ASSUME NEW a \in mem'["stack"].heap
        PROVE  a \in Queued(mem'["stack"]) \/ \E y \in Threads : Holder(y)' /\ StackOf(y)' = a
    <3>0. s = StackOf(x) BY DEF StackOf
    <3>1. a \in mem["stack"].heap BY <1>1
    <3>2. a \in Queued(mem["stack"]) \/ \E y \in Threads : Holder(y) /\ StackOf(y) = a
      BY <3>1 DEF Ownership, NoneLost
    <3>3. CASE a \in Queued(mem["stack"]) BY <1>1, <3>3
    <3>4. CASE \E y \in Threads : Holder(y) /\ StackOf(y) = a
      <4>1. PICK y \in Threads : Holder(y) /\ StackOf(y) = a BY <3>4
      <4>2. CASE y # x BY <1>7, <1>8, <4>1, <4>2
      <4>3. CASE y = x
        <5>1. a # NoBlock BY <3>1, BlocksAssumption DEF TypeOK, Cache
        <5> QED BY <1>1, <3>0, <4>1, <4>3, <5>1
      <4> QED BY <4>2, <4>3
    <3> QED BY <3>2, <3>3, <3>4
  <2> QED BY <2>1, <2>2 DEF NoneLost
<1> QED BY <1>10, <1>11, <1>12, <1>13, <1>14 DEF Ownership

(* The critical section of pthread_exit gives the TLS area back and queues  *)
(* the stack the thread goes on to run on, in use.                          *)
LEMMA ExitOwns ==
  ASSUME TypeOK, Ownership, NEW t \in Threads, ExitLocked(t),
         NEW b, b = regs[t].gs, NEW s, s = regs[t].sp
  PROVE  Ownership'
<1>1. /\ pc[t] = "exiting" /\ t # Main /\ Child(t) /\ b = basic[t].tdb /\ b \in Blocks
      /\ s = StackOf(t) /\ s # NoBlock /\ saved[t].stack = s
      /\ basic' \in [Threads -> BasicData]
      /\ basic'[t].tdb = NoBlock
      /\ \A y \in Threads : y # t => basic'[y] = basic[y]
      /\ \A y \in Sites : y # b => tdb'[y] = tdb[y]
      /\ SoundCache(mem'["tls"]) /\ SoundCache(mem'["stack"])
      /\ mem'["tls"].heap = mem["tls"].heap
      /\ Queued(mem'["tls"]) = Queued(mem["tls"]) \cup {b}
      /\ mem'["stack"].heap = mem["stack"].heap
      /\ mem'["stack"].used = mem["stack"].used
      /\ Queued(mem'["stack"]) = Queued(mem["stack"]) \cup {s}
  BY ExitEffect DEF Ownership
<1>2. /\ pc'[t] = "leaving"
      /\ \A u \in Threads : u # t =>
           \/ pc'[u] = pc[u]
           \/ pc[u] = "join_wait" /\ pc'[u] = "join_woken"
           \/ u = Main /\ pc[u] = "shutdown_wait" /\ pc'[u] = "shutdown"
  BY <1>1, ExitPlaces
<1>3. regs' = regs /\ saved' = saved /\ parent' = parent /\ meant' = meant /\ on' = on
  BY DEF ExitLocked
<1>4. Holder(t) BY <1>1 DEF Holder
<1>5. \A u \in Threads : /\ pc'[u] \in Preparing <=> pc[u] \in Preparing
                         /\ pc'[u] = "allocated" <=> pc[u] = "allocated"
                         /\ pc'[u] = "unborn" <=> pc[u] = "unborn"
                         /\ pc'[u] = "exiting" <=> (pc[u] = "exiting" /\ u # t)
                         /\ pc'[u] = "leaving" <=> (pc[u] = "leaving" \/ u = t)
                         /\ pc'[u] \in {"started", "uncounted"} <=> pc[u] \in {"started", "uncounted"}
                         /\ pc'[u] \in Waiting <=> pc[u] \in Waiting
  BY <1>1, <1>2 DEF Preparing, Waiting
<1>6. \A u \in Threads : /\ HasTdb(u)' <=> (HasTdb(u) /\ u # t)
                         /\ Child(u)' <=> (Child(u) /\ u # t)
                         /\ Holder(u)' <=> (Holder(u) /\ u # t)
  <2>1. \A u \in Threads : HasTdb(u)' <=> (HasTdb(u) /\ u # t)
    BY <1>1, <1>2 DEF HasTdb
  <2>2. \A u \in Threads : Child(u)' <=> (Child(u) /\ u # t) BY <2>1 DEF Child
  <2>3. \A c \in Threads : pc[c] \in Preparing => on[c] # t
    BY <1>1 DEF Ownership, Places
  <2>4. \A u \in Threads : Holder(u)' <=> (Holder(u) /\ u # t)
    BY <1>3, <1>5, <2>2, <2>3 DEF Holder
  <2> QED BY <2>1, <2>2, <2>4
<1>7. \A u \in Threads : u # t /\ (HasTdb(u) \/ Holder(u)) =>
        /\ basic'[u] = basic[u] /\ basic[u].tdb \in Sites /\ basic[u].tdb # b
        /\ tdb'[basic[u].tdb] = tdb[basic[u].tdb] /\ StackOf(u)' = StackOf(u)
  <2>1. ASSUME NEW u \in Threads, u # t, HasTdb(u) \/ Holder(u)
        PROVE  basic[u].tdb \in Sites /\ basic[u].tdb # b
    <3>1. basic[u].tdb \in Sites /\ tdb[basic[u].tdb].basic_data = u
      BY <2>1, OwnArea DEF Ownership
    <3>2. tdb[b].basic_data = t BY <1>1, <1>4, OwnArea DEF Ownership
    <3> QED BY <2>1, <3>1, <3>2
  <2> QED BY <1>1, <2>1 DEF StackOf
<1>8. Places'
  <2>1. pc'[Main] \notin {"unborn", "exiting", "leaving"}
    BY <1>1, <1>5, ThreadsAssumption DEF Ownership, Places
  <2>2. ASSUME NEW u \in Threads
        PROVE  /\ pc'[u] \in Preparing \cup {"started", "uncounted"} =>
                    on'[u] \in Threads /\ on'[u] # Main /\ parent'[on'[u]] = u
               /\ pc'[u] \in Preparing => pc'[on'[u]] = "unborn"
               /\ pc'[u] \in Waiting => on'[u] \in Threads /\ meant'[u] \in Threads
    BY <1>3, <1>5 DEF Ownership, Places
  <2> QED BY <2>1, <2>2 DEF Places
<1>9. TdbOwned'
  <2>1. ASSUME NEW y \in Threads, Holder(y)'
        PROVE  /\ basic'[y].live
               /\ basic'[y].tdb \in mem'["tls"].heap \ Queued(mem'["tls"])
               /\ tdb'[basic'[y].tdb].basic_data = y
    BY <1>1, <1>6, <1>7, <2>1 DEF Ownership, TdbOwned
  <2>2. /\ basic'[Main] = basic[Main]
        /\ tdb'[MainTls] = tdb[MainTls]
    BY <1>1, <1>7, ThreadsAssumption DEF HasTdb, Ownership, TdbOwned
  <2>3. \A u \in Threads : HasTdb(u)' => regs'[u].gs = basic'[u].tdb
    BY <1>3, <1>6, <1>7 DEF Ownership, TdbOwned
  <2>4. \A u \in Threads : basic'[u].terminated => basic'[u].tdb = NoBlock
    BY <1>1 DEF Ownership, TdbOwned
  <2>5. \A u \in Threads : pc'[u] = "exiting" => saved'[u].basic_data = u
    BY <1>3, <1>5 DEF Ownership, TdbOwned
  <2> QED BY <2>1, <2>2, <2>3, <2>4, <2>5 DEF Ownership, TdbOwned
<1>10. s \in mem["stack"].heap \ Queued(mem["stack"]) /\ s \in mem["stack"].used
       /\ \A z \in Threads : Holder(z) /\ StackOf(z) = s => z = t
  BY <1>1, <1>4 DEF Ownership, StackOwned
<1>11. StackOwned'
  <2>1. ASSUME NEW y \in Threads, Holder(y)', StackOf(y)' # NoBlock
        PROVE  /\ StackOf(y)' \in mem'["stack"].heap \ Queued(mem'["stack"])
               /\ StackOf(y)' \in mem'["stack"].used
               /\ \A z \in Threads : Holder(z)' /\ StackOf(z)' = StackOf(y)' => z = y
    <3>1. /\ Holder(y) /\ y # t /\ StackOf(y)' = StackOf(y) /\ StackOf(y) # NoBlock
      BY <1>6, <1>7, <2>1
    <3>2. StackOf(y) \in mem["stack"].heap \ Queued(mem["stack"])
          /\ StackOf(y) \in mem["stack"].used
          /\ \A z \in Threads : Holder(z) /\ StackOf(z) = StackOf(y) => z = y
      BY <3>1 DEF Ownership, StackOwned
    <3>3. StackOf(y) # s BY <1>10, <3>1
    <3>4. \A z \in Threads : Holder(z)' => Holder(z) /\ StackOf(z)' = StackOf(z)
      BY <1>6, <1>7
    <3> QED BY <1>1, <3>1, <3>2, <3>3, <3>4
  <2>2. ASSUME NEW u \in Threads
        PROVE  /\ Child(u)' => regs'[u].sp # NoBlock /\ regs'[u].sp = StackOf(u)'
               /\ pc'[u] = "allocated" => StackOf(on[u])' # NoBlock
               /\ pc'[u] = "exiting" => saved'[u].stack = regs'[u].sp
    <3>1. Child(u)' => Child(u) /\ StackOf(u)' = StackOf(u)
      BY <1>6, <1>7 DEF Child
    <3>2. pc'[u] = "allocated" =>
            /\ pc[u] = "allocated" /\ on'[u] = on[u] /\ on[u] \in Threads
            /\ Holder(on[u]) /\ on[u] # t
      BY <1>1, <1>3, <1>5 DEF Ownership, Places, Holder, Preparing
    <3>3. pc'[u] = "allocated" => StackOf(on[u])' # NoBlock
      <4>1. pc'[u] = "allocated" => StackOf(on[u])' = StackOf(on[u])
        BY <1>7, <3>2 DEF StackOf
      <4> QED BY <3>2, <4>1 DEF Ownership, StackOwned
    <3>4. pc'[u] = "exiting" => saved'[u].stack = regs'[u].sp
      BY <1>3, <1>5 DEF Ownership, StackOwned
    <3> QED BY <1>3, <3>1, <3>3, <3>4 DEF Ownership, StackOwned
  <2>3. ASSUME NEW u \in Threads, pc'[u] = "leaving"
        PROVE  /\ saved'[u].stack = regs'[u].sp
               /\ regs'[u].sp \in Queued(mem'["stack"]) \cap mem'["stack"].used
               /\ \A z \in Threads : pc'[z] = "leaving" /\ regs'[z].sp = regs'[u].sp => z = u
    <3>1. \A z \in Threads : pc[z] = "leaving" => regs[z].sp # s
      BY <1>10 DEF Ownership, StackOwned
    <3>2. CASE u = t
      BY <1>1, <1>3, <1>5, <1>10, <3>1, <3>2
    <3>3. CASE u # t
      <4>1. pc[u] = "leaving" BY <1>5, <2>3, <3>3
      <4>2. /\ saved[u].stack = regs[u].sp
            /\ regs[u].sp \in Queued(mem["stack"]) \cap mem["stack"].used
            /\ \A z \in Threads : pc[z] = "leaving" /\ regs[z].sp = regs[u].sp => z = u
        BY <4>1 DEF Ownership, StackOwned
      <4> QED BY <1>1, <1>3, <1>5, <3>1, <4>1, <4>2
    <3> QED BY <3>2, <3>3
  <2> QED BY <2>1, <2>2, <2>3 DEF StackOwned
<1>12. QueuesSound' BY <1>1 DEF SoundCache, QueuesSound
<1>13. NoneLost'
  <2>1. ASSUME NEW a \in mem'["tls"].heap
        PROVE  a \in Queued(mem'["tls"]) \/ \E y \in Threads : Holder(y)' /\ basic'[y].tdb = a
    BY <1>1, <1>6, <1>7 DEF Ownership, NoneLost
  <2>2. ASSUME NEW a \in mem'["stack"].heap
        PROVE  a \in Queued(mem'["stack"]) \/ \E y \in Threads : Holder(y)' /\ StackOf(y)' = a
    BY <1>1, <1>6, <1>7 DEF Ownership, NoneLost
  <2> QED BY <2>1, <2>2 DEF NoneLost
<1> QED BY <1>8, <1>9, <1>11, <1>12, <1>13 DEF Ownership

(* The first critical section of pthread_create: nobody loses a block.      *)
LEMMA AllocateOwns ==
  ASSUME TypeOK, Ownership, NEW c \in Threads, NEW x \in Threads, NEW j \in BOOLEAN,
         CreateAllocate(c, x, j)
  PROVE  Ownership'
<1>1. /\ pc[c] = "run" /\ pc[x] = "unborn" /\ c # x /\ x # Main /\ ~Holder(x)
      /\ \A y \in Threads : y # x => basic'[y] = basic[y]
      /\ basic'[x].live /\ ~basic'[x].terminated
  BY AllocateEffect DEF Ownership
<1>2. PICK b \in Blocks :
        /\ basic'[x].tdb = b /\ Allocates(mem["tls"], b, mem'["tls"])
        /\ \A y \in Sites : y # b => tdb'[y] = tdb[y]
        /\ tdb'[b].basic_data = x
        /\ \/ /\ tdb'[b].stack # NoBlock
              /\ Allocates(mem["stack"], tdb'[b].stack, mem'["stack"])
              /\ pc' = [pc EXCEPT ![c] = "allocated"]
           \/ /\ tdb'[b].stack = NoBlock /\ mem'["stack"] = mem["stack"]
              /\ pc' = [pc EXCEPT ![c] = "create_failed"]
  BY AllocateEffect DEF Ownership
<1> DEFINE s == tdb'[b].stack
<1>3. /\ pc'[c] \in Preparing /\ \A u \in Threads : u # c => pc'[u] = pc[u]
      /\ pc'[c] = "allocated" => s # NoBlock
  BY <1>2 DEF Preparing, TypeOK
<1>4. /\ on'[c] = x /\ parent'[x] = c
      /\ \A u \in Threads : u # c => on'[u] = on[u]
      /\ \A u \in Threads : u # x => parent'[u] = parent[u]
  BY DEF CreateAllocate, TypeOK
<1>5. regs' = regs /\ saved' = saved /\ meant' = meant BY DEF CreateAllocate
<1>6. \A u \in Threads : /\ HasTdb(u)' <=> HasTdb(u)
                         /\ Child(u)' <=> Child(u)
                         /\ Holder(u)' <=> (Holder(u) \/ u = x)
  <2>1. \A u \in Threads : (HasTdb(u)' <=> HasTdb(u)) /\ (Child(u)' <=> Child(u))
    BY <1>1, <1>3 DEF HasTdb, Child, Preparing
  <2>2. Holder(x)' BY <1>3, <1>4 DEF Holder
  <2>3. pc[c] \notin Preparing BY <1>1 DEF Preparing
  <2>4. ASSUME NEW u \in Threads, u # x PROVE Holder(u)' <=> Holder(u)
    BY <1>3, <1>4, <2>1, <2>3, <2>4 DEF Holder
  <2> QED BY <2>1, <2>2, <2>4
<1>7. ~HasTdb(x) BY <1>1 DEF HasTdb
<1>8. \A u \in Threads : HasTdb(u) \/ Holder(u) =>
        /\ u # x /\ basic'[u] = basic[u] /\ basic[u].tdb \in Sites /\ basic[u].tdb # b
        /\ tdb'[basic[u].tdb] = tdb[basic[u].tdb] /\ StackOf(u)' = StackOf(u)
  <2>1. ASSUME NEW u \in Threads, HasTdb(u) \/ Holder(u)
        PROVE  u # x /\ basic[u].tdb \in Sites /\ basic[u].tdb # b
    <3>1. basic[u].tdb \in Sites BY <2>1, OwnArea DEF Ownership
    <3>2. CASE Holder(u)
      BY <1>1, <1>2, <3>1, <3>2 DEF Ownership, TdbOwned, Allocates
    <3>3. CASE ~Holder(u)
      <4>1. u = Main BY <2>1, <3>3 DEF Holder, Child
      <4>2. basic[u].tdb = MainTls BY <4>1 DEF Ownership, TdbOwned
      <4> QED BY <1>1, <3>1, <4>1, <4>2, BlocksAssumption
    <3> QED BY <3>2, <3>3
  <2> QED BY <1>1, <1>2, <2>1 DEF StackOf
<1>9. StackOf(x)' = s BY <1>2 DEF StackOf
<1>10. /\ b \in mem'["tls"].heap \ Queued(mem'["tls"])
       /\ mem["tls"].heap \ Queued(mem["tls"]) \subseteq mem'["tls"].heap \ Queued(mem'["tls"])
       /\ \A a \in mem'["tls"].heap :
            a \in Queued(mem'["tls"]) \/ a = b \/ a \in mem["tls"].heap \ Queued(mem["tls"])
  BY <1>2 DEF Allocates
<1>11. /\ s # NoBlock => /\ s \in mem'["stack"].heap \ Queued(mem'["stack"])
                         /\ s \in mem'["stack"].used
                         /\ s \notin mem["stack"].heap \/ s \in Queued(mem["stack"])
       /\ mem["stack"].heap \ Queued(mem["stack"])
            \subseteq mem'["stack"].heap \ Queued(mem'["stack"])
       /\ mem["stack"].used \subseteq mem'["stack"].used
       /\ Queued(mem["stack"]) \cap mem["stack"].used
            \subseteq Queued(mem'["stack"]) \cap mem'["stack"].used
       /\ \A a \in mem'["stack"].heap :
            \/ a \in Queued(mem'["stack"]) \/ a = s
            \/ a \in mem["stack"].heap \ Queued(mem["stack"])
  <2>1. CASE s # NoBlock BY <1>2, <2>1 DEF Allocates
  <2>2. CASE s = NoBlock BY <1>2, <2>2 DEF Allocates
  <2> QED BY <2>1, <2>2
<1> HIDE DEF s
<1>12. Places'
  <2>1. pc'[Main] \notin {"unborn", "exiting", "leaving"}
    BY <1>3, ThreadsAssumption DEF Ownership, Places, Preparing
  <2>2. ASSUME NEW u \in Threads
        PROVE  /\ pc'[u] \in Preparing \cup {"started", "uncounted"} =>
                    on'[u] \in Threads /\ on'[u] # Main /\ parent'[on'[u]] = u
               /\ pc'[u] \in Preparing => pc'[on'[u]] = "unborn"
               /\ pc'[u] \in Waiting => on'[u] \in Threads /\ meant'[u] \in Threads
    <3>1. CASE u = c BY <1>1, <1>3, <1>4, <3>1 DEF Preparing, Waiting
    <3>2. CASE u # c
      <4>1. pc[u] \in Preparing => on[u] # c BY <1>1 DEF Ownership, Places
      <4>2. pc[u] \in Preparing \cup {"started", "uncounted"} => on[u] # x
        <5>1. parent[x] = NoThread BY DEF CreateAllocate
        <5>2. pc[u] \in Preparing \cup {"started", "uncounted"} => parent[on[u]] = u
          BY DEF Ownership, Places
        <5> QED BY <5>1, <5>2, ThreadsAssumption
      <4> QED BY <1>3, <1>4, <1>5, <3>2, <4>1, <4>2 DEF Ownership, Places
    <3> QED BY <3>1, <3>2
  <2> QED BY <2>1, <2>2 DEF Places
<1>13. TdbOwned'
  <2>1. ASSUME NEW y \in Threads, Holder(y)'
        PROVE  /\ basic'[y].live
               /\ basic'[y].tdb \in mem'["tls"].heap \ Queued(mem'["tls"])
               /\ tdb'[basic'[y].tdb].basic_data = y
    <3>1. CASE y = x BY <1>1, <1>2, <1>10, <3>1
    <3>2. CASE y # x BY <1>6, <1>8, <1>10, <2>1, <3>2 DEF Ownership, TdbOwned
    <3> QED BY <3>1, <3>2
  <2>2. /\ basic'[Main] = basic[Main]
        /\ tdb'[MainTls] = tdb[MainTls]
    BY <1>8, ThreadsAssumption DEF HasTdb, Ownership, TdbOwned
  <2>3. \A u \in Threads : HasTdb(u)' => regs'[u].gs = basic'[u].tdb
    BY <1>5, <1>6, <1>8 DEF Ownership, TdbOwned
  <2>4. \A u \in Threads : basic'[u].terminated => basic'[u].tdb = NoBlock
    BY <1>1 DEF Ownership, TdbOwned
  <2>5. \A u \in Threads : pc'[u] = "exiting" => saved'[u].basic_data = u
    BY <1>3, <1>5 DEF Ownership, TdbOwned, Preparing
  <2> QED BY <2>1, <2>2, <2>3, <2>4, <2>5 DEF Ownership, TdbOwned
<1>14. StackOwned'
  <2>1. ASSUME NEW y \in Threads, Holder(y)', StackOf(y)' # NoBlock
        PROVE  /\ StackOf(y)' \in mem'["stack"].heap \ Queued(mem'["stack"])
               /\ StackOf(y)' \in mem'["stack"].used
               /\ \A z \in Threads : Holder(z)' /\ StackOf(z)' = StackOf(y)' => z = y
    <3>1. \A z \in Threads : Holder(z)' => z = x \/ (Holder(z) /\ StackOf(z)' = StackOf(z))
      BY <1>6, <1>8
    <3>2. \A z \in Threads : Holder(z) /\ StackOf(z) # NoBlock => StackOf(z) # s
      BY <1>11 DEF Ownership, StackOwned
    <3>3. CASE y = x BY <1>9, <1>11, <2>1, <3>1, <3>2, <3>3
    <3>4. CASE y # x
      <4>1. /\ Holder(y) /\ StackOf(y)' = StackOf(y) /\ StackOf(y) # NoBlock
        BY <2>1, <3>1, <3>4
      <4>2. StackOf(y) \in mem["stack"].heap \ Queued(mem["stack"])
            /\ StackOf(y) \in mem["stack"].used
            /\ \A z \in Threads : Holder(z) /\ StackOf(z) = StackOf(y) => z = y
        BY <4>1 DEF Ownership, StackOwned
      <4> QED BY <1>9, <1>11, <3>1, <3>2, <4>1, <4>2
    <3> QED BY <3>3, <3>4
  <2>2. ASSUME NEW u \in Threads
        PROVE  /\ Child(u)' => regs'[u].sp # NoBlock /\ regs'[u].sp = StackOf(u)'
               /\ pc'[u] = "allocated" => StackOf(on[u])' # NoBlock
               /\ pc'[u] = "exiting" => saved'[u].stack = regs'[u].sp
    <3>1. Child(u)' => Child(u) /\ StackOf(u)' = StackOf(u)
      BY <1>6, <1>8 DEF Child
    <3>2. pc'[u] = "allocated" => StackOf(on[u])' # NoBlock
      <4>1. CASE u = c
        <5>1. StackOf(on[u])' = s BY <1>2, <1>4, <4>1 DEF StackOf, s
        <5> QED BY <1>3, <4>1, <5>1
      <4>2. CASE u # c
        <5>1. pc'[u] = "allocated" =>
                pc[u] = "allocated" /\ on'[u] = on[u] /\ on[u] \in Threads /\ Holder(on[u])
          BY <1>3, <1>4, <4>2 DEF Ownership, Places, Holder, Preparing
        <5>2. pc'[u] = "allocated" => StackOf(on[u])' = StackOf(on[u])
          BY <1>8, <5>1 DEF StackOf
        <5> QED BY <5>1, <5>2 DEF Ownership, StackOwned
      <4> QED BY <4>1, <4>2
    <3>3. pc'[u] = "exiting" => saved'[u].stack = regs'[u].sp
      BY <1>3, <1>5 DEF Ownership, StackOwned, Preparing
    <3> QED BY <1>5, <3>1, <3>2, <3>3 DEF Ownership, StackOwned
  <2>3. ASSUME NEW u \in Threads, pc'[u] = "leaving"
        PROVE  /\ saved'[u].stack = regs'[u].sp
               /\ regs'[u].sp \in Queued(mem'["stack"]) \cap mem'["stack"].used
               /\ \A z \in Threads : pc'[z] = "leaving" /\ regs'[z].sp = regs'[u].sp => z = u
    <3>1. \A z \in Threads : pc'[z] = "leaving" => pc[z] = "leaving"
      BY <1>3 DEF Preparing
    <3>2. /\ saved[u].stack = regs[u].sp
          /\ regs[u].sp \in Queued(mem["stack"]) \cap mem["stack"].used
          /\ \A z \in Threads : pc[z] = "leaving" /\ regs[z].sp = regs[u].sp => z = u
      BY <2>3, <3>1 DEF Ownership, StackOwned
    <3> QED BY <1>5, <1>11, <3>1, <3>2
  <2> QED BY <2>1, <2>2, <2>3 DEF StackOwned
<1>15. QueuesSound'
  BY <1>2 DEF Allocates, SoundCache, Ownership, QueuesSound
<1>16. NoneLost'
  <2>1. ASSUME NEW a \in mem'["tls"].heap
        PROVE  a \in Queued(mem'["tls"]) \/ \E y \in Threads : Holder(y)' /\ basic'[y].tdb = a
    BY <1>2, <1>6, <1>8, <1>10 DEF Ownership, NoneLost
  <2>2. ASSUME NEW a \in mem'["stack"].heap
        PROVE  a \in Queued(mem'["stack"]) \/ \E y \in Threads : Holder(y)' /\ StackOf(y)' = a
    BY <1>6, <1>8, <1>9, <1>11 DEF Ownership, NoneLost
  <2> QED BY <2>1, <2>2 DEF NoneLost
<1> QED BY <1>12, <1>13, <1>14, <1>15, <1>16 DEF Ownership

(* Types and owners are kept by every step.                                 *)
Owned == TypeOK /\ Ownership

(* At the start only the main thread has anything.                          *)
LEMMA InitOwned ==
  ASSUME Init
  PROVE  Owned
<1>1. TypeOK
  <2>1. pc \in [Threads -> PCs] BY DEF Init, PCs
  <2>2. FreshBasic(MainTls) \in BasicData /\ NullBasic \in BasicData
    <3>1. \A b \in Sites \cup {NoBlock} : FreshBasic(b) \in BasicData
      BY DEF FreshBasic, BasicData
    <3>2. [FreshBasic(NoBlock) EXCEPT !.live = FALSE] \in BasicData
      <4>1. FreshBasic(NoBlock) \in BasicData BY <3>1
      <4> HIDE DEF FreshBasic
      <4> QED BY <4>1 DEF BasicData
    <3> QED BY <3>1, <3>2 DEF NullBasic, Sites
  <2>3. [FreshBasic(MainTls) EXCEPT !.id = 0] \in BasicData
    BY <2>2, LimitsAssumption DEF BasicData, Ids
  <2>4. basic \in [Threads -> BasicData] BY <2>2, <2>3 DEF Init
  <2>5. tdb \in [Sites -> Descriptor]
    BY ThreadsAssumption DEF Init, FreshTdb, DeadTdb, Descriptor
  <2>6. /\ regs \in [Threads -> [gs : Sites \cup {NoBlock}, sp : Blocks \cup {NoBlock}]]
        /\ saved \in [Threads -> [basic_data : Threads \cup {NoThread}, joinable : BOOLEAN,
                                  stack : Blocks \cup {NoBlock}]]
    BY DEF Init, NoLocals, Sites
  <2>7. mem \in [{"stack", "tls"} -> Cache]
    <3>1. <<>> \in Seq(Blocks) OBVIOUS
    <3>2. [queue |-> <<>>, used |-> {}, heap |-> {}] \in Cache BY <3>1 DEF Cache
    <3> QED BY <3>2 DEF Init
  <2>8. table \subseteq Threads BY ThreadsAssumption DEF Init
  <2>9. nextId \in Ids /\ wrapped \in BOOLEAN /\ running \in Int /\ program \in Programs
    <3>1. nextId \in Ids BY LimitsAssumption DEF Init, Ids
    <3>2. wrapped \in BOOLEAN BY Zenon DEF Init
    <3>3. running \in Int BY DEF Init
    <3>4. program \in Programs BY Zenon DEF Init
    <3> QED BY <3>1, <3>2, <3>3, <3>4
  <2>10. handle \in [Threads -> Ids \cup {IllegalId, NoId}]
    BY LimitsAssumption DEF Init, Ids
  <2>11. /\ on \in [Threads -> Threads \cup {NoThread}]
         /\ parent \in [Threads -> Threads \cup {NoThread}]
         /\ meant \in [Threads -> Threads \cup {NoThread}]
         /\ claimed \subseteq Threads
         /\ delivered \subseteq Threads \X (Threads \cup {NoThread})
    BY DEF Init
  <2> QED
    BY <2>1, <2>4, <2>5, <2>6, <2>7, <2>8, <2>9, <2>10, <2>11 DEF TypeOK
<1>2. \A t \in Threads : HasTdb(t) <=> t = Main
  BY ThreadsAssumption DEF Init, HasTdb
<1>3. \A t \in Threads : ~Child(t) /\ ~Holder(t) /\ pc[t] \notin Preparing
  BY <1>2 DEF Init, Child, Holder, Preparing
<1>4. Places BY ThreadsAssumption DEF Init, Places, Preparing, Waiting
<1>5. basic[Main] = [FreshBasic(MainTls) EXCEPT !.id = 0] /\ tdb[MainTls] = FreshTdb(Main)
  BY ThreadsAssumption DEF Init, Sites
<1>6. TdbOwned
  <2>1. basic[Main].live /\ basic[Main].tdb = MainTls /\ basic[Main].id = 0
        /\ ~basic[Main].terminated
    BY <1>5 DEF FreshBasic
  <2>2. tdb[MainTls].basic_data = Main BY <1>5 DEF FreshTdb
  <2>3. regs[Main].gs = MainTls BY ThreadsAssumption DEF Init
  <2>4. \A t \in Threads : basic[t].terminated => basic[t].tdb = NoBlock
    BY <2>1 DEF Init, NullBasic, FreshBasic
  <2>5. \A t \in Threads : pc[t] # "exiting" BY DEF Init
  <2> QED BY <1>2, <1>3, <2>1, <2>2, <2>3, <2>4, <2>5 DEF TdbOwned
<1>7. StackOwned
  <2>1. \A t \in Threads : pc[t] \notin {"allocated", "exiting", "leaving"} BY DEF Init
  <2> QED BY <1>3, <2>1 DEF StackOwned
<1>8. \A ty \in {"stack", "tls"} : mem[ty] = [queue |-> <<>>, used |-> {}, heap |-> {}]
  BY DEF Init
<1>9. \A ty \in {"stack", "tls"} : mem[ty].queue = <<>> /\ mem[ty].heap = {} /\ Queued(mem[ty]) = {}
  BY <1>8 DEF Queued
<1>10. QueuesSound BY <1>9 DEF QueuesSound, NoneTwice
<1>11. NoneLost BY <1>9 DEF NoneLost
<1> QED BY <1>1, <1>4, <1>6, <1>7, <1>10, <1>11 DEF Owned, Ownership

(* And every step leaves every block with its owner.                        *)
LEMMA OwnedStep ==
  ASSUME Owned, [Next]_<<vars, program>>
  PROVE  Owned'
<1>1. TypeOK' BY TypeStep DEF Owned, Ownership
<1>2. ASSUME NEW c \in Threads, CreateRefused(c) PROVE Ownership'
  <2>1. Quiet BY <1>2, NoneChanged DEF CreateRefused, Quiet, Preparing, Owned, Waiting, Ownership, Places, TypeOK
  <2> QED BY <2>1, QuietStep DEF Owned
<1>3. ASSUME NEW c \in Threads, CreateCount(c) PROVE Ownership'
  <2>1. Quiet BY <1>3, NoneChanged DEF CreateCount, Quiet, Preparing, Owned, Waiting, Ownership, Places, TypeOK
  <2> QED BY <2>1, QuietStep DEF Owned
<1>4. ASSUME NEW c \in Threads, CreateStoreId(c) PROVE Ownership'
  <2>1. Quiet BY <1>4, NoneChanged DEF CreateStoreId, Quiet, Preparing, Owned, Waiting, Ownership, Places, TypeOK
  <2> QED BY <2>1, QuietStep DEF Owned
<1>5. ASSUME MainExit PROVE Ownership'
  <2>1. Quiet BY <1>5, NoneChanged DEF MainExit, Quiet, Preparing, Owned, Waiting, Ownership, Places, TypeOK
  <2> QED BY <2>1, QuietStep DEF Owned
<1>6. ASSUME Shutdown PROVE Ownership'
  <2>1. Quiet BY <1>6, NoneChanged DEF Shutdown, Quiet, Preparing, Owned, Waiting, Ownership, Places, TypeOK
  <2> QED BY <2>1, QuietStep DEF Owned
<1>7. ASSUME NEW t \in Threads, SpuriousWake(t) PROVE Ownership'
  <2>1. Quiet BY <1>7, NoneChanged DEF SpuriousWake, Quiet, Preparing, Owned, Waiting, Ownership, Places, TypeOK
  <2> QED BY <2>1, QuietStep DEF Owned
<1>8. ASSUME NEW t \in Threads, NEW x \in Threads, JoinCall(t, x) PROVE Ownership'
  <2>1. /\ DataKept /\ pc[t] = "run"
        /\ \/ pc' = pc /\ on' = on /\ meant' = meant
           \/ /\ pc' = [pc EXCEPT ![t] = "run"] /\ on' = [on EXCEPT ![t] = NoThread]
              /\ meant' = [meant EXCEPT ![t] = NoThread]
           \/ \E y \in Threads :
                /\ pc' = [pc EXCEPT ![t] = "join_wait"] /\ on' = [on EXCEPT ![t] = y]
                /\ meant' = [meant EXCEPT ![t] = x]
    BY <1>8, JoinCallKeeps DEF Owned, Ownership
  <2>2. UNCHANGED <<mem, regs, saved, parent>> BY <1>8 DEF JoinCall
  <2>3. \A u \in Threads :
          /\ u # t => pc'[u] = pc[u] /\ on'[u] = on[u] /\ meant'[u] = meant[u]
          /\ pc'[t] \in {"run", "join_wait"}
          /\ pc'[t] = "join_wait" => on'[t] \in Threads /\ meant'[t] \in Threads
    BY <2>1 DEF Owned, TypeOK
  <2>4. Quiet
    BY <2>1, <2>2, <2>3 DEF Quiet, Owned, Ownership, Places, Preparing, Waiting
  <2> QED BY <2>4, QuietStep DEF Owned
<1>9. ASSUME NEW t \in Threads, JoinWake(t) PROVE Ownership'
  <2>1. /\ DataKept /\ pc[t] = "join_woken" /\ on[t] \in Threads /\ meant[t] \in Threads
        /\ \/ /\ pc' = [pc EXCEPT ![t] = "run"] /\ on' = [on EXCEPT ![t] = NoThread]
              /\ meant' = [meant EXCEPT ![t] = NoThread]
           \/ pc' = [pc EXCEPT ![t] = "join_wait"] /\ on' = on /\ meant' = meant
    BY <1>9, JoinWakeKeeps DEF Owned, Ownership
  <2>2. UNCHANGED <<mem, regs, saved, parent>> BY <1>9 DEF JoinWake
  <2>3. \A u \in Threads :
          /\ u # t => pc'[u] = pc[u] /\ on'[u] = on[u] /\ meant'[u] = meant[u]
          /\ pc'[t] \in {"run", "join_wait"}
          /\ pc'[t] = "join_wait" => on'[t] \in Threads /\ meant'[t] \in Threads
    BY <2>1 DEF Owned, TypeOK
  <2>4. Quiet
    BY <2>1, <2>2, <2>3 DEF Quiet, Owned, Ownership, Places, Preparing, Waiting
  <2> QED BY <2>4, QuietStep DEF Owned
<1>10. ASSUME NEW t \in Threads, NEW x \in Threads, Detach(t, x) PROVE Ownership'
  <2>1. Quiet BY <1>10, DetachKeeps DEF Detach, Quiet, Preparing, Owned, Waiting, Ownership, Places, TypeOK
  <2> QED BY <2>1, QuietStep DEF Owned
<1>11. ASSUME NEW c \in Threads, CreateStart(c) PROVE Ownership'
  BY <1>11, StartOwns DEF Owned
<1>12. ASSUME NEW c \in Threads, CreateCleanup(c) PROVE Ownership'
  BY <1>12, CleanupOwns DEF Owned
<1>13. ASSUME NEW t \in Threads, ExitBegin(t) PROVE Ownership'
  BY <1>13, ExitBeginOwns DEF Owned
<1>14. ASSUME NEW t \in Threads, ExitLocked(t) PROVE Ownership'
  BY <1>14, ExitOwns DEF Owned
<1>15. ASSUME NEW t \in Threads, ThreadExitSyscall(t) PROVE Ownership'
  BY <1>15, SyscallOwns DEF Owned
<1>16. ASSUME NEW c \in Threads, NEW x \in Threads, NEW j \in BOOLEAN, CreateAllocate(c, x, j)
       PROVE  Ownership'
  BY <1>16, AllocateOwns DEF Owned
<1>17. ASSUME UNCHANGED <<vars, program>> PROVE Ownership'
  <2>1. Quiet BY <1>17, NoneChanged DEF vars, Quiet, Preparing, Owned, Waiting, Ownership, Places, TypeOK
  <2> QED BY <2>1, QuietStep DEF Owned
<1>18. Ownership'
  BY <1>2, <1>3, <1>4, <1>5, <1>6, <1>7, <1>8, <1>9, <1>10, <1>11, <1>12, <1>13, <1>14,
     <1>15, <1>16, <1>17, Zenon
     DEF Next, Call, Continue, Create, Terminated
<1> QED BY <1>1, <1>18 DEF Owned

(* Every thread has its stack and its TLS area to itself.                   *)
LEMMA OwnedExclusive ==
  ASSUME Owned
  PROVE  StackAndTdbExclusive
<1>1. \A t \in Threads : OnStack(t) => Child(t) \/ pc[t] = "leaving"
  BY DEF OnStack, Child, HasTdb
<1>2. \A t \in Threads : Child(t) =>
        /\ Holder(t) /\ regs[t].sp = StackOf(t)
        /\ StackOf(t) \in mem["stack"].heap \ Queued(mem["stack"])
        /\ \A u \in Threads : Child(u) /\ StackOf(u) = StackOf(t) => u = t
  BY DEF Owned, Ownership, StackOwned, Holder
<1>3. \A t \in Threads : pc[t] = "leaving" =>
        /\ regs[t].sp \in Queued(mem["stack"])
        /\ \A u \in Threads : pc[u] = "leaving" /\ regs[u].sp = regs[t].sp => u = t
  BY DEF Owned, Ownership, StackOwned
<1>4. Queued(mem["stack"]) \subseteq mem["stack"].heap
  BY DEF Owned, Ownership, QueuesSound
<1>5. ASSUME NEW t \in Threads, OnStack(t)
      PROVE  /\ regs[t].sp \in mem["stack"].heap
             /\ \A u \in Threads : OnStack(u) /\ u # t => regs[u].sp # regs[t].sp
  BY <1>1, <1>2, <1>3, <1>4, <1>5
<1>6. \A t \in Threads : HasTdb(t) =>
        /\ tdb[regs[t].gs].basic_data = t /\ basic[t].live /\ basic[t].tdb = regs[t].gs
  BY OwnArea DEF Owned, Ownership
<1> QED BY <1>5, <1>6 DEF StackAndTdbExclusive

(* A sequence without repetitions has as many members as elements.          *)
LEMMA CountQueued ==
  ASSUME NEW q \in Seq(Blocks), NoneTwice(q)
  PROVE  Cardinality({q[k] : k \in 1 .. Len(q)}) = Len(q)
<1> DEFINE Q == {q[k] : k \in 1 .. Len(q)}
           g == [k \in 1 .. Len(q) |-> q[k]]
<1>1. Len(q) \in Nat BY LenProperties
<1>2. g \in Bijection(1 .. Len(q), Q)
  <2>1. g \in [1 .. Len(q) -> Q] OBVIOUS
  <2>2. \A a, b \in 1 .. Len(q) : g[a] = g[b] => a = b BY DEF NoneTwice
  <2>3. \A y \in Q : \E k \in 1 .. Len(q) : g[k] = y OBVIOUS
  <2> HIDE DEF g, Q
  <2> QED BY ONLY <2>1, <2>2, <2>3, Fun_IsBij
<1> HIDE DEF g, Q
<1>3. ExistsBijection(1 .. Len(q), Q) BY <1>2 DEF ExistsBijection
<1>4. Cardinality(Q) = Len(q) BY <1>1, <1>3, FS_CountingElements
<1> QED BY <1>4 DEF Q

(* Every block of either cache is queued, once, or has an owner.            *)
LEMMA OwnedAccounted ==
  ASSUME Owned
  PROVE  BlocksAccounted
<1> DEFINE Starters == {t \in Threads : pc[t] \in {"allocated", "create_failed"}}
           Children == {u \in Threads \ {Main} : HasTdb(u)}
           OwnedTls == {regs[t].gs : t \in Children} \cup {basic[x].tdb : x \in Unstarted}
           Stacks == {regs[t].sp : t \in Children} \cup {tdb[basic[x].tdb].stack : x \in Unstarted}
           OwnedStack == Stacks \ {NoBlock}
<1>1. Unstarted = {on[c] : c \in Starters} BY DEF Unstarted
<1>2. \A t \in Children : Child(t) /\ Holder(t) /\ regs[t].gs = basic[t].tdb
                          /\ regs[t].sp = StackOf(t)
  BY DEF Child, Holder, Owned, Ownership, TdbOwned, StackOwned
<1>3. \A x \in Unstarted : x \in Threads /\ Holder(x) /\ tdb[basic[x].tdb].stack = StackOf(x)
  BY <1>1 DEF Owned, Ownership, Places, Holder, Preparing, StackOf
<1>4. \A x \in Threads : Holder(x) => x \in Children \/ x \in Unstarted
  BY <1>1 DEF Holder, Child, Preparing
<1> HIDE DEF Children
<1>5. ASSUME NEW a
      PROVE  a \in OwnedTls <=> \E x \in Threads : Holder(x) /\ basic[x].tdb = a
  <2>1. ASSUME a \in OwnedTls PROVE \E x \in Threads : Holder(x) /\ basic[x].tdb = a
    <3>1. \A t \in Children : t \in Threads BY DEF Children
    <3> QED BY <1>2, <1>3, <2>1, <3>1
  <2>2. ASSUME NEW x \in Threads, Holder(x), basic[x].tdb = a PROVE a \in OwnedTls
    <3>1. CASE x \in Children BY <1>2, <2>2, <3>1
    <3>2. CASE x \in Unstarted BY <2>2, <3>2
    <3> QED BY <1>4, <2>2, <3>1, <3>2
  <2> QED BY <2>1, <2>2
<1>6. ASSUME NEW a, a # NoBlock
      PROVE  a \in OwnedStack <=> \E x \in Threads : Holder(x) /\ StackOf(x) = a
  <2>1. ASSUME a \in OwnedStack PROVE \E x \in Threads : Holder(x) /\ StackOf(x) = a
    <3>1. \A t \in Children : t \in Threads BY DEF Children
    <3> QED BY <1>2, <1>3, <2>1, <3>1
  <2>2. ASSUME NEW x \in Threads, Holder(x), StackOf(x) = a PROVE a \in OwnedStack
    <3>1. CASE x \in Children BY <1>2, <1>6, <2>2, <3>1
    <3>2. CASE x \in Unstarted BY <1>3, <1>6, <2>2, <3>2
    <3> QED BY <1>4, <2>2, <3>1, <3>2
  <2> QED BY <2>1, <2>2
<1> HIDE DEF OwnedTls, OwnedStack
<1>7. /\ Cardinality(Queued(mem["tls"])) = Len(mem["tls"].queue)
      /\ Queued(mem["tls"]) \cap OwnedTls = {}
      /\ Queued(mem["tls"]) \cup OwnedTls = mem["tls"].heap
  <2>1. SoundCache(mem["tls"]) BY SoundCaches DEF Owned, Ownership
  <2>2. Cardinality(Queued(mem["tls"])) = Len(mem["tls"].queue)
    BY <2>1, CountQueued DEF Queued, SoundCache, Cache
  <2>3. \A x \in Threads : Holder(x) => basic[x].tdb \in mem["tls"].heap \ Queued(mem["tls"])
    BY DEF Owned, Ownership, TdbOwned
  <2>4. \A a \in mem["tls"].heap : a \in Queued(mem["tls"]) \/ a \in OwnedTls
    BY <1>5 DEF Owned, Ownership, NoneLost
  <2>5. Queued(mem["tls"]) \subseteq mem["tls"].heap BY <2>1 DEF SoundCache
  <2> QED BY <1>5, <2>2, <2>3, <2>4, <2>5
<1>8. /\ Cardinality(Queued(mem["stack"])) = Len(mem["stack"].queue)
      /\ Queued(mem["stack"]) \cap OwnedStack = {}
      /\ Queued(mem["stack"]) \cup OwnedStack = mem["stack"].heap
  <2>1. SoundCache(mem["stack"]) BY SoundCaches DEF Owned, Ownership
  <2>2. Cardinality(Queued(mem["stack"])) = Len(mem["stack"].queue)
    BY <2>1, CountQueued DEF Queued, SoundCache, Cache
  <2>3. \A x \in Threads : Holder(x) /\ StackOf(x) # NoBlock =>
          StackOf(x) \in mem["stack"].heap \ Queued(mem["stack"])
    BY DEF Owned, Ownership, StackOwned
  <2>4. \A a \in mem["stack"].heap : a \in Blocks /\ a # NoBlock
    BY <2>1, BlocksAssumption DEF SoundCache, Cache
  <2>5. \A a \in mem["stack"].heap : a \in Queued(mem["stack"]) \/ a \in OwnedStack
    BY <1>6, <2>4 DEF Owned, Ownership, NoneLost
  <2>6. Queued(mem["stack"]) \subseteq mem["stack"].heap BY <2>1 DEF SoundCache
  <2>7. NoBlock \notin OwnedStack BY DEF OwnedStack
  <2>8. \A a \in OwnedStack : a \in mem["stack"].heap \ Queued(mem["stack"])
    BY <1>6, <2>3, <2>7
  <2> QED BY <2>2, <2>5, <2>6, <2>8
<1> DEFINE Owner(ty) == IF ty = "tls" THEN OwnedTls ELSE OwnedStack
<1>9. \A ty \in {"stack", "tls"} :
        /\ Cardinality(Queued(mem[ty])) = Len(mem[ty].queue)
        /\ Queued(mem[ty]) \cap Owner(ty) = {}
        /\ Queued(mem[ty]) \cup Owner(ty) = mem[ty].heap
  BY <1>7, <1>8
<1> QED
  BY <1>9, Zenon DEF BlocksAccounted, Queued, Owner, OwnedTls, OwnedStack, Children

(* Types and owners are kept.                                               *)
LEMMA AlwaysOwned ==
  Spec => []Owned
<1>1. Init => Owned BY InitOwned
<1>2. Owned /\ [Next]_<<vars, program>> => Owned' BY OwnedStep
<1> QED BY <1>1, <1>2, PTL DEF Spec

(* A thread has its stack and its TDB to itself as long as it uses them,    *)
(* although pthread_exit queues the stack the thread is still running on.   *)
THEOREM ThreadsKeepTheirBlocks ==
  Spec => []StackAndTdbExclusive
<1>1. Owned => StackAndTdbExclusive BY OwnedExclusive
<1> QED BY <1>1, AlwaysOwned, PTL

(* No stack and no TLS block is lost, queued twice or queued while handed   *)
(* out, whichever way pthread_create ends.                                  *)
THEOREM BlocksAreAccounted ==
  Spec => []BlocksAccounted
<1>1. Owned => BlocksAccounted BY OwnedAccounted
<1> QED BY <1>1, AlwaysOwned, PTL

-----------------------------------------------------------------------------
(* The count of running threads.                                            *)

WithTdb == {t \in Threads : HasTdb(t)}

(* The threads are finitely many.                                           *)
LEMMA CountsAreNumbers ==
  /\ IsFiniteSet(WithTdb) /\ Cardinality(WithTdb) \in Nat
  /\ IsFiniteSet(Uncounted) /\ Cardinality(Uncounted) \in Nat
<1>1. WithTdb \subseteq Threads /\ Uncounted \subseteq Threads BY DEF WithTdb, Uncounted
<1>2. IsFiniteSet(WithTdb) /\ IsFiniteSet(Uncounted)
  BY <1>1, FS_Subset, ThreadsAssumption
<1> QED BY <1>2, FS_CardinalityType

(* A step that starts and ends no thread and counts none.                   *)
LEMMA CountKept ==
  ASSUME CounterAccounts, running' = running,
         \A t \in Threads : /\ HasTdb(t)' <=> HasTdb(t)
                            /\ pc'[t] \in {"started", "uncounted"} <=>
                                 pc[t] \in {"started", "uncounted"}
  PROVE  CounterAccounts'
<1>1. WithTdb' = WithTdb BY DEF WithTdb
<1>2. Uncounted' = Uncounted BY DEF Uncounted
<1> QED BY <1>1, <1>2 DEF CounterAccounts, WithTdb

(* Every step keeps the account.                                            *)
LEMMA CountStep ==
  ASSUME Owned, CounterAccounts, [Next]_<<vars, program>>
  PROVE  CounterAccounts'
<1>1. ASSUME NEW c \in Threads, CreateStart(c) PROVE CounterAccounts'
  <2> DEFINE x == on[c]
  <2>1. /\ pc[c] = "allocated" /\ x \in Threads /\ x # Main /\ pc[x] = "unborn" /\ x # c
    BY <1>1 DEF CreateStart, Owned, Ownership, Places, Preparing
  <2> HIDE DEF x
  <2>2. /\ pc' \in [Threads -> PCs] /\ pc'[c] = "started" /\ pc'[x] = "run"
        /\ \A u \in Threads : u # c /\ u # x => pc'[u] = pc[u]
    BY <1>1, <2>1 DEF CreateStart, Owned, TypeOK, PCs, x
  <2>3. WithTdb' = WithTdb \cup {x} /\ x \notin WithTdb
    BY <2>1, <2>2 DEF WithTdb, HasTdb
  <2>4. Uncounted' = Uncounted \cup {c} /\ c \notin Uncounted
    BY <2>1, <2>2 DEF Uncounted
  <2>5. Cardinality(WithTdb') = Cardinality(WithTdb) + 1
    BY <2>3, CountsAreNumbers, FS_AddElement
  <2>6. Cardinality(Uncounted') = Cardinality(Uncounted) + 1
    BY <2>4, CountsAreNumbers, FS_AddElement
  <2>7. running' = running BY <1>1 DEF CreateStart
  <2> QED BY <2>5, <2>6, <2>7, CountsAreNumbers DEF CounterAccounts, WithTdb
<1>2. ASSUME NEW c \in Threads, CreateCount(c) PROVE CounterAccounts'
  <2>1. /\ pc[c] = "uncounted" /\ pc'[c] = "run" /\ running' = running + 1
        /\ \A u \in Threads : u # c => pc'[u] = pc[u]
    BY <1>2 DEF CreateCount, Owned, TypeOK
  <2>2. WithTdb' = WithTdb BY <2>1 DEF WithTdb, HasTdb
  <2>3. Uncounted' = Uncounted \ {c} /\ c \in Uncounted BY <2>1 DEF Uncounted
  <2>4. Cardinality(Uncounted') = Cardinality(Uncounted) - 1
    BY <2>3, CountsAreNumbers, FS_RemoveElement
  <2> QED BY <2>1, <2>2, <2>4, CountsAreNumbers DEF CounterAccounts, WithTdb
<1>3. ASSUME NEW t \in Threads, ExitLocked(t) PROVE CounterAccounts'
  <2>1. pc[t] = "exiting" /\ t # Main BY <1>3, ExitEffect DEF Owned, Ownership
  <2>2. /\ pc'[t] = "leaving"
        /\ \A u \in Threads : u # t =>
             \/ pc'[u] = pc[u]
             \/ pc[u] = "join_wait" /\ pc'[u] = "join_woken"
             \/ u = Main /\ pc[u] = "shutdown_wait" /\ pc'[u] = "shutdown"
    BY <1>3, <2>1, ExitPlaces DEF Owned
  <2>3. WithTdb' = WithTdb \ {t} /\ t \in WithTdb
    BY <2>1, <2>2 DEF WithTdb, HasTdb
  <2>4. Uncounted' = Uncounted BY <2>1, <2>2 DEF Uncounted
  <2>5. Cardinality(WithTdb') = Cardinality(WithTdb) - 1
    BY <2>3, CountsAreNumbers, FS_RemoveElement
  <2>6. running' = running - 1 BY <1>3 DEF ExitLocked
  <2> QED BY <2>4, <2>5, <2>6, CountsAreNumbers DEF CounterAccounts, WithTdb
<1>4. ASSUME NEW c \in Threads, NEW x \in Threads, NEW j \in BOOLEAN, CreateAllocate(c, x, j)
      PROVE  CounterAccounts'
  <2>1. pc[c] = "run" /\ running' = running BY <1>4 DEF CreateAllocate
  <2>2. \/ pc' = [pc EXCEPT ![c] = "allocated"] \/ pc' = [pc EXCEPT ![c] = "create_failed"]
    BY <1>4, AllocateEffect DEF Owned, Ownership
  <2> QED BY <2>1, <2>2, CountKept DEF Owned, TypeOK, HasTdb
<1>5. ASSUME NEW c \in Threads, CreateRefused(c) \/ CreateStoreId(c) \/ CreateCleanup(c)
      PROVE  CounterAccounts'
  BY <1>5, CountKept
     DEF CreateRefused, CreateStoreId, CreateCleanup, Owned, TypeOK, HasTdb
<1>6. ASSUME NEW t \in Threads, ExitBegin(t) \/ ThreadExitSyscall(t) \/ SpuriousWake(t)
      PROVE  CounterAccounts'
  BY <1>6, CountKept DEF ExitBegin, ThreadExitSyscall, SpuriousWake, Owned, TypeOK, HasTdb
<1>7. ASSUME MainExit \/ Shutdown PROVE CounterAccounts'
  BY <1>7, CountKept, ThreadsAssumption DEF MainExit, Shutdown, Owned, TypeOK, HasTdb
<1>8. ASSUME NEW t \in Threads, NEW x \in Threads, JoinCall(t, x) PROVE CounterAccounts'
  <2>1. /\ pc[t] = "run"
        /\ pc' = pc \/ \E p \in {"run", "join_wait"} : pc' = [pc EXCEPT ![t] = p]
    BY <1>8, JoinCallKeeps DEF Owned, Ownership
  <2>2. running' = running BY <1>8 DEF JoinCall
  <2> QED BY <2>1, <2>2, CountKept DEF Owned, TypeOK, HasTdb
<1>9. ASSUME NEW t \in Threads, JoinWake(t) PROVE CounterAccounts'
  <2>1. /\ pc[t] = "join_woken"
        /\ \E p \in {"run", "join_wait"} : pc' = [pc EXCEPT ![t] = p]
    BY <1>9, JoinWakeKeeps DEF Owned, Ownership
  <2>2. running' = running BY <1>9 DEF JoinWake
  <2> QED BY <2>1, <2>2, CountKept DEF Owned, TypeOK, HasTdb
<1>10. ASSUME NEW t \in Threads, NEW x \in Threads, Detach(t, x) PROVE CounterAccounts'
  BY <1>10, CountKept DEF Detach, HasTdb
<1>11. ASSUME UNCHANGED <<vars, program>> PROVE CounterAccounts'
  BY <1>11, CountKept DEF vars, HasTdb
<1> QED
  BY <1>1, <1>2, <1>3, <1>4, <1>5, <1>6, <1>7, <1>8, <1>9, <1>10, <1>11, Zenon
     DEF Next, Call, Continue, Create, Terminated

(* The counter accounts for every thread, at every step of every creator.   *)
THEOREM RunningThreadsCounted ==
  Spec => []CounterAccounts
<1>1. Init => CounterAccounts
  <2> SUFFICES ASSUME Init PROVE CounterAccounts OBVIOUS
  <2>1. WithTdb = {Main} BY ThreadsAssumption DEF Init, WithTdb, HasTdb
  <2>2. Uncounted = {} BY DEF Init, Uncounted
  <2>3. Cardinality(WithTdb) = 1 BY <2>1, FS_Singleton
  <2>4. Cardinality(Uncounted) = 0 BY <2>2, FS_EmptySet
  <2> QED BY <2>3, <2>4 DEF Init, CounterAccounts, WithTdb
<1>2. Owned /\ CounterAccounts /\ [Next]_<<vars, program>> => CounterAccounts'
  BY CountStep
<1> QED BY <1>1, <1>2, AlwaysOwned, PTL DEF Spec

-----------------------------------------------------------------------------
(* The shutdown.                                                            *)

Creating == Preparing \cup {"started", "uncounted"}

(* What a step may do to the places of threads: who begins a creation may   *)
(* create, a thread that comes to run was allocated by somebody, and the    *)
(* main thread goes when it finds itself alone.                             *)
PlacesMove ==
  /\ \A c \in Threads : pc'[c] \in Creating => pc[c] \in Creating \/ c \in program.creators
  /\ \A t \in Threads : HasTdb(t)' =>
       HasTdb(t) \/ \E c \in Threads : pc[c] = "allocated" /\ on[c] = t
  /\ pc[Main] = "gone" => pc'[Main] = "gone"
  /\ pc'[Main] = "gone" /\ pc[Main] # "gone" =>
       /\ running = 1 /\ pc[Main] = "shutdown"
       /\ \A t \in Threads \ {Main} : pc'[t] = pc[t]

(* And every step does no more.                                             *)
LEMMA PlacesMoveStep ==
  ASSUME Owned, [Next]_<<vars, program>>
  PROVE  PlacesMove
<1>0. pc \in [Threads -> PCs] /\ Main \in Threads
  BY ThreadsAssumption DEF Owned, TypeOK
<1>1. ASSUME NEW c \in Threads, CreateStart(c) PROVE PlacesMove
  BY <1>0, <1>1 DEF CreateStart, PlacesMove, Creating, Preparing, HasTdb, Owned, Ownership, Places
<1>2. ASSUME NEW c \in Threads, CreateCount(c) \/ CreateRefused(c) \/ CreateStoreId(c) \/ CreateCleanup(c)
      PROVE  PlacesMove
  BY <1>0, <1>2
     DEF CreateCount, CreateRefused, CreateStoreId, CreateCleanup, PlacesMove, Creating,
         Preparing, HasTdb
<1>3. ASSUME NEW t \in Threads, ExitLocked(t) PROVE PlacesMove
  <2>1. pc[t] = "exiting" /\ t # Main BY <1>3, ExitEffect DEF Owned, Ownership
  <2>2. /\ pc'[t] = "leaving"
        /\ \A u \in Threads : u # t =>
             \/ pc'[u] = pc[u]
             \/ pc[u] = "join_wait" /\ pc'[u] = "join_woken"
             \/ u = Main /\ pc[u] = "shutdown_wait" /\ pc'[u] = "shutdown"
    BY <1>3, <2>1, ExitPlaces DEF Owned
  <2> QED BY <1>0, <2>1, <2>2 DEF PlacesMove, Creating, Preparing, HasTdb
<1>4. ASSUME NEW c \in Threads, NEW x \in Threads, NEW j \in BOOLEAN, CreateAllocate(c, x, j)
      PROVE  PlacesMove
  <2>1. pc[c] = "run" /\ c \in program.creators BY <1>4 DEF CreateAllocate
  <2>2. \/ pc' = [pc EXCEPT ![c] = "allocated"] \/ pc' = [pc EXCEPT ![c] = "create_failed"]
    BY <1>4, AllocateEffect DEF Owned, Ownership
  <2> QED BY <1>0, <2>1, <2>2 DEF PlacesMove, Creating, Preparing, HasTdb
<1>5. ASSUME NEW t \in Threads, ExitBegin(t) \/ ThreadExitSyscall(t) \/ SpuriousWake(t)
      PROVE  PlacesMove
  BY <1>0, <1>5
     DEF ExitBegin, ThreadExitSyscall, SpuriousWake, PlacesMove, Creating, Preparing, HasTdb,
         Owned, Ownership, Places
<1>6. ASSUME MainExit \/ Shutdown PROVE PlacesMove
  BY <1>0, <1>6 DEF MainExit, Shutdown, OnlyMainLeft, PlacesMove, Creating, Preparing, HasTdb
<1>7. ASSUME NEW t \in Threads, NEW x \in Threads, JoinCall(t, x) PROVE PlacesMove
  <2>1. /\ pc[t] = "run"
        /\ pc' = pc \/ \E p \in {"run", "join_wait"} : pc' = [pc EXCEPT ![t] = p]
    BY <1>7, JoinCallKeeps DEF Owned, Ownership
  <2> QED BY <1>0, <2>1 DEF PlacesMove, Creating, Preparing, HasTdb
<1>8. ASSUME NEW t \in Threads, JoinWake(t) PROVE PlacesMove
  <2>1. /\ pc[t] = "join_woken"
        /\ \E p \in {"run", "join_wait"} : pc' = [pc EXCEPT ![t] = p]
    BY <1>8, JoinWakeKeeps DEF Owned, Ownership
  <2> QED BY <1>0, <2>1 DEF PlacesMove, Creating, Preparing, HasTdb
<1>9. ASSUME UNCHANGED pc PROVE PlacesMove
  BY <1>9 DEF PlacesMove, HasTdb
<1> QED
  BY <1>1, <1>2, <1>3, <1>4, <1>5, <1>6, <1>7, <1>8, <1>9, Zenon
     DEF Next, Call, Continue, Create, Terminated, Detach, vars

(* Where only the main thread creates threads, every thread is counted when *)
(* it looks at the count.                                                   *)
LEMMA OnlyMainCreatesStep ==
  ASSUME Owned, CounterAccounts, OnlyMainCreates, [Next]_<<vars, program>>
  PROVE  OnlyMainCreates'
<1> SUFFICES ASSUME program'.creators \subseteq {Main}
             PROVE  /\ \A c \in Threads : pc'[c] \in Creating => c = Main
                    /\ ShutdownWaitsForAll'
  BY DEF OnlyMainCreates, Creating
<1>1. program' = program BY DEF Next
<1>2. PlacesMove BY PlacesMoveStep
<1>3. \A c \in Threads : pc[c] \in Creating => c = Main
  BY <1>1 DEF OnlyMainCreates, Creating
<1>4. \A c \in Threads : pc'[c] \in Creating => c = Main
  BY <1>1, <1>2, <1>3 DEF PlacesMove
<1>5. ASSUME pc'[Main] = "gone", NEW t \in Threads \ {Main} PROVE ~HasTdb(t)'
  <2>1. CASE pc[Main] = "gone"
    <3>1. \A c \in Threads : pc[c] # "allocated"
      BY <1>3, <2>1 DEF Creating, Preparing
    <3>2. ~HasTdb(t)
      BY <1>1, <1>5, <2>1 DEF OnlyMainCreates, ShutdownWaitsForAll
    <3> QED BY <1>2, <1>5, <3>1, <3>2 DEF PlacesMove
  <2>2. CASE pc[Main] # "gone"
    <3>1. running = 1 /\ pc[Main] = "shutdown" /\ pc'[t] = pc[t]
      BY <1>2, <1>5, <2>2 DEF PlacesMove
    <3>2. Uncounted = {}
      BY <1>3, <3>1 DEF Uncounted, Creating, Preparing
    <3>3. Cardinality(WithTdb) = 1
      <4>1. Cardinality(Uncounted) = 0 BY <3>2, FS_EmptySet
      <4> QED BY <3>1, <4>1, CountsAreNumbers DEF CounterAccounts, WithTdb
    <3>4. Main \in WithTdb BY ThreadsAssumption DEF WithTdb, HasTdb
    <3>5. {Main} \in SUBSET WithTdb /\ Cardinality({Main}) = 1
      BY <3>4, FS_Singleton
    <3>6. WithTdb = {Main} BY <3>3, <3>5, CountsAreNumbers, FS_Subset
    <3> QED BY <1>5, <3>1, <3>6 DEF WithTdb, HasTdb
  <2> QED BY <2>1, <2>2
<1> QED BY <1>4, <1>5 DEF ShutdownWaitsForAll

(* The main thread leaves only when all the others have terminated, where   *)
(* no other thread creates threads.                                         *)
THEOREM MainAwaitsItsThreads ==
  Spec => []CreatedByMainAwaited
<1>1. Init => OnlyMainCreates
  BY ThreadsAssumption DEF Init, OnlyMainCreates, ShutdownWaitsForAll, Preparing
<1>2. Owned /\ CounterAccounts /\ OnlyMainCreates /\ [Next]_<<vars, program>> => OnlyMainCreates'
  BY OnlyMainCreatesStep
<1>3. OnlyMainCreates => CreatedByMainAwaited
  BY DEF OnlyMainCreates, CreatedByMainAwaited
<1> QED BY <1>1, <1>2, <1>3, AlwaysOwned, RunningThreadsCounted, PTL DEF Spec

-----------------------------------------------------------------------------
(* Ids.                                                                     *)

(* What is released is no longer in the table; nobody else's data is taken  *)
(* out when what is released is in the table itself.                        *)
LEMMA ReleasedData ==
  ASSUME TypeOK, IdsBelow, NEW bs, NEW x \in Threads, bs[x].id = basic[x].id,
         nc_release_basic_data_mu(bs, x)
  PROVE  /\ table' \subseteq table /\ x \notin table'
         /\ x \in table => table' = table \ {x}
BY DEF TypeOK, IdsBelow, nc_release_basic_data_mu, nc_find_tdb_mu

(* A step that gives no id.                                                 *)
LEMMA IdsKept ==
  ASSUME TypeOK, IdsBelow, nextId' = nextId, wrapped' = wrapped, parent' = parent,
         table' \subseteq table,
         \A y \in Threads : basic'[y].id = basic[y].id,
         \A y \in table' : basic'[y].live = basic[y].live
  PROVE  IdsBelow'
BY DEF TypeOK, IdsBelow

(* What pthread_join and pthread_detach may do to the table.                *)
MayRelease ==
  \/ basic' = basic /\ table' \subseteq table
  \/ \E y \in Threads : nc_release_basic_data_mu(basic, y)

(* Then the ids stay unique.                                                *)
LEMMA ReleasesKeepIds ==
  ASSUME TypeOK, IdsBelow, MayRelease, nextId' = nextId, wrapped' = wrapped, parent' = parent
  PROVE  IdsBelow'
<1>1. CASE basic' = basic /\ table' \subseteq table BY <1>1, IdsKept
<1>2. ASSUME NEW y \in Threads, nc_release_basic_data_mu(basic, y) PROVE IdsBelow'
  <2>1. table' \subseteq table /\ y \notin table' BY <1>2, ReleasedData
  <2>2. basic \in [Threads -> BasicData] /\ table \subseteq Threads BY DEF TypeOK
  <2>3. \A z \in Threads : /\ basic'[z].id = basic[z].id
                           /\ z # y => basic'[z] = basic[z]
    BY <1>2, <2>2, ReleaseTyped
  <2> QED BY <2>1, <2>2, <2>3, IdsKept
<1> QED BY <1>1, <1>2 DEF MayRelease

(* The id that pthread_create takes is nobody's.                            *)
LEMMA AllocatedUnused ==
  ASSUME TypeOK, IdsBelow, AllocatedId # IllegalId
  PROVE  /\ AllocatedId \in Ids
         /\ \A y \in table : basic[y].id # AllocatedId
         /\ ~wrapped => AllocatedId = nextId
<1>1. AllocatedId \in Ids BY AllocatedTyped
<1>2. CASE wrapped
  <2>1. AllocatedId \in FreeIds BY <1>2, AllocatedTyped
  <2>2. nc_find_tdb_mu(AllocatedId) = {} BY <2>1 DEF FreeIds
  <2> QED BY <1>1, <1>2, <2>2 DEF nc_find_tdb_mu
<1>3. CASE ~wrapped
  <2>1. AllocatedId = nextId BY <1>3 DEF AllocatedId
  <2>2. \A y \in table : basic[y].id < nextId BY <1>3 DEF IdsBelow
  <2>3. nextId \in Int BY LimitsAssumption DEF TypeOK, Ids
  <2> QED BY <1>1, <1>3, <2>1, <2>2, <2>3
<1> QED BY <1>2, <1>3

(* Every step keeps the ids unique.                                         *)
LEMMA IdsStep ==
  ASSUME Owned, IdsBelow, [Next]_<<vars, program>>
  PROVE  IdsBelow'
<1>0. TypeOK /\ basic \in [Threads -> BasicData] /\ table \subseteq Threads
  BY DEF Owned, TypeOK
<1>1. ASSUME NEW c \in Threads, NEW x \in Threads, NEW j \in BOOLEAN, CreateAllocate(c, x, j)
      PROVE  IdsBelow'
  <2>1. /\ x # Main /\ \A y \in Threads : y # x => basic'[y] = basic[y]
        /\ basic'[x].live /\ basic'[x].id = AllocatedId
        /\ nextId' \in Ids
        /\ \/ AllocatedId # IllegalId /\ table' = table \cup {x}
           \/ AllocatedId = IllegalId /\ table' = table
    BY <1>1, AllocateEffect DEF Owned, Ownership
  <2>2. x \notin table
    <3>1. parent[x] = NoThread BY <1>1 DEF CreateAllocate
    <3> QED BY <2>1, <3>1 DEF IdsBelow
  <2>3. \A y \in table : basic'[y] = basic[y] /\ basic[y].live /\ basic[y].id # IllegalId
    BY <1>0, <2>1, <2>2 DEF IdsBelow
  <2>4. /\ nextId \in Int /\ nextId' \in Int /\ nextId > 0
        /\ nextId' = IF ~wrapped /\ nextId # MaxThreadId THEN nextId + 1 ELSE nextId
    <3>1. nextId' = IF ~wrapped /\ nextId # MaxThreadId THEN nextId + 1 ELSE nextId
      BY <1>1 DEF CreateAllocate, AdvanceIds
    <3>2. nextId \in 0 .. MaxThreadId /\ nextId # 0 BY <1>0 DEF TypeOK, Ids, IdsBelow
    <3> QED BY <3>1, <3>2, LimitsAssumption
  <2>4a. ~wrapped' => ~wrapped /\ nextId # MaxThreadId
    <3>1. wrapped' = (wrapped \/ nextId = MaxThreadId)
      BY <1>1 DEF CreateAllocate, AdvanceIds
    <3> QED BY <3>1
  <2>5. /\ parent'[x] = c /\ c # NoThread
        /\ \A y \in Threads : y # x => parent'[y] = parent[y]
    BY <1>0, <1>1, ThreadsAssumption DEF CreateAllocate, TypeOK
  <2>6. \A y \in table' : y # Main => parent'[y] # NoThread
    BY <1>0, <2>1, <2>5 DEF IdsBelow
  <2>7. \A y \in table' : basic'[y].live /\ basic'[y].id # IllegalId
    BY <2>1, <2>3
  <2>8. \A y, z \in table' : basic'[y].id = basic'[z].id => y = z
    <3>1. CASE table' = table BY <2>3, <3>1 DEF IdsBelow
    <3>2. CASE AllocatedId # IllegalId /\ table' = table \cup {x}
      <4>1. \A y \in table : basic[y].id # AllocatedId BY <1>0, <3>2, AllocatedUnused
      <4> QED BY <2>1, <2>3, <3>2, <4>1 DEF IdsBelow
    <3> QED BY <2>1, <3>1, <3>2
  <2>9. ASSUME ~wrapped', NEW y \in table' PROVE basic'[y].id < nextId'
    <3>1. ~wrapped /\ nextId' = nextId + 1 BY <2>4, <2>4a, <2>9
    <3>2. CASE y \in table
      <4>1. basic'[y].id = basic[y].id /\ basic[y].id < nextId
        BY <2>3, <3>1, <3>2 DEF IdsBelow
      <4>2. basic[y].id \in Int
        <5>1. basic[y] \in BasicData BY <1>0, <3>2
        <5> QED BY <5>1, LimitsAssumption DEF BasicData, Ids, IllegalId
      <4> QED BY <2>4, <3>1, <4>1, <4>2
    <3>3. CASE y \notin table
      <4>1. y = x /\ AllocatedId # IllegalId BY <2>1, <2>9, <3>3
      <4>2. basic'[y].id = nextId BY <1>0, <2>1, <3>1, <4>1, AllocatedUnused
      <4> QED BY <2>4, <3>1, <4>2
    <3> QED BY <3>2, <3>3
  <2>10. nextId' # 0 BY <2>4
  <2> QED BY <2>6, <2>7, <2>8, <2>9, <2>10 DEF IdsBelow
<1>2. ASSUME NEW t \in Threads, ExitLocked(t) PROVE IdsBelow'
  <2>1. /\ \A y \in Threads : y # t => basic'[y] = basic[y]
        /\ table' \subseteq table /\ basic'[t].id = basic[t].id
        /\ saved[t].joinable => basic'[t].live = basic[t].live
        /\ saved[t].basic_data = t
    BY <1>2, ExitEffect DEF Owned, Ownership
  <2>2. ~saved[t].joinable => t \notin table'
    <3> DEFINE bs == EndedData(basic, t, t, saved[t].joinable)
    <3>1. ~saved[t].joinable => nc_release_basic_data_mu(bs, t)
      BY <1>2, <2>1, Zenon DEF ExitLocked, EndedData
    <3>2. bs[t].id = basic[t].id
      <4>1. saved[t].joinable \in BOOLEAN BY <1>0 DEF TypeOK
      <4> HIDE DEF bs
      <4>2. bs = EndedData(basic, t, t, saved[t].joinable) BY DEF bs
      <4> QED BY <1>0, <4>1, <4>2, ExitData
    <3> HIDE DEF bs
    <3> QED BY <1>0, <3>1, <3>2, ReleasedData
  <2>3. UNCHANGED <<nextId, wrapped, parent>> BY <1>2 DEF ExitLocked
  <2>4. \A y \in table' : basic'[y].live = basic[y].live
    BY <1>0, <2>1, <2>2
  <2> QED BY <1>0, <2>1, <2>3, <2>4, IdsKept
<1>3. ASSUME NEW c \in Threads, CreateCleanup(c) PROVE IdsBelow'
  <2> DEFINE x == on[c]
             bs == [basic EXCEPT ![tdb[basic[x].tdb].basic_data].tdb = NoBlock]
  <2>1. /\ x \in Threads /\ table' \subseteq table /\ basic'[x].id = basic[x].id
        /\ \A y \in Threads : y # x => basic'[y] = basic[y]
    BY <1>3, CleanupEffect DEF Owned, Ownership
  <2>2. nc_release_basic_data_mu(bs, x) BY <1>3 DEF CreateCleanup
  <2>3. bs[x].id = basic[x].id BY <1>0, <2>1 DEF BasicData
  <2> HIDE DEF x, bs
  <2>4. x \notin table' BY <1>0, <2>1, <2>2, <2>3, ReleasedData
  <2>5. UNCHANGED <<nextId, wrapped, parent>> BY <1>3 DEF CreateCleanup
  <2>6. \A y \in table' : basic'[y].live = basic[y].live BY <1>0, <2>1, <2>4
  <2>7. \A y \in Threads : basic'[y].id = basic[y].id BY <2>1
  <2> QED BY <1>0, <2>1, <2>5, <2>6, <2>7, IdsKept
<1>4. ASSUME NEW t \in Threads, NEW x \in Threads, JoinCall(t, x) PROVE IdsBelow'
  <2>1. MayRelease
    <3>1. nc_find_tdb_mu(handle[x]) \subseteq Threads BY <1>0, FoundThread
    <3> QED BY <1>4, <3>1 DEF JoinCall, Reap, MayRelease
  <2> QED BY <1>0, <1>4, <2>1, ReleasesKeepIds DEF JoinCall
<1>5. ASSUME NEW t \in Threads, JoinWake(t) PROVE IdsBelow'
  <2>1. on[t] \in Threads BY <1>5, JoinWakeKeeps DEF Owned, Ownership
  <2>2. MayRelease BY <1>5, <2>1 DEF JoinWake, Reap, MayRelease
  <2> QED BY <1>0, <1>5, <2>2, ReleasesKeepIds DEF JoinWake
<1>6. ASSUME NEW t \in Threads, NEW x \in Threads, Detach(t, x) PROVE IdsBelow'
  <2>1. MayRelease
    <3>1. \A id : nc_find_tdb_mu(id) \subseteq Threads BY <1>0, FoundThread
    <3> QED BY <1>6, <3>1 DEF Detach, MayRelease
  <2> QED BY <1>0, <1>6, <2>1, ReleasesKeepIds DEF Detach
<1>7. ASSUME UNCHANGED <<basic, table, nextId, wrapped, parent>> PROVE IdsBelow'
  BY <1>0, <1>7, IdsKept
<1>8. ASSUME NEW t \in Threads,
             \/ CreateStart(t) \/ CreateRefused(t) \/ CreateStoreId(t) \/ CreateCount(t)
             \/ ExitBegin(t) \/ ThreadExitSyscall(t) \/ SpuriousWake(t)
      PROVE  IdsBelow'
  BY <1>7, <1>8, Zenon
     DEF CreateStart, CreateRefused, CreateStoreId, CreateCount, ExitBegin,
         ThreadExitSyscall, SpuriousWake
<1>9. ASSUME MainExit \/ Shutdown PROVE IdsBelow'
  BY <1>7, <1>9, Zenon DEF MainExit, Shutdown
<1>10. ASSUME UNCHANGED <<vars, program>> PROVE IdsBelow'
  BY <1>7, <1>10, Zenon DEF vars
<1> QED
  BY <1>1, <1>2, <1>3, <1>4, <1>5, <1>6, <1>8, <1>9, <1>10, Zenon
     DEF Next, Call, Continue, Create, Terminated

(* At the start the table holds the main thread.                            *)
LEMMA InitIds ==
  ASSUME Init
  PROVE  IdsBelow
<1>1. table = {Main} /\ nextId = 1 BY DEF Init
<1>2. basic[Main] = [FreshBasic(MainTls) EXCEPT !.id = 0] BY ThreadsAssumption DEF Init
<1>3. basic[Main].live /\ basic[Main].id = 0 BY <1>2 DEF FreshBasic
<1> QED BY <1>1, <1>3, LimitsAssumption DEF IdsBelow, IllegalId

-----------------------------------------------------------------------------
(* Programs that join or detach each thread once.                           *)

HasArea(x) == HasTdb(x) \/ Holder(x)
WithoutTdb == {"unborn", "leaving", "gone"}

(* A step that a thread's joiner does not notice.                           *)
SameThread(x) ==
  /\ basic'[x] = basic[x]
  /\ HasArea(x) => tdb'[basic[x].tdb] = tdb[basic[x].tdb]
  /\ x = Main \/ (pc'[x] \in WithoutTdb <=> pc[x] \in WithoutTdb)
  /\ pc'[x] = "unborn" <=> pc[x] = "unborn"
  /\ pc'[x] = "exiting" => pc[x] = "exiting" /\ saved'[x].joinable = saved[x].joinable

(* A creator, or a joiner, that stays where it is.                          *)
SameCreator(c) ==
  pc'[c] \in Preparing \cup {"started"} =>
    /\ on'[c] = on[c]
    /\ pc'[c] = pc[c] \/ (pc[c] = "allocated" /\ pc'[c] = "create_failed")
SameJoiner(t) ==
  pc'[t] \in Waiting => pc[t] \in Waiting /\ on'[t] = on[t] /\ meant'[t] = meant[t]

(* Then it finds the thread as it was.                                      *)
LEMMA JoinableKept ==
  ASSUME NEW x \in Threads, SameThread(x), Joinable(x)
  PROVE  Joinable(x)'
<1>1. HasTdb(x)' <=> HasTdb(x) BY DEF SameThread, HasTdb, WithoutTdb
<1> QED BY <1>1 DEF SameThread, Joinable, HasArea

(* And what is known of the thread stays known.                             *)
LEMMA ThreadKept ==
  ASSUME ClaimedOnce, NEW x \in Threads, SameThread(x), x \in table => x \in table',
         handle'[x] = handle[x], claimed \subseteq claimed'
  PROVE  InTable(x)' /\ Returned(x)' /\ Unclaimed(x)'
<1>1. InTable(x) /\ Returned(x) /\ Unclaimed(x) BY DEF ClaimedOnce
<1>2. InTable(x)' /\ Returned(x)' BY <1>1 DEF SameThread, InTable, Returned
<1>3. HasTdb(x)' <=> HasTdb(x) BY DEF SameThread, HasTdb, WithoutTdb
<1>4. Joinable(x) => Joinable(x)' BY JoinableKept
<1>5. Unclaimed(x)'
  BY <1>1, <1>3, <1>4 DEF Unclaimed, SameThread, HasArea
<1> QED BY <1>2, <1>5

(* The same of the thread that a creator prepares ...                       *)
LEMMA CreatorKept ==
  ASSUME Places, ClaimedOnce, NEW c \in Threads, SameCreator(c), claimed \subseteq claimed',
         on[c] \in Threads => SameThread(on[c])
  PROVE  Prepared(c)'
<1> SUFFICES ASSUME pc'[c] \in Preparing \cup {"started"} PROVE Prepared(c)'
  BY DEF Prepared, Preparing
<1>1. /\ on'[c] = on[c] /\ pc[c] \in Preparing \cup {"started"}
      /\ pc'[c] = pc[c] \/ (pc[c] = "allocated" /\ pc'[c] = "create_failed")
  BY DEF SameCreator, Preparing
<1>2. Prepared(c) BY DEF ClaimedOnce
<1>3. PICK x \in Threads : x = on[c] BY <1>1 DEF Places
<1>4. SameThread(x) BY <1>3
<1>5. pc'[c] \in Preparing => Holder(x) BY <1>1, <1>3 DEF Holder, Preparing
<1> QED BY <1>1, <1>2, <1>3, <1>4, <1>5 DEF Prepared, SameThread, HasArea, Preparing

(* ... and of the one a joiner waits for.                                   *)
LEMMA JoinerKept ==
  ASSUME Places, ClaimedOnce, NEW t \in Threads, SameJoiner(t), claimed \subseteq claimed',
         on[t] \in Threads => SameThread(on[t]),
         \A u \in Threads : u # t /\ pc'[u] \in Waiting /\ pc'[t] \in Waiting =>
                              on'[u] # on'[t]
  PROVE  Awaited(t)'
<1> SUFFICES ASSUME pc'[t] \in Waiting PROVE Awaited(t)'
  BY DEF Awaited
<1>1. on'[t] = on[t] /\ pc[t] \in Waiting /\ meant'[t] = meant[t] BY DEF SameJoiner
<1>2. Awaited(t) BY DEF ClaimedOnce
<1>3. PICK x \in Threads : x = on[t] BY <1>1 DEF Places
<1>4. SameThread(x) BY <1>3
<1>5. x \in claimed /\ meant[t] = x /\ pc[x] # "unborn" /\ Joinable(x)
  BY <1>1, <1>2, <1>3 DEF Awaited
<1>6. Joinable(x)' BY <1>4, <1>5, JoinableKept
<1>7. x \in claimed' /\ pc'[x] # "unborn" BY <1>4, <1>5 DEF SameThread
<1>8. on'[t] = x /\ meant'[t] = x BY <1>1, <1>3, <1>5
<1> QED BY <1>6, <1>7, <1>8 DEF Awaited, Joinable, HasTdb

(* Two joiners that stay where they are wait for different threads.         *)
LEMMA JoinersApart ==
  ASSUME ClaimedOnce, NEW t \in Threads, NEW u \in Threads, SameJoiner(t), SameJoiner(u),
         pc'[t] \in Waiting, pc'[u] \in Waiting, on'[u] = on'[t]
  PROVE  u = t
<1>1. pc[t] \in Waiting /\ pc[u] \in Waiting /\ on[u] = on[t] BY DEF SameJoiner
<1>2. Awaited(t) BY DEF ClaimedOnce
<1> QED BY <1>1, <1>2 DEF Awaited

(* A step of c that touches x: what it leaves of the others is what it      *)
(* found.                                                                   *)
LEMMA ClaimFrame ==
  ASSUME Places, ClaimedOnce, NEW x \in Threads, NEW c \in Threads,
         \A y \in Threads : y # x => /\ SameThread(y) /\ handle'[y] = handle[y]
                                     /\ y \in table => y \in table',
         claimed \subseteq claimed',
         \A d \in delivered' : d[1] = d[2],
         \A u \in Threads : u # c => SameCreator(u) /\ SameJoiner(u),
         InTable(x)', Returned(x)', Unclaimed(x)',
         \A u \in Threads : u = c \/ on[u] = x => Prepared(u)' /\ Awaited(u)',
         \A u \in Threads :
           pc'[c] \in Waiting /\ pc'[u] \in Waiting /\ on'[u] = on'[c] => u = c
  PROVE  ClaimedOnce'
<1>1. ASSUME NEW y \in Threads PROVE InTable(y)' /\ Returned(y)' /\ Unclaimed(y)'
  <2>1. CASE y = x BY <2>1
  <2>2. CASE y # x BY <2>2, ThreadKept
  <2> QED BY <2>1, <2>2
<1>2. ASSUME NEW u \in Threads, u # c, on[u] # x PROVE Prepared(u)' /\ Awaited(u)'
  <2>1. SameCreator(u) /\ SameJoiner(u) /\ (on[u] \in Threads => SameThread(on[u]))
    BY <1>2
  <2>2. ASSUME NEW v \in Threads, v # u, pc'[v] \in Waiting, pc'[u] \in Waiting
        PROVE  on'[v] # on'[u]
    <3>1. CASE v = c BY <1>2, <2>2, <3>1
    <3>2. CASE v # c
      <4>1. SameJoiner(v) BY <3>2
      <4> QED BY <2>1, <2>2, <4>1, JoinersApart
    <3> QED BY <3>1, <3>2
  <2>3. Prepared(u)' BY <2>1, CreatorKept
  <2>4. Awaited(u)' BY <2>1, <2>2, JoinerKept
  <2> QED BY <2>3, <2>4
<1>3. \A u \in Threads : Prepared(u)' /\ Awaited(u)' BY <1>2
<1> QED BY <1>1, <1>3 DEF ClaimedOnce

(* A thread that is neither joined nor detached yet is found under its id,  *)
(* joinable, and has returned its value if it has ended.                    *)
LEMMA UnclaimedFound ==
  ASSUME TypeOK, IdsBelow, ClaimedOnce, NEW x \in Threads, x \notin claimed, pc[x] # "unborn"
  PROVE  /\ Joinable(x) /\ x \in table /\ nc_find_tdb_mu(basic[x].id) = {x}
         /\ basic[x].tdb # NoBlock => HasTdb(x) /\ ~NotJoinable(x)
         /\ basic[x].tdb = NoBlock => basic[x].retval = x
<1>1. Joinable(x) /\ (HasTdb(x) => ~tdb[basic[x].tdb].join_waiting)
  BY DEF ClaimedOnce, Unclaimed
<1>2. x \in table BY <1>1 DEF ClaimedOnce, InTable, Joinable
<1>3. nc_find_tdb_mu(basic[x].id) = {x} BY <1>2 DEF IdsBelow, nc_find_tdb_mu
<1>4. Returned(x) BY DEF ClaimedOnce
<1> QED BY <1>1, <1>2, <1>3, <1>4 DEF Joinable, NotJoinable, Returned

(* No two threads share a TLS area.                                         *)
LEMMA AreasApart ==
  ASSUME TypeOK, TdbOwned
  PROVE  /\ \A x \in Threads : HasArea(x) => basic[x].tdb \in Sites
         /\ \A x, y \in Threads : HasArea(x) /\ HasArea(y) /\ x # y =>
                                    basic[x].tdb # basic[y].tdb
BY OwnArea DEF HasArea

(* Releasing data of a thread that is in the table takes no other thread    *)
(* out of it.                                                               *)
LEMMA ReleaseFrame ==
  ASSUME TypeOK, IdsBelow, ClaimedOnce, NEW x \in Threads, basic[x].live,
         NEW bs, bs[x].id = basic[x].id, nc_release_basic_data_mu(bs, x)
  PROVE  \A y \in Threads : y # x /\ y \in table => y \in table'
<1>1. CASE basic[x].id = IllegalId
  BY <1>1 DEF nc_release_basic_data_mu
<1>2. CASE basic[x].id # IllegalId
  <2>1. x \in table BY <1>2 DEF ClaimedOnce, InTable
  <2> QED BY <2>1, ReleasedData
<1> QED BY <1>1, <1>2

(* A step that no joiner notices.                                           *)
LEMMA UnnoticedKeepsClaims ==
  ASSUME Places, ClaimedOnce, UNCHANGED <<basic, tdb, table, handle, claimed, delivered>>,
         \A x \in Threads :
           /\ x = Main \/ (pc'[x] \in WithoutTdb <=> pc[x] \in WithoutTdb)
           /\ pc'[x] = "unborn" <=> pc[x] = "unborn"
           /\ pc'[x] = "exiting" => pc[x] = "exiting" /\ saved'[x].joinable = saved[x].joinable,
         \A u \in Threads : SameCreator(u) /\ SameJoiner(u)
  PROVE  ClaimedOnce'
<1>1. \A x \in Threads : /\ SameThread(x) /\ handle'[x] = handle[x]
                         /\ x \in table => x \in table'
  BY DEF SameThread
<1>2. claimed \subseteq claimed' /\ \A d \in delivered' : d[1] = d[2]
  BY DEF ClaimedOnce
<1>3. \A x \in Threads : InTable(x)' /\ Returned(x)' /\ Unclaimed(x)'
  BY <1>1, <1>2, ThreadKept
<1>4. ASSUME NEW t \in Threads PROVE Prepared(t)' /\ Awaited(t)'
  <2>1. Prepared(t)' BY <1>1, <1>2, CreatorKept
  <2>2. \A u \in Threads : u # t /\ pc'[u] \in Waiting /\ pc'[t] \in Waiting =>
                             on'[u] # on'[t]
    BY JoinersApart
  <2>3. SameJoiner(t) /\ (on[t] \in Threads => SameThread(on[t])) BY <1>1
  <2> QED BY <1>2, <2>1, <2>2, <2>3, JoinerKept
<1> QED BY <1>2, <1>3, <1>4 DEF ClaimedOnce

(* The steps of that kind.                                                  *)
LEMMA UnnoticedSteps ==
  ASSUME TypeOK, Places, ClaimedOnce, NEW t \in Threads,
         \/ CreateRefused(t) \/ CreateCount(t) \/ ThreadExitSyscall(t) \/ SpuriousWake(t)
         \/ MainExit \/ Shutdown
  PROVE  ClaimedOnce'
<1>1. pc \in [Threads -> PCs] /\ Main \in Threads BY ThreadsAssumption DEF TypeOK
<1>2. CASE CreateRefused(t)
  BY <1>1, <1>2, UnnoticedKeepsClaims
     DEF CreateRefused, WithoutTdb, SameCreator, SameJoiner, Preparing, Waiting
<1>3. CASE CreateCount(t)
  BY <1>1, <1>3, UnnoticedKeepsClaims
     DEF CreateCount, WithoutTdb, SameCreator, SameJoiner, Preparing, Waiting, TypeOK
<1>4. CASE ThreadExitSyscall(t)
  <2>1. saved \in [Threads -> [basic_data : Threads \cup {NoThread}, joinable : BOOLEAN,
                               stack : Blocks \cup {NoBlock}]]
    BY DEF TypeOK
  <2>2. \A x \in Threads : x # t => saved'[x] = saved[x] BY <1>4, <2>1 DEF ThreadExitSyscall
  <2>3. UNCHANGED <<basic, tdb, table, handle, claimed, delivered>> BY <1>4 DEF ThreadExitSyscall
  <2>4. /\ pc[t] = "leaving" /\ pc'[t] = "gone" /\ \A x \in Threads : x # t => pc'[x] = pc[x]
        /\ on' = on /\ meant' = meant
    BY <1>1, <1>4 DEF ThreadExitSyscall
  <2>5. \A x \in Threads :
           /\ x = Main \/ (pc'[x] \in WithoutTdb <=> pc[x] \in WithoutTdb)
           /\ pc'[x] = "unborn" <=> pc[x] = "unborn"
           /\ pc'[x] = "exiting" => pc[x] = "exiting" /\ saved'[x].joinable = saved[x].joinable
    BY <2>2, <2>4 DEF WithoutTdb
  <2>6. \A u \in Threads : SameCreator(u) /\ SameJoiner(u)
    BY <2>4 DEF SameCreator, SameJoiner, Preparing, Waiting
  <2> QED BY <2>3, <2>5, <2>6, UnnoticedKeepsClaims
<1>5. CASE SpuriousWake(t)
  BY <1>1, <1>5, UnnoticedKeepsClaims
     DEF SpuriousWake, WithoutTdb, SameCreator, SameJoiner, Preparing, Waiting
<1>6. CASE MainExit
  BY <1>1, <1>6, UnnoticedKeepsClaims
     DEF MainExit, WithoutTdb, SameCreator, SameJoiner, Preparing, Waiting
<1>7. CASE Shutdown
  BY <1>1, <1>7, UnnoticedKeepsClaims
     DEF Shutdown, WithoutTdb, SameCreator, SameJoiner, Preparing, Waiting
<1> QED BY <1>2, <1>3, <1>4, <1>5, <1>6, <1>7

(* Starting the thread of a creator.                                        *)
LEMMA StartKeepsClaims ==
  ASSUME TypeOK, Places, TdbOwned, ClaimedOnce, NEW c \in Threads, CreateStart(c)
  PROVE  ClaimedOnce'
<1>1. PICK x \in Threads : x = on[c] BY DEF CreateStart, Places, Preparing
<1>2. /\ pc[c] = "allocated" /\ pc[x] = "unborn" /\ x # Main /\ parent[x] = c /\ Holder(x)
      /\ x # c
  BY <1>1 DEF CreateStart, Places, Preparing, Holder
<1>3. /\ pc'[c] = "started" /\ pc'[x] = "run"
      /\ \A y \in Threads : y # c /\ y # x => pc'[y] = pc[y]
  BY <1>1, <1>2 DEF CreateStart, TypeOK
<1>4. UNCHANGED <<basic, tdb, table, saved, on, handle, claimed, meant, delivered>>
  BY DEF CreateStart
<1>5. basic[x].live BY <1>2 DEF TdbOwned
<1>6. Prepared(c) /\ Unclaimed(x) /\ InTable(x) /\ Returned(x) BY DEF ClaimedOnce
<1>7. InTable(x)' /\ Returned(x)' BY <1>4, <1>6 DEF InTable, Returned
<1>8. Unclaimed(x)'
  BY <1>1, <1>2, <1>3, <1>4, <1>5, <1>6
     DEF Unclaimed, Prepared, Joinable, HasTdb, Preparing
<1>9. \A y \in Threads : y # x => /\ SameThread(y) /\ handle'[y] = handle[y]
                                  /\ y \in table => y \in table'
  BY <1>2, <1>3, <1>4 DEF SameThread, WithoutTdb
<1>10. claimed \subseteq claimed' /\ \A d \in delivered' : d[1] = d[2]
  BY <1>4 DEF ClaimedOnce
<1>11. \A u \in Threads : u # c => SameCreator(u) /\ SameJoiner(u)
  BY <1>2, <1>3, <1>4 DEF SameCreator, SameJoiner, Preparing, Waiting
<1>12. ASSUME NEW u \in Threads, u = c \/ on[u] = x PROVE Prepared(u)'
  <2>1. CASE u = c
    BY <1>1, <1>3, <1>4, <2>1 DEF Prepared, Preparing
  <2>2. CASE u # c
    <3>1. pc[u] \notin Preparing \cup {"started"} BY <1>2, <1>12, <2>2 DEF Places
    <3>2. pc'[u] \notin Preparing \cup {"started"}
      BY <1>2, <1>3, <2>2, <3>1 DEF Preparing
    <3> QED BY <3>2 DEF Prepared, Preparing
  <2> QED BY <2>1, <2>2
<1>13. ASSUME NEW u \in Threads, u = c \/ on[u] = x PROVE Awaited(u)'
  <2>1. pc[u] \notin Waiting
    <3>1. Awaited(u) BY DEF ClaimedOnce
    <3> QED BY <1>2, <1>13, <3>1 DEF Awaited, Waiting
  <2>2. pc'[u] \notin Waiting BY <1>2, <1>3, <2>1 DEF Waiting
  <2> QED BY <2>2 DEF Awaited
<1>14. pc'[c] \notin Waiting BY <1>3 DEF Waiting
<1> QED BY <1>7, <1>8, <1>9, <1>10, <1>11, <1>12, <1>13, <1>14, ClaimFrame

(* What the thread of a creator is to the others: nobody else prepares it,  *)
(* and nobody waits for one that is not started.                            *)
LEMMA CreatorOnly ==
  ASSUME Places, ClaimedOnce, NEW c \in Threads, NEW x \in Threads,
         pc[c] \in Preparing \cup {"started"} => x = on[c], NEW u \in Threads, on[u] = x
  PROVE  /\ pc[c] \in Preparing \cup {"started"} /\ u # c =>
              pc[u] \notin Preparing \cup {"started"}
         /\ pc[x] = "unborn" => pc[u] \notin Waiting
         /\ pc[x] # "unborn" => pc[u] \notin Preparing
         /\ x \notin claimed => pc[u] \notin Waiting
<1>1. Awaited(u) BY DEF ClaimedOnce
<1> QED BY <1>1 DEF Places, Awaited

(* pthread_create hands out the id of a thread that is still there, or of   *)
(* one that has been detached.                                              *)
LEMMA StoreIdKeepsClaims ==
  ASSUME TypeOK, Places, ClaimedOnce, NEW c \in Threads, CreateStoreId(c)
  PROVE  ClaimedOnce'
<1>1. PICK x \in Threads : x = on[c] BY DEF CreateStoreId, Places, Preparing
<1>2. pc[c] = "started" /\ pc'[c] = "uncounted" /\ \A y \in Threads : y # c => pc'[y] = pc[y]
  BY DEF CreateStoreId, TypeOK
<1>3. UNCHANGED <<basic, tdb, table, saved, on, claimed, meant, delivered>>
  BY DEF CreateStoreId
<1>4. /\ \A y \in Threads : y # x => handle'[y] = handle[y]
      /\ basic[x].live => handle'[x] = basic[x].id
  BY <1>1 DEF CreateStoreId, TypeOK
<1>5. \A y \in Threads : SameThread(y)
  BY <1>2, <1>3 DEF SameThread, WithoutTdb
<1>6. Prepared(c) /\ InTable(x) /\ Returned(x) /\ Unclaimed(x) BY DEF ClaimedOnce
<1>7. InTable(x)' /\ Returned(x)' BY <1>3, <1>6 DEF InTable, Returned
<1>8. pc[x] # "unborn" BY <1>1, <1>2, <1>6 DEF Prepared
<1>9. Unclaimed(x)'
  <2>1. HasTdb(x)' <=> HasTdb(x) BY <1>5 DEF SameThread, HasTdb, WithoutTdb
  <2>2. Joinable(x) => Joinable(x)' BY <1>5, JoinableKept
  <2>3. pc'[x] # "unborn" BY <1>5, <1>8 DEF SameThread
  <2> QED BY <1>3, <1>4, <1>6, <1>8, <2>1, <2>2, <2>3 DEF Unclaimed, Joinable
<1>10. claimed \subseteq claimed' /\ \A d \in delivered' : d[1] = d[2]
  BY <1>3 DEF ClaimedOnce
<1>11. \A u \in Threads : SameCreator(u) /\ SameJoiner(u)
  BY <1>2, <1>3 DEF SameCreator, SameJoiner, Preparing, Waiting
<1>12. ASSUME NEW u \in Threads PROVE Prepared(u)' /\ Awaited(u)'
  <2>1. Prepared(u)' BY <1>5, <1>10, <1>11, CreatorKept
  <2>2. \A v \in Threads : v # u /\ pc'[v] \in Waiting /\ pc'[u] \in Waiting =>
                             on'[v] # on'[u]
    BY <1>11, JoinersApart
  <2>3. SameJoiner(u) /\ (on[u] \in Threads => SameThread(on[u])) BY <1>5, <1>11
  <2> QED BY <1>10, <2>1, <2>2, <2>3, JoinerKept
<1>13. pc'[c] \notin Waiting BY <1>2 DEF Waiting
<1> QED BY <1>3, <1>4, <1>5, <1>7, <1>9, <1>10, <1>11, <1>12, <1>13, ClaimFrame

(* The failure path of pthread_create frees data that nobody knows of.      *)
LEMMA CleanupKeepsClaims ==
  ASSUME Owned, IdsBelow, ClaimedOnce, NEW c \in Threads, CreateCleanup(c)
  PROVE  ClaimedOnce'
<1>0. TypeOK /\ Places /\ TdbOwned BY DEF Owned, Ownership
<1>1. PICK x \in Threads : x = on[c] BY <1>0 DEF CreateCleanup, Places, Preparing
<1>2. PICK b : b = basic[x].tdb OBVIOUS
<1>3. /\ x # Main /\ Holder(x) /\ ~basic'[x].live
      /\ \A y \in Threads : y # x => basic'[y] = basic[y]
      /\ \A y \in Sites : y # b => tdb'[y] = tdb[y]
  BY <1>1, <1>2, CleanupEffect DEF Owned, Ownership
<1>4. pc[c] = "create_failed" /\ pc[x] = "unborn" /\ x # c
  BY <1>0, <1>1 DEF CreateCleanup, Places, Preparing
<1>5. pc'[c] = "run" /\ \A y \in Threads : y # c => pc'[y] = pc[y] /\ on'[y] = on[y]
  BY <1>0 DEF CreateCleanup, TypeOK
<1>6. UNCHANGED <<saved, handle, claimed, meant, delivered>> BY DEF CreateCleanup
<1>7. \A y \in Threads : y # x /\ y \in table => y \in table'
  <2> DEFINE bs == [basic EXCEPT ![tdb[basic[x].tdb].basic_data].tdb = NoBlock]
  <2>1. nc_release_basic_data_mu(bs, x) BY <1>1 DEF CreateCleanup
  <2>2. bs[x].id = basic[x].id BY <1>0 DEF TypeOK, BasicData
  <2>3. basic[x].live BY <1>0, <1>3 DEF TdbOwned
  <2> HIDE DEF bs
  <2> QED BY <1>0, <2>1, <2>2, <2>3, ReleaseFrame
<1>8. \A y \in Threads : y # x /\ HasArea(y) => tdb'[basic[y].tdb] = tdb[basic[y].tdb]
  <2>1. HasArea(x) BY <1>3 DEF HasArea
  <2>2. \A y \in Threads : y # x /\ HasArea(y) => basic[y].tdb \in Sites /\ basic[y].tdb # b
    BY <1>0, <1>2, <2>1, AreasApart
  <2> QED BY <1>3, <2>2
<1>9. \A y \in Threads : y # x => /\ SameThread(y) /\ handle'[y] = handle[y]
                                  /\ y \in table => y \in table'
  BY <1>3, <1>4, <1>5, <1>6, <1>7, <1>8 DEF SameThread, WithoutTdb
<1>10. claimed \subseteq claimed' /\ \A d \in delivered' : d[1] = d[2]
  BY <1>6 DEF ClaimedOnce
<1>11. \A u \in Threads : u # c => SameCreator(u) /\ SameJoiner(u)
  BY <1>5, <1>6 DEF SameCreator, SameJoiner
<1>12. InTable(x)' /\ Returned(x)' BY <1>3 DEF InTable, Returned
<1>13. Unclaimed(x)'
  <2>1. Unclaimed(x) BY DEF ClaimedOnce
  <2> QED BY <1>4, <1>5, <1>6, <2>1 DEF Unclaimed
<1>14. ASSUME NEW u \in Threads, u = c \/ on[u] = x PROVE Prepared(u)' /\ Awaited(u)'
  <2>1. pc'[u] \notin Preparing \cup {"started"} /\ pc'[u] \notin Waiting
    <3>1. CASE u = c BY <1>5, <3>1 DEF Preparing, Waiting
    <3>2. CASE u # c
      <4>1. pc[c] \in Preparing BY <1>4 DEF Preparing
      <4>2. /\ pc[u] \notin Preparing \cup {"started"} /\ pc[u] \notin Waiting
        BY <1>0, <1>1, <1>4, <1>14, <3>2, <4>1, CreatorOnly
      <4> QED BY <1>5, <3>2, <4>2
    <3> QED BY <3>1, <3>2
  <2> QED BY <2>1 DEF Prepared, Awaited, Preparing
<1>15. pc'[c] \notin Waiting BY <1>5 DEF Waiting
<1> QED BY <1>0, <1>9, <1>10, <1>11, <1>12, <1>13, <1>14, <1>15, ClaimFrame

(* The start of pthread_exit finds the thread joinable if nobody has        *)
(* claimed it.                                                              *)
LEMMA ExitBeginKeepsClaims ==
  ASSUME TypeOK, Ownership, ClaimedOnce, NEW t \in Threads, ExitBegin(t)
  PROVE  ClaimedOnce'
<1>0. Places BY DEF Ownership
<1>1. t # Main /\ saved'[t].joinable = tdb[basic[t].tdb].joinable BY ExitBeginOwns
<1>2. /\ pc[t] = "run" /\ pc'[t] = "exiting" /\ \A y \in Threads : y # t => pc'[y] = pc[y]
      /\ \A y \in Threads : y # t => saved'[y] = saved[y]
  BY DEF ExitBegin, TypeOK
<1>3. UNCHANGED <<basic, tdb, on, table, handle, claimed, meant, delivered>>
  BY DEF ExitBegin
<1>4. \A y \in Threads : y # t => /\ SameThread(y) /\ handle'[y] = handle[y]
                                  /\ y \in table => y \in table'
  BY <1>2, <1>3 DEF SameThread
<1>5. claimed \subseteq claimed' /\ \A d \in delivered' : d[1] = d[2]
  BY <1>3 DEF ClaimedOnce
<1>6. \A u \in Threads : SameCreator(u) /\ SameJoiner(u)
  BY <1>2, <1>3 DEF SameCreator, SameJoiner, Preparing, Waiting
<1>7. InTable(t) /\ Returned(t) /\ Unclaimed(t) BY DEF ClaimedOnce
<1>8. InTable(t)' /\ Returned(t)' BY <1>3, <1>7 DEF InTable, Returned
<1>9. Joinable(t) => Joinable(t)'
  BY <1>1, <1>2, <1>3 DEF Joinable, HasTdb
<1>10. Unclaimed(t)'
  BY <1>2, <1>3, <1>7, <1>9 DEF Unclaimed, HasTdb
<1>11. ASSUME NEW u \in Threads, u = t \/ on[u] = t PROVE Prepared(u)' /\ Awaited(u)'
  <2>1. CASE u = t BY <1>2, <2>1 DEF Prepared, Awaited, Preparing, Waiting
  <2>2. CASE u # t /\ on[u] = t
    <3>1. pc[u] \notin Preparing
      <4>1. pc[u] \in Preparing => pc[on[u]] = "unborn" BY <1>0 DEF Places
      <4> QED BY <1>2, <2>2, <4>1
    <3>2. Prepared(u)' BY <1>2, <1>3, <2>2, <3>1 DEF Prepared, Preparing
    <3>3. Awaited(u) BY DEF ClaimedOnce
    <3>4. \A v \in Threads : pc'[v] \in Waiting => pc[v] \in Waiting
      BY <1>2 DEF Waiting
    <3>5. Awaited(u)'
      BY <1>2, <1>3, <1>9, <2>2, <3>3, <3>4 DEF Awaited, Joinable, HasTdb
    <3> QED BY <3>2, <3>5
  <2> QED BY <1>11, <2>1, <2>2
<1>12. pc'[t] \notin Waiting BY <1>2 DEF Waiting
<1> QED BY <1>0, <1>4, <1>5, <1>6, <1>8, <1>10, <1>11, <1>12, ClaimFrame

(* pthread_create allocates a thread that nobody knows yet.                 *)
LEMMA AllocateKeepsClaims ==
  ASSUME Owned, IdsBelow, ClaimedOnce, NEW c \in Threads, NEW x \in Threads,
         NEW j \in BOOLEAN, CreateAllocate(c, x, j)
  PROVE  ClaimedOnce'
<1>0. TypeOK /\ Places /\ TdbOwned /\ QueuesSound BY DEF Owned, Ownership
<1>1. /\ pc[c] = "run" /\ pc[x] = "unborn" /\ c # x /\ x # Main /\ ~Holder(x)
      /\ \A y \in Threads : y # x => basic'[y] = basic[y]
      /\ basic'[x].live /\ basic'[x].id = AllocatedId
  BY <1>0, AllocateEffect
<1>2. PICK b \in Blocks :
        /\ basic'[x].tdb = b /\ Allocates(mem["tls"], b, mem'["tls"])
        /\ \A y \in Sites : y # b => tdb'[y] = tdb[y]
        /\ ~tdb'[b].join_waiting
        /\ \/ /\ AllocatedId # IllegalId /\ tdb'[b].joinable = j
              /\ pc' = [pc EXCEPT ![c] = "allocated"] /\ table' = table \cup {x}
           \/ /\ AllocatedId = IllegalId /\ tdb'[b].joinable
              /\ pc' = [pc EXCEPT ![c] = "create_failed"] /\ table' = table
  BY <1>0, AllocateEffect
<1>3. /\ pc'[c] \in Preparing /\ \A y \in Threads : y # c => pc'[y] = pc[y]
      /\ pc'[c] = "allocated" => AllocatedId # IllegalId /\ tdb'[b].joinable = j
      /\ pc'[c] = "create_failed" => tdb'[b].joinable
      /\ AllocatedId # IllegalId => x \in table'
      /\ table \subseteq table'
  BY <1>0, <1>2 DEF TypeOK, Preparing
<1>4. /\ on'[c] = x /\ \A y \in Threads : y # c => on'[y] = on[y]
      /\ parent[x] = NoThread /\ claimed \subseteq claimed' /\ (~j => x \in claimed')
  BY <1>0 DEF CreateAllocate, TypeOK
<1>5. UNCHANGED <<saved, handle, meant, delivered>> BY DEF CreateAllocate
<1>6. \A y \in Threads : HasArea(y) => basic[y].tdb \in Sites /\ basic[y].tdb # b
  <2>1. ASSUME NEW y \in Threads, HasArea(y) PROVE basic[y].tdb \in Sites /\ basic[y].tdb # b
    <3>1. basic[y].tdb \in Sites BY <1>0, <2>1, AreasApart
    <3>2. CASE Holder(y) BY <1>0, <1>2, <3>1, <3>2 DEF TdbOwned, Allocates
    <3>3. CASE ~Holder(y)
      <4>1. y = Main BY <2>1, <3>3 DEF HasArea, Holder, Child
      <4>2. basic[y].tdb = MainTls BY <1>0, <4>1 DEF TdbOwned
      <4> QED BY <3>1, <4>2, BlocksAssumption
    <3> QED BY <3>2, <3>3
  <2> QED BY <2>1
<1>7. \A y \in Threads : y # x => /\ SameThread(y) /\ handle'[y] = handle[y]
                                  /\ y \in table => y \in table'
  <2>1. \A y \in Threads : y # x /\ HasArea(y) => tdb'[basic[y].tdb] = tdb[basic[y].tdb]
    BY <1>2, <1>6
  <2> QED BY <1>1, <1>3, <1>5, <2>1 DEF SameThread, WithoutTdb, Preparing
<1>8. \A d \in delivered' : d[1] = d[2] BY <1>5 DEF ClaimedOnce
<1>9. \A u \in Threads : u # c => SameCreator(u) /\ SameJoiner(u)
  BY <1>3, <1>4, <1>5 DEF SameCreator, SameJoiner
<1>10. InTable(x)' BY <1>1, <1>3 DEF InTable
<1>11. Returned(x)' BY <1>2, BlocksAssumption DEF Returned
<1>12. Unclaimed(x)'
  <2>1. Unclaimed(x) BY DEF ClaimedOnce
  <2>2. pc'[x] = "unborn" /\ handle'[x] = handle[x] BY <1>1, <1>3, <1>5
  <2> QED BY <1>1, <1>4, <2>1, <2>2 DEF Unclaimed
<1>13. ASSUME NEW u \in Threads, u = c \/ on[u] = x PROVE Prepared(u)' /\ Awaited(u)'
  <2>1. CASE u = c
    <3>1. Awaited(c)' BY <1>3 DEF Awaited, Preparing, Waiting
    <3>2. basic'[on'[c]].id = AllocatedId /\ basic'[on'[c]].tdb = b BY <1>1, <1>2, <1>4
    <3>3. Prepared(c)'
      BY <1>2, <1>3, <1>4, <3>2 DEF Prepared, Preparing
    <3> QED BY <2>1, <3>1, <3>3
  <2>2. CASE u # c /\ on[u] = x
    <3>1. pc[u] \notin Waiting
      <4>1. Awaited(u) BY DEF ClaimedOnce
      <4> QED BY <1>1, <2>2, <4>1 DEF Awaited
    <3>2. pc[u] \notin Preparing \cup {"started"}
      <4>1. pc[u] \in Preparing \cup {"started"} => parent[x] = u
        BY <1>0, <2>2 DEF Places
      <4> QED BY <1>4, <4>1, ThreadsAssumption
    <3>3. pc'[u] \notin Waiting /\ pc'[u] \notin Preparing \cup {"started"}
      BY <1>3, <2>2, <3>1, <3>2
    <3> QED BY <3>3 DEF Prepared, Awaited, Preparing
  <2> QED BY <1>13, <2>1, <2>2
<1>14. pc'[c] \notin Waiting BY <1>3 DEF Waiting, Preparing
<1> QED
  BY <1>0, <1>4, <1>7, <1>8, <1>9, <1>10, <1>11, <1>12, <1>13, <1>14, ClaimFrame

(* The critical section of pthread_exit leaves a joinable thread's data for *)
(* its joiner.                                                              *)
LEMMA ExitKeepsClaims ==
  ASSUME Owned, IdsBelow, ClaimedOnce, NEW t \in Threads, ExitLocked(t)
  PROVE  ClaimedOnce'
<1>0. TypeOK /\ Places /\ TdbOwned BY DEF Owned, Ownership
<1>1. PICK b : b = regs[t].gs OBVIOUS
<1>2. /\ pc[t] = "exiting" /\ t # Main /\ Child(t) /\ b = basic[t].tdb
      /\ basic'[t].tdb = NoBlock /\ basic'[t].id = basic[t].id /\ basic'[t].retval = t
      /\ saved[t].joinable => /\ basic'[t].live = basic[t].live /\ basic'[t].terminated
                              /\ table' = table
      /\ ~saved[t].joinable => ~basic'[t].live
      /\ \A y \in Threads : y # t => basic'[y] = basic[y]
      /\ \A y \in Sites : y # b => tdb'[y] = tdb[y]
      /\ saved[t].basic_data = t
  BY <1>1, ExitEffect DEF Owned, Ownership
<1>3. /\ pc'[t] = "leaving"
      /\ \A u \in Threads : u # t =>
           \/ pc'[u] = pc[u]
           \/ pc[u] = "join_wait" /\ pc'[u] = "join_woken"
           \/ u = Main /\ pc[u] = "shutdown_wait" /\ pc'[u] = "shutdown"
  BY <1>0, <1>2, ExitPlaces
<1>4. UNCHANGED <<saved, on, handle, claimed, meant, delivered>> BY DEF ExitLocked
<1>5. \A y \in Threads : y # t /\ y \in table => y \in table'
  <2>1. CASE saved[t].joinable BY <1>2, <2>1
  <2>2. CASE ~saved[t].joinable
    <3> DEFINE bs == EndedData(basic, t, t, saved[t].joinable)
    <3>1. nc_release_basic_data_mu(bs, t)
      BY <1>2, <2>2, Zenon DEF ExitLocked, EndedData
    <3>2. bs[t].id = basic[t].id
      <4>1. saved[t].joinable \in BOOLEAN /\ basic \in [Threads -> BasicData]
        BY <1>0 DEF TypeOK
      <4> HIDE DEF bs
      <4>2. bs = EndedData(basic, t, t, saved[t].joinable) BY DEF bs
      <4> QED BY <4>1, <4>2, ExitData
    <3>3. basic[t].live BY <1>0, <1>2, OwnArea DEF Child
    <3> HIDE DEF bs
    <3> QED BY <1>0, <3>1, <3>2, <3>3, ReleaseFrame
  <2> QED BY <2>1, <2>2
<1>6. \A y \in Threads : y # t /\ HasArea(y) => tdb'[basic[y].tdb] = tdb[basic[y].tdb]
  <2>1. HasArea(t) BY <1>2 DEF HasArea, Child
  <2>2. \A y \in Threads : y # t /\ HasArea(y) => basic[y].tdb \in Sites /\ basic[y].tdb # b
    BY <1>0, <1>2, <2>1, AreasApart
  <2> QED BY <1>2, <2>2
<1>7. \A y \in Threads : y # t => /\ SameThread(y) /\ handle'[y] = handle[y]
                                  /\ y \in table => y \in table'
  <2>1. ASSUME NEW y \in Threads, y # t PROVE SameThread(y)
    BY <1>2, <1>3, <1>4, <1>6, <2>1 DEF SameThread, WithoutTdb
  <2> QED BY <1>4, <1>5, <2>1
<1>8. claimed \subseteq claimed' /\ \A d \in delivered' : d[1] = d[2]
  BY <1>4 DEF ClaimedOnce
<1>9. \A u \in Threads : u # t => SameCreator(u) /\ SameJoiner(u)
  BY <1>3, <1>4 DEF SameCreator, SameJoiner, Preparing, Waiting
<1>10. InTable(t) /\ Unclaimed(t) BY DEF ClaimedOnce
<1>11. InTable(t)' /\ Returned(t)'
  BY <1>2, <1>10 DEF InTable, Returned
<1>12. Joinable(t) => Joinable(t)'
  BY <1>2, <1>3 DEF Joinable, HasTdb
<1>13. Unclaimed(t)'
  BY <1>2, <1>3, <1>4, <1>10, <1>12 DEF Unclaimed, HasTdb
<1>14. ASSUME NEW u \in Threads, u = t \/ on[u] = t PROVE Prepared(u)' /\ Awaited(u)'
  <2>1. CASE u = t BY <1>3, <2>1 DEF Prepared, Awaited, Preparing, Waiting
  <2>2. CASE u # t /\ on[u] = t
    <3>1. pc[u] \notin Preparing
      <4>1. pc[u] \in Preparing => pc[on[u]] = "unborn" BY <1>0 DEF Places
      <4> QED BY <1>2, <2>2, <4>1
    <3>2. pc'[u] \notin Preparing BY <1>3, <2>2, <3>1 DEF Preparing
    <3>3. Prepared(u)' BY <1>3, <1>4, <2>2, <3>2 DEF Prepared, Preparing
    <3>4. Awaited(u) BY DEF ClaimedOnce
    <3>5. \A v \in Threads : pc'[v] \in Waiting => pc[v] \in Waiting
      BY <1>3 DEF Waiting
    <3>6. Awaited(u)'
      BY <1>2, <1>3, <1>4, <1>12, <2>2, <3>4, <3>5 DEF Awaited, Joinable, HasTdb
    <3> QED BY <3>3, <3>6
  <2> QED BY <1>14, <2>1, <2>2
<1>15. pc'[t] \notin Waiting BY <1>3 DEF Waiting
<1> QED BY <1>0, <1>7, <1>8, <1>9, <1>11, <1>13, <1>14, <1>15, ClaimFrame

(* Joining or detaching a thread x once: its data is released, or what its  *)
(* TLS area says of joining is changed, and the caller t may wait for it.   *)
LEMMA ClaimingKeepsClaims ==
  ASSUME TypeOK, IdsBelow, Places, TdbOwned, ClaimedOnce,
         NEW t \in Threads, NEW x \in Threads, x \notin claimed, pc[x] # "unborn",
         pc[t] = "run", UNCHANGED <<saved, handle>>,
         claimed' = claimed \cup {x}, \A d \in delivered' : d[1] = d[2],
         \A y \in Threads : y # t => pc'[y] = pc[y] /\ on'[y] = on[y] /\ meant'[y] = meant[y],
         \/ /\ tdb' = tdb /\ nc_release_basic_data_mu(basic, x)
            /\ pc'[t] = "run"
         \/ /\ basic' = basic /\ table' = table /\ HasTdb(x)
            /\ \A b \in Sites : b # basic[x].tdb => tdb'[b] = tdb[b]
            /\ \/ pc'[t] = "run"
               \/ /\ pc'[t] = "join_wait" /\ on'[t] = x /\ meant'[t] = x /\ t # x
                  /\ tdb'[basic[x].tdb].joinable = tdb[basic[x].tdb].joinable
  PROVE  ClaimedOnce'
<1>1. /\ Joinable(x) /\ x \in table
      /\ basic \in [Threads -> BasicData] /\ table \subseteq Threads
  BY UnclaimedFound DEF TypeOK
<1>2. InTable(x) /\ Returned(x) /\ basic[x].live BY <1>1 DEF ClaimedOnce, Joinable
<1>3. \A y \in Threads : y # x => /\ basic'[y] = basic[y]
                                  /\ HasArea(y) => tdb'[basic[y].tdb] = tdb[basic[y].tdb]
                                  /\ y \in table => y \in table'
  <2>1. CASE tdb' = tdb /\ nc_release_basic_data_mu(basic, x)
    <3>1. \A y \in Threads : y # x => basic'[y] = basic[y] BY <1>1, <2>1, ReleaseTyped
    <3>2. \A y \in Threads : y # x /\ y \in table => y \in table'
      BY <1>2, <2>1, ReleaseFrame
    <3> QED BY <2>1, <3>1, <3>2
  <2>2. CASE /\ basic' = basic /\ table' = table /\ HasTdb(x)
             /\ \A b \in Sites : b # basic[x].tdb => tdb'[b] = tdb[b]
    <3>1. \A y \in Threads : y # x /\ HasArea(y) =>
            basic[y].tdb \in Sites /\ basic[y].tdb # basic[x].tdb
      BY <2>2, AreasApart DEF HasArea
    <3> QED BY <2>2, <3>1
  <2> QED BY <2>1, <2>2
<1>4. /\ pc'[t] \in {"run", "join_wait"} /\ pc'[t] \notin Preparing \cup {"started"}
      /\ pc'[t] \in Waiting => on'[t] = x /\ meant'[t] = x /\ t # x
  BY DEF Preparing, Waiting
<1>5. \A y \in Threads : y # x => /\ SameThread(y) /\ handle'[y] = handle[y]
                                  /\ y \in table => y \in table'
  <2>1. ASSUME NEW y \in Threads, y # x PROVE SameThread(y)
    <3>1. /\ y = Main \/ (pc'[y] \in WithoutTdb <=> pc[y] \in WithoutTdb)
          /\ pc'[y] = "unborn" <=> pc[y] = "unborn"
          /\ pc'[y] = "exiting" => pc[y] = "exiting"
      BY <1>4 DEF WithoutTdb
    <3> QED BY <1>3, <2>1, <3>1 DEF SameThread
  <2> QED BY <1>3, <2>1
<1>6. \A u \in Threads : u # t => SameCreator(u) /\ SameJoiner(u)
  BY DEF SameCreator, SameJoiner
<1>7. InTable(x)' /\ Returned(x)'
  <2>1. CASE nc_release_basic_data_mu(basic, x)
    <3>1. ~basic'[x].live BY <1>1, <2>1, ReleaseTyped
    <3> QED BY <3>1 DEF InTable, Returned
  <2>2. CASE basic' = basic /\ table' = table
    BY <1>2, <2>2 DEF InTable, Returned
  <2> QED BY <2>1, <2>2
<1>8. Unclaimed(x)' BY DEF Unclaimed
<1>9. ASSUME NEW u \in Threads, on[u] = x PROVE pc[u] \notin Waiting /\ pc[u] \notin Preparing
  <2>1. Awaited(u) BY DEF ClaimedOnce
  <2>2. pc[u] \in Preparing => pc[on[u]] = "unborn" BY DEF Places
  <2>3. pc[on[u]] # "unborn" BY <1>9
  <2> QED BY <1>9, <2>1, <2>2, <2>3 DEF Awaited
<1>10. pc'[x] # "unborn" BY <1>4
<1>11. ASSUME pc'[t] \in Waiting, NEW u \in Threads, pc'[u] \in Waiting, on'[u] = on'[t]
       PROVE  u = t
  <2> SUFFICES ASSUME u # t PROVE FALSE OBVIOUS
  <2>1. on[u] = x /\ pc[u] \in Waiting BY <1>4, <1>11
  <2> QED BY <1>9, <2>1
<1>12. ASSUME NEW u \in Threads, u = t \/ on[u] = x PROVE Prepared(u)' /\ Awaited(u)'
  <2>1. CASE u = t
    <3>1. Prepared(t)' BY <1>4 DEF Prepared, Preparing
    <3>2. Awaited(t)'
      <4> SUFFICES ASSUME pc'[t] \in Waiting PROVE Awaited(t)' BY DEF Awaited
      <4>1. /\ on'[t] = x /\ meant'[t] = x /\ t # x /\ pc'[x] = pc[x]
            /\ basic' = basic /\ HasTdb(x)
            /\ tdb'[basic[x].tdb].joinable = tdb[basic[x].tdb].joinable
        BY <1>4 DEF Waiting
      <4>2. Joinable(x)' BY <1>1, <4>1 DEF Joinable, HasTdb
      <4>3. \A v \in Threads : pc'[v] \in Waiting /\ on'[v] = on'[t] => v = t BY <1>11
      <4> QED BY <1>10, <4>1, <4>2, <4>3 DEF Awaited, Joinable, HasTdb
    <3> QED BY <2>1, <3>1, <3>2
  <2>2. CASE u # t /\ on[u] = x
    <3>1. pc'[u] \notin Waiting /\ pc'[u] \notin Preparing /\ on'[u] = x
      BY <1>9, <2>2
    <3> QED BY <1>10, <3>1 DEF Prepared, Awaited, Preparing
  <2> QED BY <1>12, <2>1, <2>2
<1>13. claimed \subseteq claimed' OBVIOUS
<1> QED
  BY <1>5, <1>6, <1>7, <1>8, <1>11, <1>12, <1>13, ClaimFrame

(* A caller finds the thread it means under the id it has: the id is not    *)
(* its own.                                                                 *)
LEMMA CallerFinds ==
  ASSUME TypeOK, IdsBelow, TdbOwned, ClaimedOnce, NEW t \in Threads, NEW x \in Threads,
         pc[t] = "run", x \notin claimed, handle[x] # NoId
  PROVE  /\ pc[x] # "unborn" /\ nc_find_tdb_mu(handle[x]) = {x}
         /\ tdb[regs[t].gs].basic_data = t
         /\ t # x => basic[t].id # handle[x]
<1>1. pc[x] # "unborn" /\ handle[x] = basic[x].id BY DEF ClaimedOnce, Unclaimed
<1>2. Joinable(x) /\ x \in table /\ nc_find_tdb_mu(basic[x].id) = {x} BY <1>1, UnclaimedFound
<1>3. HasTdb(t) BY DEF HasTdb
<1>4. tdb[regs[t].gs].basic_data = t /\ basic[t].live BY <1>3, OwnArea
<1>5. basic[t].id # IllegalId => t \in table BY <1>4 DEF ClaimedOnce, InTable
<1>6. t # x => basic[t].id # basic[x].id BY <1>2, <1>5 DEF IdsBelow, Joinable
<1> QED BY <1>1, <1>2, <1>4, <1>6

(* pthread_join succeeds, or waits.                                         *)
LEMMA JoinCallKeepsClaims ==
  ASSUME Owned, IdsBelow, ClaimedOnce, program.one_claim,
         NEW t \in Threads, NEW x \in Threads, JoinCall(t, x)
  PROVE  ClaimedOnce'
<1>0. TypeOK /\ Places /\ TdbOwned BY DEF Owned, Ownership
<1>1. /\ pc[t] = "run" /\ x \notin claimed /\ handle[x] # NoId /\ t # x
      /\ claimed' = claimed \cup {x} /\ UNCHANGED <<saved, handle>>
  BY DEF JoinCall, MayClaim, Claim
<1>2. /\ pc[x] # "unborn" /\ nc_find_tdb_mu(handle[x]) = {x}
      /\ tdb[regs[t].gs].basic_data = t /\ basic[t].id # handle[x]
  BY <1>0, <1>1, CallerFinds
<1>3. /\ basic[x].tdb # NoBlock => HasTdb(x) /\ ~NotJoinable(x)
      /\ basic[x].tdb = NoBlock => basic[x].retval = x
  BY <1>0, <1>1, <1>2, UnclaimedFound
<1>4. ~NotJoinable(x) BY <1>3 DEF NotJoinable
<1>5. /\ tdb' = IF basic[x].tdb = NoBlock THEN tdb
                ELSE [tdb EXCEPT ![basic[x].tdb].join_waiting = TRUE]
      /\ IF basic[x].tdb = NoBlock \/ Ended(x)
         THEN Reap(t, x, x)
         ELSE /\ pc' = [pc EXCEPT ![t] = "join_wait"]
              /\ on' = [on EXCEPT ![t] = x]
              /\ meant' = [meant EXCEPT ![t] = x]
              /\ UNCHANGED <<basic, table, delivered>>
  BY <1>2, <1>4 DEF JoinCall
<1>6. CASE basic[x].tdb = NoBlock \/ Ended(x)
  <2>1. basic[x].tdb = NoBlock BY <1>0, <1>6 DEF Ended, TdbOwned
  <2>2. tdb' = tdb /\ Reap(t, x, x) BY <1>5, <2>1
  <2>3. /\ nc_release_basic_data_mu(basic, x) /\ pc'[t] = "run"
        /\ \A y \in Threads : y # t => pc'[y] = pc[y] /\ on'[y] = on[y] /\ meant'[y] = meant[y]
    BY <1>0, <2>2 DEF Reap, TypeOK
  <2>4. delivered' = delivered \cup {<<x, x>>}
    BY <1>3, <2>1, <2>2 DEF Reap, Deliver
  <2>5. \A d \in delivered' : d[1] = d[2] BY <2>4 DEF ClaimedOnce
  <2> QED BY <1>0, <1>1, <1>2, <2>2, <2>3, <2>5, ClaimingKeepsClaims
<1>7. CASE ~(basic[x].tdb = NoBlock \/ Ended(x))
  <2>1. /\ pc' = [pc EXCEPT ![t] = "join_wait"] /\ on' = [on EXCEPT ![t] = x]
        /\ meant' = [meant EXCEPT ![t] = x] /\ basic' = basic /\ table' = table
        /\ delivered' = delivered
        /\ tdb' = [tdb EXCEPT ![basic[x].tdb].join_waiting = TRUE]
    BY <1>5, <1>7
  <2>2. /\ pc'[t] = "join_wait" /\ on'[t] = x /\ meant'[t] = x
        /\ \A y \in Threads : y # t => pc'[y] = pc[y] /\ on'[y] = on[y] /\ meant'[y] = meant[y]
    BY <1>0, <2>1 DEF TypeOK
  <2>3. HasTdb(x) /\ basic[x].tdb \in Sites BY <1>0, <1>3, <1>7, OwnArea
  <2>4. \A b \in Sites : b # basic[x].tdb => tdb'[b] = tdb[b]
    BY <1>0, <2>1, <2>3, FlagSet
  <2>5. tdb'[basic[x].tdb].joinable = tdb[basic[x].tdb].joinable
    <3>1. tdb[basic[x].tdb] \in Descriptor /\ tdb \in [Sites -> Descriptor]
      BY <1>0, <2>3 DEF TypeOK
    <3>2. tdb'[basic[x].tdb] = [tdb[basic[x].tdb] EXCEPT !.join_waiting = TRUE]
      BY <2>1, <2>3, <3>1
    <3> QED BY <3>1, <3>2 DEF Descriptor
  <2>6. \A d \in delivered' : d[1] = d[2] BY <2>1 DEF ClaimedOnce
  <2> QED BY <1>0, <1>1, <1>2, <2>1, <2>2, <2>3, <2>4, <2>5, <2>6, ClaimingKeepsClaims
<1> QED BY <1>6, <1>7

(* pthread_detach finds the thread, too.                                    *)
LEMMA DetachKeepsClaims ==
  ASSUME Owned, IdsBelow, ClaimedOnce, program.one_claim,
         NEW t \in Threads, NEW x \in Threads, Detach(t, x)
  PROVE  ClaimedOnce'
<1>0. TypeOK /\ Places /\ TdbOwned BY DEF Owned, Ownership
<1> DEFINE id == IF t = x THEN basic[tdb[regs[t].gs].basic_data].id ELSE handle[x]
<1>1. /\ pc[t] = "run" /\ x \notin claimed /\ id # NoId
      /\ claimed' = claimed \cup {x}
      /\ UNCHANGED <<saved, handle, pc, on, meant, delivered>>
  BY DEF Detach, MayClaim, Claim
<1>2. pc[x] # "unborn" /\ nc_find_tdb_mu(id) = {x}
  <2>1. CASE t = x
    <3>1. HasTdb(t) BY <1>1 DEF HasTdb
    <3>2. tdb[regs[t].gs].basic_data = t BY <1>0, <3>1, OwnArea
    <3>3. nc_find_tdb_mu(basic[x].id) = {x} BY <1>0, <1>1, <2>1, UnclaimedFound
    <3> QED BY <1>1, <2>1, <3>2, <3>3
  <2>2. CASE t # x
    BY <1>0, <1>1, <2>2, CallerFinds
  <2> QED BY <2>1, <2>2
<1>3. \/ basic[x].tdb = NoBlock /\ nc_release_basic_data_mu(basic, x) /\ UNCHANGED tdb
      \/ /\ basic[x].tdb # NoBlock
         /\ tdb' = IF tdb[basic[x].tdb].join_waiting THEN tdb
                   ELSE [tdb EXCEPT ![basic[x].tdb].joinable = FALSE]
         /\ UNCHANGED <<basic, table>>
  <2>1. \/ nc_find_tdb_mu(id) = {}
        \/ \E y \in nc_find_tdb_mu(id) :
             /\ basic[y].tdb = NoBlock /\ nc_release_basic_data_mu(basic, y) /\ UNCHANGED tdb
        \/ \E y \in nc_find_tdb_mu(id) :
             /\ basic[y].tdb # NoBlock
             /\ tdb' = IF tdb[basic[y].tdb].join_waiting THEN tdb
                       ELSE [tdb EXCEPT ![basic[y].tdb].joinable = FALSE]
             /\ UNCHANGED <<basic, table>>
    BY Zenon DEF Detach
  <2> HIDE DEF id
  <2>2. nc_find_tdb_mu(id) # {} /\ \A y \in nc_find_tdb_mu(id) : y = x BY <1>2
  <2> QED BY <2>1, <2>2, Zenon
<1> HIDE DEF id
<1>4. \A d \in delivered' : d[1] = d[2] BY <1>1 DEF ClaimedOnce
<1>5. CASE nc_release_basic_data_mu(basic, x) /\ UNCHANGED tdb
  BY <1>0, <1>1, <1>2, <1>4, <1>5, ClaimingKeepsClaims
<1>6. CASE /\ basic[x].tdb # NoBlock
           /\ tdb' = IF tdb[basic[x].tdb].join_waiting THEN tdb
                     ELSE [tdb EXCEPT ![basic[x].tdb].joinable = FALSE]
           /\ UNCHANGED <<basic, table>>
  <2>1. HasTdb(x) BY <1>0, <1>1, <1>2, <1>6, UnclaimedFound
  <2>2. basic[x].tdb \in Sites BY <1>0, <2>1, OwnArea
  <2>3. \A b \in Sites : b # basic[x].tdb => tdb'[b] = tdb[b]
    <3>1. CASE tdb' = tdb BY <3>1
    <3>2. CASE tdb' = [tdb EXCEPT ![basic[x].tdb].joinable = FALSE]
      BY <1>0, <2>2, <3>2, FlagSet
    <3> QED BY <1>6, <3>1, <3>2
  <2> QED BY <1>0, <1>1, <1>2, <1>4, <1>6, <2>1, <2>3, ClaimingKeepsClaims
<1> QED BY <1>3, <1>5, <1>6

(* The joiner that wakes finds the data of the thread it waited for.        *)
LEMMA JoinWakeKeepsClaims ==
  ASSUME Owned, IdsBelow, ClaimedOnce, program.one_claim, NEW t \in Threads, JoinWake(t)
  PROVE  ClaimedOnce'
<1>0. TypeOK /\ Places /\ TdbOwned BY DEF Owned, Ownership
<1>1. pc[t] = "join_woken" /\ on[t] \in Threads
  BY <1>0, JoinWakeKeeps
<1>2. PICK x \in Threads : x = on[t] BY <1>1
<1>3. Awaited(t) /\ Returned(x) /\ InTable(x) BY DEF ClaimedOnce
<1>4. /\ x \in claimed /\ meant[t] = x /\ pc[x] # "unborn" /\ Joinable(x)
      /\ \A u \in Threads : pc[u] \in Waiting /\ on[u] = x => u = t
  BY <1>1, <1>2, <1>3 DEF Awaited, Waiting
<1>5. basic[x].live BY <1>4 DEF Joinable
<1>6. UNCHANGED <<tdb, regs, saved, handle, claimed>> BY DEF JoinWake
<1>7. CASE Ended(x) /\ Reap(t, x, x)
  <2>1. basic[x].tdb = NoBlock BY <1>0, <1>7 DEF Ended, TdbOwned
  <2>2. /\ nc_release_basic_data_mu(basic, x) /\ pc'[t] = "run"
        /\ \A y \in Threads : y # t => pc'[y] = pc[y] /\ on'[y] = on[y] /\ meant'[y] = meant[y]
    BY <1>0, <1>7 DEF Reap, TypeOK
  <2>3. \A d \in delivered' : d[1] = d[2]
    <3>1. basic[x].retval = x BY <1>3, <1>5, <2>1 DEF Returned
    <3>2. delivered' = delivered \cup {<<x, x>>} BY <1>7, <3>1 DEF Reap, Deliver
    <3> QED BY <3>2 DEF ClaimedOnce
  <2>4. /\ \A y \in Threads : y # x => basic'[y] = basic[y]
        /\ ~basic'[x].live
    <3>1. basic \in [Threads -> BasicData] BY <1>0 DEF TypeOK
    <3> QED BY <1>0, <2>2, <3>1, ReleaseTyped
  <2>5. \A y \in Threads : y # x /\ y \in table => y \in table'
    BY <1>0, <1>5, <2>2, ReleaseFrame
  <2>6. \A y \in Threads : /\ y = Main \/ (pc'[y] \in WithoutTdb <=> pc[y] \in WithoutTdb)
                           /\ pc'[y] = "unborn" <=> pc[y] = "unborn"
                           /\ pc'[y] = "exiting" => pc[y] = "exiting"
    BY <1>1, <2>2 DEF WithoutTdb
  <2>7. \A y \in Threads : y # x => /\ SameThread(y) /\ handle'[y] = handle[y]
                                    /\ y \in table => y \in table'
    BY <1>6, <2>4, <2>5, <2>6 DEF SameThread
  <2>8. \A u \in Threads : u # t => SameCreator(u) /\ SameJoiner(u)
    BY <2>2 DEF SameCreator, SameJoiner
  <2>9. InTable(x)' /\ Returned(x)' BY <2>4 DEF InTable, Returned
  <2>10. Unclaimed(x)' BY <1>4, <1>6 DEF Unclaimed
  <2>11. ASSUME NEW u \in Threads, u = t \/ on[u] = x PROVE Prepared(u)' /\ Awaited(u)'
    <3>1. CASE u = t BY <2>2, <3>1 DEF Prepared, Awaited, Preparing, Waiting
    <3>2. CASE u # t /\ on[u] = x
      <4>1. pc[u] \in Preparing => pc[on[u]] = "unborn" BY <1>0 DEF Places
      <4>2. pc[u] \notin Preparing /\ pc[u] \notin Waiting BY <1>4, <3>2, <4>1
      <4>3. pc'[x] # "unborn" BY <1>4, <2>6
      <4> QED BY <2>2, <3>2, <4>2, <4>3 DEF Prepared, Awaited, Preparing
    <3> QED BY <2>11, <3>1, <3>2
  <2>12. pc'[t] \notin Waiting /\ claimed \subseteq claimed' BY <1>6, <2>2 DEF Waiting
  <2> QED BY <1>0, <2>3, <2>7, <2>8, <2>9, <2>10, <2>11, <2>12, ClaimFrame
<1>8. CASE pc' = [pc EXCEPT ![t] = "join_wait"] /\ UNCHANGED <<basic, table, on, meant, delivered>>
  <2>1. pc'[t] = "join_wait" /\ \A y \in Threads : y # t => pc'[y] = pc[y]
    BY <1>0, <1>8 DEF TypeOK
  <2>2. \A y \in Threads :
           /\ y = Main \/ (pc'[y] \in WithoutTdb <=> pc[y] \in WithoutTdb)
           /\ pc'[y] = "unborn" <=> pc[y] = "unborn"
           /\ pc'[y] = "exiting" => pc[y] = "exiting" /\ saved'[y].joinable = saved[y].joinable
    BY <1>1, <1>6, <2>1 DEF WithoutTdb
  <2>3. \A u \in Threads : SameCreator(u) /\ SameJoiner(u)
    BY <1>1, <1>8, <2>1 DEF SameCreator, SameJoiner, Preparing, Waiting
  <2> QED BY <1>0, <1>6, <1>8, <2>2, <2>3, UnnoticedKeepsClaims
<1> QED BY <1>2, <1>4, <1>5, <1>7, <1>8 DEF JoinWake

(* Every step keeps what holds when each thread is claimed once.            *)
LEMMA ClaimsStep ==
  ASSUME Owned, IdsBelow, Claims, [Next]_<<vars, program>>
  PROVE  Claims'
<1>1. program' = program BY DEF Next
<1> SUFFICES ASSUME program.one_claim PROVE ClaimedOnce' BY <1>1 DEF Claims
<1>2. ClaimedOnce /\ TypeOK /\ Ownership /\ Places /\ TdbOwned
  BY DEF Claims, Owned, Ownership
<1>3. ASSUME NEW t \in Threads, Call(t) PROVE ClaimedOnce'
  BY <1>2, <1>3, AllocateKeepsClaims, JoinCallKeepsClaims, DetachKeepsClaims DEF Call
<1>4. ASSUME NEW t \in Threads, ExitBegin(t) PROVE ClaimedOnce'
  BY <1>2, <1>4, ExitBeginKeepsClaims
<1>5. ASSUME NEW t \in Threads, Continue(t) PROVE ClaimedOnce'
  BY <1>2, <1>5, StartKeepsClaims, UnnoticedSteps, StoreIdKeepsClaims, CleanupKeepsClaims,
     ExitKeepsClaims, JoinWakeKeepsClaims
     DEF Continue, Create
<1>6. ASSUME NEW t \in Threads, SpuriousWake(t) \/ MainExit \/ Shutdown PROVE ClaimedOnce'
  BY <1>2, <1>6, UnnoticedSteps
<1>7. ASSUME UNCHANGED <<vars, program>> PROVE ClaimedOnce'
  <2>1. \A u \in Threads : SameCreator(u) /\ SameJoiner(u)
    BY <1>7 DEF vars, SameCreator, SameJoiner
  <2> QED BY <1>2, <1>7, <2>1, UnnoticedKeepsClaims DEF vars
<1> QED
  BY <1>3, <1>4, <1>5, <1>6, <1>7, ThreadsAssumption, Zenon DEF Next, Terminated

(* At the start nothing is claimed.                                         *)
LEMMA InitClaims ==
  ASSUME Init
  PROVE  Claims
<1>1. /\ \A t \in Threads : pc[t] = IF t = Main THEN "run" ELSE "unborn"
      /\ \A t \in Threads : basic[t] = IF t = Main THEN [FreshBasic(MainTls) EXCEPT !.id = 0]
                                                   ELSE NullBasic
      /\ \A t \in Threads : handle[t] = IF t = Main THEN 0 ELSE NoId
      /\ tdb[MainTls] = FreshTdb(Main) /\ table = {Main} /\ delivered = {}
  BY DEF Init, Sites
<1>2. /\ basic[Main].live /\ basic[Main].id = 0 /\ basic[Main].tdb = MainTls
      /\ \A t \in Threads : t # Main => ~basic[t].live
  BY <1>1, ThreadsAssumption DEF FreshBasic, NullBasic
<1>3. tdb[MainTls].joinable /\ ~tdb[MainTls].join_waiting BY <1>1 DEF FreshTdb
<1>4. ASSUME NEW x \in Threads PROVE InTable(x) /\ Returned(x)
  BY <1>1, <1>2, BlocksAssumption DEF InTable, Returned
<1>5. ASSUME NEW x \in Threads PROVE Unclaimed(x)
  <2>1. CASE x = Main
    <3>1. pc[Main] = "run" /\ HasTdb(Main) BY <1>1, ThreadsAssumption DEF HasTdb
    <3>2. handle[Main] = 0 BY <1>1, ThreadsAssumption
    <3>3. 0 # IllegalId BY LimitsAssumption DEF IllegalId
    <3> QED BY <1>2, <1>3, <2>1, <3>1, <3>2, <3>3 DEF Unclaimed, Joinable
  <2>2. CASE x # Main BY <1>1, <2>2 DEF Unclaimed
  <2> QED BY <2>1, <2>2
<1>6. ASSUME NEW t \in Threads PROVE Prepared(t) /\ Awaited(t)
  BY <1>1 DEF Prepared, Awaited, Preparing, Waiting
<1> QED BY <1>1, <1>4, <1>5, <1>6 DEF Claims, ClaimedOnce

-----------------------------------------------------------------------------
(* Ids and joins.                                                           *)

Agreed == Owned /\ IdsBelow /\ Claims

(* All three invariants hold together.                                      *)
LEMMA AlwaysAgreed ==
  Spec => []Agreed
<1>1. Init => Agreed BY InitOwned, InitIds, InitClaims DEF Agreed
<1>2. Agreed /\ [Next]_<<vars, program>> => Agreed'
  BY OwnedStep, IdsStep, ClaimsStep DEF Agreed
<1> QED BY <1>1, <1>2, PTL DEF Spec

(* Where every thread is joined or detached once, pthread_join succeeds and *)
(* returns the value of the thread it was called for, and what a joiner     *)
(* waits on is not freed under it.                                          *)
THEOREM JoinsDeliver ==
  Spec => []JoinDelivers
<1>1. Agreed => JoinDelivers
  BY DEF Agreed, Claims, ClaimedOnce, Awaited, Joinable, Waiting, JoinDelivers
<1> QED BY <1>1, AlwaysAgreed, PTL

(* The hash table holds no two threads under one id and no freed data, and  *)
(* nobody but the main thread has id 0 where every thread is joined or      *)
(* detached once.                                                           *)
THEOREM IdsStayUnique ==
  Spec => []IdsUnique
<1>1. ASSUME Agreed PROVE IdsUnique
  <2>1. IdsBelow /\ TypeOK /\ TdbOwned /\ Claims BY <1>1 DEF Agreed, Owned, Ownership
  <2>2. ASSUME program.one_claim, NEW t \in Threads, HasTdb(t), basic[t].id = 0
        PROVE  t = Main
    <3>1. basic[t].live /\ basic[Main].live /\ basic[Main].id = 0
      BY <2>1, <2>2, OwnArea DEF TdbOwned
    <3>2. 0 # IllegalId BY LimitsAssumption DEF IllegalId
    <3>3. InTable(t) /\ InTable(Main)
      BY <2>1, <2>2, ThreadsAssumption DEF Claims, ClaimedOnce
    <3>4. t \in table /\ Main \in table BY <2>2, <3>1, <3>2, <3>3 DEF InTable
    <3> QED BY <2>1, <2>2, <3>1, <3>4 DEF IdsBelow
  <2> QED BY <2>1, <2>2 DEF IdsBelow, IdsUnique
<1> QED BY <1>1, AlwaysAgreed, PTL
=============================================================================
