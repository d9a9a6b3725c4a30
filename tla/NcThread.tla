------------------------------ MODULE NcThread ------------------------------
(***************************************************************************)
(* Thread management of the untrusted pthread library                      *)
(* (src/native_client/src/untrusted/pthread/nc_thread.c): creation, exit,  *)
(* join, detach and the shutdown of the main thread, with the cache of TLS *)
(* and stack blocks and the allocation of thread ids.                      *)
(*                                                                         *)
(* Every section under __nc_thread_management_lock is one action: all the  *)
(* data it touches is only touched under that lock.  The accesses the code *)
(* makes outside the lock are steps of their own: the thread_create        *)
(* system call, the store of the new id through new_basic_data, pthread_   *)
(* exit's early read of `joinable', and the clearing of the stack's        *)
(* is_used flag by the trusted thread_exit system call.                    *)
(*                                                                         *)
(* malloc is assumed to succeed.  A member of Threads stands for one       *)
(* thread and for its nc_basic_thread_data_t; pthread_create is called for *)
(* it at most once.                                                        *)
(***************************************************************************)
EXTENDS Integers, Sequences, FiniteSets

CONSTANTS
  Threads,       \* the threads of the module
  Main,          \* the initial thread, id 0
  NoThread,      \* NULL, as a pointer to basic data or a return value
  Blocks,        \* addresses malloc hands out for memory blocks of either type
  MainTls,       \* the main thread's TLS area, which is not a cached block
  NoBlock,       \* NULL, as a pointer to a block or to a TDB
  MaxThreadId,   \* MAX_THREAD_ID (0xfffffffe)
  MaxCachedMemoryBlocks,   \* __nc_kMaxCachedMemoryBlocks (50)
  Programs       \* what the module's code may do: the threads that it creates
                 \* (children), those that call pthread_create (creators),
                 \* and those that are joined or detached (targets), each of
                 \* them at most once, by its creator, or detached by itself,
                 \* as POSIX requires, if one_claim is TRUE

ASSUME ThreadsAssumption ==
  /\ IsFiniteSet(Threads)
  /\ Main \in Threads
  /\ NoThread \notin Threads
ASSUME BlocksAssumption ==
  /\ MainTls \notin Blocks
  /\ NoBlock \notin Blocks
  /\ NoBlock # MainTls
ASSUME LimitsAssumption ==
  /\ MaxThreadId \in Nat \ {0}
  /\ MaxCachedMemoryBlocks \in Nat
ASSUME ProgramsAssumption ==
  Programs \subseteq [children : SUBSET Threads, creators : SUBSET Threads,
                      targets : SUBSET Threads, one_claim : BOOLEAN]

VARIABLES
  pc,        \* where each thread is
  basic,     \* nc_basic_thread_data_t of each thread
  tdb,       \* the nc_thread_descriptor_t held by each TLS area
  regs,      \* the thread's %gs (its TLS area) and its stack
  saved,     \* pthread_exit's locals: basic_data, joinable, stack_node
  on,        \* local new_basic_data of pthread_create, basic_data of _join
  mem,       \* per block type: the cache queue, is_used flags, malloc'ed set
  table,     \* __nc_thread_threads: whose basic data is in the hash table
  nextId,    \* __nc_thread_id_counter
  wrapped,   \* __nc_thread_counter_reached_32_bit
  running,   \* __nc_running_threads_counter
  program,   \* the module's code
  handle,    \* the id the creator stored in *thread_id, when it has done so
  parent,    \* ghost: which thread created this one
  claimed,   \* ghost: joined or detached already
  meant,     \* ghost: the thread a waiting pthread_join was called for
  delivered  \* ghost: <<thread joined, value pthread_join returned>>

vars == <<pc, basic, tdb, regs, saved, on, mem, table, nextId, wrapped,
          running, handle, parent, claimed, meant, delivered>>

-----------------------------------------------------------------------------
Ids == 0 .. MaxThreadId
IllegalId == MaxThreadId + 1       \* NACL_PTHREAD_ILLEGAL_THREAD_ID
NoId == MaxThreadId + 2            \* *thread_id not stored yet
Sites == Blocks \cup {MainTls}     \* where a TDB can be

PCs == {"unborn", "run",
        "allocated", "started", "uncounted", "create_failed",
        "exiting", "leaving", "gone",
        "join_wait", "join_woken",
        "shutdown", "shutdown_wait"}

(* nc_basic_thread_data_t; `live' is FALSE before malloc and after free.   *)
BasicData == [live : BOOLEAN, id : Ids \cup {IllegalId}, terminated : BOOLEAN,
              retval : Threads \cup {NoThread}, tdb : Sites \cup {NoBlock}]

(* nc_thread_descriptor_t.                                                 *)
Descriptor == [basic_data : Threads \cup {NoThread}, joinable : BOOLEAN,
               join_waiting : BOOLEAN, stack : Blocks \cup {NoBlock}]

(* One of the two caches of memory blocks and the blocks malloc'ed for it. *)
Cache == [queue : Seq(Blocks), used : SUBSET Blocks, heap : SUBSET Blocks]

(* What nc_tdb_init leaves in the basic data and in the TDB.               *)
FreshBasic(site) ==
  [live |-> TRUE, id |-> IllegalId, terminated |-> FALSE,
   retval |-> NoThread, tdb |-> site]
FreshTdb(x) ==
  [basic_data |-> x, joinable |-> TRUE, join_waiting |-> FALSE,
   stack |-> NoBlock]

(* A TDB in a released block: nothing a later reader may rely on.          *)
DeadTdb == FreshTdb(NoThread)

NoLocals == [basic_data |-> NoThread, joinable |-> FALSE, stack |-> NoBlock]

NullBasic == [FreshBasic(NoBlock) EXCEPT !.live = FALSE]

(* __pthread_initialize, run by the start-up code on the main thread.      *)
Init ==
  /\ pc = [t \in Threads |-> IF t = Main THEN "run" ELSE "unborn"]
  /\ basic = [t \in Threads |->
                IF t = Main THEN [FreshBasic(MainTls) EXCEPT !.id = 0]
                            ELSE NullBasic]
  /\ tdb = [b \in Sites |-> IF b = MainTls THEN FreshTdb(Main) ELSE DeadTdb]
  /\ regs = [t \in Threads |->
               [gs |-> IF t = Main THEN MainTls ELSE NoBlock, sp |-> NoBlock]]
  /\ saved = [t \in Threads |-> NoLocals]
  /\ on = [t \in Threads |-> NoThread]
  /\ mem = [ty \in {"stack", "tls"} |->
              [queue |-> <<>>, used |-> {}, heap |-> {}]]
  /\ table = {Main}
  /\ nextId = 1
  /\ wrapped = FALSE
  /\ running = 1
  /\ program \in Programs
  /\ handle = [t \in Threads |-> IF t = Main THEN 0 ELSE NoId]
  /\ parent = [t \in Threads |-> NoThread]
  /\ claimed = {}
  /\ meant = [t \in Threads |-> NoThread]
  /\ delivered = {}

-----------------------------------------------------------------------------
(* Memory blocks.                                                          *)

(* How many blocks the trimming loop frees from the front of the queue: it *)
(* stops at the limit or at the first block that is still in use.          *)
TrimCount(q, used) ==
  CHOOSE k \in 0 .. Len(q) :
    /\ k = 0 \/ k <= Len(q) - MaxCachedMemoryBlocks
    /\ \A i \in 1 .. k : q[i] \notin used
    /\ \/ Len(q) - k <= MaxCachedMemoryBlocks
       \/ q[k + 1] \in used

(* Faulty variant: the head of the queue is reused whatever its flag says. *)
AllocateIgnoringUse(m) ==
  IF m.queue # <<>>
  THEN {[node |-> Head(m.queue), cache |-> [m EXCEPT !.queue = Tail(@)]]}
  ELSE {[node  |-> b,
         cache |-> [m EXCEPT !.used = @ \cup {b}, !.heap = @ \cup {b}]] :
          b \in Blocks \ m.heap}

(* The outcomes of nc_allocate_memory_block_mu on cache m: reuse the head  *)
(* of the queue when its is_used flag is clear, else malloc.               *)
nc_allocate_memory_block_mu(m) ==
  IF m.queue # <<>> /\ Head(m.queue) \notin m.used
  THEN LET rest == Tail(m.queue)
           k    == TrimCount(rest, m.used)
       IN  {[node  |-> Head(m.queue),
             cache |-> [queue |-> SubSeq(rest, k + 1, Len(rest)),
                        used  |-> m.used \cup {Head(m.queue)},
                        heap  |-> m.heap \ {rest[i] : i \in 1 .. k}]]}
  ELSE {[node  |-> b,
         cache |-> [m EXCEPT !.used = @ \cup {b}, !.heap = @ \cup {b}]] :
          b \in Blocks \ m.heap}

nc_free_memory_block_mu(m, b) == [m EXCEPT !.queue = Append(@, b)]

ClearUsed(m, b) == [m EXCEPT !.used = @ \ {b}]

(* Faulty variant: the failure path forgets the stack.                     *)
ReleaseNoStack(m, s) == m

(* The failure path of pthread_create gives the stack back, if it has one. *)
ReleaseStack(m, s) ==
  IF s = NoBlock THEN m ELSE nc_free_memory_block_mu(ClearUsed(m, s), s)

-----------------------------------------------------------------------------
(* The table of threads.                                                   *)

(* nc_find_tdb_mu: whose basic data the hash table holds under this id.    *)
nc_find_tdb_mu(id) == {x \in table : basic[x].id = id}

FreeIds == {i \in Ids : nc_find_tdb_mu(i) = {}}

(* Faulty variant: the last id is given again and again.                   *)
AllocatedIdUnsearched == nextId

(* The id nc_allocate_thread_id_mu gives: the counter until it reaches the *)
(* last id, from then on the least id that is not in the table.            *)
AllocatedId ==
  IF ~wrapped THEN nextId
  ELSE IF FreeIds = {} THEN IllegalId
  ELSE CHOOSE i \in FreeIds : \A j \in FreeIds : i <= j

AdvanceIds ==
  /\ nextId' = IF ~wrapped /\ nextId # MaxThreadId THEN nextId + 1 ELSE nextId
  /\ wrapped' = (wrapped \/ nextId = MaxThreadId)

(* nc_release_basic_data_mu: out of the table, then freed.  `bs' is the    *)
(* basic data as the caller has already changed it.                        *)
nc_release_basic_data_mu(bs, x) ==
  /\ table' = IF bs[x].id = IllegalId THEN table
              ELSE table \ nc_find_tdb_mu(bs[x].id)
  /\ basic' = [bs EXCEPT ![x].live = FALSE]

-----------------------------------------------------------------------------
(* pthread_create.                                                         *)

(* The first critical section, TLS block first, then basic data, id and    *)
(* stack.  Without a free id the call takes its failure path.              *)
CreateAllocate(c, x, joinable) ==
  /\ pc[c] = "run"
  /\ c \in program.creators
  /\ x \in program.children
  /\ pc[x] = "unborn"
  /\ parent[x] = NoThread
  /\ \E tls \in nc_allocate_memory_block_mu(mem["tls"]) :
       LET id == AllocatedId
           fresh == [FreshTdb(x) EXCEPT !.joinable = joinable]
       IN
       /\ basic' = [basic EXCEPT ![x] =
                      [FreshBasic(tls.node) EXCEPT !.id = id]]
       /\ AdvanceIds
       /\ \/ /\ id # IllegalId
             /\ \E stack \in nc_allocate_memory_block_mu(mem["stack"]) :
                  /\ mem' = [stack |-> stack.cache, tls |-> tls.cache]
                  /\ tdb' = [tdb EXCEPT ![tls.node] =
                               [fresh EXCEPT !.stack = stack.node]]
             /\ table' = table \cup {x}
             /\ pc' = [pc EXCEPT ![c] = "allocated"]
          \/ /\ id = IllegalId
             /\ mem' = [mem EXCEPT !["tls"] = tls.cache]
             /\ tdb' = [tdb EXCEPT ![tls.node] = FreshTdb(x)]
             /\ pc' = [pc EXCEPT ![c] = "create_failed"]
             /\ UNCHANGED table
  /\ on' = [on EXCEPT ![c] = x]
  /\ parent' = [parent EXCEPT ![x] = c]
  /\ claimed' = IF joinable THEN claimed ELSE claimed \cup {x}
  /\ UNCHANGED <<regs, saved, running, handle, meant, delivered>>

(* The thread_create system call starts the thread.                        *)
CreateStart(c) ==
  LET x == on[c]
      b == basic[x].tdb
  IN
  /\ pc[c] = "allocated"
  /\ pc' = [pc EXCEPT ![c] = "started", ![x] = "run"]
  /\ regs' = [regs EXCEPT ![x] = [gs |-> b, sp |-> tdb[b].stack]]
  /\ UNCHANGED <<basic, tdb, saved, on, mem, table, nextId, wrapped, running,
                 handle, parent, claimed, meant, delivered>>

(* Faulty variant: the result of the system call is not looked at.         *)
CreateRefusedIgnored(c) ==
  /\ pc[c] = "allocated"
  /\ pc' = [pc EXCEPT ![c] = "started"]
  /\ UNCHANGED <<basic, tdb, regs, saved, on, mem, table, nextId, wrapped,
                 running, handle, parent, claimed, meant, delivered>>

(* The thread_create system call fails.                                    *)
CreateRefused(c) ==
  /\ pc[c] = "allocated"
  /\ pc' = [pc EXCEPT ![c] = "create_failed"]
  /\ UNCHANGED <<basic, tdb, regs, saved, on, mem, table, nextId, wrapped,
                 running, handle, parent, claimed, meant, delivered>>

(* *thread_id = new_basic_data->thread_id, without the lock: any id when   *)
(* the thread has already ended and its basic data has been freed.         *)
CreateStoreId(c) ==
  LET x == on[c] IN
  /\ pc[c] = "started"
  /\ \E id \in IF basic[x].live THEN {basic[x].id} ELSE Ids :
       handle' = [handle EXCEPT ![x] = id]
  /\ pc' = [pc EXCEPT ![c] = "uncounted"]
  /\ UNCHANGED <<basic, tdb, regs, saved, on, mem, table, nextId, wrapped,
                 running, parent, claimed, meant, delivered>>

(* The second critical section: ++__nc_running_threads_counter.            *)
CreateCount(c) ==
  /\ pc[c] = "uncounted"
  /\ running' = running + 1
  /\ pc' = [pc EXCEPT ![c] = "run"]
  /\ on' = [on EXCEPT ![c] = NoThread]
  /\ UNCHANGED <<basic, tdb, regs, saved, mem, table, nextId, wrapped, handle,
                 parent, claimed, meant, delivered>>

(* The failure path: TLS block, basic data and stack are given back.       *)
CreateCleanup(c) ==
  LET x == on[c]
      b == basic[x].tdb
      s == tdb[b].stack
  IN
  /\ pc[c] = "create_failed"
  /\ nc_release_basic_data_mu(
       [basic EXCEPT ![tdb[b].basic_data].tdb = NoBlock], x)
  /\ mem' = [tls   |-> nc_free_memory_block_mu(ClearUsed(mem["tls"], b), b),
             stack |-> ReleaseStack(mem["stack"], s)]
  /\ pc' = [pc EXCEPT ![c] = "run"]
  /\ on' = [on EXCEPT ![c] = NoThread]
  /\ tdb' = [tdb EXCEPT ![b] = DeadTdb]
  /\ UNCHANGED <<regs, saved, nextId, wrapped, running, handle, parent,
                 claimed, meant, delivered>>

-----------------------------------------------------------------------------
(* pthread_exit.                                                           *)

(* The locals are read from the TDB before the destructors of the          *)
(* thread-specific data run and before the lock is taken.                  *)
ExitBegin(t) ==
  LET d == tdb[regs[t].gs] IN
  /\ pc[t] = "run"
  /\ basic[d.basic_data].id # 0
  /\ saved' = [saved EXCEPT ![t] = [basic_data |-> d.basic_data,
                                    joinable   |-> d.joinable,
                                    stack      |-> d.stack]]
  /\ pc' = [pc EXCEPT ![t] = "exiting"]
  /\ UNCHANGED <<basic, tdb, regs, on, mem, table, nextId, wrapped, running,
                 handle, parent, claimed, meant, delivered>>

(* Faulty variant: the joiner is not signalled.                            *)
SignalledNobody(y) == {{}}

(* Whom pthread_cond_signal(&join_condvar) of y wakes: one waiter, if any. *)
Signalled(y) ==
  LET waiting == {t \in Threads : pc[t] = "join_wait" /\ on[t] = y}
  IN  IF waiting = {} THEN {{}} ELSE {{t} : t \in waiting}

(* Faulty variant: the signal is tied to the wrong count.                  *)
WakeMainAtZero(p, count) ==
  IF count = 0 /\ p[Main] = "shutdown_wait"
  THEN [p EXCEPT ![Main] = "shutdown"] ELSE p

(* pc after last_thread_cond is signalled, if it is.                       *)
WakeMain(p, count) ==
  IF count = 1 /\ p[Main] = "shutdown_wait"
  THEN [p EXCEPT ![Main] = "shutdown"] ELSE p

(* The critical section.  The TLS area goes back to the cache as unused,   *)
(* the stack still marked as used: the thread runs on it.                  *)
ExitLocked(t) ==
  LET b  == regs[t].gs
      y  == saved[t].basic_data
      j  == saved[t].joinable
      bs == [basic EXCEPT ![y].retval = t,
                          ![y].terminated = (@ \/ j),
                          ![y].tdb = NoBlock]
  IN
  /\ pc[t] = "exiting"
  /\ mem' = [tls   |-> nc_free_memory_block_mu(ClearUsed(mem["tls"], b), b),
             stack |-> nc_free_memory_block_mu(mem["stack"], saved[t].stack)]
  /\ running' = running - 1
  /\ \/ /\ j
        /\ basic' = bs
        /\ \E woken \in Signalled(y) :
             pc' = WakeMain([u \in Threads |->
                               IF u = t THEN "leaving"
                               ELSE IF u \in woken THEN "join_woken"
                               ELSE pc[u]], running')
        /\ UNCHANGED table
     \/ /\ ~j
        /\ nc_release_basic_data_mu(bs, y)
        /\ pc' = WakeMain([pc EXCEPT ![t] = "leaving"], running')
  /\ tdb' = [tdb EXCEPT ![b] = DeadTdb]
  /\ UNCHANGED <<regs, saved, on, nextId, wrapped, handle, parent, claimed,
                 meant, delivered>>

(* NaClCommonSysThreadExit clears *stack_flag; the thread is off its stack.*)
ThreadExitSyscall(t) ==
  /\ pc[t] = "leaving"
  /\ mem' = [mem EXCEPT !["stack"] = ClearUsed(@, saved[t].stack)]
  /\ pc' = [pc EXCEPT ![t] = "gone"]
  /\ regs' = [regs EXCEPT ![t] = [gs |-> NoBlock, sp |-> NoBlock]]
  /\ saved' = [saved EXCEPT ![t] = NoLocals]
  /\ UNCHANGED <<basic, tdb, on, table, nextId, wrapped, running, handle,
                 parent, claimed, meant, delivered>>

(* The main thread exits, by pthread_exit or from main: it goes through    *)
(* __pthread_shutdown first.                                               *)
MainExit ==
  /\ pc[Main] = "run"
  /\ pc' = [pc EXCEPT ![Main] = "shutdown"]
  /\ UNCHANGED <<basic, tdb, regs, saved, on, mem, table, nextId, wrapped,
                 running, handle, parent, claimed, meant, delivered>>

(* Faulty variant: the main thread is left out of the count.               *)
OnlyMainLeftOrOne == running <= 2

OnlyMainLeft == running = 1

(* One turn of the loop of __pthread_shutdown.                             *)
Shutdown ==
  /\ pc[Main] = "shutdown"
  /\ pc' = [pc EXCEPT ![Main] = IF OnlyMainLeft THEN "gone"
                                ELSE "shutdown_wait"]
  /\ UNCHANGED <<basic, tdb, regs, saved, on, mem, table, nextId, wrapped,
                 running, handle, parent, claimed, meant, delivered>>

-----------------------------------------------------------------------------
(* pthread_join and pthread_detach.                                        *)

(* The calls a program that uses a thread id once may make.                *)
MayClaim(t, x) ==
  /\ pc[t] = "run"
  /\ x \in program.targets
  /\ program.one_claim => x \notin claimed

(* Still running, but detached or with a waiting joiner.                   *)
NotJoinable(y) ==
  /\ basic[y].tdb # NoBlock
  /\ \/ ~tdb[basic[y].tdb].joinable
     \/ tdb[basic[y].tdb].join_waiting

(* The ghosts are kept for a program that uses each thread id once.        *)
Claim(x) == claimed' = IF program.one_claim THEN claimed \cup {x} ELSE claimed
Deliver(x, value) ==
  delivered' = IF program.one_claim THEN delivered \cup {<<x, value>>} ELSE delivered

(* Faulty variant: the waiter does not look at the status again.           *)
EndedUnchecked(y) == TRUE

(* The condition pthread_join waits for.                                   *)
Ended(y) == basic[y].terminated

(* The end of pthread_join: the value is handed over, the data released.   *)
Reap(t, x, y) ==
  /\ Deliver(x, basic[y].retval)
  /\ nc_release_basic_data_mu(basic, y)
  /\ pc' = [pc EXCEPT ![t] = "run"]
  /\ on' = [on EXCEPT ![t] = NoThread]
  /\ meant' = [meant EXCEPT ![t] = NoThread]

JoinCall(t, x) ==
  /\ MayClaim(t, x)
  /\ handle[x] # NoId
  /\ program.one_claim => t # x /\ (t = parent[x] \/ x = Main)
  /\ Claim(x)
  /\ LET own   == basic[tdb[regs[t].gs].basic_data].id
         found == nc_find_tdb_mu(handle[x])
     IN
     \/ /\ handle[x] = own \/ found = {} \/ \E y \in found : NotJoinable(y)
        /\ Deliver(x, NoThread)
        /\ UNCHANGED <<pc, basic, tdb, on, table, meant>>
     \/ \E y \in found :
        /\ handle[x] # own
        /\ ~NotJoinable(y)
        /\ tdb' = IF basic[y].tdb = NoBlock THEN tdb
                  ELSE [tdb EXCEPT ![basic[y].tdb].join_waiting = TRUE]
        /\ IF basic[y].tdb = NoBlock \/ Ended(y)
           THEN Reap(t, x, y)
           ELSE /\ pc' = [pc EXCEPT ![t] = "join_wait"]
                /\ on' = [on EXCEPT ![t] = y]
                /\ meant' = [meant EXCEPT ![t] = x]
                /\ UNCHANGED <<basic, table, delivered>>
  /\ UNCHANGED <<regs, saved, mem, nextId, wrapped, running, handle, parent>>

(* The wait loop goes round: the joiner has the lock again.  Freed basic   *)
(* data may read as anything, and is freed again under any id it shows.    *)
JoinWake(t) ==
  LET y == on[t] IN
  /\ pc[t] = "join_woken"
  /\ \/ /\ basic[y].live
        /\ Ended(y)
        /\ Reap(t, meant[t], y)
     \/ /\ ~basic[y].live
        /\ \E v \in Threads \cup {NoThread} :
             Deliver(meant[t], v)
        /\ \E id \in Ids : table' = table \ nc_find_tdb_mu(id)
        /\ pc' = [pc EXCEPT ![t] = "run"]
        /\ on' = [on EXCEPT ![t] = NoThread]
        /\ meant' = [meant EXCEPT ![t] = NoThread]
        /\ UNCHANGED basic
     \/ /\ basic[y].live => ~Ended(y)
        /\ pc' = [pc EXCEPT ![t] = "join_wait"]
        /\ UNCHANGED <<basic, table, on, meant, delivered>>
  /\ UNCHANGED <<tdb, regs, saved, mem, nextId, wrapped, running, handle,
                 parent, claimed>>

(* A condition variable may wake its waiter without a signal.              *)
SpuriousWake(t) ==
  /\ \/ /\ pc[t] = "join_wait"
        /\ pc' = [pc EXCEPT ![t] = "join_woken"]
     \/ /\ pc[t] = "shutdown_wait"
        /\ pc' = [pc EXCEPT ![t] = "shutdown"]
  /\ UNCHANGED <<basic, tdb, regs, saved, on, mem, table, nextId, wrapped,
                 running, handle, parent, claimed, meant, delivered>>

(* pthread_detach, by another thread or by the thread itself, which knows  *)
(* its id from pthread_self.                                               *)
Detach(t, x) ==
  LET id == IF t = x THEN basic[tdb[regs[t].gs].basic_data].id ELSE handle[x]
      found == nc_find_tdb_mu(id)
  IN
  /\ MayClaim(t, x)
  /\ id # NoId
  /\ program.one_claim => t \in {x, parent[x]}
  /\ Claim(x)
  /\ \/ /\ found = {}
        /\ UNCHANGED <<basic, tdb, table>>
     \/ \E y \in found :
        /\ basic[y].tdb = NoBlock
        /\ nc_release_basic_data_mu(basic, y)
        /\ UNCHANGED tdb
     \/ \E y \in found :
        /\ basic[y].tdb # NoBlock
        /\ tdb' = IF tdb[basic[y].tdb].join_waiting THEN tdb
                  ELSE [tdb EXCEPT ![basic[y].tdb].joinable = FALSE]
        /\ UNCHANGED <<basic, table>>
  /\ UNCHANGED <<pc, regs, saved, on, mem, nextId, wrapped, running, handle,
                 parent, meant, delivered>>

-----------------------------------------------------------------------------
Create(c) ==
  \/ CreateStart(c)
  \/ CreateRefused(c)
  \/ CreateStoreId(c)
  \/ CreateCount(c)
  \/ CreateCleanup(c)

(* Every thread that was started has ended.                                *)
Terminated ==
  /\ \A t \in Threads : pc[t] \in {"unborn", "gone"}
  /\ UNCHANGED vars

Call(c) ==
  \/ \E x \in Threads, j \in BOOLEAN : CreateAllocate(c, x, j)
  \/ \E x \in Threads : JoinCall(c, x) \/ Detach(c, x)

(* What a thread goes on to do in the library, once a call is begun.       *)
Continue(t) == Create(t) \/ ExitLocked(t) \/ ThreadExitSyscall(t) \/ JoinWake(t)

Next ==
  /\ UNCHANGED program
  /\ \/ \E t \in Threads : Call(t) \/ ExitBegin(t) \/ Continue(t) \/ SpuriousWake(t)
     \/ MainExit
     \/ Shutdown
     \/ Terminated

Spec == Init /\ [][Next]_<<vars, program>>

(* Every thread that has a step to take takes it, and thread functions     *)
(* return: what the scheduler and a terminating program provide.  Nothing  *)
(* is assumed of spurious wake-ups or of the calls a program makes.        *)
Fairness ==
  /\ \A t \in Threads : WF_vars(Continue(t))
  /\ \A t \in Threads \ {Main} : SF_vars(ExitBegin(t))
  /\ SF_vars(MainExit)
  /\ WF_vars(Shutdown)

FairSpec == Spec /\ Fairness
-----------------------------------------------------------------------------
(* Properties.                                                             *)

(* Threads that have been started and have not given their TDB back.       *)
HasTdb(t) == pc[t] \notin {"unborn", "leaving", "gone"} \/ t = Main

(* Threads that run on a stack block of the cache.                         *)
OnStack(t) == t # Main /\ pc[t] \notin {"unborn", "gone"}

(* Creators whose thread is started and not yet counted.                   *)
Uncounted == {c \in Threads : pc[c] \in {"started", "uncounted"}}

(* The children that pthread_create has allocated and not started.         *)
Unstarted == {on[c] : c \in {t \in Threads :
                               pc[t] \in {"allocated", "create_failed"}}}

TypeOK ==
  /\ pc \in [Threads -> PCs]
  /\ basic \in [Threads -> BasicData]
  /\ tdb \in [Sites -> Descriptor]
  /\ regs \in [Threads -> [gs : Sites \cup {NoBlock},
                           sp : Blocks \cup {NoBlock}]]
  /\ saved \in [Threads -> [basic_data : Threads \cup {NoThread},
                            joinable : BOOLEAN,
                            stack : Blocks \cup {NoBlock}]]
  /\ on \in [Threads -> Threads \cup {NoThread}]
  /\ mem \in [{"stack", "tls"} -> Cache]
  /\ table \subseteq Threads
  /\ nextId \in Ids
  /\ wrapped \in BOOLEAN
  /\ running \in Int
  /\ program \in Programs
  /\ handle \in [Threads -> Ids \cup {IllegalId, NoId}]
  /\ parent \in [Threads -> Threads \cup {NoThread}]
  /\ claimed \subseteq Threads
  /\ meant \in [Threads -> Threads \cup {NoThread}]
  /\ delivered \subseteq Threads \X (Threads \cup {NoThread})

(* __nc_running_threads_counter is the number of threads that run, the     *)
(* main thread included, less those whose creator has not come to          *)
(* ++__nc_running_threads_counter yet.                                     *)
CounterAccounts ==
  running = Cardinality({t \in Threads : HasTdb(t)}) - Cardinality(Uncounted)

(* The hash table never holds two threads under one id, nor freed data,    *)
(* also when ids are searched for after the counter has reached the last   *)
(* one; and id 0, which makes pthread_exit shut the module down, is only   *)
(* the main thread's when every thread is joined or detached once: a       *)
(* joiner of freed data may take any id out of the table, the main         *)
(* thread's too, for the search to find.                                   *)
IdsUnique ==
  /\ \A x, y \in table : basic[x].id = basic[y].id => x = y
  /\ \A x \in table : basic[x].live
  /\ program.one_claim =>
       \A t \in Threads : HasTdb(t) /\ basic[t].id = 0 => t = Main

(* A thread has its stack and its TDB to itself as long as it uses them:   *)
(* the stack is no other thread's and not given back to malloc, although   *)
(* pthread_exit queues a stack its thread is still running on; the TDB     *)
(* that %gs points to is its own, and its basic data is not freed.         *)
StackAndTdbExclusive ==
  \A t \in Threads :
    /\ OnStack(t) =>
         /\ regs[t].sp \in mem["stack"].heap
         /\ \A u \in Threads : OnStack(u) /\ u # t => regs[u].sp # regs[t].sp
    /\ HasTdb(t) =>
         /\ tdb[regs[t].gs].basic_data = t
         /\ basic[t].live
         /\ basic[t].tdb = regs[t].gs

(* No block is lost and none is in the cache twice or while it is handed   *)
(* out: what malloc gave is either queued or owned, whichever way          *)
(* pthread_create fails.                                                   *)
BlocksAccounted ==
  LET QueuedIn(ty) == {mem[ty].queue[i] : i \in 1 .. Len(mem[ty].queue)}
      Owned(ty) ==
        IF ty = "tls"
        THEN {regs[t].gs : t \in {u \in Threads \ {Main} : HasTdb(u)}}
               \cup {basic[x].tdb : x \in Unstarted}
        ELSE ({regs[t].sp : t \in {u \in Threads \ {Main} : HasTdb(u)}}
               \cup {tdb[basic[x].tdb].stack : x \in Unstarted}) \ {NoBlock}
  IN  \A ty \in {"stack", "tls"} :
        /\ Cardinality(QueuedIn(ty)) = Len(mem[ty].queue)
        /\ QueuedIn(ty) \cap Owned(ty) = {}
        /\ QueuedIn(ty) \cup Owned(ty) = mem[ty].heap

(* When every thread is joined or detached once, pthread_join succeeds and *)
(* returns the value of the thread it was called for, whatever ids were    *)
(* reused before and between the call and the joiner's wake-up; and the    *)
(* basic data that a joiner waits on is not freed under it: pthread_detach *)
(* on a thread somebody waits for is to do nothing.                        *)
JoinDelivers ==
  program.one_claim =>
    /\ \A d \in delivered : d[1] = d[2]
    /\ \A t \in Threads : pc[t] \in {"join_wait", "join_woken"} => basic[on[t]].live

(* pthread_detach's promise: the resources of a detached thread are freed  *)
(* when it ends.                                                           *)
DetachedReclaimed ==
  \A x \in claimed :
    /\ pc[x] = "gone"
    /\ x # Main
    /\ \A t \in Threads : on[t] # x
    => ~basic[x].live

(* The main thread leaves __pthread_shutdown only when all the others have *)
(* terminated.                                                             *)
ShutdownWaitsForAll ==
  pc[Main] = "gone" => \A t \in Threads \ {Main} : ~HasTdb(t)

(* So it does where no other thread creates threads.                       *)
CreatedByMainAwaited == program.creators \subseteq {Main} => ShutdownWaitsForAll

(* A pthread_join of a thread that ends returns.                           *)
JoinReturns ==
  \A t \in Threads : pc[t] = "join_wait" ~> pc[t] \notin {"join_wait",
                                                          "join_woken"}

(* The main thread's exit comes through __pthread_shutdown: the signal of  *)
(* last_thread_cond is never lost.                                         *)
ShutdownCompletes == pc[Main] = "shutdown" ~> pc[Main] = "gone"
=============================================================================
