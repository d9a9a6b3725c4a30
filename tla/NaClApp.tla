------------------------------- MODULE NaClApp -------------------------------
(***************************************************************************)
(* The threads of a loaded module, its exit, and the work queue through    *)
(* which its threads have operations run by the main thread of the service *)
(* runtime (nacl_app_thread.c, sel_ldr.c, sel_ldr_standard.c,              *)
(* nacl_syscall_common.c, nacl_sync_queue.c and nacl_bottom_half.c under   *)
(* src/native_client/src/trusted/service_runtime).                         *)
(*                                                                         *)
(* A section under one of the mutexes (nap->mu, threads_mu, natp->mu,      *)
(* work_queue.mu, result.mu, nacl_ldt_mutex) is one action: none waits for *)
(* anything but its condition variable.  nap->mu alone is kept by a thread *)
(* after its section: by the main thread, when it has read the status.     *)
(* Nothing asks a thread to commit suicide and nothing calls               *)
(* NaClAppThreadIncRef, so the reference count of a thread is 1.           *)
(***************************************************************************)
EXTENDS Integers, FiniteSets, Sequences

CONSTANTS
  Natps,       \* the objects malloc may return for a struct NaClAppThread
  First,       \* that of the thread of NaClCreateMainThread
  NoThread,    \* a null pointer to one
  NumSlots,    \* LDT_ENTRIES
  Statuses,    \* the statuses the module exits with
  MaxOps       \* bound: the operations one thread asks for

ASSUME NatpsAssumption ==
  IsFiniteSet(Natps) /\ First \in Natps /\ NoThread \notin Natps
ASSUME SlotsAssumption == NumSlots \in Nat \ {0}
ASSUME StatusAssumption == Statuses \subseteq Nat
ASSUME BoundAssumption == MaxOps \in Nat

VARIABLES
  restricted,   \* nap->restrict_to_main_thread, an option of sel_ldr
  threads,      \* nap->threads
  num_threads,  \* nap->num_threads
  running,      \* nap->running
  exit_status,  \* nap->exit_status
  queue,        \* nap->work_queue: a closure is <<natp, number>>
  quit,         \* nap->work_queue.quit
  ldt,          \* the entries of the LDT that are present
  nacl_thread,  \* nacl_thread, nacl_user and nacl_sys, set together
  pc,           \* the state of each object and where its thread is
  slot,         \* natp->user.gs >> 3
  thread_num,   \* natp->thread_num
  state,        \* natp->state
  result,       \* natp->result: rv, or NoResult if not result_valid
  privileged,   \* natp->is_privileged
  on,           \* the object the thread is creating
  asked,        \* ghost: the number of the thread's latest operation
  mpc,          \* where the main thread of the service runtime is
  work,         \* the closure it runs
  fatal         \* ghost: whether a LOG_FATAL was reached

napVars == <<threads, num_threads>>
exitVars == <<running, exit_status>>
queueVars == <<queue, quit>>
slotVars == <<ldt, nacl_thread, slot>>
opVars == <<result, asked>>
mainVars == <<mpc, work>>
natpVars == <<thread_num, state, privileged>>
vars == <<restricted, napVars, exitVars, queueVars, slotVars, natpVars,
          opVars, mainVars, pc, on, fatal>>

(* free: not allocated.  made: under construction.  lost: its construction *)
(* failed and nothing frees it.  launched: in NaClThreadLauncher.  app: in *)
(* the module.  ctor, start: in NaClAppThreadCtor for on.  leave: about to *)
(* leave a system call.  op_check, op_wait: in NaClClosureResultWait,      *)
(* op_wait on result.cv.  exit: in NaClCommonSysExit, the queue told to    *)
(* quit.  suicide: in NaClSysCommonThreadSuicide.  decref: at its DecRef.  *)
Registered == {"app", "ctor", "start", "leave", "op_check", "op_wait",
               "exit", "suicide"}
Waiting == {"op_check", "op_wait"}
PCs == Registered \cup {"free", "made", "lost", "launched", "decref"}

(* dequeue: about to look at the queue.  run: runs work.  status: about to *)
(* look at running.  queue_wait, status_wait: on work_queue.cv, nap->cv.   *)
(* returned: out of NaClWaitForMainThreadToExit.  exited: _exit was called.*)
MainPCs == {"dequeue", "queue_wait", "run", "status", "status_wait",
            "returned", "exited"}

Slots == 1 .. NumSlots
Indices == 0 .. Cardinality(Natps) - 1
NoSlot == 0
NoResult == 0
NoStatus == -1
ALIVE == "NACL_APP_THREAD_ALIVE"
SUICIDE_PENDING == "NACL_APP_THREAD_SUICIDE_PENDING"
DEAD == "NACL_APP_THREAD_DEAD"
States == {ALIVE, SUICIDE_PENDING, DEAD}
Closures == Natps \X (1 .. MaxOps)
NoWork == <<NoThread, 0>>

(* NaClCreateMainThread has set running and started the first thread.      *)
Init ==
  /\ restricted \in BOOLEAN
  /\ threads = [i \in Indices |-> NoThread]
  /\ num_threads = 0
  /\ running = TRUE
  /\ exit_status = NoStatus
  /\ queue = <<>>
  /\ quit = FALSE
  /\ ldt = {1}
  /\ nacl_thread = [s \in Slots |-> IF s = 1 THEN First ELSE NoThread]
  /\ pc = [t \in Natps |-> IF t = First THEN "launched" ELSE "free"]
  /\ slot = [t \in Natps |-> IF t = First THEN 1 ELSE NoSlot]
  /\ thread_num = [t \in Natps |-> -1]
  /\ state = [t \in Natps |-> ALIVE]
  /\ result = [t \in Natps |-> NoResult]
  /\ privileged = [t \in Natps |-> t = First]
  /\ on = [t \in Natps |-> NoThread]
  /\ asked = [t \in Natps |-> 0]
  /\ mpc = "dequeue"
  /\ work = NoWork
  /\ fatal = FALSE

(* The process is there, and t is at place p.                              *)
At(t, p) == mpc # "exited" /\ pc[t] = p

Moves(t, p) == pc' = [pc EXCEPT ![t] = p]

(* The first of the numbers in S, the lowest.                              *)
Lowest(S) == CHOOSE x \in S : \A y \in S : x <= y

-----------------------------------------------------------------------------
(* Creation of a thread.                                                   *)

(* NaClFindUnusedEntryNumber takes the lowest of these.                    *)
FreeEntries == Slots \ ldt

(* NaClCreateAdditionalThread and NaClTlsAllocate, for the thread_create   *)
(* system call of t.  Without a free entry the new object is lost.         *)
AllocateThread(t) ==
  /\ At(t, "app")
  /\ \E c \in {n \in Natps : pc[n] = "free"} :
       IF FreeEntries = {}
       THEN /\ pc' = [pc EXCEPT ![t] = "leave", ![c] = "lost"]
            /\ UNCHANGED <<slotVars, on>>
       ELSE /\ slot' = [slot EXCEPT ![c] = Lowest(FreeEntries)]
            /\ ldt' = ldt \cup {slot'[c]}
            /\ on' = [on EXCEPT ![t] = c]
            /\ pc' = [pc EXCEPT ![t] = "ctor", ![c] = "made"]
            /\ UNCHANGED nacl_thread
  /\ UNCHANGED <<restricted, napVars, exitVars, queueVars, natpVars, opVars,
                 mainVars, fatal>>

(* A system call that is refused: malloc fails or an argument is not       *)
(* valid; or a multimedia call is made by a thread that is not privileged. *)
SyscallFails(t) ==
  /\ At(t, "app")
  /\ Moves(t, "leave")
  /\ UNCHANGED <<restricted, napVars, exitVars, queueVars, slotVars, natpVars,
                 opVars, mainVars, on, fatal>>

(* NaClAppThreadCtor, up to NaClThreadCtor.                                *)
AppThreadCtor(t) ==
  /\ At(t, "ctor")
  /\ LET c == on[t]
     IN  /\ state' = [state EXCEPT ![c] = ALIVE]
         /\ thread_num' = [thread_num EXCEPT ![c] = -1]
         /\ privileged' = [privileged EXCEPT ![c] = FALSE]
         /\ result' = [result EXCEPT ![c] = NoResult]
         /\ asked' = [asked EXCEPT ![c] = 0]
         /\ nacl_thread' = [nacl_thread EXCEPT ![slot[c]] = c]
  /\ Moves(t, "start")
  /\ UNCHANGED <<restricted, napVars, exitVars, queueVars, ldt, slot,
                 mainVars, on, fatal>>

(* A mutex, condition variable or effector cannot be made, or the host     *)
(* thread cannot be: the object, its LDT entry and what nacl_thread has    *)
(* of it stay.                                                             *)
CtorFails(t) ==
  /\ At(t, "ctor") \/ At(t, "start")
  /\ pc' = [pc EXCEPT ![t] = "leave", ![on[t]] = "lost"]
  /\ on' = [on EXCEPT ![t] = NoThread]
  /\ UNCHANGED <<restricted, napVars, exitVars, queueVars, slotVars, natpVars,
                 opVars, mainVars, fatal>>

(* NaClThreadCtor: the new thread runs before or after t goes on.          *)
ThreadCtor(t) ==
  /\ At(t, "start")
  /\ pc' = [pc EXCEPT ![t] = "leave", ![on[t]] = "launched"]
  /\ on' = [on EXCEPT ![t] = NoThread]
  /\ UNCHANGED <<restricted, napVars, exitVars, queueVars, slotVars, natpVars,
                 opVars, mainVars, fatal>>

(* Faulty variant: the count of the threads is taken for a free index.     *)
FirstAvailByCount(table) ==
  Cardinality({i \in Indices : table[i] # NoThread})

(* DynArrayFirstAvail(&nap->threads).                                      *)
FirstAvail(table) == Lowest({i \in Indices : table[i] = NoThread})

(* NaClThreadLauncher, with NaClAddThreadMu.                               *)
ThreadLauncher(t) ==
  /\ At(t, "launched")
  /\ thread_num' = [thread_num EXCEPT ![t] = FirstAvail(threads)]
  /\ threads' = [threads EXCEPT ![thread_num'[t]] = t]
  /\ num_threads' = num_threads + 1
  /\ Moves(t, "app")
  /\ UNCHANGED <<restricted, exitVars, queueVars, slotVars, state, privileged,
                 opVars, mainVars, on, fatal>>

(* NaClSysCommonThreadSyscallLeave.                                        *)
SyscallLeave(t) ==
  /\ At(t, "leave")
  /\ Moves(t, IF state[t] = SUICIDE_PENDING THEN "suicide" ELSE "app")
  /\ fatal' = (fatal \/ state[t] = DEAD)
  /\ UNCHANGED <<restricted, napVars, exitVars, queueVars, slotVars, natpVars,
                 opVars, mainVars, on>>

-----------------------------------------------------------------------------
(* Operations run by the main thread of the service runtime.               *)

(* NaClXCondVarSignal(&nsqp->cv): the main thread is the only one to wait. *)
QueueSignalled(p) == IF p = "queue_wait" THEN "dequeue" ELSE p

(* NaClStartAsyncOp, for a multimedia system call.                         *)
StartAsyncOp(t) ==
  /\ At(t, "app")
  /\ privileged[t] \/ ~restricted
  /\ asked[t] < MaxOps
  /\ asked' = [asked EXCEPT ![t] = @ + 1]
  /\ queue' = Append(queue, <<t, asked'[t]>>)
  /\ mpc' = QueueSignalled(mpc)
  /\ Moves(t, "op_check")
  /\ UNCHANGED <<restricted, napVars, exitVars, quit, slotVars, natpVars,
                 result, work, on, fatal>>

(* The result after NaClClosureResultWait has taken that of t.             *)
Taken(t) == [result EXCEPT ![t] = NoResult]

(* An iteration of the loop of NaClClosureResultWait, for                  *)
(* NaClWaitForAsyncOp.                                                     *)
WaitForAsyncOp(t) ==
  /\ At(t, "op_check")
  /\ IF result[t] = NoResult
     THEN Moves(t, "op_wait") /\ UNCHANGED result
     ELSE Moves(t, "leave") /\ result' = Taken(t)
  /\ UNCHANGED <<restricted, napVars, exitVars, queueVars, slotVars, natpVars,
                 asked, mainVars, on, fatal>>

(* Faulty variant: NaClClosureResultDone without a signal.                 *)
ResultNotSignalled(t) == pc

(* NaClXCondVarSignal(&self->cv), for the result of t.                     *)
ResultSignalled(t) ==
  [pc EXCEPT ![t] = IF @ = "op_wait" THEN "op_check" ELSE @]

(* Faulty variant: the item that is taken stays in the queue.              *)
Kept(q) == q

(* What is left of the queue when its head is taken.                       *)
Rest(q) == Tail(q)

(* An iteration of the loop of NaClSyncQueueDequeue, by the main thread.   *)
SyncQueueDequeue ==
  /\ mpc = "dequeue"
  /\ \/ quit /\ mpc' = "status" /\ UNCHANGED <<queue, work>>
     \/ ~quit /\ queue = <<>> /\ mpc' = "queue_wait" /\ UNCHANGED <<queue, work>>
     \/ /\ ~quit /\ queue # <<>>
        /\ mpc' = "run"
        /\ work' = Head(queue)
        /\ queue' = Rest(queue)
  /\ UNCHANGED <<restricted, napVars, exitVars, quit, slotVars, natpVars,
                 opVars, pc, on, fatal>>

(* The closure's Run, which ends in NaClClosureResultDone.                 *)
RunClosure ==
  /\ mpc = "run"
  /\ LET t == work[1]
     IN  /\ fatal' = (fatal \/ result[t] # NoResult)
         /\ result' = [result EXCEPT ![t] = work[2]]
         /\ pc' = ResultSignalled(t)
  /\ mpc' = "dequeue"
  /\ work' = NoWork
  /\ UNCHANGED <<restricted, napVars, exitVars, queueVars, slotVars, natpVars,
                 asked, on>>

-----------------------------------------------------------------------------
(* Exit of the module, and of a thread.                                    *)

(* Faulty variant: NaClSyncQueueQuit does not signal.                      *)
QuitUnsignalled(p) == p

(* The effect of NaClSyncQueueQuit on the main thread.                     *)
QuitSignalled(p) == QueueSignalled(p)

(* NaClCommonSysExit, up to nap->mu.                                       *)
SysExit(t) ==
  /\ At(t, "app")
  /\ quit' = TRUE
  /\ mpc' = QuitSignalled(mpc)
  /\ Moves(t, "exit")
  /\ UNCHANGED <<restricted, napVars, exitVars, queue, slotVars, natpVars,
                 opVars, work, on, fatal>>

(* Faulty variant: exit_status is written without nap->mu.                 *)
NapUnlocked == TRUE

(* nap->mu can be had: the main thread does not have it.                   *)
NapFree == mpc # "returned"

(* The section of NaClCommonSysExit under nap->mu.                         *)
SetExitStatus(t) ==
  /\ At(t, "exit")
  /\ NapFree
  /\ exit_status' \in Statuses
  /\ running' = FALSE
  /\ mpc' = IF mpc = "status_wait" THEN "status" ELSE mpc
  /\ Moves(t, "suicide")
  /\ UNCHANGED <<restricted, napVars, queueVars, slotVars, natpVars, opVars,
                 work, on, fatal>>

(* The rest of NaClWaitForMainThreadToExit, an iteration of its loop.      *)
WaitWhileRunning ==
  /\ mpc = "status"
  /\ mpc' = IF running THEN "status_wait" ELSE "returned"
  /\ UNCHANGED <<restricted, napVars, exitVars, queueVars, slotVars, natpVars,
                 opVars, work, pc, on, fatal>>

(* _exit(ret_code): every thread ends.                                     *)
ProcessExit ==
  /\ mpc = "returned"
  /\ mpc' = "exited"
  /\ UNCHANGED <<restricted, napVars, exitVars, queueVars, slotVars, natpVars,
                 opVars, work, pc, on, fatal>>

(* NaClCommonSysThreadExit.                                                *)
SysThreadExit(t) ==
  /\ At(t, "app")
  /\ Moves(t, "suicide")
  /\ UNCHANGED <<restricted, napVars, exitVars, queueVars, slotVars, natpVars,
                 opVars, mainVars, on, fatal>>

(* Faulty variant: the entry of the dying thread is left.                  *)
LeftInTables(t) == nacl_thread

(* The tables without the dying thread.                                    *)
ClearedTables(t) == [nacl_thread EXCEPT ![slot[t]] = NoThread]

(* The section of NaClSysCommonThreadSuicide under threads_mu and          *)
(* natp->mu, with NaClRemoveThreadMu.                                      *)
ThreadSuicide(t) ==
  /\ At(t, "suicide")
  /\ state' = [state EXCEPT ![t] = DEAD]
  /\ nacl_thread' = ClearedTables(t)
  /\ fatal' = (fatal \/ threads[thread_num[t]] = NoThread \/ num_threads = 0)
  /\ num_threads' = num_threads - 1
  /\ threads' = [threads EXCEPT ![thread_num[t]] = NoThread]
  /\ Moves(t, "decref")
  /\ UNCHANGED <<restricted, exitVars, queueVars, ldt, slot, thread_num,
                 privileged, opVars, mainVars, on>>

(* NaClTlsFree.                                                            *)
TlsFreed(t) == ldt \ {slot[t]}

(* NaClAppThreadDecRef, NaClAppThreadDtor and NaClThreadExit.  What the    *)
(* freed memory holds is not looked at: it gets its initial value.         *)
AppThreadDecRef(t) ==
  /\ At(t, "decref")
  /\ ldt' = TlsFreed(t)
  /\ slot' = [slot EXCEPT ![t] = NoSlot]
  /\ thread_num' = [thread_num EXCEPT ![t] = -1]
  /\ state' = [state EXCEPT ![t] = ALIVE]
  /\ privileged' = [privileged EXCEPT ![t] = FALSE]
  /\ asked' = [asked EXCEPT ![t] = 0]
  /\ Moves(t, "free")
  /\ UNCHANGED <<restricted, napVars, exitVars, queueVars, nacl_thread,
                 result, mainVars, on, fatal>>

-----------------------------------------------------------------------------
(* A wait on a condition variable that ends without a signal.              *)
SpuriousWakeup ==
  /\ \/ mpc = "queue_wait" /\ mpc' = "dequeue" /\ UNCHANGED pc
     \/ mpc = "status_wait" /\ mpc' = "status" /\ UNCHANGED pc
     \/ \E t \in Natps : At(t, "op_wait") /\ Moves(t, "op_check") /\ UNCHANGED mpc
  /\ UNCHANGED <<restricted, napVars, exitVars, queueVars, slotVars, natpVars,
                 opVars, work, on, fatal>>

(* The steps of the service runtime for t.                                 *)
RuntimeStep(t) ==
  \/ AppThreadCtor(t)
  \/ CtorFails(t)
  \/ ThreadCtor(t)
  \/ ThreadLauncher(t)
  \/ SyscallLeave(t)
  \/ WaitForAsyncOp(t)
  \/ SetExitStatus(t)
  \/ ThreadSuicide(t)
  \/ AppThreadDecRef(t)

(* The system calls of the module.                                         *)
SystemCall(t) ==
  \/ AllocateThread(t)
  \/ SyscallFails(t)
  \/ StartAsyncOp(t)
  \/ SysExit(t)
  \/ SysThreadExit(t)

MainStep ==
  \/ SyncQueueDequeue
  \/ RunClosure
  \/ WaitWhileRunning
  \/ ProcessExit

Next ==
  \/ \E t \in Natps : RuntimeStep(t) \/ SystemCall(t)
  \/ MainStep
  \/ SpuriousWakeup

(* The host schedules every thread; no system call has to be made.         *)
Fairness == WF_vars(MainStep) /\ \A t \in Natps : WF_vars(RuntimeStep(t))

Spec == Init /\ [][Next]_vars /\ Fairness

-----------------------------------------------------------------------------
(* Every variable has the type of the code's: indices and LDT entries in   *)
(* range, and a thread number of -1 until NaClThreadLauncher sets it.      *)
TypeOK ==
  /\ restricted \in BOOLEAN
  /\ threads \in [Indices -> Natps \cup {NoThread}]
  /\ num_threads \in 0 .. Cardinality(Natps)
  /\ running \in BOOLEAN
  /\ exit_status \in Statuses \cup {NoStatus}
  /\ queue \in Seq(Closures)
  /\ quit \in BOOLEAN
  /\ ldt \subseteq Slots
  /\ nacl_thread \in [Slots -> Natps \cup {NoThread}]
  /\ pc \in [Natps -> PCs]
  /\ slot \in [Natps -> Slots \cup {NoSlot}]
  /\ thread_num \in [Natps -> Indices \cup {-1}]
  /\ state \in [Natps -> States]
  /\ result \in [Natps -> 0 .. MaxOps]
  /\ privileged \in [Natps -> BOOLEAN]
  /\ on \in [Natps -> Natps \cup {NoThread}]
  /\ asked \in [Natps -> 0 .. MaxOps]
  /\ mpc \in MainPCs
  /\ work \in Closures \cup {NoWork}
  /\ fatal \in BOOLEAN

(* nap->threads holds exactly the threads that are between their launch    *)
(* and their suicide, each at its thread_num, and num_threads counts them, *)
(* however creations and exits interleave (NaClAddThreadMu,                *)
(* NaClRemoveThreadMu).  The LDT entries in use are those of existing      *)
(* objects, one each: a thread that ends gives its entry back, once        *)
(* (NaClAppThreadDtor).                                                    *)
ThreadsAndSlotsCounted ==
  /\ \A t \in Natps : pc[t] \in Registered => threads[thread_num[t]] = t
  /\ \A i \in Indices :
       threads[i] # NoThread =>
         pc[threads[i]] \in Registered /\ thread_num[threads[i]] = i
  /\ num_threads = Cardinality({t \in Natps : pc[t] \in Registered})
  /\ ldt = {slot[t] : t \in Natps} \ {NoSlot}
  /\ \A t, u \in Natps : slot[t] = slot[u] /\ t # u => slot[t] = NoSlot
  /\ \A t \in Natps : pc[t] = "free" => slot[t] = NoSlot

(* The lookup a system call starts with, nacl_thread[gs >> 3], finds the   *)
(* thread that makes the call, and no entry of the table outlives its      *)
(* object: a thread that is created while another dies may be given the    *)
(* same LDT entry and the same memory.                                     *)
LookupFindsOwner ==
  /\ \A t \in Natps :
       pc[t] \in Registered \cup {"launched"} => nacl_thread[slot[t]] = t
  /\ \A s \in Slots :
       nacl_thread[s] # NoThread =>
         pc[nacl_thread[s]] # "free" /\ slot[nacl_thread[s]] = s

(* No LOG_FATAL is reached: no thread is removed from the table twice, no  *)
(* dead thread leaves a system call, and NaClClosureResultDone never finds *)
(* a result that was not taken.                                            *)
NoFatal == ~fatal

(* How often the operation t asked for last is queued.                     *)
Queued(t) == Cardinality({i \in 1 .. Len(queue) : queue[i][1] = t})

(* The operation a thread waits for is in one place: the queue, the hands  *)
(* of the main thread, or the thread's result, which is that operation's   *)
(* own.  A thread that does not wait has no operation anywhere.  So        *)
(* NaClClosureResultDone never finds a result that was not taken, and the  *)
(* other fatal checks are not reached either.                              *)
OneOperationEach ==
  /\ NoFatal
  /\ \A t \in Natps :
       /\ Queued(t) + (IF work[1] = t THEN 1 ELSE 0)
                    + (IF result[t] # NoResult THEN 1 ELSE 0)
            = (IF pc[t] \in Waiting THEN 1 ELSE 0)
       /\ result[t] # NoResult => result[t] = asked[t]

(* The status that the main thread has read is the status of the process:  *)
(* an exit that comes after it changes nothing (NaClCommonSysExit against  *)
(* NaClWaitForMainThreadToExit, which keeps nap->mu), and it was read      *)
(* after some exit wrote one.                                              *)
StatusStands ==
  [][/\ mpc' = "returned" => exit_status' # NoStatus
     /\ mpc \in {"returned", "exited"} => exit_status' = exit_status]_vars

(* Once a thread has called exit the process ends, whatever the main       *)
(* thread is doing and whatever the other threads do.                      *)
ExitEnds == (\E t \in Natps : pc[t] = "exit") ~> mpc = "exited"

(* An operation that a thread waits for is answered and the thread goes    *)
(* on, unless the module exits: no signal is lost.                         *)
OperationAnswered ==
  \A t \in Natps : pc[t] \in Waiting ~> (pc[t] \notin Waiting \/ quit)
=============================================================================
