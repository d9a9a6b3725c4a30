------------------------------- MODULE NcMutex -------------------------------
(***************************************************************************)
(* One pthread mutex and one condition variable of the untrusted pthread   *)
(* library (nc_mutex.c, nc_condvar.c under                                 *)
(* src/native_client/src/untrusted/pthread), on top of the trusted         *)
(* interruptible mutex and condition variable that its system calls reach  *)
(* (nacl_interruptible_mutex.c, nacl_interruptible_condvar.c under         *)
(* src/native_client/src/shared/platform).                                 *)
(*                                                                         *)
(* The untrusted side writes owner_thread_id and recursion_counter without *)
(* a lock of their own, before and after the system calls; the trusted     *)
(* side's sections under mp->mu are one action each.  Nothing in the       *)
(* service runtime interrupts a mutex, so NACL_INTR_LOCK_INTERRUPTED is    *)
(* not modelled.                                                           *)
(***************************************************************************)
EXTENDS Integers, FiniteSets

CONSTANTS
  Threads,     \* the threads that use the mutex
  NoOne,       \* NACL_PTHREAD_ILLEGAL_THREAD_ID
  Uses,        \* the programs considered: a kind of mutex, and the calls
               \* made with it besides lock, trylock and unlock
  MaxDepth     \* bound: how often a thread locks a recursive mutex

AllKinds == {"fast", "recursive", "errorcheck"}

(* wait, timedwait: pthread_cond_wait, pthread_cond_timedwait_abs.         *)
(* misuse: unlock by a thread that does not have the mutex.                *)
AllCalls == {"wait", "timedwait", "misuse"}

ASSUME MutexAssumption ==
  /\ NoOne \notin Threads
  /\ Uses \subseteq [type : AllKinds, calls : SUBSET AllCalls]
  /\ MaxDepth \in Nat \ {0}

VARIABLES
  mutex_type, \* mutex->mutex_type, set when the mutex is initialised
  calls,      \* the other calls the program makes, from Uses
  pc,         \* where each thread is in the library or the service runtime
  owner,      \* mutex->owner_thread_id
  recursion,  \* mutex->recursion_counter
  held,       \* lock_state is NACL_INTR_LOCK_HELD rather than _FREE
  timed,      \* whether the thread's wait has a deadline
  depth,      \* ghost: the locks the thread has by what the calls returned
  holder      \* ghost: the thread that last set lock_state to HELD

vars == <<mutex_type, calls, pc, owner, recursion, held, timed, depth,
          holder>>

(* idle: in the program.  lock, trylock: about to enter NaClIntrMutexLock, *)
(* _TryLock.  lock_wait, relock_wait: on mp->cv.  got: the system call     *)
(* returned, the owner is not written.  cleared: the owner is cleared, the *)
(* mutex_unlock call not made.  cond_wait: on cp->cv.  relock,             *)
(* relock_late: woken, or timed out, in NaClIntrCondVarWait.               *)
PCs == {"idle", "lock", "trylock", "lock_wait", "got", "cleared",
        "cond_wait", "relock", "relock_late", "relock_wait"}

Init ==
  /\ \E u \in Uses : mutex_type = u.type /\ calls = u.calls
  /\ pc = [t \in Threads |-> "idle"]
  /\ owner = NoOne
  /\ recursion = 0
  /\ held = FALSE
  /\ timed = [t \in Threads |-> FALSE]
  /\ depth = [t \in Threads |-> 0]
  /\ holder = NoOne

-----------------------------------------------------------------------------
(* The trusted side.                                                       *)

(* Faulty variant: the unlocker does not signal mp->cv.                    *)
SignalNoMutexWaiter(p) == {p}

(* NaClXCondVarSignal(&mp->cv): pc when one thread that waits for the      *)
(* mutex is woken, if there is one.                                        *)
SignalMutexWaiter(p) ==
  LET waiting == {t \in DOMAIN p : p[t] \in {"lock_wait", "relock_wait"}}
      Woken(t) == IF p[t] = "lock_wait" THEN "lock" ELSE "relock"
  IN  IF waiting = {} THEN {p}
      ELSE {[p EXCEPT ![t] = Woken(t)] : t \in waiting}

(* NaClIntrMutexLock.                                                      *)
MutexLock(t) ==
  /\ pc[t] = "lock"
  /\ IF held
     THEN /\ pc' = [pc EXCEPT ![t] = "lock_wait"]
          /\ UNCHANGED <<held, holder>>
     ELSE /\ pc' = [pc EXCEPT ![t] = "got"]
          /\ held' = TRUE
          /\ holder' = t
  /\ UNCHANGED <<mutex_type, calls, owner, recursion, timed, depth>>

(* NaClIntrMutexTryLock.                                                   *)
MutexTryLock(t) ==
  /\ pc[t] = "trylock"
  /\ IF held
     THEN /\ pc' = [pc EXCEPT ![t] = "idle"]
          /\ UNCHANGED <<held, holder>>
     ELSE /\ pc' = [pc EXCEPT ![t] = "got"]
          /\ held' = TRUE
          /\ holder' = t
  /\ UNCHANGED <<mutex_type, calls, owner, recursion, timed, depth>>

(* NaClIntrMutexUnlock: the lock is freed whoever calls.                   *)
MutexUnlock(t) ==
  /\ pc[t] = "cleared"
  /\ pc' \in SignalMutexWaiter([pc EXCEPT ![t] = "idle"])
  /\ held' = FALSE
  /\ holder' = NoOne
  /\ UNCHANGED <<mutex_type, calls, owner, recursion, timed, depth>>

(* NaClIntrCondVarWait up to the wait on cp->cv.                           *)
CondWait(t, limited) ==
  /\ pc[t] = "idle"
  /\ depth[t] > 0
  /\ (IF limited THEN "timedwait" ELSE "wait") \in calls
  /\ IF held
     THEN /\ pc' \in SignalMutexWaiter([pc EXCEPT ![t] = "cond_wait"])
          /\ held' = FALSE
          /\ holder' = NoOne
          /\ timed' = [timed EXCEPT ![t] = limited]
     ELSE UNCHANGED <<pc, held, holder, timed>>   \* NACL_SYNC_MUTEX_PERMISSION
  /\ UNCHANGED <<mutex_type, calls, owner, recursion, depth>>

(* A wake-up on cp->cv: a signal, a broadcast, or none of them.            *)
CondWake(t) ==
  /\ pc[t] = "cond_wait"
  /\ pc' = [pc EXCEPT ![t] = "relock"]
  /\ UNCHANGED <<mutex_type, calls, owner, recursion, held, timed, depth,
                 holder>>

(* The deadline passes while the thread waits, for cp->cv or mp->cv.       *)
Timeout(t) ==
  /\ pc[t] \in {"cond_wait", "relock_wait"}
  /\ timed[t]
  /\ pc' = [pc EXCEPT ![t] = "relock_late"]
  /\ UNCHANGED <<mutex_type, calls, owner, recursion, held, timed, depth,
                 holder>>

(* Faulty variant: a woken thread returns also when the mutex is taken.    *)
RelockOnce(t) ==
  /\ pc[t] \in {"relock", "relock_late"}
  /\ pc' = [pc EXCEPT ![t] = "idle"]
  /\ held' = TRUE
  /\ holder' = IF held THEN holder ELSE t
  /\ UNCHANGED <<mutex_type, calls, owner, recursion, timed, depth>>

(* NaClIntrCondVarWait after a wait.  The mutex is taken if it is free;    *)
(* otherwise it is waited for, unless the wait has timed out: then the     *)
(* call returns without it.                                                *)
Relock(t) ==
  /\ pc[t] \in {"relock", "relock_late"}
  /\ IF held
     THEN /\ pc' = [pc EXCEPT ![t] = IF pc[t] = "relock" THEN "relock_wait"
                                     ELSE "idle"]
          /\ UNCHANGED <<held, holder>>
     ELSE /\ pc' = [pc EXCEPT ![t] = "idle"]
          /\ held' = TRUE
          /\ holder' = t
  /\ UNCHANGED <<mutex_type, calls, owner, recursion, timed, depth>>

-----------------------------------------------------------------------------
(* The untrusted side.                                                     *)

(* Faulty variant: every kind takes itself for the owner of a free mutex.  *)
OwnsUnheld(t) == mutex_type # "fast" /\ owner \in {t, NoOne}

(* The unsynchronised owner check of nc_thread_mutex_lock.                 *)
Owns(t) == mutex_type # "fast" /\ owner = t

(* nc_thread_mutex_lock up to the system call.  A program does not lock a  *)
(* fast mutex it has.                                                      *)
LockCall(t, try) ==
  /\ pc[t] = "idle"
  /\ mutex_type = "fast" => depth[t] = 0
  /\ \/ /\ Owns(t)
        /\ mutex_type = "recursive"
        /\ depth[t] < MaxDepth
        /\ recursion' = recursion + 1
        /\ depth' = [depth EXCEPT ![t] = @ + 1]
        /\ UNCHANGED pc
     \/ /\ Owns(t)
        /\ mutex_type = "errorcheck"       \* EDEADLK
        /\ UNCHANGED <<pc, recursion, depth>>
     \/ /\ ~Owns(t)
        /\ pc' = [pc EXCEPT ![t] = IF try THEN "trylock" ELSE "lock"]
        /\ UNCHANGED <<recursion, depth>>
  /\ UNCHANGED <<mutex_type, calls, owner, held, timed, holder>>

(* Faulty variant: the recursion counter is not set.                       *)
LockDoneUncounted(t) ==
  /\ pc[t] = "got"
  /\ owner' = t
  /\ depth' = [depth EXCEPT ![t] = 1]
  /\ pc' = [pc EXCEPT ![t] = "idle"]
  /\ UNCHANGED <<mutex_type, calls, recursion, held, timed, holder>>

(* nc_thread_mutex_lock after the system call succeeded.                   *)
LockDone(t) ==
  /\ pc[t] = "got"
  /\ owner' = t
  /\ recursion' = 1
  /\ depth' = [depth EXCEPT ![t] = 1]
  /\ pc' = [pc EXCEPT ![t] = "idle"]
  /\ UNCHANGED <<mutex_type, calls, held, timed, holder>>

(* Faulty variant: an error-checking mutex does not check.                 *)
MayReleaseAny(t) == TRUE

(* The check of pthread_mutex_unlock for an error-checking mutex.          *)
MayRelease(t) == mutex_type = "errorcheck" => owner = t

(* pthread_mutex_unlock up to the system call.                             *)
UnlockCall(t) ==
  LET left == IF mutex_type = "recursive" THEN recursion - 1 ELSE 0
      released == IF depth[t] = 0 THEN 0 ELSE depth[t] - 1
  IN
  /\ pc[t] = "idle"
  /\ depth[t] > 0 \/ "misuse" \in calls
  /\ \/ /\ left # 0
        /\ recursion' = left
        /\ depth' = [depth EXCEPT ![t] = released]
        /\ UNCHANGED <<pc, owner>>
     \/ /\ left = 0
        /\ MayRelease(t)
        /\ owner' = NoOne
        /\ recursion' = 0
        /\ depth' = [depth EXCEPT ![t] = released]
        /\ pc' = [pc EXCEPT ![t] = "cleared"]
     \/ /\ left = 0
        /\ ~MayRelease(t)            \* EPERM
        /\ UNCHANGED <<pc, owner, recursion, depth>>
  /\ UNCHANGED <<mutex_type, calls, held, timed, holder>>

-----------------------------------------------------------------------------
Step(t) ==
  \/ MutexLock(t) \/ MutexTryLock(t) \/ MutexUnlock(t)
  \/ Relock(t)
  \/ LockDone(t)

Next ==
  \E t \in Threads :
    \/ Step(t)
    \/ CondWake(t)
    \/ Timeout(t)
    \/ UnlockCall(t)
    \/ \E b \in BOOLEAN : LockCall(t, b) \/ CondWait(t, b)

Spec == Init /\ [][Next]_vars

(* A thread inside the library or the service runtime goes on when it can. *)
(* Nothing is assumed of the program, nor of whom a signal wakes.          *)
Fairness == \A t \in Threads : WF_vars(Step(t))

FairSpec == Spec /\ Fairness

-----------------------------------------------------------------------------
TypeOK ==
  /\ mutex_type \in AllKinds
  /\ calls \subseteq AllCalls
  /\ pc \in [Threads -> PCs]
  /\ owner \in Threads \cup {NoOne}
  /\ recursion \in Int /\ recursion <= MaxDepth
  /\ held \in BOOLEAN
  /\ timed \in [Threads -> BOOLEAN]
  /\ depth \in [Threads -> Nat]
  /\ holder \in Threads \cup {NoOne}

(* A thread that runs code it locked the mutex for.                        *)
InCritical(t) == pc[t] = "idle" /\ depth[t] > 0

(* What the safety of the mutex needs of the program: no timed waits, no   *)
(* waits with a recursive mutex, and no unlock of a mutex the thread does  *)
(* not have unless the mutex checks.                                       *)
Disciplined ==
  /\ "timedwait" \notin calls
  /\ mutex_type = "recursive" => "wait" \notin calls
  /\ "misuse" \in calls => mutex_type = "errorcheck"

(* No two threads are between a lock that returned 0, or a wait that ended,*)
(* and the unlock, in a disciplined program.                               *)
MutualExclusion ==
  Disciplined =>
    \A t, u \in Threads : InCritical(t) /\ InCritical(u) => t = u

(* What the comment in nc_thread_mutex_lock claims for the check without   *)
(* synchronisation: in a disciplined program a thread that finds its own   *)
(* id there has the mutex.                                                 *)
OwnIdMeansHeld ==
  Disciplined =>
    \A t \in Threads : pc[t] = "idle" /\ owner = t => held /\ holder = t

(* A recursive mutex counts the locks of the thread that has it, so that   *)
(* the unlock that matches its first lock, and no other, releases it.      *)
RecursionMatches ==
  Disciplined /\ mutex_type = "recursive" =>
    \A t \in Threads : InCritical(t) => owner = t /\ recursion = depth[t]

(* What NaClIntrCondVarWait's comment claims after every wait: the thread  *)
(* that waited owns the mutex again.                                       *)
WaitReturnsOwning ==
  "misuse" \notin calls => \A t \in Threads : InCritical(t) => holder = t

(* The converse of OwnIdMeansHeld, which unlock relies on: a thread that   *)
(* has a mutex finds its own id there.                                     *)
HolderFindsItself ==
  "timedwait" \notin calls => \A t \in Threads : InCritical(t) => owner = t

(* No wake-up is lost: when the mutex is free and threads wait for it, one *)
(* that was woken is on its way.                                           *)
WaiterIsWoken ==
  ~held /\ (\E t \in Threads : pc[t] \in {"lock_wait", "relock_wait"})
    => \E t \in Threads : pc[t] \in {"lock", "relock", "relock_late"}

(* A free mutex that threads wait for is taken by one of them, or by a     *)
(* thread that comes in between.                                           *)
FreeMutexIsTaken ==
  ~held /\ (\E t \in Threads : pc[t] \in {"lock_wait", "relock_wait"}) ~> held
=============================================================================
