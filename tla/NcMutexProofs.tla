---------------------------- MODULE NcMutexProofs ----------------------------
(***************************************************************************)
(* Proofs about NcMutex for any number of threads: mutual exclusion and    *)
(* the soundness of the unsynchronised owner check for disciplined         *)
(* programs, and that no wake-up of a mutex waiter is lost for all.        *)
(***************************************************************************)
EXTENDS NcMutex, TLAPS

Waiting == {"cond_wait", "relock", "relock_late", "relock_wait"}
Asking == {"lock", "trylock", "lock_wait"}

(* The types a step can rely on, whatever the program does.                *)
TypeInv ==
  /\ mutex_type \in AllKinds
  /\ calls \subseteq AllCalls
  /\ pc \in [Threads -> PCs]
  /\ owner \in Threads \cup {NoOne}
  /\ recursion \in Int
  /\ held \in BOOLEAN
  /\ timed \in [Threads -> BOOLEAN]
  /\ depth \in [Threads -> Nat]
  /\ holder \in Threads \cup {NoOne}

(* The counter never exceeds the locks of the thread whose id is stored.   *)
CountInv ==
  /\ \A t \in Threads : depth[t] <= MaxDepth
  /\ owner = NoOne => recursion <= 0
  /\ owner # NoOne => recursion <= depth[owner]

(* Who may believe to have the mutex has it, at each place of the code.    *)
HolderInv ==
  /\ held <=> holder # NoOne
  /\ \A t \in Threads :
       /\ pc[t] \in {"got", "cleared"} => holder = t
       /\ pc[t] \notin Waiting /\ depth[t] > 0 => holder = t
       /\ pc[t] = "idle" /\ owner = t => holder = t
       /\ pc[t] \in Asking \cup {"got", "cleared"} => owner # t

(* What each kind of mutex makes of the ghost depth.                       *)
DepthInv ==
  /\ \A t \in Threads : ~timed[t] /\ pc[t] # "relock_late"
  /\ mutex_type # "recursive" => \A t \in Threads : depth[t] <= 1
  /\ \A t \in Threads : pc[t] = "cleared" => depth[t] = 0
  /\ \A t \in Threads : owner = t => depth[t] > 0
  /\ mutex_type = "recursive" =>
       \A t \in Threads :
         /\ pc[t] \notin Waiting
         /\ depth[t] > 0 => owner = t /\ recursion = depth[t]
         /\ pc[t] \in Asking \cup {"got"} => depth[t] = 0

(* The inductive invariant: what holds of disciplined programs.            *)
IInv == TypeInv /\ (Disciplined => HolderInv /\ DepthInv)

(* The pc of u after a signal on mp->cv, for the pc p before it.           *)
SignalledOrNot(p, u) ==
  \/ pc'[u] = p[u]
  \/ p[u] = "lock_wait" /\ pc'[u] = "lock"
  \/ p[u] = "relock_wait" /\ pc'[u] = "relock"

(* A signal on mp->cv changes the pc of at most one thread, from a wait    *)
(* for the mutex to the request for it.                                    *)
LEMMA SignalEffect ==
  ASSUME NEW p \in [Threads -> PCs], NEW q \in SignalMutexWaiter(p)
  PROVE  /\ q \in [Threads -> PCs]
         /\ \A t \in Threads :
              \/ q[t] = p[t]
              \/ p[t] = "lock_wait" /\ q[t] = "lock"
              \/ p[t] = "relock_wait" /\ q[t] = "relock"
         /\ (\E t \in Threads : p[t] \in {"lock_wait", "relock_wait"})
              => \E t \in Threads : q[t] \in {"lock", "relock"}
<1>1. CASE {t \in Threads : p[t] \in {"lock_wait", "relock_wait"}} = {}
  BY <1>1 DEF SignalMutexWaiter
<1>2. CASE {t \in Threads : p[t] \in {"lock_wait", "relock_wait"}} # {}
  <2>1. PICK u \in Threads :
          /\ p[u] \in {"lock_wait", "relock_wait"}
          /\ q = [p EXCEPT ![u] = IF p[u] = "lock_wait" THEN "lock"
                                  ELSE "relock"]
    BY <1>2 DEF SignalMutexWaiter
  <2> QED BY <2>1 DEF PCs
<1> QED BY <1>1, <1>2

(* So whoever still waits for the mutex after it waits behind a woken one. *)
LEMMA SignalWakes ==
  ASSUME NEW p \in [Threads -> PCs], pc' \in SignalMutexWaiter(p)
  PROVE  WaiterIsWoken'
<1>1. /\ \A t \in Threads :
           \/ pc'[t] = p[t]
           \/ p[t] = "lock_wait" /\ pc'[t] = "lock"
           \/ p[t] = "relock_wait" /\ pc'[t] = "relock"
      /\ (\E t \in Threads : p[t] \in {"lock_wait", "relock_wait"})
           => \E t \in Threads : pc'[t] \in {"lock", "relock"}
  BY SignalEffect
<1> QED BY <1>1 DEF WaiterIsWoken

(* Every step keeps the types.                                             *)
LEMMA TypeStep == TypeInv /\ [Next]_vars => TypeInv'
<1> SUFFICES ASSUME TypeInv, [Next]_vars PROVE TypeInv'
  OBVIOUS
<1> USE MutexAssumption DEF TypeInv
<1>1. CASE UNCHANGED vars
  BY <1>1 DEF vars
<1>2. ASSUME NEW t \in Threads, MutexLock(t) PROVE TypeInv'
  BY <1>2 DEF MutexLock, PCs
<1>3. ASSUME NEW t \in Threads, MutexTryLock(t) PROVE TypeInv'
  BY <1>3 DEF MutexTryLock, PCs
<1>4. ASSUME NEW t \in Threads, MutexUnlock(t) PROVE TypeInv'
  <2>1. [pc EXCEPT ![t] = "idle"] \in [Threads -> PCs]
    BY DEF PCs
  <2>2. pc' \in [Threads -> PCs]
    BY <1>4, <2>1, SignalEffect DEF MutexUnlock
  <2> QED BY <1>4, <2>2 DEF MutexUnlock
<1>5. ASSUME NEW t \in Threads, NEW b \in BOOLEAN, CondWait(t, b)
      PROVE TypeInv'
  <2>1. [pc EXCEPT ![t] = "cond_wait"] \in [Threads -> PCs]
    BY DEF PCs
  <2>2. CASE held
    <3>1. pc' \in SignalMutexWaiter([pc EXCEPT ![t] = "cond_wait"])
      BY <1>5, <2>2 DEF CondWait
    <3>2. pc' \in [Threads -> PCs]
      BY <2>1, <3>1, SignalEffect
    <3> QED BY <1>5, <2>2, <3>2 DEF CondWait
  <2>3. CASE ~held
    BY <1>5, <2>3 DEF CondWait
  <2> QED BY <2>2, <2>3
<1>6. ASSUME NEW t \in Threads, CondWake(t) PROVE TypeInv'
  BY <1>6 DEF CondWake, PCs
<1>7. ASSUME NEW t \in Threads, Timeout(t) PROVE TypeInv'
  BY <1>7 DEF Timeout, PCs
<1>8. ASSUME NEW t \in Threads, Relock(t) PROVE TypeInv'
  BY <1>8 DEF Relock, PCs
<1>9. ASSUME NEW t \in Threads, NEW b \in BOOLEAN, LockCall(t, b)
      PROVE TypeInv'
  BY <1>9 DEF LockCall, PCs
<1>10. ASSUME NEW t \in Threads, LockDone(t) PROVE TypeInv'
  BY <1>10 DEF LockDone, PCs
<1>11. ASSUME NEW t \in Threads, UnlockCall(t) PROVE TypeInv'
  BY <1>11 DEF UnlockCall, PCs
<1> QED
  BY <1>1, <1>2, <1>3, <1>4, <1>5, <1>6, <1>7, <1>8, <1>9, <1>10, <1>11
     DEF Next, Step

(* The types hold initially.                                               *)
LEMMA TypeInit == Init => TypeInv
<1> SUFFICES ASSUME Init PROVE TypeInv
  OBVIOUS
<1>1. mutex_type \in AllKinds /\ calls \subseteq AllCalls
  BY MutexAssumption DEF Init
<1>6. pc \in [Threads -> PCs]
  BY DEF Init, PCs
<1>2. timed \in [Threads -> BOOLEAN]
  BY Zenon DEF Init
<1>3. depth \in [Threads -> Nat]
  BY DEF Init
<1>4. /\ owner \in Threads \cup {NoOne}
      /\ holder \in Threads \cup {NoOne}
      /\ recursion \in Int
  BY DEF Init
<1>5. held \in BOOLEAN
  BY Zenon DEF Init
<1> QED BY <1>1, <1>2, <1>3, <1>4, <1>5, <1>6 DEF TypeInv

(* The types hold always.                                                  *)
LEMMA TypeInvariant == Spec => []TypeInv
BY TypeInit, TypeStep, PTL DEF Spec

(* pthread_mutex_t and the trusted lock keep their types, and the counter  *)
(* its bound, whatever the program does.                                   *)
THEOREM TypesHold == Spec => []TypeOK
<1>1. Init => CountInv
  BY MutexAssumption DEF Init, CountInv
<1>2. TypeInv /\ CountInv /\ [Next]_vars => CountInv'
  <2> SUFFICES ASSUME TypeInv, CountInv, [Next]_vars PROVE CountInv'
    OBVIOUS
  <2> USE MutexAssumption DEF TypeInv, CountInv
  <2>1. ASSUME UNCHANGED <<owner, recursion, depth>> PROVE CountInv'
    BY <2>1
  <2>2. ASSUME NEW t \in Threads, NEW b \in BOOLEAN, LockCall(t, b)
        PROVE  CountInv'
    BY <2>2 DEF LockCall, Owns
  <2>3. ASSUME NEW t \in Threads, LockDone(t) PROVE CountInv'
    BY <2>3 DEF LockDone
  <2>4. ASSUME NEW t \in Threads, UnlockCall(t) PROVE CountInv'
    BY <2>4 DEF UnlockCall
  <2> QED
    BY <2>1, <2>2, <2>3, <2>4
       DEF Next, Step, vars, MutexLock, MutexTryLock, MutexUnlock, Relock,
           CondWait, CondWake, Timeout
<1>3. TypeInv /\ CountInv => TypeOK
  BY MutexAssumption DEF TypeInv, CountInv, TypeOK
<1> QED BY <1>1, <1>2, <1>3, TypeInvariant, PTL DEF Spec

(* No wake-up is lost, for every program, timed waits and misuse included: *)
(* what frees the mutex also wakes a waiter, and a woken thread that goes  *)
(* back to waiting found the mutex taken.                                  *)
THEOREM NoLostWakeup == Spec => []WaiterIsWoken
<1>1. Init => WaiterIsWoken
  BY DEF Init, WaiterIsWoken
<1>2. TypeInv /\ WaiterIsWoken /\ [Next]_vars => WaiterIsWoken'
  <2> SUFFICES ASSUME TypeInv, WaiterIsWoken, [Next]_vars
               PROVE  WaiterIsWoken'
    OBVIOUS
  <2> USE DEF TypeInv, WaiterIsWoken
  <2>1. CASE UNCHANGED vars
    BY <2>1 DEF vars
  <2>2. ASSUME NEW t \in Threads, MutexLock(t) PROVE WaiterIsWoken'
    BY <2>2 DEF MutexLock
  <2>3. ASSUME NEW t \in Threads, MutexTryLock(t) PROVE WaiterIsWoken'
    BY <2>3 DEF MutexTryLock
  <2>4. ASSUME NEW t \in Threads, MutexUnlock(t) PROVE WaiterIsWoken'
    <3>1. [pc EXCEPT ![t] = "idle"] \in [Threads -> PCs]
      BY DEF PCs
    <3>2. pc' \in SignalMutexWaiter([pc EXCEPT ![t] = "idle"])
      BY <2>4 DEF MutexUnlock
    <3> QED BY <3>1, <3>2, SignalWakes
  <2>5. ASSUME NEW t \in Threads, NEW b \in BOOLEAN, CondWait(t, b)
        PROVE WaiterIsWoken'
    <3>1. [pc EXCEPT ![t] = "cond_wait"] \in [Threads -> PCs]
      BY DEF PCs
    <3>2. CASE held
      <4>1. pc' \in SignalMutexWaiter([pc EXCEPT ![t] = "cond_wait"])
        BY <2>5, <3>2 DEF CondWait
      <4> QED BY <3>1, <4>1, SignalWakes
    <3>3. CASE ~held
      BY <2>5, <3>3 DEF CondWait
    <3> QED BY <3>2, <3>3
  <2>6. ASSUME NEW t \in Threads, CondWake(t) PROVE WaiterIsWoken'
    BY <2>6 DEF CondWake
  <2>7. ASSUME NEW t \in Threads, Timeout(t) PROVE WaiterIsWoken'
    BY <2>7 DEF Timeout
  <2>8. ASSUME NEW t \in Threads, Relock(t) PROVE WaiterIsWoken'
    BY <2>8 DEF Relock
  <2>9. ASSUME NEW t \in Threads, NEW b \in BOOLEAN, LockCall(t, b)
        PROVE WaiterIsWoken'
    BY <2>9 DEF LockCall
  <2>10. ASSUME NEW t \in Threads, LockDone(t) PROVE WaiterIsWoken'
    BY <2>10 DEF LockDone
  <2>11. ASSUME NEW t \in Threads, UnlockCall(t) PROVE WaiterIsWoken'
    BY <2>11 DEF UnlockCall
  <2> QED
    BY <2>1, <2>2, <2>3, <2>4, <2>5, <2>6, <2>7, <2>8, <2>9, <2>10, <2>11
       DEF Next, Step
<1> QED BY <1>1, <1>2, TypeInvariant, PTL DEF Spec

(* The inductive step for a disciplined program.                           *)
LEMMA IInvStep == IInv /\ [Next]_vars => IInv'
<1> SUFFICES ASSUME IInv, [Next]_vars PROVE IInv'
  OBVIOUS
<1>0. TypeInv'
  BY TypeStep DEF IInv
<1>a. Disciplined' <=> Disciplined
  BY DEF Disciplined, Next, Step, vars, MutexLock, MutexTryLock, MutexUnlock,
         CondWait, CondWake, Timeout, Relock, LockCall, LockDone, UnlockCall
<1> SUFFICES ASSUME Disciplined PROVE HolderInv' /\ DepthInv'
  BY <1>0, <1>a DEF IInv
<1> USE MutexAssumption DEF IInv, TypeInv, HolderInv, DepthInv, Waiting, Asking
<1>1. CASE UNCHANGED vars
  BY <1>1 DEF vars
<1>2. ASSUME NEW t \in Threads, MutexLock(t) PROVE HolderInv' /\ DepthInv'
  BY <1>2 DEF MutexLock
<1>3. ASSUME NEW t \in Threads, MutexTryLock(t)
      PROVE HolderInv' /\ DepthInv'
  BY <1>3 DEF MutexTryLock
<1>4. ASSUME NEW t \in Threads, MutexUnlock(t)
      PROVE HolderInv' /\ DepthInv'
  <2> DEFINE p == [pc EXCEPT ![t] = "idle"]
  <2>1. p \in [Threads -> PCs] /\ pc' \in SignalMutexWaiter(p)
    BY <1>4 DEF PCs, MutexUnlock
  <2>2. \A u \in Threads : SignalledOrNot(p, u)
    <3> HIDE DEF p
    <3> QED BY ONLY <2>1, SignalEffect DEF SignalledOrNot
  <2> QED BY <1>4, <2>2 DEF MutexUnlock, SignalledOrNot
<1>5. ASSUME NEW t \in Threads, NEW b \in BOOLEAN, CondWait(t, b)
      PROVE HolderInv' /\ DepthInv'
  <2>1. CASE held
    <3> DEFINE p == [pc EXCEPT ![t] = "cond_wait"]
    <3>1. p \in [Threads -> PCs] /\ pc' \in SignalMutexWaiter(p)
      BY <1>5, <2>1 DEF PCs, CondWait
    <3>2. \A u \in Threads : SignalledOrNot(p, u)
      <4> HIDE DEF p
      <4> QED BY ONLY <3>1, SignalEffect DEF SignalledOrNot
    <3>3. /\ pc'[t] = "cond_wait"
          /\ \A u \in Threads \ {t} :
               \/ pc'[u] = pc[u]
               \/ pc[u] = "lock_wait" /\ pc'[u] = "lock"
               \/ pc[u] = "relock_wait" /\ pc'[u] = "relock"
      BY <3>2 DEF SignalledOrNot
    <3>4. ~b
      BY <1>5 DEF CondWait, Disciplined
    <3>5. mutex_type # "recursive"
      BY <1>5, <3>4 DEF CondWait, Disciplined
    <3>6. /\ depth[t] > 0 /\ pc[t] = "idle" /\ ~held' /\ holder' = NoOne
          /\ UNCHANGED <<mutex_type, owner, recursion, depth>>
      BY <1>5, <2>1 DEF CondWait
    <3>7. timed' = [timed EXCEPT ![t] = b]
      BY <1>5, <2>1 DEF CondWait
    <3>8. \A u \in Threads : ~timed'[u]
      BY <3>4, <3>7
    <3>9. HolderInv'
      BY <3>3, <3>6, <2>1
    <3>10. DepthInv'
      BY <3>3, <3>5, <3>6, <3>8, <2>1
    <3> QED BY <3>9, <3>10
  <2>2. CASE ~held
    BY <1>5, <2>2 DEF CondWait
  <2> QED BY <2>1, <2>2
<1>6. ASSUME NEW t \in Threads, CondWake(t) PROVE HolderInv' /\ DepthInv'
  BY <1>6 DEF CondWake
<1>7. ASSUME NEW t \in Threads, Timeout(t) PROVE HolderInv' /\ DepthInv'
  BY <1>7 DEF Timeout
<1>8. ASSUME NEW t \in Threads, Relock(t) PROVE HolderInv' /\ DepthInv'
  BY <1>8 DEF Relock
<1>9. ASSUME NEW t \in Threads, NEW b \in BOOLEAN, LockCall(t, b)
      PROVE HolderInv' /\ DepthInv'
  <2>1. CASE Owns(t)
    <3>1. holder = t /\ owner = t /\ UNCHANGED <<mutex_type, pc, owner, held, timed, holder>>
      BY <1>9, <2>1 DEF LockCall, Owns
    <3>2. CASE mutex_type = "recursive"
      <4>1. /\ recursion' = recursion + 1
            /\ depth' = [depth EXCEPT ![t] = depth[t] + 1]
        BY <1>9, <2>1, <3>2 DEF LockCall
      <4>2. depth[t] > 0 => recursion = depth[t]
        BY <3>2
      <4> QED BY <1>9, <3>1, <3>2, <4>1, <4>2 DEF LockCall
    <3>3. CASE mutex_type # "recursive"
      BY <1>9, <2>1, <3>1, <3>3 DEF LockCall
    <3> QED BY <3>2, <3>3
  <2>2. CASE ~Owns(t)
    BY <1>9, <2>2 DEF LockCall, Owns
  <2> QED BY <2>1, <2>2
<1>10. ASSUME NEW t \in Threads, LockDone(t) PROVE HolderInv' /\ DepthInv'
  BY <1>10 DEF LockDone
<1>11. ASSUME NEW t \in Threads, UnlockCall(t)
       PROVE HolderInv' /\ DepthInv'
  BY <1>11 DEF UnlockCall, MayRelease, Disciplined
<1> QED
  BY <1>1, <1>2, <1>3, <1>4, <1>5, <1>6, <1>7, <1>8, <1>9, <1>10, <1>11
     DEF Next, Step

(* The inductive invariant holds.                                          *)
LEMMA Invariant == Spec => []IInv
<1>1. Init => IInv
  <2> SUFFICES ASSUME Init PROVE IInv
    OBVIOUS
  <2>1. TypeInv
    BY TypeInit
  <2>2. HolderInv
    BY MutexAssumption DEF Init, HolderInv
  <2>3. DepthInv
    BY MutexAssumption DEF Init, DepthInv, Waiting, Asking
  <2> QED BY <2>1, <2>2, <2>3 DEF IInv
<1> QED BY <1>1, IInvStep, PTL DEF Spec

(* In a disciplined program, of any kind of mutex and any number of        *)
(* threads, at most one thread is between lock and unlock.                 *)
THEOREM MutexExcludes == Spec => []MutualExclusion
<1>1. IInv => MutualExclusion
  BY DEF IInv, HolderInv, TypeInv, MutualExclusion, InCritical, Waiting
<1> QED BY <1>1, Invariant, PTL

(* In a disciplined program the owner check without synchronisation is     *)
(* sound: a thread that reads its own id in owner_thread_id has the mutex. *)
THEOREM OwnerCheckSound == Spec => []OwnIdMeansHeld
<1>1. IInv => OwnIdMeansHeld
  BY MutexAssumption DEF IInv, HolderInv, TypeInv, OwnIdMeansHeld
<1> QED BY <1>1, Invariant, PTL

(* In a disciplined program the recursion counter, which is written and    *)
(* read outside the trusted lock, counts the locks of the mutex's holder.  *)
THEOREM RecursionCounts == Spec => []RecursionMatches
<1>1. IInv => RecursionMatches
  BY DEF IInv, DepthInv, RecursionMatches, InCritical
<1> QED BY <1>1, Invariant, PTL
=============================================================================
