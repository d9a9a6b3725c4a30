---------------------------- MODULE NaClAppProofs ----------------------------
(* The threads of a loaded module for any number of objects, LDT entries    *)
(* and operations.                                                          *)
EXTENDS NaClApp, FiniteSetTheorems, FunctionTheorems, SequenceTheorems,
        NaturalsInduction, WellFoundedInduction, TLAPS

-----------------------------------------------------------------------------
(* The inductive invariant.                                                 *)

(* The objects whose threads are in nap->threads.                           *)
InModule == {t \in Natps : pc[t] \in Registered}

(* nap->threads and the numbers of the threads agree; only a thread that is *)
(* about to free its object is dead.                                        *)
Table ==
  /\ \A t \in InModule : thread_num[t] \in Indices /\ threads[thread_num[t]] = t
  /\ \A i \in Indices :
       threads[i] # NoThread => threads[i] \in InModule /\ thread_num[threads[i]] = i
  /\ num_threads = Cardinality(InModule)
  /\ \A t \in Natps : pc[t] # "decref" => state[t] = ALIVE

(* Every LDT entry in use is some object's, and every object that has a     *)
(* thread has one.                                                          *)
Entries ==
  /\ \A s \in Slots : s \in ldt <=> \E t \in Natps : slot[t] = s
  /\ \A t, u \in Natps : slot[t] = slot[u] /\ slot[t] # NoSlot => t = u
  /\ \A t \in Natps : pc[t] = "free" => slot[t] = NoSlot
  /\ \A t \in Natps : pc[t] \notin {"free", "lost"} => slot[t] # NoSlot

(* What is under construction is its creator's alone.                       *)
Creations ==
  /\ \A t \in Natps : pc[t] \in {"ctor", "start"} => on[t] \in Natps /\ pc[on[t]] = "made"
  /\ \A t, u \in Natps :
       pc[t] \in {"ctor", "start"} /\ pc[u] \in {"ctor", "start"} /\ on[t] = on[u] => t = u

(* nacl_thread finds a thread from the end of its construction to its       *)
(* suicide, and never finds another in its place.                           *)
Lookup ==
  /\ \A t \in Natps : pc[t] \in Registered \cup {"launched"} => nacl_thread[slot[t]] = t
  /\ \A t \in Natps : pc[t] = "start" => nacl_thread[slot[on[t]]] = on[t]
  /\ \A t \in Natps : pc[t] = "decref" => nacl_thread[slot[t]] = NoThread
  /\ \A s \in Slots : nacl_thread[s] # NoThread =>
       pc[nacl_thread[s]] # "free" /\ slot[nacl_thread[s]] = s

(* The threads whose operation is not answered yet.                         *)
Unanswered == {t \in Natps : pc[t] \in Waiting /\ result[t] = NoResult}

(* An operation that somebody waits for is in the queue, in the hands of    *)
(* the main thread or answered, and nothing else is.                        *)
Operations ==
  /\ \A k \in 1 .. Len(queue) :
       queue[k][1] \in Unanswered /\ queue[k][2] = asked[queue[k][1]] /\ work[1] # queue[k][1]
  /\ \A j, k \in 1 .. Len(queue) : queue[j][1] = queue[k][1] => j = k
  /\ IF mpc = "run" THEN work[1] \in Unanswered /\ work[2] = asked[work[1]] ELSE work = NoWork
  /\ \A t \in Natps : pc[t] \in Waiting => asked[t] # 0
  /\ \A t \in Natps : result[t] # NoResult => pc[t] \in Waiting /\ result[t] = asked[t]
  /\ \A t \in Natps :
       t \in Unanswered => work[1] = t \/ \E k \in 1 .. Len(queue) : queue[k][1] = t

(* The main thread reads the status after an exit has written it.           *)
StatusRead ==
  /\ running \/ exit_status # NoStatus
  /\ mpc \in {"returned", "exited"} => ~running

IInv ==
  /\ TypeOK /\ Table /\ Entries /\ Creations /\ Lookup /\ Operations /\ StatusRead
  /\ NoFatal

-----------------------------------------------------------------------------
(* The lowest of a set of numbers is one of them.                           *)
LEMMA LowestOf ==
  ASSUME NEW S, S \subseteq Nat, S # {}
  PROVE  Lowest(S) \in S
<1>1. PICK x \in S : \A y \in S : ~(<<y, x>> \in OpToRel(<, Nat))
  BY WFMin, NatLessThanWellFounded
<1>2. ASSUME NEW y \in S PROVE x <= y
  <2>1. <<y, x>> \in Nat \X Nat OBVIOUS
  <2>2. ~(y < x) BY <1>1, <2>1 DEF OpToRel
  <2> QED BY <2>2
<1>3. \E z \in S : \A y \in S : z <= y BY <1>2
<1> QED BY <1>3, Zenon DEF Lowest

(* There are finitely many objects, and at least one.                       *)
LEMMA Objects ==
  /\ Cardinality(Natps) \in Nat \ {0}
  /\ \A S \in SUBSET Natps :
       /\ IsFiniteSet(S) /\ Cardinality(S) \in 0 .. Cardinality(Natps)
       /\ S # {} => Cardinality(S) # 0
<1>1. Cardinality(Natps) \in Nat BY NatpsAssumption, FS_CardinalityType
<1>2. Cardinality(Natps) # 0 BY NatpsAssumption, FS_EmptySet
<1>3. ASSUME NEW S \in SUBSET Natps
      PROVE  /\ IsFiniteSet(S) /\ Cardinality(S) \in 0 .. Cardinality(Natps)
             /\ S # {} => Cardinality(S) # 0
  <2>1. IsFiniteSet(S) /\ Cardinality(S) <= Cardinality(Natps)
    BY NatpsAssumption, FS_Subset
  <2>2. Cardinality(S) \in Nat BY <2>1, FS_CardinalityType
  <2> QED BY <1>1, <2>1, <2>2, FS_EmptySet
<1> QED BY <1>1, <1>2, <1>3

(* While some object has no thread in the table, the table has a free       *)
(* index: DynArrayFirstAvail never has to extend it.                        *)
LEMMA FreeIndex ==
  ASSUME TypeOK, Table, NEW t \in Natps, pc[t] \notin Registered
  PROVE  /\ FirstAvail(threads) \in Indices
         /\ threads[FirstAvail(threads)] = NoThread
<1> DEFINE n == Cardinality(Natps)
           Free == {i \in Indices : threads[i] = NoThread}
<1>1. n \in Nat BY Objects
<1>2. Free # {}
  <2> SUFFICES ASSUME \A i \in Indices : threads[i] # NoThread PROVE FALSE
    OBVIOUS
  <2>1. \A i \in Indices : threads[i] \in InModule /\ thread_num[threads[i]] = i
    BY DEF Table
  <2>2. threads \in [Indices -> InModule] BY <2>1 DEF TypeOK
  <2>3. IsFiniteSet(Indices) /\ Cardinality(Indices) = n
    <3>1. n - 1 \in Int /\ ~(0 > n - 1) /\ n - 1 - 0 + 1 = n
      BY Objects
    <3>2. /\ IsFiniteSet(0 .. n - 1)
          /\ Cardinality(0 .. n - 1) = IF 0 > n - 1 THEN 0 ELSE n - 1 - 0 + 1
      BY <3>1, FS_Interval
    <3> QED BY <3>1, <3>2 DEF Indices
  <2>4. InModule \in SUBSET Natps /\ InModule # Natps BY DEF InModule
  <2>5. IsFiniteSet(InModule) /\ Cardinality(InModule) <= n
        /\ Cardinality(InModule) # n
    BY <2>4, NatpsAssumption, FS_Subset
  <2>6. Cardinality(InModule) \in Nat BY <2>5, FS_CardinalityType
  <2>7. Cardinality(InModule) < Cardinality(Indices) BY <1>1, <2>3, <2>5, <2>6
  <2>8. \E i, j \in Indices : i # j /\ threads[i] = threads[j]
    BY <2>2, <2>3, <2>5, <2>7, FS_PigeonHole
  <2> QED BY <2>1, <2>8
<1>3. Free \subseteq Nat BY <1>1 DEF Indices
<1>4. Lowest(Free) \in Free BY <1>2, <1>3, LowestOf
<1> QED BY <1>4 DEF FirstAvail

(* The threads in the module are objects.                                   *)
LEMMA InModuleSize ==
  ASSUME TypeOK
  PROVE  /\ IsFiniteSet(InModule)
         /\ Cardinality(InModule) \in 0 .. Cardinality(Natps)
<1>1. InModule \in SUBSET Natps BY DEF InModule
<1> QED BY <1>1, Objects

-----------------------------------------------------------------------------
(* What the steps do.                                                       *)

(* Where a thread is that neither creates another nor ends.                 *)
Plain == Registered \ {"ctor", "start"}

(* The steps that neither create nor end a thread.                          *)
OtherStep ==
  \/ \E t \in Natps :
       \/ SyscallLeave(t) \/ WaitForAsyncOp(t) \/ SetExitStatus(t)
       \/ SyscallFails(t) \/ StartAsyncOp(t) \/ SysExit(t) \/ SysThreadExit(t)
  \/ MainStep \/ SpuriousWakeup \/ UNCHANGED vars

(* Those steps only move threads among the plain places.                    *)
LEMMA OtherMoves ==
  ASSUME TypeOK, OtherStep
  PROVE  /\ \A x \in Natps : pc'[x] = pc[x] \/ (pc[x] \in Plain /\ pc'[x] \in Plain)
         /\ UNCHANGED <<slotVars, napVars, natpVars, on>>
<1> DEFINE Moved == \A x \in Natps : pc'[x] = pc[x] \/ (pc[x] \in Plain /\ pc'[x] \in Plain)
<1>t. pc \in [Natps -> PCs] BY DEF TypeOK
<1>1. ASSUME NEW t \in Natps, NEW p \in Plain, pc[t] \in Plain, Moves(t, p) PROVE Moved
  BY <1>t, <1>1 DEF Moves
<1>2. /\ "app" \in Plain /\ "leave" \in Plain /\ "op_check" \in Plain
      /\ "op_wait" \in Plain /\ "exit" \in Plain /\ "suicide" \in Plain
  BY DEF Plain, Registered
<1> HIDE DEF Moved
<1>3. ASSUME NEW t \in Natps, SyscallLeave(t)
      PROVE  Moved /\ UNCHANGED <<slotVars, napVars, natpVars, on>>
  <2>1. PICK p : p = IF state[t] = SUICIDE_PENDING THEN "suicide" ELSE "app" OBVIOUS
  <2>2. Moves(t, p) /\ p \in Plain /\ pc[t] \in Plain
    BY <1>2, <1>3, <2>1 DEF SyscallLeave, At
  <2> QED BY <1>1, <1>3, <2>2 DEF SyscallLeave
<1>4. ASSUME NEW t \in Natps, WaitForAsyncOp(t)
      PROVE  Moved /\ UNCHANGED <<slotVars, napVars, natpVars, on>>
  <2>1. pc[t] \in Plain /\ (Moves(t, "op_wait") \/ Moves(t, "leave"))
    BY <1>2, <1>4 DEF WaitForAsyncOp, At
  <2> QED BY <1>1, <1>2, <1>4, <2>1 DEF WaitForAsyncOp
<1>5. ASSUME NEW t \in Natps,
             \/ SetExitStatus(t) \/ SyscallFails(t) \/ StartAsyncOp(t)
             \/ SysExit(t) \/ SysThreadExit(t)
      PROVE  Moved /\ UNCHANGED <<slotVars, napVars, natpVars, on>>
  <2>1. /\ pc[t] \in Plain
        /\ \/ Moves(t, "suicide") \/ Moves(t, "leave")
           \/ Moves(t, "op_check") \/ Moves(t, "exit")
        /\ UNCHANGED <<slotVars, napVars, natpVars, on>>
    BY <1>2, <1>5
    DEF SetExitStatus, SyscallFails, StartAsyncOp, SysExit, SysThreadExit, At
  <2> QED BY <1>1, <1>2, <2>1
<1>6. ASSUME SyncQueueDequeue \/ WaitWhileRunning \/ ProcessExit \/ UNCHANGED vars
      PROVE  Moved /\ UNCHANGED <<slotVars, napVars, natpVars, on>>
  BY <1>6 DEF Moved, SyncQueueDequeue, WaitWhileRunning, ProcessExit, vars
<1>7. ASSUME RunClosure PROVE Moved /\ UNCHANGED <<slotVars, napVars, natpVars, on>>
  <2>1. PICK t : t = work[1] OBVIOUS
  <2>2. pc' = [pc EXCEPT ![t] = IF @ = "op_wait" THEN "op_check" ELSE @]
    BY <1>7, <2>1 DEF RunClosure, ResultSignalled
  <2>3. Moved BY <1>t, <1>2, <2>2 DEF Moved
  <2> QED BY <1>7, <2>3 DEF RunClosure
<1>8. ASSUME SpuriousWakeup PROVE Moved /\ UNCHANGED <<slotVars, napVars, natpVars, on>>
  <2>0. pc' = pc \/ \E t \in Natps : pc[t] = "op_wait" /\ Moves(t, "op_check")
    BY <1>8, Zenon DEF SpuriousWakeup, At
  <2>1. UNCHANGED <<slotVars, napVars, natpVars, on>>
    BY <1>8, Zenon DEF SpuriousWakeup
  <2>2. CASE pc' = pc BY <2>1, <2>2 DEF Moved
  <2> QED BY <1>1, <1>2, <2>0, <2>1, <2>2
<1>9. Moved /\ UNCHANGED <<slotVars, napVars, natpVars, on>>
  BY <1>3, <1>4, <1>5, <1>6, <1>7, <1>8, Zenon DEF OtherStep, MainStep
<1> QED BY <1>9 DEF Moved

(* The allocation of an object and an LDT entry, or of an object only.      *)
LEMMA Allocation ==
  ASSUME TypeOK, NEW t \in Natps, AllocateThread(t)
  PROVE  \E c \in Natps :
           /\ pc[t] = "app" /\ pc[c] = "free"
           /\ \/ /\ pc' = [pc EXCEPT ![t] = "leave", ![c] = "lost"]
                 /\ UNCHANGED <<slot, ldt, on>>
              \/ \E s \in Slots \ ldt :
                   /\ slot' = [slot EXCEPT ![c] = s]
                   /\ ldt' = ldt \cup {s}
                   /\ on' = [on EXCEPT ![t] = c]
                   /\ pc' = [pc EXCEPT ![t] = "ctor", ![c] = "made"]
<1>1. pc[t] = "app" BY DEF AllocateThread, At
<1>2. PICK c \in Natps :
        /\ pc[c] = "free"
        /\ IF FreeEntries = {}
           THEN /\ pc' = [pc EXCEPT ![t] = "leave", ![c] = "lost"]
                /\ UNCHANGED <<slotVars, on>>
           ELSE /\ slot' = [slot EXCEPT ![c] = Lowest(FreeEntries)]
                /\ ldt' = ldt \cup {slot'[c]}
                /\ on' = [on EXCEPT ![t] = c]
                /\ pc' = [pc EXCEPT ![t] = "ctor", ![c] = "made"]
                /\ UNCHANGED nacl_thread
  BY DEF AllocateThread
<1>3. CASE FreeEntries = {} BY <1>1, <1>2, <1>3 DEF slotVars
<1>4. CASE FreeEntries # {}
  <2>1. FreeEntries \subseteq Nat BY SlotsAssumption DEF FreeEntries, Slots
  <2>2. PICK s : s = Lowest(FreeEntries) OBVIOUS
  <2>3. s \in Slots \ ldt BY <1>4, <2>1, <2>2, LowestOf DEF FreeEntries
  <2>4. slot' = [slot EXCEPT ![c] = s] BY <1>2, <1>4, <2>2
  <2>5. slot'[c] = s BY <2>4 DEF TypeOK
  <2> QED BY <1>1, <1>2, <1>4, <2>3, <2>4, <2>5
<1> QED BY <1>3, <1>4

(* Only the creation of a thread, its launch, its suicide and its end do    *)
(* more.                                                                    *)
LEMMA Steps ==
  ASSUME [Next]_vars
  PROVE  \/ OtherStep
         \/ \E t \in Natps :
              \/ AllocateThread(t) \/ AppThreadCtor(t) \/ CtorFails(t) \/ ThreadCtor(t)
              \/ ThreadLauncher(t) \/ ThreadSuicide(t) \/ AppThreadDecRef(t)
BY Zenon DEF Next, RuntimeStep, SystemCall, OtherStep

-----------------------------------------------------------------------------
(* The table of threads.                                                    *)

(* A step that leaves the table alone and moves no thread into it or out.   *)
LEMMA TableFrame ==
  ASSUME Table, UNCHANGED <<threads, num_threads, thread_num, state>>,
         \A x \in Natps : /\ pc'[x] \in Registered <=> pc[x] \in Registered
                          /\ pc'[x] # "decref" => pc[x] # "decref"
  PROVE  Table'
<1>1. InModule' = InModule BY DEF InModule
<1> QED BY <1>1 DEF Table

(* Every step keeps the table of threads sound.                             *)
LEMMA TableKept ==
  ASSUME IInv, [Next]_vars
  PROVE  Table'
<1> USE DEF IInv
<1>t. /\ pc \in [Natps -> PCs] /\ thread_num \in [Natps -> Indices \cup {-1}]
      /\ state \in [Natps -> States] /\ on \in [Natps -> Natps \cup {NoThread}]
      /\ threads \in [Indices -> Natps \cup {NoThread}]
  BY DEF TypeOK
<1>n. NoThread \notin Natps BY NatpsAssumption
<1>1. ASSUME NEW t \in Natps, AllocateThread(t) PROVE Table'
  <2>1. PICK c \in Natps : /\ pc[t] = "app" /\ pc[c] = "free"
                           /\ \/ pc' = [pc EXCEPT ![t] = "leave", ![c] = "lost"]
                              \/ pc' = [pc EXCEPT ![t] = "ctor", ![c] = "made"]
    BY <1>1, Allocation
  <2>2. \A x \in Natps : /\ pc'[x] \in Registered <=> pc[x] \in Registered
                         /\ pc'[x] # "decref" => pc[x] # "decref"
    BY <1>t, <2>1 DEF Registered
  <2>3. UNCHANGED <<threads, num_threads, thread_num, state>>
    BY <1>1 DEF AllocateThread, napVars, natpVars
  <2> QED BY <2>2, <2>3, TableFrame
<1>2. ASSUME NEW t \in Natps, AppThreadCtor(t) PROVE Table'
  <2>1. PICK c : c = on[t] OBVIOUS
  <2>2. pc[t] = "ctor" /\ c \in Natps /\ pc[c] = "made"
    BY <1>2, <2>1 DEF AppThreadCtor, At, Creations
  <2>3. /\ state' = [state EXCEPT ![c] = ALIVE]
        /\ thread_num' = [thread_num EXCEPT ![c] = -1]
        /\ pc' = [pc EXCEPT ![t] = "start"]
        /\ threads' = threads /\ num_threads' = num_threads
    BY <1>2, <2>1 DEF AppThreadCtor, Moves, napVars
  <2>4. InModule' = InModule BY <1>t, <2>2, <2>3 DEF InModule, Registered
  <2>5. c \notin InModule BY <2>2 DEF InModule, Registered
  <2>6. \A x \in InModule : thread_num'[x] = thread_num[x] BY <1>t, <2>3, <2>5 DEF InModule
  <2>7. \A x \in Natps : pc'[x] # "decref" => state'[x] = ALIVE
    BY <1>t, <2>2, <2>3 DEF Table
  <2> QED BY <2>3, <2>4, <2>6, <2>7 DEF Table
<1>3. ASSUME NEW t \in Natps, CtorFails(t) \/ ThreadCtor(t) PROVE Table'
  <2>1. PICK c : c = on[t] OBVIOUS
  <2>2. pc[t] \in {"ctor", "start"} /\ c \in Natps /\ pc[c] = "made"
    BY <1>3, <2>1 DEF CtorFails, ThreadCtor, At, Creations
  <2>3. \/ pc' = [pc EXCEPT ![t] = "leave", ![c] = "lost"]
        \/ pc' = [pc EXCEPT ![t] = "leave", ![c] = "launched"]
    BY <1>3, <2>1 DEF CtorFails, ThreadCtor
  <2>4. \A x \in Natps : /\ pc'[x] \in Registered <=> pc[x] \in Registered
                         /\ pc'[x] # "decref" => pc[x] # "decref"
    BY <1>t, <2>2, <2>3 DEF Registered
  <2>5. UNCHANGED <<threads, num_threads, thread_num, state>>
    BY <1>3 DEF CtorFails, ThreadCtor, napVars, natpVars
  <2> QED BY <2>4, <2>5, TableFrame
<1>4. ASSUME NEW t \in Natps, ThreadLauncher(t) PROVE Table'
  <2>1. pc[t] = "launched" /\ pc[t] \notin Registered
    BY <1>4 DEF ThreadLauncher, At, Registered
  <2>2. PICK i : i = FirstAvail(threads) OBVIOUS
  <2>3. i \in Indices /\ threads[i] = NoThread BY <2>1, <2>2, FreeIndex
  <2>4. /\ thread_num' = [thread_num EXCEPT ![t] = i]
        /\ num_threads' = num_threads + 1
        /\ pc' = [pc EXCEPT ![t] = "app"]
        /\ state' = state
    BY <1>4, <2>2 DEF ThreadLauncher, Moves
  <2>5. thread_num'[t] = i BY <1>t, <2>4
  <2>6. threads' = [threads EXCEPT ![i] = t] BY <1>4, <2>5 DEF ThreadLauncher
  <2>7. InModule' = InModule \cup {t} /\ t \notin InModule
    BY <1>t, <2>1, <2>4 DEF InModule, Registered
  <2>8. Cardinality(InModule') = num_threads + 1
    BY <2>7, InModuleSize, FS_AddElement DEF Table
  <2>9. ASSUME NEW x \in InModule'
        PROVE  thread_num'[x] \in Indices /\ threads'[thread_num'[x]] = x
    <3>1. CASE x = t BY <1>t, <2>3, <2>5, <2>6, <3>1
    <3>2. CASE x # t
      <4>1. x \in InModule BY <2>7, <3>2
      <4>2. x \in Natps /\ thread_num[x] \in Indices /\ threads[thread_num[x]] = x
        BY <4>1 DEF Table, InModule
      <4>3. thread_num[x] # i BY <1>n, <2>3, <4>2
      <4> QED BY <1>t, <2>4, <2>6, <3>2, <4>2, <4>3
    <3> QED BY <3>1, <3>2
  <2>10. ASSUME NEW j \in Indices, threads'[j] # NoThread
         PROVE  threads'[j] \in InModule' /\ thread_num'[threads'[j]] = j
    <3>1. CASE j = i BY <1>t, <2>5, <2>6, <2>7, <3>1
    <3>2. CASE j # i
      <4>1. threads'[j] = threads[j] BY <1>t, <2>6, <3>2
      <4>2. threads[j] \in InModule /\ thread_num[threads[j]] = j
        BY <2>10, <4>1 DEF Table
      <4> QED BY <1>t, <2>4, <2>7, <4>1, <4>2
    <3> QED BY <3>1, <3>2
  <2>11. \A x \in Natps : pc'[x] # "decref" => state'[x] = ALIVE
    BY <1>t, <2>1, <2>4 DEF Table
  <2> QED BY <2>4, <2>8, <2>9, <2>10, <2>11 DEF Table
<1>5. ASSUME NEW t \in Natps, ThreadSuicide(t) PROVE Table'
  <2>1. pc[t] = "suicide" BY <1>5 DEF ThreadSuicide, At
  <2>2. t \in InModule BY <2>1 DEF InModule, Registered
  <2>3. PICK i : i = thread_num[t] OBVIOUS
  <2>4. i \in Indices /\ threads[i] = t BY <2>2, <2>3 DEF Table
  <2>5. /\ state' = [state EXCEPT ![t] = DEAD]
        /\ num_threads' = num_threads - 1
        /\ threads' = [threads EXCEPT ![i] = NoThread]
        /\ pc' = [pc EXCEPT ![t] = "decref"]
        /\ thread_num' = thread_num
    BY <1>5, <2>3 DEF ThreadSuicide, Moves
  <2>6. InModule' = InModule \ {t} BY <1>t, <2>5 DEF InModule, Registered
  <2>7. Cardinality(InModule') = num_threads - 1
    BY <2>2, <2>6, InModuleSize, FS_RemoveElement DEF Table
  <2>8. ASSUME NEW x \in InModule'
        PROVE  thread_num'[x] \in Indices /\ threads'[thread_num'[x]] = x
    <3>1. x \in InModule /\ x # t BY <2>6
    <3>2. thread_num[x] \in Indices /\ threads[thread_num[x]] = x BY <3>1 DEF Table
    <3>3. thread_num[x] # i BY <2>4, <3>1, <3>2
    <3> QED BY <1>t, <2>5, <3>2, <3>3
  <2>9. ASSUME NEW j \in Indices, threads'[j] # NoThread
        PROVE  threads'[j] \in InModule' /\ thread_num'[threads'[j]] = j
    <3>1. j # i BY <1>t, <2>5, <2>9
    <3>2. threads'[j] = threads[j] BY <1>t, <2>5, <3>1
    <3>3. threads[j] \in InModule /\ thread_num[threads[j]] = j
      BY <2>9, <3>2 DEF Table
    <3>4. threads[j] # t BY <2>3, <3>1, <3>3
    <3> QED BY <2>5, <2>6, <3>2, <3>3, <3>4
  <2>10. \A x \in Natps : pc'[x] # "decref" => state'[x] = ALIVE
    BY <1>t, <2>5 DEF Table
  <2> QED BY <2>5, <2>7, <2>8, <2>9, <2>10 DEF Table
<1>6. ASSUME NEW t \in Natps, AppThreadDecRef(t) PROVE Table'
  <2>1. pc[t] = "decref" BY <1>6 DEF AppThreadDecRef, At
  <2>2. /\ thread_num' = [thread_num EXCEPT ![t] = -1]
        /\ state' = [state EXCEPT ![t] = ALIVE]
        /\ pc' = [pc EXCEPT ![t] = "free"]
        /\ threads' = threads /\ num_threads' = num_threads
    BY <1>6 DEF AppThreadDecRef, Moves, napVars
  <2>3. InModule' = InModule /\ t \notin InModule
    BY <1>t, <2>1, <2>2 DEF InModule, Registered
  <2>4. \A x \in InModule : thread_num'[x] = thread_num[x] BY <1>t, <2>2, <2>3 DEF InModule
  <2>5. \A x \in Natps : pc'[x] # "decref" => state'[x] = ALIVE
    BY <1>t, <2>2 DEF Table
  <2> QED BY <2>2, <2>3, <2>4, <2>5 DEF Table
<1>7. ASSUME OtherStep PROVE Table'
  <2>1. \A x \in Natps : /\ pc'[x] \in Registered <=> pc[x] \in Registered
                         /\ pc'[x] # "decref" => pc[x] # "decref"
    BY <1>7, OtherMoves DEF Plain, Registered
  <2> QED BY <1>7, <2>1, OtherMoves, TableFrame DEF napVars, natpVars
<1> QED BY <1>1, <1>2, <1>3, <1>4, <1>5, <1>6, <1>7, Steps


-----------------------------------------------------------------------------
(* The LDT entries and what is under construction.                          *)

(* A step that leaves the entries alone, frees no object and gives no       *)
(* thread to an object without one.                                         *)
LEMMA EntriesFrame ==
  ASSUME Entries, UNCHANGED <<ldt, slot>>,
         \A x \in Natps : /\ pc'[x] = "free" => pc[x] = "free"
                          /\ pc'[x] \notin {"free", "lost"} => pc[x] \notin {"free", "lost"}
  PROVE  Entries'
BY DEF Entries

(* Every step keeps the LDT entries in use those of objects, one each.      *)
LEMMA EntriesKept ==
  ASSUME IInv, [Next]_vars
  PROVE  Entries'
<1> USE DEF IInv
<1>t. /\ pc \in [Natps -> PCs] /\ slot \in [Natps -> Slots \cup {NoSlot}]
      /\ ldt \subseteq Slots
  BY DEF TypeOK
<1>n. NoSlot \notin Slots BY DEF NoSlot, Slots
<1>1. ASSUME NEW t \in Natps, AllocateThread(t) PROVE Entries'
  <2>1. PICK c \in Natps :
          /\ pc[t] = "app" /\ pc[c] = "free"
          /\ \/ /\ pc' = [pc EXCEPT ![t] = "leave", ![c] = "lost"]
                /\ UNCHANGED <<slot, ldt, on>>
             \/ \E s \in Slots \ ldt :
                  /\ slot' = [slot EXCEPT ![c] = s]
                  /\ ldt' = ldt \cup {s}
                  /\ on' = [on EXCEPT ![t] = c]
                  /\ pc' = [pc EXCEPT ![t] = "ctor", ![c] = "made"]
    BY <1>1, Allocation
  <2>2. CASE /\ pc' = [pc EXCEPT ![t] = "leave", ![c] = "lost"]
             /\ UNCHANGED <<slot, ldt, on>>
    <3>1. \A x \in Natps : /\ pc'[x] = "free" => pc[x] = "free"
                           /\ pc'[x] \notin {"free", "lost"} => pc[x] \notin {"free", "lost"}
      BY <1>t, <2>1, <2>2
    <3> QED BY <2>2, <3>1, EntriesFrame
  <2>3. ASSUME NEW s \in Slots \ ldt, slot' = [slot EXCEPT ![c] = s],
               ldt' = ldt \cup {s}, pc' = [pc EXCEPT ![t] = "ctor", ![c] = "made"]
        PROVE  Entries'
    <3>1. slot[c] = NoSlot /\ c # t BY <2>1 DEF Entries
    <3>2. slot'[c] = s /\ \A x \in Natps \ {c} : slot'[x] = slot[x] BY <1>t, <2>3
    <3>3. \A x \in Natps : slot[x] # s BY <2>3 DEF Entries
    <3>4. \A r \in Slots : r \in ldt' <=> \E x \in Natps : slot'[x] = r
      <4>1. \A r \in Slots : r \in ldt <=> \E x \in Natps : slot[x] = r BY DEF Entries
      <4> QED BY <1>n, <2>3, <3>1, <3>2, <4>1
    <3>5. \A x, y \in Natps : slot'[x] = slot'[y] /\ slot'[x] # NoSlot => x = y
      BY <3>2, <3>3 DEF Entries
    <3>6. \A x \in Natps : pc'[x] = "free" => slot'[x] = NoSlot
      BY <1>t, <2>3, <3>2 DEF Entries
    <3>7. \A x \in Natps : pc'[x] \notin {"free", "lost"} => slot'[x] # NoSlot
      BY <1>n, <1>t, <2>1, <2>3, <3>1, <3>2 DEF Entries
    <3> QED BY <3>4, <3>5, <3>6, <3>7 DEF Entries
  <2> QED BY <2>1, <2>2, <2>3
<1>2. ASSUME NEW t \in Natps,
             \/ AppThreadCtor(t) \/ CtorFails(t) \/ ThreadCtor(t)
             \/ ThreadLauncher(t) \/ ThreadSuicide(t)
      PROVE  Entries'
  <2>1. PICK c : c = on[t] OBVIOUS
  <2>2. /\ pc[t] \in {"ctor", "start"} => pc[c] = "made"
        /\ \/ pc[t] = "ctor" /\ pc' = [pc EXCEPT ![t] = "start"]
           \/ pc[t] \in {"ctor", "start"} /\ pc' = [pc EXCEPT ![t] = "leave", ![c] = "lost"]
           \/ pc[t] = "start" /\ pc' = [pc EXCEPT ![t] = "leave", ![c] = "launched"]
           \/ pc[t] = "launched" /\ pc' = [pc EXCEPT ![t] = "app"]
           \/ pc[t] = "suicide" /\ pc' = [pc EXCEPT ![t] = "decref"]
    BY <1>2, <2>1
    DEF AppThreadCtor, CtorFails, ThreadCtor, ThreadLauncher, ThreadSuicide, At, Moves, Creations
  <2>3. \A x \in Natps : /\ pc'[x] = "free" => pc[x] = "free"
                         /\ pc'[x] \notin {"free", "lost"} => pc[x] \notin {"free", "lost"}
    BY <1>t, <2>2
  <2>4. UNCHANGED <<ldt, slot>>
    BY <1>2 DEF AppThreadCtor, CtorFails, ThreadCtor, ThreadLauncher, ThreadSuicide, slotVars
  <2> QED BY <2>3, <2>4, EntriesFrame
<1>3. ASSUME NEW t \in Natps, AppThreadDecRef(t) PROVE Entries'
  <2>1. /\ pc[t] = "decref" /\ ldt' = ldt \ {slot[t]}
        /\ slot' = [slot EXCEPT ![t] = NoSlot] /\ pc' = [pc EXCEPT ![t] = "free"]
    BY <1>3 DEF AppThreadDecRef, At, Moves, TlsFreed
  <2>2. slot[t] # NoSlot BY <2>1 DEF Entries
  <2>3. slot'[t] = NoSlot /\ \A x \in Natps \ {t} : slot'[x] = slot[x] BY <1>t, <2>1
  <2>4. \A x \in Natps \ {t} : slot[x] # slot[t] BY <2>2 DEF Entries
  <2>5. \A r \in Slots : r \in ldt' <=> \E x \in Natps : slot'[x] = r
    <3>1. \A r \in Slots : r \in ldt <=> \E x \in Natps : slot[x] = r BY DEF Entries
    <3> QED BY <1>n, <2>1, <2>3, <2>4, <3>1
  <2>6. \A x, y \in Natps : slot'[x] = slot'[y] /\ slot'[x] # NoSlot => x = y
    BY <2>3 DEF Entries
  <2>7. \A x \in Natps : pc'[x] = "free" => slot'[x] = NoSlot
    BY <1>t, <2>1, <2>3 DEF Entries
  <2>8. \A x \in Natps : pc'[x] \notin {"free", "lost"} => slot'[x] # NoSlot
    BY <1>t, <2>1, <2>3 DEF Entries
  <2> QED BY <2>5, <2>6, <2>7, <2>8 DEF Entries
<1>4. ASSUME OtherStep PROVE Entries'
  <2>1. \A x \in Natps : /\ pc'[x] = "free" => pc[x] = "free"
                         /\ pc'[x] \notin {"free", "lost"} => pc[x] \notin {"free", "lost"}
    BY <1>4, OtherMoves DEF Plain, Registered
  <2> QED BY <1>4, <2>1, OtherMoves, EntriesFrame DEF slotVars
<1> QED BY <1>1, <1>2, <1>3, <1>4, Steps

(* Every step keeps what is under construction its creator's.               *)
LEMMA CreationsKept ==
  ASSUME IInv, [Next]_vars
  PROVE  Creations'
<1> USE DEF IInv
<1>t. pc \in [Natps -> PCs] /\ on \in [Natps -> Natps \cup {NoThread}]
  BY DEF TypeOK
<1>n. NoThread \notin Natps BY NatpsAssumption
<1>1. ASSUME NEW t \in Natps, AllocateThread(t) PROVE Creations'
  <2>1. PICK c \in Natps :
          /\ pc[t] = "app" /\ pc[c] = "free"
          /\ \/ /\ pc' = [pc EXCEPT ![t] = "leave", ![c] = "lost"]
                /\ UNCHANGED <<slot, ldt, on>>
             \/ \E s \in Slots \ ldt :
                  /\ slot' = [slot EXCEPT ![c] = s]
                  /\ ldt' = ldt \cup {s}
                  /\ on' = [on EXCEPT ![t] = c]
                  /\ pc' = [pc EXCEPT ![t] = "ctor", ![c] = "made"]
    BY <1>1, Allocation
  <2>2. CASE pc' = [pc EXCEPT ![t] = "leave", ![c] = "lost"] /\ on' = on
    BY <1>t, <2>1, <2>2 DEF Creations
  <2>3. CASE /\ on' = [on EXCEPT ![t] = c]
             /\ pc' = [pc EXCEPT ![t] = "ctor", ![c] = "made"]
    <3>1. c # t BY <2>1
    <3>2. \A x \in Natps : pc'[x] \in {"ctor", "start"} =>
            \/ x = t /\ on'[x] = c
            \/ x # t /\ pc[x] \in {"ctor", "start"} /\ on'[x] = on[x] /\ on[x] # c
      BY <1>t, <2>1, <2>3, <3>1 DEF Creations
    <3>3. pc'[c] = "made" /\ \A x \in Natps : pc[x] = "made" => pc'[x] = "made"
      BY <1>t, <2>1, <2>3, <3>1
    <3> QED BY <3>2, <3>3 DEF Creations
  <2> QED BY <2>1, <2>2, <2>3
<1>2. ASSUME NEW t \in Natps, CtorFails(t) \/ ThreadCtor(t) PROVE Creations'
  <2>1. PICK c : c = on[t] OBVIOUS
  <2>2. /\ pc[t] \in {"ctor", "start"} /\ c \in Natps /\ pc[c] = "made"
        /\ \/ pc' = [pc EXCEPT ![t] = "leave", ![c] = "lost"]
           \/ pc' = [pc EXCEPT ![t] = "leave", ![c] = "launched"]
        /\ on' = [on EXCEPT ![t] = NoThread]
    BY <1>2, <2>1 DEF CtorFails, ThreadCtor, At, Creations
  <2>3. \A x \in Natps : pc'[x] \in {"ctor", "start"} =>
          x # t /\ pc[x] \in {"ctor", "start"} /\ on'[x] = on[x]
    BY <1>t, <2>2
  <2>4. \A x \in Natps : x # t /\ pc[x] \in {"ctor", "start"} => on[x] # c
    BY <2>1, <2>2 DEF Creations
  <2>5. \A x \in Natps : pc[x] = "made" /\ x # c => pc'[x] = "made"
    BY <1>t, <2>2
  <2> QED BY <2>3, <2>4, <2>5 DEF Creations
<1>3. ASSUME \A x \in Natps : /\ pc'[x] \in {"ctor", "start"} => pc[x] \in {"ctor", "start"}
                              /\ pc[x] = "made" => pc'[x] = "made",
             on' = on
      PROVE  Creations'
  BY <1>3 DEF Creations
<1>4. ASSUME NEW t \in Natps,
             AppThreadCtor(t) \/ ThreadLauncher(t) \/ ThreadSuicide(t) \/ AppThreadDecRef(t)
      PROVE  Creations'
  <2>1. /\ on' = on
        /\ \/ pc[t] = "ctor" /\ pc' = [pc EXCEPT ![t] = "start"]
           \/ pc[t] = "launched" /\ pc' = [pc EXCEPT ![t] = "app"]
           \/ pc[t] = "suicide" /\ pc' = [pc EXCEPT ![t] = "decref"]
           \/ pc[t] = "decref" /\ pc' = [pc EXCEPT ![t] = "free"]
    BY <1>4 DEF AppThreadCtor, ThreadLauncher, ThreadSuicide, AppThreadDecRef, At, Moves
  <2>2. \A x \in Natps : /\ pc'[x] \in {"ctor", "start"} => pc[x] \in {"ctor", "start"}
                         /\ pc[x] = "made" => pc'[x] = "made"
    BY <1>t, <2>1
  <2> QED BY <1>3, <2>1, <2>2
<1>5. ASSUME OtherStep PROVE Creations'
  <2>1. \A x \in Natps : /\ pc'[x] \in {"ctor", "start"} => pc[x] \in {"ctor", "start"}
                         /\ pc[x] = "made" => pc'[x] = "made"
    BY <1>5, OtherMoves DEF Plain, Registered
  <2> QED BY <1>3, <1>5, <2>1, OtherMoves
<1> QED BY <1>1, <1>2, <1>4, <1>5, Steps

(* Every step keeps the lookup of the calling thread right.                 *)
LEMMA LookupKept ==
  ASSUME IInv, [Next]_vars
  PROVE  Lookup'
<1> USE DEF IInv
<1>t. /\ pc \in [Natps -> PCs] /\ slot \in [Natps -> Slots \cup {NoSlot}]
      /\ on \in [Natps -> Natps \cup {NoThread}]
      /\ nacl_thread \in [Slots -> Natps \cup {NoThread}]
  BY DEF TypeOK
<1>n. NoThread \notin Natps BY NatpsAssumption
<1>1. ASSUME NEW t \in Natps, AllocateThread(t) PROVE Lookup'
  <2>1. PICK c \in Natps :
          /\ pc[t] = "app" /\ pc[c] = "free"
          /\ \/ /\ pc' = [pc EXCEPT ![t] = "leave", ![c] = "lost"]
                /\ UNCHANGED <<slot, ldt, on>>
             \/ \E s \in Slots \ ldt :
                  /\ slot' = [slot EXCEPT ![c] = s]
                  /\ ldt' = ldt \cup {s}
                  /\ on' = [on EXCEPT ![t] = c]
                  /\ pc' = [pc EXCEPT ![t] = "ctor", ![c] = "made"]
    BY <1>1, Allocation
  <2>2. nacl_thread' = nacl_thread /\ c # t
    BY <1>1, <2>1 DEF AllocateThread, slotVars
  <2>3. \A x \in Natps \ {c} : slot'[x] = slot[x] BY <1>t, <2>1
  <2>4. \A x \in Natps \ {t} : on'[x] = on[x] BY <1>t, <2>1
  <2>5. \A x \in Natps \ {c, t} : pc'[x] = pc[x] BY <1>t, <2>1
  <2>6. pc'[c] \in {"lost", "made"} /\ pc'[t] \in {"leave", "ctor"} BY <1>t, <2>1
  <2>7. \A x \in Natps : pc'[x] \in Registered \cup {"launched"} => nacl_thread'[slot'[x]] = x
    BY <2>1, <2>2, <2>3, <2>5, <2>6 DEF Lookup, Registered
  <2>8. \A x \in Natps : pc'[x] = "start" => nacl_thread'[slot'[on'[x]]] = on'[x]
    <3> SUFFICES ASSUME NEW x \in Natps, pc'[x] = "start"
                 PROVE  nacl_thread'[slot'[on'[x]]] = on'[x]
      OBVIOUS
    <3>1. x # t /\ x # c /\ pc[x] = "start" BY <2>5, <2>6
    <3>2. on[x] \in Natps /\ on[x] # c BY <2>1, <3>1 DEF Creations
    <3> QED BY <2>2, <2>3, <2>4, <3>1, <3>2 DEF Lookup
  <2>9. \A x \in Natps : pc'[x] = "decref" => nacl_thread'[slot'[x]] = NoThread
    BY <2>2, <2>3, <2>5, <2>6 DEF Lookup
  <2>10. \A s \in Slots : nacl_thread'[s] # NoThread =>
           pc'[nacl_thread'[s]] # "free" /\ slot'[nacl_thread'[s]] = s
    BY <1>t, <2>1, <2>2, <2>3, <2>5, <2>6 DEF Lookup
  <2> QED BY <2>7, <2>8, <2>9, <2>10 DEF Lookup
<1>2. ASSUME NEW t \in Natps, AppThreadCtor(t) PROVE Lookup'
  <2>1. PICK c : c = on[t] OBVIOUS
  <2>2. PICK s : s = slot[c] OBVIOUS
  <2>3. /\ pc[t] = "ctor" /\ c \in Natps /\ pc[c] = "made"
        /\ nacl_thread' = [nacl_thread EXCEPT ![s] = c]
        /\ pc' = [pc EXCEPT ![t] = "start"] /\ slot' = slot /\ on' = on
    BY <1>2, <2>1, <2>2 DEF AppThreadCtor, At, Creations, Moves
  <2>4. s \in Slots BY <1>t, <2>2, <2>3 DEF Entries
  <2>5. nacl_thread'[s] = c /\ \A r \in Slots \ {s} : nacl_thread'[r] = nacl_thread[r]
    BY <1>t, <2>3, <2>4
  <2>6. \A x \in Natps : x # c /\ slot[x] # NoSlot => slot[x] \in Slots \ {s}
    BY <1>t, <2>2, <2>3 DEF Entries
  <2>7. \A x \in Natps : pc'[x] \in Registered \cup {"launched"} => nacl_thread'[slot'[x]] = x
    <3> SUFFICES ASSUME NEW x \in Natps, pc'[x] \in Registered \cup {"launched"}
                 PROVE  nacl_thread'[slot'[x]] = x
      OBVIOUS
    <3>1. pc[x] \in Registered \cup {"launched"} BY <1>t, <2>3 DEF Registered
    <3>2. x # c /\ slot[x] # NoSlot BY <2>3, <3>1 DEF Entries, Registered
    <3> QED BY <2>3, <2>5, <2>6, <3>1, <3>2 DEF Lookup
  <2>8. \A x \in Natps : pc'[x] = "start" => nacl_thread'[slot'[on'[x]]] = on'[x]
    <3> SUFFICES ASSUME NEW x \in Natps, pc'[x] = "start"
                 PROVE  nacl_thread'[slot'[on'[x]]] = on'[x]
      OBVIOUS
    <3>1. CASE x = t BY <2>1, <2>2, <2>3, <2>5, <3>1
    <3>2. CASE x # t
      <4>1. pc[x] = "start" BY <1>t, <2>3, <3>2
      <4>2. on[x] \in Natps /\ pc[on[x]] = "made" /\ on[x] # c
        BY <2>1, <2>3, <3>2, <4>1 DEF Creations
      <4>3. slot[on[x]] # NoSlot BY <4>2 DEF Entries
      <4>4. slot[on[x]] \in Slots \ {s} BY <2>6, <4>2, <4>3
      <4> QED BY <2>3, <2>5, <4>1, <4>4 DEF Lookup
    <3> QED BY <3>1, <3>2
  <2>9. \A x \in Natps : pc'[x] = "decref" => nacl_thread'[slot'[x]] = NoThread
    <3> SUFFICES ASSUME NEW x \in Natps, pc'[x] = "decref"
                 PROVE  nacl_thread'[slot'[x]] = NoThread
      OBVIOUS
    <3>1. pc[x] = "decref" BY <1>t, <2>3
    <3>2. x # c /\ slot[x] # NoSlot BY <2>3, <3>1 DEF Entries
    <3> QED BY <2>3, <2>5, <2>6, <3>1, <3>2 DEF Lookup
  <2>10. \A r \in Slots : nacl_thread'[r] # NoThread =>
           pc'[nacl_thread'[r]] # "free" /\ slot'[nacl_thread'[r]] = r
    <3> SUFFICES ASSUME NEW r \in Slots, nacl_thread'[r] # NoThread
                 PROVE  pc'[nacl_thread'[r]] # "free" /\ slot'[nacl_thread'[r]] = r
      OBVIOUS
    <3>1. \A x \in Natps : pc[x] # "free" => pc'[x] # "free" BY <1>t, <2>3
    <3>2. CASE r = s BY <2>2, <2>3, <2>5, <3>1, <3>2
    <3>3. CASE r # s BY <1>t, <2>3, <2>5, <3>1, <3>3 DEF Lookup
    <3> QED BY <3>2, <3>3
  <2> QED BY <2>7, <2>8, <2>9, <2>10 DEF Lookup
<1>3. ASSUME NEW t \in Natps, CtorFails(t) \/ ThreadCtor(t) PROVE Lookup'
  <2>1. PICK c : c = on[t] OBVIOUS
  <2>2. /\ pc[t] \in {"ctor", "start"} /\ c \in Natps /\ pc[c] = "made"
        /\ \/ pc' = [pc EXCEPT ![t] = "leave", ![c] = "lost"]
           \/ pc[t] = "start" /\ pc' = [pc EXCEPT ![t] = "leave", ![c] = "launched"]
        /\ on' = [on EXCEPT ![t] = NoThread]
        /\ slot' = slot /\ nacl_thread' = nacl_thread
    BY <1>3, <2>1 DEF CtorFails, ThreadCtor, At, Creations, slotVars
  <2>3. \A x \in Natps : pc'[x] \in Registered \cup {"launched"} => nacl_thread'[slot'[x]] = x
    <3> SUFFICES ASSUME NEW x \in Natps, pc'[x] \in Registered \cup {"launched"}
                 PROVE  nacl_thread[slot[x]] = x
      BY <2>2
    <3>1. CASE x = c
      <4>1. pc[t] = "start" BY <1>t, <2>2, <3>1 DEF Registered
      <4> QED BY <2>1, <3>1, <4>1 DEF Lookup
    <3>2. CASE x # c
      <4>1. pc[x] \in Registered \cup {"launched"} BY <1>t, <2>2, <3>2 DEF Registered
      <4> QED BY <4>1 DEF Lookup
    <3> QED BY <3>1, <3>2
  <2>4. \A x \in Natps : pc'[x] = "start" => pc[x] = "start" /\ on'[x] = on[x]
    BY <1>t, <2>2
  <2>5. \A x \in Natps : /\ pc'[x] = "decref" => pc[x] = "decref"
                         /\ pc'[x] = "free" => pc[x] = "free"
    BY <1>t, <2>2
  <2> QED BY <1>t, <2>2, <2>3, <2>4, <2>5 DEF Lookup
<1>4. ASSUME NEW t \in Natps, ThreadSuicide(t) PROVE Lookup'
  <2>1. PICK s : s = slot[t] OBVIOUS
  <2>2. /\ pc[t] = "suicide" /\ pc' = [pc EXCEPT ![t] = "decref"]
        /\ nacl_thread' = [nacl_thread EXCEPT ![s] = NoThread]
        /\ slot' = slot /\ on' = on
    BY <1>4, <2>1 DEF ThreadSuicide, At, Moves, ClearedTables
  <2>3. s \in Slots BY <1>t, <2>1, <2>2 DEF Entries
  <2>4. nacl_thread'[s] = NoThread /\ \A r \in Slots \ {s} : nacl_thread'[r] = nacl_thread[r]
    BY <1>t, <2>2, <2>3
  <2>5. \A x \in Natps : x # t /\ slot[x] # NoSlot => slot[x] \in Slots \ {s}
    BY <1>t, <2>1, <2>2 DEF Entries
  <2>6. \A x \in Natps : pc'[x] \in Registered \cup {"launched"} => nacl_thread'[slot'[x]] = x
    <3> SUFFICES ASSUME NEW x \in Natps, pc'[x] \in Registered \cup {"launched"}
                 PROVE  nacl_thread'[slot'[x]] = x
      OBVIOUS
    <3>1. x # t /\ pc[x] \in Registered \cup {"launched"} BY <1>t, <2>2 DEF Registered
    <3>2. slot[x] # NoSlot BY <3>1 DEF Entries, Registered
    <3> QED BY <2>2, <2>4, <2>5, <3>1, <3>2 DEF Lookup
  <2>7. \A x \in Natps : pc'[x] = "start" => nacl_thread'[slot'[on'[x]]] = on'[x]
    <3> SUFFICES ASSUME NEW x \in Natps, pc'[x] = "start"
                 PROVE  nacl_thread'[slot'[on'[x]]] = on'[x]
      OBVIOUS
    <3>1. pc[x] = "start" BY <1>t, <2>2
    <3>2. on[x] \in Natps /\ pc[on[x]] = "made" BY <3>1 DEF Creations
    <3>3. on[x] # t /\ slot[on[x]] # NoSlot BY <2>2, <3>2 DEF Entries
    <3> QED BY <2>2, <2>4, <2>5, <3>1, <3>2, <3>3 DEF Lookup
  <2>8. \A x \in Natps : pc'[x] = "decref" => nacl_thread'[slot'[x]] = NoThread
    <3> SUFFICES ASSUME NEW x \in Natps, pc'[x] = "decref"
                 PROVE  nacl_thread'[slot'[x]] = NoThread
      OBVIOUS
    <3>1. CASE x = t BY <2>1, <2>2, <2>4, <3>1
    <3>2. CASE x # t
      <4>1. pc[x] = "decref" BY <1>t, <2>2, <3>2
      <4>2. slot[x] # NoSlot BY <4>1 DEF Entries
      <4> QED BY <2>2, <2>4, <2>5, <3>2, <4>1, <4>2 DEF Lookup
    <3> QED BY <3>1, <3>2
  <2>9. \A r \in Slots : nacl_thread'[r] # NoThread =>
          pc'[nacl_thread'[r]] # "free" /\ slot'[nacl_thread'[r]] = r
    <3> SUFFICES ASSUME NEW r \in Slots, nacl_thread'[r] # NoThread
                 PROVE  pc'[nacl_thread'[r]] # "free" /\ slot'[nacl_thread'[r]] = r
      OBVIOUS
    <3>1. \A x \in Natps : pc[x] # "free" => pc'[x] # "free" BY <1>t, <2>2
    <3>2. r # s BY <2>4
    <3> QED BY <1>t, <2>2, <2>4, <3>1, <3>2 DEF Lookup
  <2> QED BY <2>6, <2>7, <2>8, <2>9 DEF Lookup
<1>5. ASSUME NEW t \in Natps, AppThreadDecRef(t) PROVE Lookup'
  <2>1. /\ pc[t] = "decref" /\ pc' = [pc EXCEPT ![t] = "free"]
        /\ slot' = [slot EXCEPT ![t] = NoSlot]
        /\ nacl_thread' = nacl_thread /\ on' = on
    BY <1>5 DEF AppThreadDecRef, At, Moves
  <2>2. nacl_thread[slot[t]] = NoThread BY <2>1 DEF Lookup
  <2>3. \A r \in Slots : nacl_thread[r] # t BY <1>n, <2>2 DEF Lookup
  <2>4. \A x \in Natps \ {t} : slot'[x] = slot[x] /\ pc'[x] = pc[x] BY <1>t, <2>1
  <2>5. pc'[t] = "free" BY <1>t, <2>1
  <2>6. \A x \in Natps : pc'[x] = "start" => nacl_thread'[slot'[on'[x]]] = on'[x]
    <3> SUFFICES ASSUME NEW x \in Natps, pc'[x] = "start"
                 PROVE  nacl_thread'[slot'[on'[x]]] = on'[x]
      OBVIOUS
    <3>1. pc[x] = "start" BY <2>4, <2>5
    <3>2. on[x] \in Natps /\ on[x] # t BY <2>1, <3>1 DEF Creations
    <3> QED BY <2>1, <2>4, <3>1, <3>2 DEF Lookup
  <2>7. \A r \in Slots : nacl_thread'[r] # NoThread =>
          pc'[nacl_thread'[r]] # "free" /\ slot'[nacl_thread'[r]] = r
    BY <1>t, <2>1, <2>3, <2>4 DEF Lookup
  <2>8. \A x \in Natps : pc'[x] \in Registered \cup {"launched"} => nacl_thread'[slot'[x]] = x
    BY <2>1, <2>4, <2>5 DEF Lookup, Registered
  <2>9. \A x \in Natps : pc'[x] = "decref" => nacl_thread'[slot'[x]] = NoThread
    BY <2>1, <2>4, <2>5 DEF Lookup
  <2> QED BY <2>6, <2>7, <2>8, <2>9 DEF Lookup
<1>6. ASSUME \A x \in Natps :
               /\ pc'[x] \in Registered \cup {"launched"} => pc[x] \in Registered \cup {"launched"}
               /\ pc'[x] \in {"start", "decref", "free"} => pc'[x] = pc[x],
             slot' = slot, nacl_thread' = nacl_thread, on' = on
      PROVE  Lookup'
  BY <1>t, <1>6 DEF Lookup
<1>7. ASSUME NEW t \in Natps, ThreadLauncher(t) PROVE Lookup'
  <2>1. /\ pc[t] = "launched" /\ pc' = [pc EXCEPT ![t] = "app"]
        /\ slot' = slot /\ nacl_thread' = nacl_thread /\ on' = on
    BY <1>7 DEF ThreadLauncher, At, Moves, slotVars
  <2>2. \A x \in Natps :
          /\ pc'[x] \in Registered \cup {"launched"} => pc[x] \in Registered \cup {"launched"}
          /\ pc'[x] \in {"start", "decref", "free"} => pc'[x] = pc[x]
    BY <1>t, <2>1
  <2> QED BY <1>6, <2>1, <2>2
<1>8. ASSUME OtherStep PROVE Lookup'
  <2>1. \A x \in Natps :
          /\ pc'[x] \in Registered \cup {"launched"} => pc[x] \in Registered \cup {"launched"}
          /\ pc'[x] \in {"start", "decref", "free"} => pc'[x] = pc[x]
    BY <1>8, OtherMoves DEF Plain, Registered
  <2> QED BY <1>6, <1>8, <2>1, OtherMoves DEF slotVars
<1> QED BY <1>1, <1>2, <1>3, <1>4, <1>5, <1>7, <1>8, Steps


-----------------------------------------------------------------------------
(* The operations.                                                          *)

(* What the main thread runs, and what is queued, is waited for.            *)
LEMMA NotWaiting ==
  ASSUME IInv, NEW t \in Natps, t \notin Unanswered
  PROVE  /\ work[1] # t
         /\ \A k \in 1 .. Len(queue) : queue[k][1] # t
<1>1. work = NoWork \/ work[1] \in Unanswered BY DEF IInv, Operations
<1>2. NoWork[1] = NoThread BY DEF NoWork
<1> QED BY <1>1, <1>2, NatpsAssumption DEF IInv, Operations

(* A step that starts, runs and answers no operation.                       *)
LEMMA OperationsFrame ==
  ASSUME Operations, queue' = queue, work' = work, mpc' = "run" <=> mpc = "run",
         \A x \in Natps : /\ pc'[x] \in Waiting <=> pc[x] \in Waiting
                          /\ result'[x] = result[x]
                          /\ pc[x] \in Waiting => asked'[x] = asked[x]
  PROVE  Operations'
<1>1. \A x : x \in Unanswered' <=> x \in Unanswered BY DEF Unanswered
<1>2. \A x : x \in Unanswered => x \in Natps /\ asked'[x] = asked[x] BY DEF Unanswered
<1>3. \A k \in 1 .. Len(queue') :
        /\ queue'[k][1] \in Unanswered' /\ queue'[k][2] = asked'[queue'[k][1]]
        /\ work'[1] # queue'[k][1]
  BY <1>1, <1>2 DEF Operations
<1>4. IF mpc' = "run" THEN work'[1] \in Unanswered' /\ work'[2] = asked'[work'[1]]
      ELSE work' = NoWork
  BY <1>1, <1>2 DEF Operations
<1>5. \A t \in Natps :
        t \in Unanswered' => work'[1] = t \/ \E k \in 1 .. Len(queue') : queue'[k][1] = t
  BY <1>1 DEF Operations
<1> QED BY <1>3, <1>4, <1>5 DEF Operations

(* Every step keeps the operation a thread waits for in one place.          *)
LEMMA OperationsKept ==
  ASSUME IInv, [Next]_vars
  PROVE  Operations'
<1> USE DEF IInv
<1>t. /\ pc \in [Natps -> PCs] /\ on \in [Natps -> Natps \cup {NoThread}]
      /\ result \in [Natps -> 0 .. MaxOps] /\ asked \in [Natps -> 0 .. MaxOps]
      /\ queue \in Seq(Closures)
  BY DEF TypeOK
<1>l. Len(queue) \in Nat BY <1>t, LenProperties
<1>w. NoWork[1] = NoThread /\ NoThread \notin Natps BY NatpsAssumption DEF NoWork
<1>1. ASSUME NEW t \in Natps, AllocateThread(t) PROVE Operations'
  <2>1. PICK c \in Natps : /\ pc[t] = "app" /\ pc[c] = "free"
                           /\ \/ pc' = [pc EXCEPT ![t] = "leave", ![c] = "lost"]
                              \/ pc' = [pc EXCEPT ![t] = "ctor", ![c] = "made"]
    BY <1>1, Allocation
  <2>2. \A x \in Natps : pc'[x] \in Waiting <=> pc[x] \in Waiting
    BY <1>t, <2>1 DEF Waiting
  <2> QED BY <1>1, <2>2, OperationsFrame DEF AllocateThread, opVars, mainVars, queueVars
<1>2. ASSUME NEW t \in Natps, AppThreadCtor(t) PROVE Operations'
  <2>1. PICK c : c = on[t] OBVIOUS
  <2>2. /\ pc[t] = "ctor" /\ c \in Natps /\ pc[c] = "made"
        /\ result' = [result EXCEPT ![c] = NoResult]
        /\ asked' = [asked EXCEPT ![c] = 0]
        /\ pc' = [pc EXCEPT ![t] = "start"]
        /\ queue' = queue /\ work' = work /\ mpc' = mpc
    BY <1>2, <2>1 DEF AppThreadCtor, At, Creations, Moves, queueVars, mainVars
  <2>3. result[c] = NoResult BY <2>2 DEF Operations, Waiting
  <2>4. \A x \in Natps : /\ pc'[x] \in Waiting <=> pc[x] \in Waiting
                         /\ result'[x] = result[x]
                         /\ pc[x] \in Waiting => asked'[x] = asked[x]
    BY <1>t, <2>2, <2>3 DEF Waiting
  <2> QED BY <2>2, <2>4, OperationsFrame
<1>3. ASSUME NEW t \in Natps, CtorFails(t) \/ ThreadCtor(t) PROVE Operations'
  <2>1. PICK c : c = on[t] OBVIOUS
  <2>2. /\ pc[t] \in {"ctor", "start"} /\ c \in Natps /\ pc[c] = "made"
        /\ \/ pc' = [pc EXCEPT ![t] = "leave", ![c] = "lost"]
           \/ pc' = [pc EXCEPT ![t] = "leave", ![c] = "launched"]
    BY <1>3, <2>1 DEF CtorFails, ThreadCtor, At, Creations
  <2>3. \A x \in Natps : pc'[x] \in Waiting <=> pc[x] \in Waiting
    BY <1>t, <2>2 DEF Waiting
  <2> QED BY <1>3, <2>3, OperationsFrame DEF CtorFails, ThreadCtor, opVars, mainVars, queueVars
<1>4. ASSUME NEW t \in Natps,
             ThreadLauncher(t) \/ ThreadSuicide(t) \/ AppThreadDecRef(t)
      PROVE  Operations'
  <2>1. /\ queue' = queue /\ work' = work /\ mpc' = mpc /\ result' = result
        /\ pc[t] \notin Waiting
        /\ \E p \in {"app", "decref", "free"} : pc' = [pc EXCEPT ![t] = p]
        /\ asked' = asked \/ asked' = [asked EXCEPT ![t] = 0]
    BY <1>4
    DEF ThreadLauncher, ThreadSuicide, AppThreadDecRef, At, Moves, Waiting, opVars, mainVars,
        queueVars
  <2>2. \A x \in Natps : /\ pc'[x] \in Waiting <=> pc[x] \in Waiting
                         /\ pc[x] \in Waiting => asked'[x] = asked[x]
    BY <1>t, <2>1 DEF Waiting
  <2> QED BY <2>1, <2>2, OperationsFrame
<1>5. ASSUME NEW t \in Natps,
             \/ SyscallLeave(t) \/ SyscallFails(t) \/ SysExit(t) \/ SetExitStatus(t)
             \/ SysThreadExit(t)
      PROVE  Operations'
  <2>1. /\ queue' = queue /\ work' = work /\ result' = result /\ asked' = asked
        /\ pc[t] \notin Waiting
        /\ \E p \in {"app", "leave", "exit", "suicide"} : pc' = [pc EXCEPT ![t] = p]
    BY <1>5
    DEF SyscallLeave, SyscallFails, SysExit, SetExitStatus, SysThreadExit, At, Moves, Waiting,
        opVars, mainVars, queueVars
  <2>2. mpc' = "run" <=> mpc = "run"
    BY <1>5
    DEF SyscallLeave, SyscallFails, SysExit, SetExitStatus, SysThreadExit, QuitSignalled,
        QueueSignalled, mainVars
  <2>3. \A x \in Natps : pc'[x] \in Waiting <=> pc[x] \in Waiting
    BY <1>t, <2>1 DEF Waiting
  <2> QED BY <2>1, <2>2, <2>3, OperationsFrame
<1>6. ASSUME NEW t \in Natps, StartAsyncOp(t) PROVE Operations'
  <2>1. PICK n : n = asked[t] + 1 OBVIOUS
  <2>2. /\ pc[t] = "app" /\ asked[t] < MaxOps /\ asked' = [asked EXCEPT ![t] = n]
        /\ pc' = [pc EXCEPT ![t] = "op_check"] /\ work' = work /\ result' = result
    BY <1>6, <2>1 DEF StartAsyncOp, At, Moves
  <2>3. mpc' = "run" <=> mpc = "run" BY <1>6 DEF StartAsyncOp, QueueSignalled
  <2>4. asked'[t] = n /\ n \in 1 .. MaxOps /\ \A x \in Natps \ {t} : asked'[x] = asked[x]
    BY <1>t, <2>1, <2>2, BoundAssumption
  <2>5. queue' = Append(queue, <<t, n>>) BY <1>6, <2>4 DEF StartAsyncOp
  <2>6. <<t, n>> \in Closures BY <2>4 DEF Closures
  <2>7. /\ Len(queue') = Len(queue) + 1
        /\ \A k \in 1 .. Len(queue) : queue'[k] = queue[k]
        /\ queue'[Len(queue) + 1] = <<t, n>>
    BY <1>t, <2>5, <2>6, AppendProperties
  <2>8. pc'[t] = "op_check" /\ \A x \in Natps \ {t} : pc'[x] = pc[x] BY <1>t, <2>2
  <2>9. t \notin Unanswered /\ result[t] = NoResult
    BY <2>2 DEF Unanswered, Waiting, Operations
  <2>10. work[1] # t /\ \A k \in 1 .. Len(queue) : queue[k][1] # t BY <2>9, NotWaiting
  <2>11. t \in Unanswered' BY <2>2, <2>8, <2>9 DEF Unanswered, Waiting
  <2>12. \A x : x # t => (x \in Unanswered' <=> x \in Unanswered)
    BY <2>2, <2>8 DEF Unanswered
  <2>13. \A x : x \in Unanswered => x # t /\ x \in Natps /\ asked'[x] = asked[x]
    BY <2>4, <2>9 DEF Unanswered
  <2>14. ASSUME NEW k \in 1 .. Len(queue')
         PROVE  /\ queue'[k][1] \in Unanswered' /\ queue'[k][2] = asked'[queue'[k][1]]
                /\ work'[1] # queue'[k][1]
    <3>1. CASE k = Len(queue) + 1 BY <2>2, <2>4, <2>7, <2>10, <2>11, <3>1
    <3>2. CASE k # Len(queue) + 1
      <4>1. k \in 1 .. Len(queue) BY <1>l, <2>7, <3>2
      <4> QED BY <2>2, <2>7, <2>10, <2>12, <2>13, <4>1 DEF Operations
    <3> QED BY <3>1, <3>2
  <2>15. ASSUME NEW j \in 1 .. Len(queue'), NEW k \in 1 .. Len(queue'),
                queue'[j][1] = queue'[k][1]
         PROVE  j = k
    <3>1. \A i \in 1 .. Len(queue') :
            \/ i = Len(queue) + 1 /\ queue'[i][1] = t
            \/ i \in 1 .. Len(queue) /\ queue'[i][1] = queue[i][1] /\ queue[i][1] # t
      <4> SUFFICES ASSUME NEW i \in 1 .. Len(queue')
                   PROVE  \/ i = Len(queue) + 1 /\ queue'[i][1] = t
                          \/ i \in 1 .. Len(queue) /\ queue'[i][1] = queue[i][1] /\ queue[i][1] # t
        OBVIOUS
      <4>1. i = Len(queue) + 1 \/ i \in 1 .. Len(queue) BY <1>l, <2>7
      <4> QED BY <2>7, <2>10, <4>1
    <3> QED BY <2>15, <3>1 DEF Operations
  <2>16. IF mpc' = "run" THEN work'[1] \in Unanswered' /\ work'[2] = asked'[work'[1]]
         ELSE work' = NoWork
    BY <2>2, <2>3, <2>12, <2>13 DEF Operations
  <2>17. \A x \in Natps : pc'[x] \in Waiting => asked'[x] # 0
    BY <2>4, <2>8 DEF Operations
  <2>18. \A x \in Natps : result'[x] # NoResult => pc'[x] \in Waiting /\ result'[x] = asked'[x]
    BY <2>2, <2>4, <2>8, <2>9 DEF Operations
  <2>19. ASSUME NEW x \in Natps, x \in Unanswered'
         PROVE  work'[1] = x \/ \E k \in 1 .. Len(queue') : queue'[k][1] = x
    <3>1. CASE x = t
      <4>1. Len(queue) + 1 \in 1 .. Len(queue') BY <1>l, <2>7
      <4> QED BY <2>7, <3>1, <4>1
    <3>2. CASE x # t
      <4>1. x \in Unanswered BY <2>12, <2>19, <3>2
      <4>2. work[1] = x \/ \E k \in 1 .. Len(queue) : queue[k][1] = x
        BY <4>1 DEF Operations
      <4>3. \A k \in 1 .. Len(queue) : k \in 1 .. Len(queue') BY <1>l, <2>7
      <4> QED BY <2>2, <2>7, <4>2, <4>3
    <3> QED BY <3>1, <3>2
  <2> QED BY <2>14, <2>15, <2>16, <2>17, <2>18, <2>19 DEF Operations
<1>7. ASSUME NEW t \in Natps, WaitForAsyncOp(t) PROVE Operations'
  <2>1. /\ pc[t] = "op_check" /\ queue' = queue /\ work' = work /\ mpc' = mpc
        /\ asked' = asked
        /\ \/ result[t] = NoResult /\ pc' = [pc EXCEPT ![t] = "op_wait"] /\ result' = result
           \/ /\ result[t] # NoResult /\ pc' = [pc EXCEPT ![t] = "leave"]
              /\ result' = [result EXCEPT ![t] = NoResult]
    BY <1>7 DEF WaitForAsyncOp, At, Moves, Taken, queueVars, mainVars
  <2>2. CASE pc' = [pc EXCEPT ![t] = "op_wait"] /\ result' = result
    <3>1. \A x \in Natps : pc'[x] \in Waiting <=> pc[x] \in Waiting
      BY <1>t, <2>1, <2>2 DEF Waiting
    <3> QED BY <2>1, <2>2, <3>1, OperationsFrame
  <2>3. CASE /\ result[t] # NoResult /\ pc' = [pc EXCEPT ![t] = "leave"]
             /\ result' = [result EXCEPT ![t] = NoResult]
    <3>1. work[1] # t /\ \A k \in 1 .. Len(queue) : queue[k][1] # t
      BY <2>3, NotWaiting DEF Unanswered
    <3>2. /\ pc'[t] = "leave" /\ \A x \in Natps \ {t} : pc'[x] = pc[x]
          /\ result'[t] = NoResult /\ \A x \in Natps \ {t} : result'[x] = result[x]
      BY <1>t, <2>3
    <3>3. \A x : x # t => (x \in Unanswered' <=> x \in Unanswered) BY <3>2 DEF Unanswered
    <3>4. t \notin Unanswered' BY <3>2 DEF Unanswered, Waiting
    <3>5. \A k \in 1 .. Len(queue') :
            /\ queue'[k][1] \in Unanswered' /\ queue'[k][2] = asked'[queue'[k][1]]
            /\ work'[1] # queue'[k][1]
      BY <2>1, <3>1, <3>3 DEF Operations
    <3>6. IF mpc' = "run" THEN work'[1] \in Unanswered' /\ work'[2] = asked'[work'[1]]
          ELSE work' = NoWork
      BY <2>1, <3>1, <3>3 DEF Operations
    <3>7. \A x \in Natps : pc'[x] \in Waiting => asked'[x] # 0
      BY <2>1, <3>2 DEF Operations, Waiting
    <3>8. \A x \in Natps : result'[x] # NoResult => pc'[x] \in Waiting /\ result'[x] = asked'[x]
      BY <2>1, <3>2 DEF Operations
    <3>9. \A x \in Natps :
            x \in Unanswered' => work'[1] = x \/ \E k \in 1 .. Len(queue') : queue'[k][1] = x
      BY <2>1, <3>3, <3>4 DEF Operations
    <3>10. \A j, k \in 1 .. Len(queue') : queue'[j][1] = queue'[k][1] => j = k
      BY <2>1 DEF Operations
    <3> QED BY <3>5, <3>6, <3>7, <3>8, <3>9, <3>10 DEF Operations
  <2> QED BY <2>1, <2>2, <2>3
<1>8. ASSUME SyncQueueDequeue PROVE Operations'
  <2>1. /\ mpc = "dequeue" /\ pc' = pc /\ result' = result /\ asked' = asked
        /\ \/ mpc' \in {"status", "queue_wait"} /\ queue' = queue /\ work' = work
           \/ queue # <<>> /\ mpc' = "run" /\ work' = Head(queue) /\ queue' = Tail(queue)
    BY <1>8 DEF SyncQueueDequeue, opVars, Rest
  <2>2. CASE mpc' \in {"status", "queue_wait"} /\ queue' = queue /\ work' = work
    BY <2>1, <2>2, OperationsFrame
  <2>3. CASE queue # <<>> /\ mpc' = "run" /\ work' = Head(queue) /\ queue' = Tail(queue)
    <3>1. /\ Len(queue') = Len(queue) - 1
          /\ \A k \in 1 .. Len(queue') : queue'[k] = queue[k + 1]
      BY <1>t, <2>3, HeadTailProperties
    <3>2. work' = queue[1] BY <2>3
    <3>3. Len(queue) # 0 BY <1>t, <2>3, EmptySeq
    <3>4. 1 \in 1 .. Len(queue) /\ \A k \in 1 .. Len(queue') : k + 1 \in 1 .. Len(queue)
      BY <1>l, <3>1, <3>3
    <3>5. \A x : x \in Unanswered' <=> x \in Unanswered BY <2>1 DEF Unanswered
    <3>6. \A k \in 1 .. Len(queue') : queue[k + 1][1] # queue[1][1]
      <4>1. ASSUME NEW k \in 1 .. Len(queue'), queue[k + 1][1] = queue[1][1] PROVE FALSE
        <5>1. k + 1 = 1 BY <3>4, <4>1 DEF Operations
        <5> QED BY <5>1
      <4> QED BY <4>1
    <3>7. \A k \in 1 .. Len(queue') :
            /\ queue'[k][1] \in Unanswered' /\ queue'[k][2] = asked'[queue'[k][1]]
            /\ work'[1] # queue'[k][1]
      BY <2>1, <3>1, <3>2, <3>4, <3>5, <3>6 DEF Operations
    <3>8. ASSUME NEW j \in 1 .. Len(queue'), NEW k \in 1 .. Len(queue'),
                 queue'[j][1] = queue'[k][1]
          PROVE  j = k
      <4>1. j + 1 = k + 1 BY <3>1, <3>4, <3>8 DEF Operations
      <4> QED BY <4>1
    <3>9. work'[1] \in Unanswered' /\ work'[2] = asked'[work'[1]]
      BY <2>1, <3>2, <3>4, <3>5 DEF Operations
    <3>10. ASSUME NEW x \in Natps, x \in Unanswered'
           PROVE  work'[1] = x \/ \E k \in 1 .. Len(queue') : queue'[k][1] = x
      <4>1. work[1] # x BY <1>w, <2>1 DEF Operations
      <4>2. PICK i \in 1 .. Len(queue) : queue[i][1] = x
        BY <3>5, <3>10, <4>1 DEF Operations
      <4>3. CASE i = 1 BY <3>2, <4>2, <4>3
      <4>4. CASE i # 1
        <5>1. i - 1 \in 1 .. Len(queue') /\ (i - 1) + 1 = i BY <1>l, <3>1, <4>4
        <5> QED BY <3>1, <4>2, <5>1
      <4> QED BY <4>3, <4>4
    <3> QED BY <2>1, <2>3, <3>7, <3>8, <3>9, <3>10 DEF Operations
  <2> QED BY <2>1, <2>2, <2>3
<1>9. ASSUME RunClosure PROVE Operations'
  <2>1. PICK t : t = work[1] OBVIOUS
  <2>2. PICK n : n = work[2] OBVIOUS
  <2>3. /\ mpc = "run" /\ result' = [result EXCEPT ![t] = n]
        /\ pc' = [pc EXCEPT ![t] = IF @ = "op_wait" THEN "op_check" ELSE @]
        /\ mpc' = "dequeue" /\ work' = NoWork /\ queue' = queue /\ asked' = asked
    BY <1>9, <2>1, <2>2 DEF RunClosure, ResultSignalled, queueVars
  <2>4. t \in Unanswered /\ n = asked[t] BY <2>1, <2>2, <2>3 DEF Operations
  <2>5. t \in Natps /\ pc[t] \in Waiting /\ n # NoResult
    BY <2>4 DEF Unanswered, Operations, NoResult
  <2>6. \A x \in Natps : pc'[x] \in Waiting <=> pc[x] \in Waiting
    BY <1>t, <2>3 DEF Waiting
  <2>7. result'[t] = n /\ \A x \in Natps \ {t} : result'[x] = result[x] BY <1>t, <2>3, <2>5
  <2>8. \A x : x # t => (x \in Unanswered' <=> x \in Unanswered) BY <2>6, <2>7 DEF Unanswered
  <2>9. t \notin Unanswered' BY <2>5, <2>7 DEF Unanswered
  <2>10. \A k \in 1 .. Len(queue) : queue[k][1] # t BY <2>1 DEF Operations
  <2>11. \A k \in 1 .. Len(queue') :
           /\ queue'[k][1] \in Unanswered' /\ queue'[k][2] = asked'[queue'[k][1]]
           /\ work'[1] # queue'[k][1]
    <3>1. \A x : x \in Unanswered => x \in Natps BY DEF Unanswered
    <3> QED BY <1>w, <2>3, <2>8, <2>10, <3>1 DEF Operations
  <2>12. \A x \in Natps : pc'[x] \in Waiting => asked'[x] # 0
    BY <2>3, <2>6 DEF Operations
  <2>13. \A x \in Natps : result'[x] # NoResult => pc'[x] \in Waiting /\ result'[x] = asked'[x]
    BY <2>3, <2>4, <2>5, <2>6, <2>7 DEF Operations
  <2>14. \A x \in Natps :
           x \in Unanswered' => work'[1] = x \/ \E k \in 1 .. Len(queue') : queue'[k][1] = x
    BY <2>1, <2>3, <2>8, <2>9 DEF Operations
  <2>15. \A j, k \in 1 .. Len(queue') : queue'[j][1] = queue'[k][1] => j = k
    BY <2>3 DEF Operations
  <2> QED BY <2>3, <2>11, <2>12, <2>13, <2>14, <2>15 DEF Operations
<1>10. ASSUME WaitWhileRunning \/ ProcessExit \/ SpuriousWakeup \/ UNCHANGED vars
       PROVE  Operations'
  <2>1. queue' = queue /\ work' = work /\ result' = result /\ asked' = asked
    BY <1>10, Zenon
    DEF WaitWhileRunning, ProcessExit, SpuriousWakeup, vars, queueVars, opVars, mainVars
  <2>2. mpc' = "run" <=> mpc = "run"
    BY <1>10 DEF WaitWhileRunning, ProcessExit, SpuriousWakeup, vars, mainVars
  <2>3. pc' = pc \/ \E t \in Natps : pc[t] = "op_wait" /\ pc' = [pc EXCEPT ![t] = "op_check"]
    BY <1>10, Zenon DEF WaitWhileRunning, ProcessExit, SpuriousWakeup, vars, At, Moves
  <2>4. \A x \in Natps : pc'[x] \in Waiting <=> pc[x] \in Waiting
    BY <1>t, <2>3 DEF Waiting
  <2> QED BY <2>1, <2>2, <2>4, OperationsFrame
<1> QED
  BY <1>1, <1>2, <1>3, <1>4, <1>5, <1>6, <1>7, <1>8, <1>9, <1>10, Zenon
  DEF Next, RuntimeStep, SystemCall, MainStep


-----------------------------------------------------------------------------
(* The types, the fatal checks and the status.                              *)

(* No step reaches a LOG_FATAL.                                             *)
LEMMA NoneFatal ==
  ASSUME IInv, [Next]_vars
  PROVE  NoFatal'
<1> USE DEF IInv, NoFatal
<1>1. ASSUME NEW t \in Natps, SyscallLeave(t) PROVE ~fatal'
  <2>1. pc[t] = "leave" BY <1>1 DEF SyscallLeave, At
  <2>2. state[t] # DEAD BY <2>1 DEF Table, ALIVE, DEAD
  <2> QED BY <1>1, <2>2 DEF SyscallLeave
<1>2. ASSUME NEW t \in Natps, ThreadSuicide(t) PROVE ~fatal'
  <2>1. t \in InModule BY <1>2 DEF ThreadSuicide, At, InModule, Registered
  <2>2. threads[thread_num[t]] # NoThread
    BY <2>1, NatpsAssumption DEF Table, InModule
  <2>3. InModule \in SUBSET Natps BY DEF InModule
  <2>4. num_threads # 0 BY <2>1, <2>3, Objects DEF Table
  <2> QED BY <1>2, <2>2, <2>4 DEF ThreadSuicide
<1>3. ASSUME RunClosure PROVE ~fatal'
  <2>1. work[1] \in Unanswered BY <1>3 DEF RunClosure, Operations
  <2> QED BY <1>3, <2>1 DEF RunClosure, Unanswered
<1>4. ASSUME NEW t \in Natps,
             \/ AllocateThread(t) \/ AppThreadCtor(t) \/ CtorFails(t) \/ ThreadCtor(t)
             \/ ThreadLauncher(t) \/ AppThreadDecRef(t)
      PROVE  ~fatal'
  BY <1>4 DEF AllocateThread, AppThreadCtor, CtorFails, ThreadCtor, ThreadLauncher, AppThreadDecRef
<1>5. ASSUME NEW t \in Natps,
             \/ WaitForAsyncOp(t) \/ SetExitStatus(t) \/ SyscallFails(t) \/ StartAsyncOp(t)
             \/ SysExit(t) \/ SysThreadExit(t)
      PROVE  ~fatal'
  BY <1>5 DEF WaitForAsyncOp, SetExitStatus, SyscallFails, StartAsyncOp, SysExit, SysThreadExit
<1>6. ASSUME \/ SyncQueueDequeue \/ WaitWhileRunning \/ ProcessExit \/ SpuriousWakeup
             \/ UNCHANGED vars
      PROVE  ~fatal'
  BY <1>6 DEF SyncQueueDequeue, WaitWhileRunning, ProcessExit, SpuriousWakeup, vars
<1> QED
  BY <1>1, <1>2, <1>3, <1>4, <1>5, <1>6, Zenon DEF Next, RuntimeStep, SystemCall, MainStep

(* What a step does to the status: an exit writes one unless the main       *)
(* thread has nap->mu, and the main thread takes what was written.          *)
LEMMA StatusStep ==
  ASSUME IInv, [Next]_vars
  PROVE  /\ \/ UNCHANGED <<running, exit_status>>
            \/ running' = FALSE /\ exit_status' \in Statuses /\ mpc \notin {"returned", "exited"}
         /\ \/ mpc' \in {"returned", "exited"} /\ mpc \in {"returned", "exited"}
            \/ mpc' = "returned" /\ ~running /\ UNCHANGED <<running, exit_status>>
            \/ mpc' \notin {"returned", "exited"}
<1> DEFINE Over == {"returned", "exited"}
           Good == /\ \/ UNCHANGED exitVars
                      \/ running' = FALSE /\ exit_status' \in Statuses /\ mpc \notin Over
                   /\ \/ mpc' \in Over /\ mpc \in Over
                      \/ mpc' = "returned" /\ ~running /\ UNCHANGED exitVars
                      \/ mpc' \notin Over
<1>1. ASSUME UNCHANGED exitVars, mpc' \in Over => mpc \in Over PROVE Good
  BY <1>1
<1>2. ASSUME NEW t \in Natps, SetExitStatus(t) PROVE Good
  BY <1>2 DEF SetExitStatus, At, NapFree
<1>3. ASSUME NEW t \in Natps,
             \/ AllocateThread(t) \/ AppThreadCtor(t) \/ CtorFails(t) \/ ThreadCtor(t)
             \/ ThreadLauncher(t) \/ AppThreadDecRef(t) \/ ThreadSuicide(t) \/ SyscallLeave(t)
      PROVE  Good
  BY <1>3, <1>1
  DEF AllocateThread, AppThreadCtor, CtorFails, ThreadCtor, ThreadLauncher, AppThreadDecRef,
      ThreadSuicide, SyscallLeave, mainVars
<1>4. ASSUME NEW t \in Natps,
             \/ WaitForAsyncOp(t) \/ SyscallFails(t) \/ StartAsyncOp(t) \/ SysExit(t)
             \/ SysThreadExit(t)
      PROVE  Good
  BY <1>4, <1>1
  DEF WaitForAsyncOp, SyscallFails, StartAsyncOp, SysExit, SysThreadExit, mainVars,
      QuitSignalled, QueueSignalled
<1>5. ASSUME WaitWhileRunning PROVE Good
  BY <1>5 DEF WaitWhileRunning
<1>6. ASSUME \/ SyncQueueDequeue \/ RunClosure \/ ProcessExit \/ SpuriousWakeup
             \/ UNCHANGED vars
      PROVE  Good
  <2>1. UNCHANGED exitVars
    BY <1>6, Zenon DEF SyncQueueDequeue, RunClosure, ProcessExit, SpuriousWakeup, vars
  <2>2. mpc' \in Over => mpc \in Over
    BY <1>6 DEF SyncQueueDequeue, RunClosure, ProcessExit, SpuriousWakeup, vars, mainVars
  <2> QED BY <1>1, <2>1, <2>2
<1> HIDE DEF Good
<1>7. Good
  BY <1>2, <1>3, <1>4, <1>5, <1>6, Zenon DEF Next, RuntimeStep, SystemCall, MainStep
<1> QED BY <1>7 DEF Good, exitVars

(* Every step keeps the status the main thread reads a written one.         *)
LEMMA StatusReadKept ==
  ASSUME IInv, [Next]_vars
  PROVE  StatusRead'
<1>1. NoStatus \notin Statuses BY StatusAssumption DEF NoStatus
<1>2. running \/ exit_status # NoStatus BY DEF IInv, StatusRead
<1>3. mpc \in {"returned", "exited"} => ~running BY DEF IInv, StatusRead
<1>4. running' \/ exit_status' # NoStatus BY <1>1, <1>2, StatusStep
<1>5. mpc' \in {"returned", "exited"} => ~running' BY <1>3, StatusStep
<1> QED BY <1>4, <1>5 DEF StatusRead

(* Every step keeps the types.                                              *)
LEMMA TypesKept ==
  ASSUME IInv, [Next]_vars
  PROVE  TypeOK'
<1> USE DEF IInv
<1>t. TypeOK OBVIOUS
<1>w. NoThread \notin Natps BY NatpsAssumption
<1>m. NoSlot \in Slots \cup {NoSlot} /\ ALIVE \in States /\ DEAD \in States
      /\ NoResult \in 0 .. MaxOps /\ 0 \in 0 .. MaxOps /\ Registered \subseteq PCs
      /\ {"free", "lost", "made", "launched", "decref"} \subseteq PCs
  BY BoundAssumption DEF States, PCs, NoResult
<1>1. restricted' = restricted
  BY DEF Next, RuntimeStep, SystemCall, MainStep, AllocateThread, AppThreadCtor, CtorFails,
         ThreadCtor, ThreadLauncher, AppThreadDecRef, ThreadSuicide, SyscallLeave,
         WaitForAsyncOp, SetExitStatus, SyscallFails, StartAsyncOp, SysExit, SysThreadExit,
         SyncQueueDequeue, RunClosure, WaitWhileRunning, ProcessExit, SpuriousWakeup, vars
<1>2. num_threads' \in 0 .. Cardinality(Natps)
  <2>1. num_threads' = Cardinality(InModule') BY TableKept DEF Table
  <2>2. InModule' \in SUBSET Natps BY DEF InModule
  <2> QED BY <2>1, <2>2, Objects
<1>3. running' \in BOOLEAN /\ exit_status' \in Statuses \cup {NoStatus}
  BY <1>t, StatusStep DEF TypeOK
<1>4. fatal' \in BOOLEAN
  <2>1. fatal \in BOOLEAN BY <1>t, Zenon DEF TypeOK
  <2>2. fatal' = fatal \/ \E b : fatal' = (fatal \/ b)
    BY Zenon
    DEF Next, RuntimeStep, SystemCall, MainStep, AllocateThread, AppThreadCtor, CtorFails,
        ThreadCtor, ThreadLauncher, AppThreadDecRef, ThreadSuicide, SyscallLeave,
        WaitForAsyncOp, SetExitStatus, SyscallFails, StartAsyncOp, SysExit, SysThreadExit,
        SyncQueueDequeue, RunClosure, WaitWhileRunning, ProcessExit, SpuriousWakeup, vars
  <2> QED BY <2>1, <2>2, Zenon
<1> DEFINE Kinds ==
             /\ threads \in [Indices -> Natps \cup {NoThread}]
             /\ ldt \subseteq Slots
             /\ nacl_thread \in [Slots -> Natps \cup {NoThread}]
             /\ slot \in [Natps -> Slots \cup {NoSlot}]
             /\ thread_num \in [Natps -> Indices \cup {-1}]
             /\ state \in [Natps -> States]
             /\ privileged \in [Natps -> BOOLEAN]
             /\ on \in [Natps -> Natps \cup {NoThread}]
             /\ pc \in [Natps -> PCs]
<1>5. Kinds'
  <2>t. Kinds BY <1>t DEF TypeOK
  <2>1. ASSUME NEW t \in Natps, AllocateThread(t) PROVE Kinds'
    <3>1. PICK c \in Natps :
            /\ pc[t] = "app" /\ pc[c] = "free"
            /\ \/ /\ pc' = [pc EXCEPT ![t] = "leave", ![c] = "lost"]
                  /\ UNCHANGED <<slot, ldt, on>>
               \/ \E s \in Slots \ ldt :
                    /\ slot' = [slot EXCEPT ![c] = s]
                    /\ ldt' = ldt \cup {s}
                    /\ on' = [on EXCEPT ![t] = c]
                    /\ pc' = [pc EXCEPT ![t] = "ctor", ![c] = "made"]
      BY <1>t, <2>1, Allocation
    <3>2. UNCHANGED <<threads, nacl_thread, thread_num, state, privileged>>
      BY <2>1 DEF AllocateThread, napVars, natpVars, slotVars
    <3>3. pc' \in [Natps -> PCs] BY <2>t, <3>1 DEF PCs, Registered
    <3>4. slot' \in [Natps -> Slots \cup {NoSlot}] /\ ldt' \subseteq Slots BY <2>t, <3>1
    <3>5. on' \in [Natps -> Natps \cup {NoThread}] BY <2>t, <3>1
    <3> QED BY <2>t, <3>2, <3>3, <3>4, <3>5
  <2>2. ASSUME NEW t \in Natps, AppThreadCtor(t) PROVE Kinds'
    <3>1. PICK c : c = on[t] OBVIOUS
    <3>2. c \in Natps /\ pc[c] = "made"
      BY <2>2, <3>1 DEF AppThreadCtor, At, Creations
    <3>3. UNCHANGED <<threads, ldt, slot, on>> BY <2>2 DEF AppThreadCtor, napVars
    <3>4. state' = [state EXCEPT ![c] = ALIVE] /\ thread_num' = [thread_num EXCEPT ![c] = -1]
          /\ privileged' = [privileged EXCEPT ![c] = FALSE]
      BY <2>2, <3>1 DEF AppThreadCtor
    <3>5. nacl_thread' = [nacl_thread EXCEPT ![slot[c]] = c]
      BY <2>2, <3>1 DEF AppThreadCtor
    <3>6. nacl_thread' \in [Slots -> Natps \cup {NoThread}] BY <2>t, <3>2, <3>5
    <3>7. /\ state' \in [Natps -> States] /\ thread_num' \in [Natps -> Indices \cup {-1}]
          /\ privileged' \in [Natps -> BOOLEAN]
      BY <1>m, <2>t, <3>4
    <3>8. pc' \in [Natps -> PCs] BY <2>2, <2>t DEF AppThreadCtor, Moves, PCs, Registered
    <3> QED BY <2>t, <3>3, <3>6, <3>7, <3>8
  <2>3. ASSUME NEW t \in Natps, CtorFails(t) \/ ThreadCtor(t) PROVE Kinds'
    <3>1. UNCHANGED <<threads, ldt, nacl_thread, slot, thread_num, state, privileged>>
      BY <2>3 DEF CtorFails, ThreadCtor, napVars, natpVars, slotVars
    <3>2. pc' \in [Natps -> PCs] /\ on' \in [Natps -> Natps \cup {NoThread}]
      BY <2>3, <2>t DEF CtorFails, ThreadCtor, PCs, Registered
    <3> QED BY <2>t, <3>1, <3>2
  <2>4. ASSUME NEW t \in Natps, ThreadLauncher(t) PROVE Kinds'
    <3>1. pc[t] \notin Registered BY <2>4 DEF ThreadLauncher, At, Registered
    <3>2. PICK i : i = FirstAvail(threads) OBVIOUS
    <3>3. i \in Indices BY <1>t, <3>1, <3>2, FreeIndex
    <3>4. UNCHANGED <<ldt, nacl_thread, slot, state, privileged, on>>
      BY <2>4 DEF ThreadLauncher, slotVars
    <3>5. thread_num' = [thread_num EXCEPT ![t] = i] BY <2>4, <3>2 DEF ThreadLauncher
    <3>6. thread_num' \in [Natps -> Indices \cup {-1}] BY <2>t, <3>3, <3>5
    <3>7. threads' \in [Indices -> Natps \cup {NoThread}]
      BY <2>t, <2>4 DEF ThreadLauncher
    <3>8. pc' \in [Natps -> PCs] BY <2>t, <2>4 DEF ThreadLauncher, Moves, PCs, Registered
    <3> QED BY <2>t, <3>4, <3>6, <3>7, <3>8
  <2>5. ASSUME NEW t \in Natps, ThreadSuicide(t) PROVE Kinds'
    <3>1. UNCHANGED <<ldt, slot, thread_num, privileged, on>> BY <2>5 DEF ThreadSuicide
    <3>2. state' \in [Natps -> States] /\ threads' \in [Indices -> Natps \cup {NoThread}]
          /\ nacl_thread' \in [Slots -> Natps \cup {NoThread}]
      BY <1>m, <2>t, <2>5 DEF ThreadSuicide, ClearedTables
    <3>3. pc' \in [Natps -> PCs] BY <2>t, <2>5 DEF ThreadSuicide, Moves, PCs
    <3> QED BY <2>t, <3>1, <3>2, <3>3
  <2>6. ASSUME NEW t \in Natps, AppThreadDecRef(t) PROVE Kinds'
    <3>1. UNCHANGED <<threads, nacl_thread, on>> /\ ldt' \subseteq ldt
      BY <2>6 DEF AppThreadDecRef, napVars, TlsFreed
    <3>2. /\ slot' \in [Natps -> Slots \cup {NoSlot}]
          /\ thread_num' \in [Natps -> Indices \cup {-1}]
          /\ state' \in [Natps -> States] /\ privileged' \in [Natps -> BOOLEAN]
      BY <1>m, <2>t, <2>6 DEF AppThreadDecRef
    <3>3. pc' \in [Natps -> PCs] BY <2>t, <2>6 DEF AppThreadDecRef, Moves, PCs
    <3> QED BY <2>t, <3>1, <3>2, <3>3
  <2>7. ASSUME OtherStep PROVE Kinds'
    <3>1. /\ UNCHANGED <<slotVars, napVars, natpVars, on>>
          /\ \A x \in Natps : pc'[x] = pc[x] \/ (pc[x] \in Plain /\ pc'[x] \in Plain)
      BY <1>t, <2>7, OtherMoves
    <3>2. \A x \in Natps : pc'[x] \in PCs BY <2>t, <3>1 DEF Plain, PCs
    <3>3. \/ pc' = pc
          \/ \E t \in Natps : \E p : pc' = [pc EXCEPT ![t] = p]
          \/ pc' = [pc EXCEPT ![work[1]] = IF @ = "op_wait" THEN "op_check" ELSE @]
      BY <2>7, Zenon
      DEF OtherStep, MainStep, SpuriousWakeup, SyscallLeave, WaitForAsyncOp, SetExitStatus,
          SyscallFails, StartAsyncOp, SysExit, SysThreadExit, SyncQueueDequeue, RunClosure,
          WaitWhileRunning, ProcessExit, vars, Moves, ResultSignalled
    <3>4. pc' \in [Natps -> PCs] BY <2>t, <3>2, <3>3
    <3> QED BY <2>t, <3>1, <3>4 DEF slotVars, napVars, natpVars
  <2> HIDE DEF Kinds
  <2> QED BY <2>1, <2>2, <2>3, <2>4, <2>5, <2>6, <2>7, Steps
<1> DEFINE Jobs ==
             /\ queue \in Seq(Closures)
             /\ quit \in BOOLEAN
             /\ result \in [Natps -> 0 .. MaxOps]
             /\ asked \in [Natps -> 0 .. MaxOps]
             /\ mpc \in MainPCs
             /\ work \in Closures \cup {NoWork}
<1>6. Jobs'
  <2>t. Jobs BY <1>t DEF TypeOK
  <2>1. ASSUME NEW t \in Natps,
               AllocateThread(t) \/ CtorFails(t) \/ ThreadCtor(t) \/ ThreadLauncher(t)
               \/ ThreadSuicide(t) \/ SyscallLeave(t) \/ SyscallFails(t) \/ SysThreadExit(t)
        PROVE  Jobs'
    BY <2>t, <2>1
    DEF AllocateThread, CtorFails, ThreadCtor, ThreadLauncher, ThreadSuicide, SyscallLeave,
        SyscallFails, SysThreadExit, queueVars, opVars, mainVars
  <2>2. ASSUME NEW t \in Natps, AppThreadCtor(t) \/ AppThreadDecRef(t) PROVE Jobs'
    <3>1. /\ UNCHANGED <<queueVars, mainVars>>
          /\ result' = result \/ \E c : result' = [result EXCEPT ![c] = NoResult]
          /\ \E c : asked' = [asked EXCEPT ![c] = 0]
      BY <2>2 DEF AppThreadCtor, AppThreadDecRef
    <3>2. result' \in [Natps -> 0 .. MaxOps] /\ asked' \in [Natps -> 0 .. MaxOps]
      BY <1>m, <2>t, <3>1
    <3> QED BY <2>t, <3>1, <3>2 DEF queueVars, mainVars
  <2>3. ASSUME NEW t \in Natps, StartAsyncOp(t) PROVE Jobs'
    <3>1. asked[t] + 1 \in 1 .. MaxOps BY <2>t, <2>3, BoundAssumption DEF StartAsyncOp
    <3>2. asked'[t] = asked[t] + 1 BY <2>t, <2>3 DEF StartAsyncOp
    <3>3. <<t, asked'[t]>> \in Closures BY <3>1, <3>2 DEF Closures
    <3>4. queue' \in Seq(Closures) BY <2>t, <2>3, <3>3, AppendProperties DEF StartAsyncOp
    <3>5. asked' \in [Natps -> 0 .. MaxOps] BY <2>t, <2>3, <3>1 DEF StartAsyncOp
    <3>6. mpc' \in MainPCs BY <2>t, <2>3 DEF StartAsyncOp, QueueSignalled, MainPCs
    <3> QED BY <2>t, <2>3, <3>4, <3>5, <3>6 DEF StartAsyncOp
  <2>4. ASSUME NEW t \in Natps, WaitForAsyncOp(t) PROVE Jobs'
    <3>1. result' \in [Natps -> 0 .. MaxOps]
      BY <1>m, <2>t, <2>4 DEF WaitForAsyncOp, Taken
    <3> QED BY <2>t, <2>4, <3>1 DEF WaitForAsyncOp, queueVars, mainVars
  <2>5. ASSUME NEW t \in Natps, SysExit(t) \/ SetExitStatus(t) PROVE Jobs'
    BY <2>t, <2>5
    DEF SysExit, SetExitStatus, QuitSignalled, QueueSignalled, MainPCs, opVars, queueVars
  <2>6. ASSUME SyncQueueDequeue PROVE Jobs'
    <3>1. /\ UNCHANGED <<quit, result, asked>> /\ mpc' \in MainPCs
          /\ \/ UNCHANGED <<queue, work>>
             \/ queue # <<>> /\ work' = Head(queue) /\ queue' = Tail(queue)
      BY <2>6 DEF SyncQueueDequeue, MainPCs, Rest, opVars
    <3>2. CASE UNCHANGED <<queue, work>> BY <2>t, <3>1, <3>2
    <3>3. CASE queue # <<>> /\ work' = Head(queue) /\ queue' = Tail(queue)
      <4>1. work' \in Closures /\ queue' \in Seq(Closures)
        BY <2>t, <3>3, HeadTailProperties
      <4> QED BY <2>t, <3>1, <4>1
    <3> QED BY <3>1, <3>2, <3>3
  <2>7. ASSUME RunClosure PROVE Jobs'
    <3>1. work[1] \in Natps /\ work # NoWork
      BY <1>w, <2>7 DEF RunClosure, Operations, Unanswered, NoWork
    <3>2. work \in Closures BY <2>t, <3>1
    <3>3. work[2] \in 1 .. MaxOps BY <3>2 DEF Closures
    <3>4. PICK t, n : n = work[2] /\ result' = [result EXCEPT ![t] = n]
      BY <2>7 DEF RunClosure
    <3>5. n \in 0 .. MaxOps BY <3>3, <3>4, BoundAssumption
    <3>6. result' \in [Natps -> 0 .. MaxOps] BY <2>t, <3>4, <3>5
    <3>7. UNCHANGED <<queueVars, asked>> /\ mpc' = "dequeue" /\ work' = NoWork
      BY <2>7 DEF RunClosure
    <3> QED BY <2>t, <3>6, <3>7 DEF queueVars, MainPCs
  <2>8. ASSUME WaitWhileRunning \/ ProcessExit \/ SpuriousWakeup \/ UNCHANGED vars PROVE Jobs'
    <3>1. UNCHANGED <<queue, quit, result, asked, work>>
      BY <2>8, Zenon
      DEF WaitWhileRunning, ProcessExit, SpuriousWakeup, vars, queueVars, opVars, mainVars
    <3>2. mpc' \in MainPCs
      BY <2>t, <2>8 DEF WaitWhileRunning, ProcessExit, SpuriousWakeup, vars, mainVars, MainPCs
    <3> QED BY <2>t, <3>1, <3>2
  <2> HIDE DEF Jobs
  <2> QED
    BY <2>1, <2>2, <2>3, <2>4, <2>5, <2>6, <2>7, <2>8, Zenon
    DEF Next, RuntimeStep, SystemCall, MainStep
<1>7. restricted' \in BOOLEAN BY <1>t, <1>1, Zenon DEF TypeOK
<1> QED BY <1>2, <1>3, <1>4, <1>5, <1>6, <1>7 DEF TypeOK

-----------------------------------------------------------------------------
(* The theorems.                                                            *)

(* The runtime starts with one thread, launched and not yet in the table.   *)
LEMMA InitOK ==
  ASSUME Init
  PROVE  IInv
<1> USE DEF Init
<1>1. InModule = {} BY DEF InModule, Registered
<1>2. First \in Natps /\ NoThread \notin Natps BY NatpsAssumption
<1>3. 1 \in Slots /\ NoSlot \notin Slots BY SlotsAssumption DEF Slots, NoSlot
<1>4. TypeOK
  <2>1. Cardinality(Natps) \in Nat BY Objects
  <2>2. NoResult \in 0 .. MaxOps /\ 0 \in 0 .. MaxOps BY BoundAssumption DEF NoResult
  <2>3. /\ threads \in [Indices -> Natps \cup {NoThread}]
        /\ nacl_thread \in [Slots -> Natps \cup {NoThread}]
        /\ slot \in [Natps -> Slots \cup {NoSlot}]
        /\ on \in [Natps -> Natps \cup {NoThread}]
        /\ ldt \subseteq Slots
    BY <1>2, <1>3
  <2>4. pc \in [Natps -> PCs] /\ state \in [Natps -> States]
        /\ thread_num \in [Natps -> Indices \cup {-1}]
    BY DEF PCs, States
  <2>5. result \in [Natps -> 0 .. MaxOps] /\ asked \in [Natps -> 0 .. MaxOps]
    BY <2>2
  <2>6. privileged \in [Natps -> BOOLEAN] OBVIOUS
  <2>7. restricted \in BOOLEAN BY Zenon
  <2>8. queue \in Seq(Closures) BY EmptySeq
  <2>9. num_threads \in 0 .. Cardinality(Natps) BY <2>1
  <2> QED BY <2>3, <2>4, <2>5, <2>6, <2>7, <2>8, <2>9 DEF TypeOK, MainPCs
<1>5. Table BY <1>1, FS_EmptySet DEF Table
<1>6. Entries BY <1>2, <1>3 DEF Entries
<1>7. Creations BY DEF Creations
<1>8. Lookup BY <1>2, <1>3 DEF Lookup, Registered
<1>9. Operations
  <2>1. Len(queue) = 0 BY EmptySeq
  <2>2. \A t \in Natps : pc[t] \notin Waiting BY DEF Waiting
  <2> QED BY <2>1, <2>2 DEF Operations, Unanswered
<1>10. StatusRead /\ NoFatal BY DEF StatusRead, NoFatal
<1> QED BY <1>4, <1>5, <1>6, <1>7, <1>8, <1>9, <1>10 DEF IInv

(* The inductive invariant holds of every execution.                        *)
THEOREM ThreadsAgree == Spec => []IInv
<1>1. ASSUME IInv, [Next]_vars PROVE IInv'
  BY <1>1, TypesKept, TableKept, EntriesKept, CreationsKept, LookupKept, OperationsKept,
     StatusReadKept, NoneFatal
  DEF IInv
<1> QED BY <1>1, InitOK, PTL DEF Spec

(* nap->threads and num_threads account for the threads between launch and  *)
(* suicide, and the LDT entries in use for the objects, however many        *)
(* threads are created and end at once.                                     *)
THEOREM ThreadsAreCounted == Spec => []ThreadsAndSlotsCounted
<1>1. ASSUME IInv PROVE ThreadsAndSlotsCounted
  <2> USE <1>1 DEF IInv
  <2>1. \A t \in Natps : pc[t] \in Registered => threads[thread_num[t]] = t
    BY DEF Table, InModule
  <2>2. \A i \in Indices :
          threads[i] # NoThread => pc[threads[i]] \in Registered /\ thread_num[threads[i]] = i
    BY DEF Table, InModule
  <2>3. num_threads = Cardinality({t \in Natps : pc[t] \in Registered})
    BY DEF Table, InModule
  <2>4. ldt = {slot[t] : t \in Natps} \ {NoSlot}
    <3>1. NoSlot \notin Slots BY DEF NoSlot, Slots
    <3>2. \A s \in Slots : s \in ldt <=> \E t \in Natps : slot[t] = s BY DEF Entries
    <3>3. ldt \subseteq Slots /\ \A t \in Natps : slot[t] \in Slots \cup {NoSlot}
      BY DEF TypeOK
    <3> QED BY <3>1, <3>2, <3>3
  <2>5. \A t, u \in Natps : slot[t] = slot[u] /\ t # u => slot[t] = NoSlot BY DEF Entries
  <2>6. \A t \in Natps : pc[t] = "free" => slot[t] = NoSlot BY DEF Entries
  <2> QED BY <2>1, <2>2, <2>3, <2>4, <2>5, <2>6 DEF ThreadsAndSlotsCounted
<1> QED BY <1>1, ThreadsAgree, PTL

(* The lookup of a system call finds the thread that makes it, and no entry *)
(* of nacl_thread outlives its object.                                      *)
THEOREM CallersAreFound == Spec => []LookupFindsOwner
<1>1. ASSUME IInv PROVE LookupFindsOwner BY <1>1 DEF IInv, Lookup, LookupFindsOwner
<1> QED BY <1>1, ThreadsAgree, PTL

(* An operation is in the queue, with the main thread or answered, never in *)
(* two places and never answered for a thread that does not wait.           *)
THEOREM OperationsAreSingle == Spec => []OneOperationEach
<1>1. ASSUME IInv PROVE OneOperationEach
  <2> USE <1>1 DEF IInv
  <2>1. ASSUME NEW t \in Natps
        PROVE  /\ Queued(t) + (IF work[1] = t THEN 1 ELSE 0)
                            + (IF result[t] # NoResult THEN 1 ELSE 0)
                    = (IF pc[t] \in Waiting THEN 1 ELSE 0)
               /\ result[t] # NoResult => result[t] = asked[t]
    <3> DEFINE Places == {i \in 1 .. Len(queue) : queue[i][1] = t}
    <3>1. Queued(t) = Cardinality(Places) BY DEF Queued
    <3>2. CASE t \in Unanswered
      <4>1. pc[t] \in Waiting /\ result[t] = NoResult BY <3>2 DEF Unanswered
      <4>2. CASE work[1] = t
        <5>1. Places = {} BY <4>2 DEF Operations
        <5>2. Queued(t) = 0 BY <3>1, <5>1, FS_EmptySet
        <5> QED BY <4>1, <4>2, <5>2
      <4>3. CASE work[1] # t
        <5>1. PICK i \in 1 .. Len(queue) : queue[i][1] = t BY <3>2, <4>3 DEF Operations
        <5>2. Places = {i} BY <5>1 DEF Operations
        <5>3. Queued(t) = 1 BY <3>1, <5>2, FS_Singleton
        <5> QED BY <4>1, <4>3, <5>3
      <4> QED BY <4>2, <4>3
    <3>3. CASE t \notin Unanswered
      <4>1. work[1] # t /\ Places = {} BY <3>3, NotWaiting
      <4>2. Queued(t) = 0 BY <3>1, <4>1, FS_EmptySet
      <4>3. result[t] # NoResult <=> pc[t] \in Waiting
        BY <3>3 DEF Unanswered, Operations
      <4>4. result[t] # NoResult => result[t] = asked[t] BY DEF Operations
      <4> QED BY <4>1, <4>2, <4>3, <4>4
    <3> QED BY <3>2, <3>3
  <2> QED BY <2>1 DEF OneOperationEach
<1> QED BY <1>1, ThreadsAgree, PTL

(* The status the main thread takes was written by an exit, and no later    *)
(* exit changes it.                                                         *)
THEOREM StatusIsFinal == Spec => StatusStands
<1>1. ASSUME IInv, [Next]_vars
      PROVE  [/\ mpc' = "returned" => exit_status' # NoStatus
              /\ mpc \in {"returned", "exited"} => exit_status' = exit_status]_vars
  <2>1. NoStatus \notin Statuses BY StatusAssumption DEF NoStatus
  <2>2. mpc' = "returned" => exit_status' # NoStatus
    BY <1>1, <2>1, StatusStep, StatusReadKept DEF StatusRead, IInv
  <2>3. mpc \in {"returned", "exited"} => exit_status' = exit_status BY <1>1, StatusStep
  <2> QED BY <2>2, <2>3
<1> QED BY <1>1, ThreadsAgree, PTL DEF Spec, StatusStands
=============================================================================
