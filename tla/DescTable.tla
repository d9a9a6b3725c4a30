------------------------------ MODULE DescTable ------------------------------
(***************************************************************************)
(* The descriptor table of a module and the reference counts of its        *)
(* NaClDesc objects (sel_ldr.c, nacl_syscall_common.c and                  *)
(* nacl_memory_object.c under                                              *)
(* src/native_client/src/trusted/service_runtime, and nacl_desc_base.c     *)
(* under src/native_client/src/trusted/desc).                              *)
(*                                                                         *)
(* A place is where the runtime keeps a pointer that owns a reference: an  *)
(* entry of desc_tbl, the ndp of a thread's system call, the second object *)
(* of one that has two, and an entry of the memory map, by its NaClMemObj. *)
(* The sections under desc_mu, nap->mu and ndp->mu are one action each;    *)
(* the destructor runs after ndp->mu is released and is another.  The kind *)
(* of an object does not matter here: Close only unrefs in every class.    *)
(***************************************************************************)
EXTENDS Integers, FiniteSets

CONSTANTS
  Threads,     \* the threads of the module
  Objs,        \* the objects malloc may return for a NaClDesc
  Nil,         \* a null pointer to one
  NumHandles,  \* bound: the entries of desc_tbl, which grows as needed
  Regions      \* the regions of memory that are mapped, an entry each

ASSUME ObjsAssumption == Nil \notin Objs
ASSUME ThreadsAssumption == IsFiniteSet(Threads)
ASSUME RegionsAssumption == IsFiniteSet(Regions)
ASSUME HandlesAssumption == NumHandles \in Nat

VARIABLES
  holds,      \* the object each place points to
  ref_count,  \* ndp->ref_count
  alive,      \* ghost: the objects that are allocated
  dying,      \* the object whose last reference the thread dropped
  pc,         \* where each thread is
  fatal       \* ghost: whether a LOG_FATAL was reached

vars == <<holds, ref_count, alive, dying, pc, fatal>>

Handles == 0 .. NumHandles - 1
Entry(d) == <<"desc_tbl", d>>
Ndp(t) == <<"ndp", t>>
Other(t) == <<"other", t>>
Mapping(r) == <<"mem_map", r>>
Places == {Entry(d) : d \in Handles} \cup {Ndp(t) : t \in Threads}
            \cup {Other(t) : t \in Threads} \cup {Mapping(r) : r \in Regions}

(* app: in the module.  use: in a system call, with ndp.  made: has a new  *)
(* object.  out: at the end of the call, about to drop its references.     *)
(* destroy: in NaClDescUnref, ndp->mu released, the count was 0.           *)
PCs == {"app", "use", "made", "out", "destroy"}

Init ==
  /\ holds = [p \in Places |-> Nil]
  /\ ref_count = [o \in Objs |-> 0]
  /\ alive = {}
  /\ dying = [t \in Threads |-> Nil]
  /\ pc = [t \in Threads |-> "app"]
  /\ fatal = FALSE

Moves(t, p) == pc' = [pc EXCEPT ![t] = p]

(* NaClDescRef.                                                            *)
DescRef(count, o) == [count EXCEPT ![o] = @ + 1]

(* NaClDescUnref, under ndp->mu.                                           *)
DescUnref(count, o) == [count EXCEPT ![o] = @ - 1]

-----------------------------------------------------------------------------
(* Creation.                                                               *)

(* NaClDescCtor: a system call makes an object, or receives one with a     *)
(* message on ndp.                                                         *)
MakeDesc(t) ==
  /\ pc[t] \in {"app", "use"}
  /\ holds[Other(t)] = Nil
  /\ \E o \in Objs \ alive :
       /\ alive' = alive \cup {o}
       /\ ref_count' = [ref_count EXCEPT ![o] = 1]
       /\ holds' = [holds EXCEPT ![Other(t)] = o]
  /\ Moves(t, "made")
  /\ UNCHANGED <<dying, fatal>>

(* d is DynArrayFirstAvail(&nap->desc_tbl).                                *)
FirstAvail(d) ==
  holds[Entry(d)] = Nil /\ \A e \in 0 .. d - 1 : holds[Entry(e)] # Nil

(* NaClSetAvail: the table takes the reference over.  Bound: NumHandles.   *)
SetAvail(t) ==
  /\ pc[t] = "made"
  /\ \E d \in Handles :
       /\ FirstAvail(d)
       /\ holds' = [holds EXCEPT ![Entry(d)] = holds[Other(t)],
                                 ![Other(t)] = Nil]
  /\ Moves(t, "out")
  /\ UNCHANGED <<ref_count, alive, dying, fatal>>

(* A message had more objects than the module asked for, or is malformed:  *)
(* NaClCommonSysImc_Recvmsg drops the rest.                                *)
DropReceived(t) ==
  /\ pc[t] = "made"
  /\ holds[Ndp(t)] # Nil
  /\ Moves(t, "out")
  /\ UNCHANGED <<holds, ref_count, alive, dying, fatal>>

-----------------------------------------------------------------------------
(* Use.                                                                    *)

(* NaClGetDesc, with which the system calls on a descriptor start.         *)
GetDesc(t, d) ==
  /\ pc[t] = "app"
  /\ holds[Entry(d)] # Nil
  /\ holds' = [holds EXCEPT ![Ndp(t)] = holds[Entry(d)]]
  /\ ref_count' = DescRef(ref_count, holds[Entry(d)])
  /\ Moves(t, "use")
  /\ UNCHANGED <<alive, dying, fatal>>

(* NaClGetDesc for the mutex of a wait, or a descriptor that is sent.      *)
GetSecond(t, d) ==
  /\ pc[t] = "use"
  /\ holds[Other(t)] = Nil
  /\ holds[Entry(d)] # Nil
  /\ holds' = [holds EXCEPT ![Other(t)] = holds[Entry(d)]]
  /\ ref_count' = DescRef(ref_count, holds[Entry(d)])
  /\ UNCHANGED <<alive, dying, pc, fatal>>

(* The operation is done or has failed.                                    *)
Finish(t) ==
  /\ pc[t] = "use"
  /\ Moves(t, "out")
  /\ UNCHANGED <<holds, ref_count, alive, dying, fatal>>

(* Faulty variant: the mapping shares the reference of the system call.    *)
MapBorrowed(count, o) == count

(* NaClMemObjCtor, for the entry of the memory map.                        *)
MemObjCtor(count, o) == DescRef(count, o)

(* NaClCommonSysMmap on ndp, with NaClCommonUtilUpdateAddrMap: the entry   *)
(* that is overwritten is freed before nap->mu is released.                *)
Mmap(t, r) ==
  /\ pc[t] = "use"
  /\ holds[Other(t)] = Nil
  /\ ref_count' = MemObjCtor(ref_count, holds[Ndp(t)])
  /\ holds' = [holds EXCEPT ![Mapping(r)] = holds[Ndp(t)],
                            ![Other(t)] = holds[Mapping(r)]]
  /\ Moves(t, "out")
  /\ UNCHANGED <<alive, dying, fatal>>

(* NaClSysMunmap, or an anonymous mmap: NaClVmmapEntryFree follows.        *)
Munmap(t, r) ==
  /\ pc[t] = "app"
  /\ holds[Mapping(r)] # Nil
  /\ holds' = [holds EXCEPT ![Mapping(r)] = Nil,
                            ![Other(t)] = holds[Mapping(r)]]
  /\ Moves(t, "out")
  /\ UNCHANGED <<ref_count, alive, dying, fatal>>

-----------------------------------------------------------------------------
(* Release.                                                                *)

(* NaClCommonSysClose under desc_mu: NaClGetDescMu, and NaClSetDescMu with *)
(* NULL.  The Close method, which follows, drops the reference of ndp.     *)
Close(t, d) ==
  /\ pc[t] = "app"
  /\ holds[Entry(d)] # Nil
  /\ LET o == holds[Entry(d)]
     IN  /\ ref_count' = DescUnref(DescRef(ref_count, o), o)
         /\ holds' = [holds EXCEPT ![Entry(d)] = Nil, ![Ndp(t)] = o]
  /\ Moves(t, "out")
  /\ UNCHANGED <<alive, dying, fatal>>

(* Faulty variant: an object with one reference left is destroyed.         *)
LastButOne(n) == n <= 2

(* destroy = (0 == --ndp->ref_count), for the count before.                *)
Last(n) == n = 1

(* NaClDescUnref on one of the thread's objects, up to the destructor.     *)
Unref(t) ==
  /\ pc[t] = "out"
  /\ \E p \in {Ndp(t), Other(t)} :
       /\ holds[p] # Nil
       /\ holds' = [holds EXCEPT ![p] = Nil]
       /\ ref_count' = DescUnref(ref_count, holds[p])
       /\ fatal' = (fatal \/ ref_count[holds[p]] = 0)
       /\ IF Last(ref_count[holds[p]])
          THEN Moves(t, "destroy") /\ dying' = [dying EXCEPT ![t] = holds[p]]
          ELSE UNCHANGED <<pc, dying>>
  /\ UNCHANGED alive

(* Faulty variant: the destructor runs and the memory is not freed.        *)
NotFreed(o) == alive

(* What is allocated once o is freed.                                      *)
Freed(o) == alive \ {o}

(* The destructor, which ends in NaClDescDtor, and free.                   *)
Destroy(t) ==
  /\ pc[t] = "destroy"
  /\ fatal' = (fatal \/ ref_count[dying[t]] # 0)
  /\ alive' = Freed(dying[t])
  /\ dying' = [dying EXCEPT ![t] = Nil]
  /\ Moves(t, "out")
  /\ UNCHANGED <<holds, ref_count>>

(* The system call returns.                                                *)
Return(t) ==
  /\ pc[t] = "out"
  /\ holds[Ndp(t)] = Nil /\ holds[Other(t)] = Nil
  /\ Moves(t, "app")
  /\ UNCHANGED <<holds, ref_count, alive, dying, fatal>>

-----------------------------------------------------------------------------
Step(t) ==
  \/ MakeDesc(t)
  \/ SetAvail(t)
  \/ DropReceived(t)
  \/ \E d \in Handles : GetDesc(t, d) \/ GetSecond(t, d) \/ Close(t, d)
  \/ \E r \in Regions : Mmap(t, r) \/ Munmap(t, r)
  \/ Finish(t)
  \/ Unref(t)
  \/ Destroy(t)
  \/ Return(t)

Next == \E t \in Threads : Step(t)

Spec == Init /\ [][Next]_vars

-----------------------------------------------------------------------------
(* Every variable has the type of the code's; a reference count is         *)
(* unsigned and does not go below 0 (ref_count of struct NaClDesc).        *)
TypeOK ==
  /\ holds \in [Places -> Objs \cup {Nil}]
  /\ ref_count \in [Objs -> Nat]
  /\ alive \subseteq Objs
  /\ dying \in [Threads -> Objs \cup {Nil}]
  /\ pc \in [Threads -> PCs]
  /\ fatal \in BOOLEAN

Holders(o) == {p \in Places : holds[p] = o}

(* The reference count of every object is the number of the places that    *)
(* point to it, at every step of every interleaving of lookups, closes,    *)
(* transfers and mappings (NaClDescRef, NaClDescUnref and their callers).  *)
CountsReferences == \A o \in Objs : ref_count[o] = Cardinality(Holders(o))

(* No place of the runtime points to memory that was freed: a descriptor   *)
(* that one thread closes while another uses it, or that is mapped, stays. *)
HeldIsAlive == \A p \in Places : holds[p] # Nil => holds[p] \in alive

(* An object that nothing points to any more is destroyed, by exactly one  *)
(* thread: nothing leaks and nothing is freed twice (NaClDescUnref).       *)
DestroyedOnce ==
  \A o \in alive :
    Holders(o) = {} => Cardinality({t \in Threads : dying[t] = o}) = 1

(* No LOG_FATAL is reached: NaClDescUnref never finds a count of 0, and    *)
(* NaClDescDtor never finds another one.                                   *)
NoFatal == ~fatal

(* An entry of the table is not overwritten while it is in use: it is      *)
(* cleared by a close before a new object takes the number                 *)
(* (NaClSetAvailMu).                                                       *)
EntryKept ==
  [][\A d \in Handles :
       holds[Entry(d)] # Nil => holds'[Entry(d)] \in {holds[Entry(d)], Nil}]_vars
=============================================================================
