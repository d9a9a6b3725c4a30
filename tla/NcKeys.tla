------------------------------- MODULE NcKeys -------------------------------
(***************************************************************************)
(* Thread-specific data of the untrusted pthread library (nc_thread.c):    *)
(* pthread_key_create, pthread_key_delete, pthread_setspecific,            *)
(* pthread_getspecific and the destructors that pthread_exit calls.        *)
(*                                                                         *)
(* A key is a place of __nc_thread_specific_storage.  Its generation is    *)
(* odd while the key is allocated; it is read, and changed by compare and  *)
(* swap, without a lock, and the destructor is written in a step of its    *)
(* own.  A value is abstracted to the use of the key, counted by `uses',   *)
(* under which it was stored, and so is the destructor: 0 is NULL.  The    *)
(* module uses a key from the return of the call that created it to the    *)
(* only call that deletes it.                                              *)
(***************************************************************************)
EXTENDS Naturals, FiniteSets

CONSTANTS
  Threads,
  KeysMax,     \* PTHREAD_KEYS_MAX
  UintMax,     \* UINT_MAX, which is odd
  Iterations,  \* PTHREAD_DESTRUCTOR_ITERATIONS
  MaxUses      \* bound: the keys created

VARIABLES
  generation, destruction_callback, \* of __nc_thread_specific_storage
  thread_specific_data, \* of each thread: a generation and a value per key
  pc, i, seen, callback, left, \* where a thread is, and its local variables
  use,      \* ghost: the use of each key that is current
  usable,   \* ghost: the keys the module may use
  uses      \* ghost: the uses so far

vars == <<generation, destruction_callback, thread_specific_data, pc, i, seen,
          callback, left, use, usable, uses>>
shared == <<generation, destruction_callback, thread_specific_data>>
ghosts == <<use, usable, uses>>

(* What is assumed of the constants.                                       *)
Bounds ==
  /\ KeysMax \in Nat \ {0} /\ Iterations \in Nat \ {0} /\ MaxUses \in Nat
  /\ UintMax \in Nat /\ UintMax % 2 = 1

Keys == 0 .. KeysMax - 1
Null == 0
Free == "free"
KeyAllocated(g) == g % 2 = 1

TypeOK ==
  /\ generation \in [Keys -> 0 .. UintMax]
  /\ destruction_callback \in [Keys -> 0 .. MaxUses]
  /\ thread_specific_data \in
       [Threads -> [Keys -> [generation : 0 .. UintMax, ptr : 0 .. MaxUses]]]
  /\ pc \in [Threads -> {Free, "create", "swap", "fill", "delete", "unswap",
                         "clear", "store", "exit", "destroy", "gone"}]
  /\ i \in [Threads -> 0 .. KeysMax]
  /\ seen \in [Threads -> 0 .. UintMax]
  /\ callback \in [Threads -> 0 .. MaxUses]
  /\ left \in [Threads -> 0 .. Iterations]
  /\ use \in [Keys -> 0 .. MaxUses]
  /\ usable \subseteq Keys
  /\ uses \in 0 .. MaxUses

Init ==
  /\ generation = [k \in Keys |-> 0]
  /\ destruction_callback = [k \in Keys |-> Null]
  /\ thread_specific_data =
       [t \in Threads |-> [k \in Keys |-> [generation |-> 0, ptr |-> Null]]]
  /\ pc = [t \in Threads |-> Free]
  /\ i = [t \in Threads |-> 0]
  /\ seen = [t \in Threads |-> 0]
  /\ callback = [t \in Threads |-> Null]
  /\ left = [t \in Threads |-> 0]
  /\ use = [k \in Keys |-> 0]
  /\ usable = {}
  /\ uses = 0

Goto(t, l) == pc' = [pc EXCEPT ![t] = l]
Read(t, k) == seen' = [seen EXCEPT ![t] = generation[k]]

-----------------------------------------------------------------------------
(* pthread_key_create.                                                     *)

CreateCalled(t) ==
  /\ pc[t] = Free
  /\ Goto(t, "create")
  /\ i' = [i EXCEPT ![t] = 0]
  /\ UNCHANGED <<shared, seen, callback, left, ghosts>>

(* Faulty variant: the generation wraps around.                            *)
ReusableForever(g) == ~KeyAllocated(g)

(* The last even generation is not used again.                             *)
Reusable(g) == ~KeyAllocated(g) /\ g # UintMax - 1

CreateReads(t) ==
  /\ pc[t] = "create" /\ i[t] < KeysMax
  /\ Read(t, i[t])
  /\ IF Reusable(generation[i[t]])
     THEN Goto(t, "swap") /\ UNCHANGED i
     ELSE i' = [i EXCEPT ![t] = @ + 1] /\ UNCHANGED pc
  /\ UNCHANGED <<shared, callback, left, ghosts>>

(* EAGAIN.                                                                 *)
NoKeyLeft(t) ==
  /\ pc[t] = "create" /\ i[t] = KeysMax
  /\ Goto(t, Free)
  /\ UNCHANGED <<shared, i, seen, callback, left, ghosts>>

Increment(g) == (g + 1) % (UintMax + 1)

CreateSwaps(t) ==
  LET k == i[t]
  IN /\ pc[t] = "swap" /\ generation[k] = seen[t] /\ uses < MaxUses
     /\ generation' = [generation EXCEPT ![k] = Increment(@)]
     /\ uses' = uses + 1
     /\ use' = [use EXCEPT ![k] = uses + 1]
     /\ callback' = [callback EXCEPT ![t] = uses + 1]
     /\ Goto(t, "fill")
     /\ UNCHANGED <<destruction_callback, thread_specific_data, i, seen, left, usable>>

CreateLoses(t) ==
  /\ pc[t] = "swap" /\ generation[i[t]] # seen[t]
  /\ i' = [i EXCEPT ![t] = @ + 1]
  /\ Goto(t, "create")
  /\ UNCHANGED <<shared, seen, callback, left, ghosts>>

CreateReturns(t) ==
  /\ pc[t] = "fill"
  /\ destruction_callback' = [destruction_callback EXCEPT ![i[t]] = callback[t]]
  /\ usable' = usable \cup {i[t]}
  /\ Goto(t, Free)
  /\ UNCHANGED <<generation, thread_specific_data, i, seen, callback, left, use, uses>>

-----------------------------------------------------------------------------
(* pthread_key_delete.                                                     *)

DeleteCalled(t, k) ==
  /\ pc[t] = Free /\ k \in usable
  /\ usable' = usable \ {k}
  /\ i' = [i EXCEPT ![t] = k]
  /\ Read(t, k)
  /\ Goto(t, IF KeyAllocated(generation[k]) THEN "unswap" ELSE Free)
  /\ UNCHANGED <<shared, callback, left, use, uses>>

DeleteSwaps(t) ==
  LET k == i[t]
  IN /\ pc[t] = "unswap"
     /\ IF generation[k] = seen[t]
        THEN /\ generation' = [generation EXCEPT ![k] = Increment(@)]
             /\ use' = [use EXCEPT ![k] = 0]
             /\ Goto(t, "clear")
        ELSE Goto(t, Free) /\ UNCHANGED <<generation, use>>
     /\ UNCHANGED <<destruction_callback, thread_specific_data, i, seen, callback,
                    left, usable, uses>>

DeleteClears(t) ==
  /\ pc[t] = "clear"
  /\ destruction_callback' = [destruction_callback EXCEPT ![i[t]] = Null]
  /\ Goto(t, Free)
  /\ UNCHANGED <<generation, thread_specific_data, i, seen, callback, left, ghosts>>

-----------------------------------------------------------------------------
(* pthread_setspecific and pthread_getspecific.                            *)

(* The value that is stored belongs to the use the key is in at the call.  *)
SetCalled(t, k) ==
  /\ pc[t] = Free /\ k \in usable
  /\ Read(t, k)
  /\ i' = [i EXCEPT ![t] = k]
  /\ callback' = [callback EXCEPT ![t] = use[k]]
  /\ Goto(t, IF KeyAllocated(generation[k]) THEN "store" ELSE Free)
  /\ UNCHANGED <<shared, left, ghosts>>

Store(t, k, g, ptr) ==
  thread_specific_data' =
    [thread_specific_data EXCEPT ![t][k] = [generation |-> g, ptr |-> ptr]]

SetStores(t) ==
  /\ pc[t] = "store"
  /\ Store(t, i[t], seen[t], callback[t])
  /\ Goto(t, Free)
  /\ UNCHANGED <<generation, destruction_callback, i, seen, callback, left, ghosts>>

GetSpecific(t, k) ==
  LET d == thread_specific_data[t][k]
  IN IF d.generation = generation[k] THEN d.ptr ELSE Null

-----------------------------------------------------------------------------
(* The destructors, called by pthread_exit.                                *)

ExitCalled(t) ==
  /\ pc[t] = Free
  /\ Goto(t, "exit")
  /\ i' = [i EXCEPT ![t] = 0]
  /\ left' = [left EXCEPT ![t] = Iterations]
  /\ seen' = [seen EXCEPT ![t] = 0] \* nothing_to_do, so far
  /\ UNCHANGED <<shared, callback, ghosts>>

ReadDestructor(t) ==
  /\ pc[t] = "exit" /\ i[t] < KeysMax
  /\ callback' = [callback EXCEPT ![t] = destruction_callback[i[t]]]
  /\ Goto(t, "destroy")
  /\ UNCHANGED <<shared, i, seen, left, ghosts>>

ToDestroy(t, k) ==
  /\ KeyAllocated(generation[k])
  /\ thread_specific_data[t][k].generation = generation[k]
  /\ thread_specific_data[t][k].ptr # Null
  /\ callback[t] # Null

(* The destructor is called, and may store a value again.                  *)
CallDestructor(t, again) ==
  LET k == i[t]
      d == thread_specific_data[t][k]
  IN /\ pc[t] = "destroy" /\ ToDestroy(t, k)
     /\ IF again THEN UNCHANGED thread_specific_data
                 ELSE Store(t, k, d.generation, Null)
     /\ seen' = [seen EXCEPT ![t] = 1]
     /\ i' = [i EXCEPT ![t] = @ + 1]
     /\ Goto(t, "exit")
     /\ UNCHANGED <<generation, destruction_callback, callback, left, ghosts>>

SkipKey(t) ==
  /\ pc[t] = "destroy" /\ ~ToDestroy(t, i[t])
  /\ i' = [i EXCEPT ![t] = @ + 1]
  /\ Goto(t, "exit")
  /\ UNCHANGED <<shared, seen, callback, left, ghosts>>

(* Again from the first key, if anything was destroyed, and not for ever.  *)
NextIteration(t) ==
  /\ pc[t] = "exit" /\ i[t] = KeysMax
  /\ IF seen[t] = 1 /\ left[t] > 1
     THEN i' = [i EXCEPT ![t] = 0] /\ UNCHANGED pc
     ELSE Goto(t, "gone") /\ UNCHANGED i
  /\ left' = [left EXCEPT ![t] = @ - 1]
  /\ seen' = [seen EXCEPT ![t] = 0]
  /\ UNCHANGED <<shared, callback, ghosts>>

-----------------------------------------------------------------------------
Step(t) ==
  \/ CreateCalled(t) \/ CreateReads(t) \/ NoKeyLeft(t) \/ CreateSwaps(t)
  \/ CreateLoses(t) \/ CreateReturns(t)
  \/ \E k \in Keys : DeleteCalled(t, k) \/ SetCalled(t, k)
  \/ DeleteSwaps(t) \/ DeleteClears(t) \/ SetStores(t)
  \/ ExitCalled(t) \/ ReadDestructor(t) \/ SkipKey(t) \/ NextIteration(t)
  \/ \E again \in BOOLEAN : CallDestructor(t, again)

Next == \E t \in Threads : Step(t)

Spec == Init /\ [][Next]_vars

-----------------------------------------------------------------------------

(* Where the module may use a key, pthread_getspecific gives it a value of *)
(* this use of the key or NULL, never one stored under an earlier key of   *)
(* the same number, and no destructor but the key's own gets the value:    *)
(* stale values are told by the generation alone.  Two calls of            *)
(* pthread_key_create that run at the same time never return the same key, *)
(* and a key is not created again before it is deleted.                    *)
ValuesOfThisKey ==
  /\ \A t \in Threads, k \in Keys :
       /\ k \in usable => GetSpecific(t, k) \in {Null, use[k]}
       /\ pc[t] = "destroy" /\ i[t] = k /\ ToDestroy(t, k) =>
            callback[t] = thread_specific_data[t][k].ptr
  /\ \A t \in Threads :
       pc[t] = "fill" => i[t] \notin usable /\ use[i[t]] = callback[t]
  /\ \A k \in usable : KeyAllocated(generation[k]) /\ use[k] # 0

=============================================================================
