--------------------------- MODULE DescTableProofs ---------------------------
(***************************************************************************)
(* Proofs about DescTable, for any number of threads, objects, entries and *)
(* regions: reference counts are exact, so nothing in use is freed,        *)
(* nothing unused stays and no object is destroyed twice.                  *)
(***************************************************************************)
EXTENDS DescTable, FiniteSetTheorems, TLAPS

(* There are finitely many places.                                         *)
LEMMA PlacesFinite == IsFiniteSet(Places)
<1>1. IsFiniteSet(Handles)
  BY FS_Interval, HandlesAssumption DEF Handles
<1>2. IsFiniteSet({Entry(d) : d \in Handles})
  <2>1. [d \in Handles |-> Entry(d)] \in Surjection(Handles, {Entry(d) : d \in Handles})
    BY DEF Surjection
  <2> QED BY <1>1, <2>1, FS_Surjection
<1>3. IsFiniteSet({Ndp(t) : t \in Threads})
  <2>1. [t \in Threads |-> Ndp(t)] \in Surjection(Threads, {Ndp(t) : t \in Threads})
    BY DEF Surjection
  <2> QED BY ThreadsAssumption, <2>1, FS_Surjection
<1>4. IsFiniteSet({Other(t) : t \in Threads})
  <2>1. [t \in Threads |-> Other(t)] \in Surjection(Threads, {Other(t) : t \in Threads})
    BY DEF Surjection
  <2> QED BY ThreadsAssumption, <2>1, FS_Surjection
<1>5. IsFiniteSet({Mapping(r) : r \in Regions})
  <2>1. [r \in Regions |-> Mapping(r)] \in Surjection(Regions, {Mapping(r) : r \in Regions})
    BY DEF Surjection
  <2> QED BY RegionsAssumption, <2>1, FS_Surjection
<1> QED BY <1>2, <1>3, <1>4, <1>5, FS_Union DEF Places

(* The places are what they are made of, and are different.                *)
LEMMA PlacesDiffer ==
  /\ \A d \in Handles : Entry(d) \in Places
  /\ \A t \in Threads : Ndp(t) \in Places /\ Other(t) \in Places
  /\ \A r \in Regions : Mapping(r) \in Places
  /\ \A d \in Handles, t \in Threads : Entry(d) # Ndp(t) /\ Entry(d) # Other(t)
  /\ \A t, u \in Threads : Ndp(t) # Other(u)
  /\ \A t, u \in Threads : t # u => Ndp(t) # Ndp(u) /\ Other(t) # Other(u)
  /\ \A r \in Regions, t \in Threads : Mapping(r) # Ndp(t) /\ Mapping(r) # Other(t)
  /\ \A r \in Regions, d \in Handles : Mapping(r) # Entry(d)
  /\ \A d, e \in Handles : d # e => Entry(d) # Entry(e)
BY DEF Places, Entry, Ndp, Other, Mapping

Count(h, o) == Cardinality({p \in Places : h[p] = o})

Pointers == [Places -> Objs \cup {Nil}]

(* The number of the places that point to an object is a natural number,   *)
(* and is not 0 if there is one.                                           *)
LEMMA CountType ==
  ASSUME NEW h \in Pointers, NEW p \in Places, NEW o \in Objs
  PROVE  Count(h, o) \in Nat /\ (h[p] = o => Count(h, o) # 0)
<1> DEFINE S == {q \in Places : h[q] = o}
<1>1. IsFiniteSet(S)
  BY PlacesFinite, FS_Subset
<1>2. Cardinality(S) \in Nat /\ (h[p] = o => Cardinality(S) # 0)
  BY <1>1, FS_CardinalityType, FS_EmptySet
<1> QED BY <1>2 DEF Count

(* What a change of one place does to the number of the places that point  *)
(* to an object.                                                           *)
LEMMA Counting ==
  ASSUME NEW h \in Pointers, NEW g \in Pointers, NEW p \in Places,
         NEW o \in Objs, \A q \in Places \ {p} : g[q] = h[q]
  PROVE  Count(g, o) = IF g[p] = o
                       THEN IF h[p] = o THEN Count(h, o) ELSE Count(h, o) + 1
                       ELSE IF h[p] = o THEN Count(h, o) - 1 ELSE Count(h, o)
<1> DEFINE S == {q \in Places : h[q] = o}
           T == {q \in Places : g[q] = o}
<1>1. IsFiniteSet(S)
  BY PlacesFinite, FS_Subset
<1>2. g[p] # o /\ h[p] # o => T = S
  OBVIOUS
<1>3. g[p] = o /\ h[p] = o => T = S
  OBVIOUS
<1>4. g[p] = o /\ h[p] # o => T = S \cup {p} /\ p \notin S
  OBVIOUS
<1>5. g[p] # o /\ h[p] = o => T = S \ {p} /\ p \in S
  OBVIOUS
<1>6. Cardinality(S \cup {p}) = IF p \in S THEN Cardinality(S) ELSE Cardinality(S) + 1
  BY <1>1, FS_AddElement
<1>7. Cardinality(S \ {p}) = IF p \in S THEN Cardinality(S) - 1 ELSE Cardinality(S)
  BY <1>1, FS_RemoveElement
<1>8. Count(h, o) = Cardinality(S) /\ Count(g, o) = Cardinality(T)
  BY DEF Count
<1> HIDE DEF S, T
<1> QED BY <1>2, <1>3, <1>4, <1>5, <1>6, <1>7, <1>8

-----------------------------------------------------------------------------
(* The inductive invariant: exact counts, and what each thread holds where *)
(* it is.                                                                  *)
Counted == \A o \in Objs : ref_count[o] = Count(holds, o)
Allocated == \A o \in Objs : ref_count[o] # 0 => o \in alive
InCall ==
  \A t \in Threads :
    /\ pc[t] = "app" => holds[Ndp(t)] = Nil /\ holds[Other(t)] = Nil
    /\ pc[t] = "use" => holds[Ndp(t)] # Nil
    /\ pc[t] = "made" => holds[Other(t)] # Nil
Dying ==
  \A t \in Threads :
    /\ pc[t] = "destroy" => dying[t] # Nil
    /\ dying[t] # Nil => /\ pc[t] = "destroy"
                         /\ dying[t] \in alive
                         /\ ref_count[dying[t]] = 0
                         /\ \A u \in Threads : dying[u] = dying[t] => u = t
Reaped == \A o \in alive : ref_count[o] = 0 => \E t \in Threads : dying[t] = o
IInv == TypeOK /\ Counted /\ Allocated /\ InCall /\ Dying /\ Reaped /\ ~fatal

(* An object that a place points to has a count, and is allocated.         *)
LEMMA HeldCounts ==
  ASSUME TypeOK, Counted, Allocated, NEW p \in Places, holds[p] # Nil
  PROVE  holds[p] \in Objs /\ ref_count[holds[p]] # 0 /\ holds[p] \in alive
<1>1. holds[p] \in Objs
  BY DEF TypeOK
<1>2. Count(holds, holds[p]) # 0
  BY <1>1, CountType DEF TypeOK, Pointers
<1> QED BY <1>1, <1>2 DEF Counted, Allocated

(* Initially nothing is allocated.                                         *)
LEMMA InvInit == Init => IInv
<1> SUFFICES ASSUME Init PROVE IInv
  OBVIOUS
<1>1. TypeOK
  BY DEF Init, TypeOK, PCs
<1>2. Counted
  <2> SUFFICES ASSUME NEW o \in Objs PROVE ref_count[o] = Count(holds, o)
    BY DEF Counted
  <2>1. {p \in Places : holds[p] = o} = {}
    BY ObjsAssumption DEF Init
  <2> QED BY <2>1, FS_EmptySet DEF Init, Count
<1>3. Allocated /\ InCall /\ Dying /\ Reaped
  BY PlacesDiffer DEF Init, Allocated, InCall, Dying, Reaped
<1>4. ~fatal
  BY DEF Init
<1> QED BY <1>1, <1>2, <1>3, <1>4 DEF IInv

(* NaClDescCtor keeps the invariant: nothing points to the new object.     *)
LEMMA MakeDescStep ==
  ASSUME IInv, NEW t \in Threads, MakeDesc(t) PROVE IInv'
<1> USE DEF IInv
<1> PICK o \in Objs \ alive :
      /\ alive' = alive \cup {o}
      /\ ref_count' = [ref_count EXCEPT ![o] = 1]
      /\ holds' = [holds EXCEPT ![Other(t)] = o]
  BY DEF MakeDesc
<1>1. holds[Other(t)] = Nil /\ pc[t] \in {"app", "use"} /\ UNCHANGED <<dying, fatal>>
      /\ pc' = [pc EXCEPT ![t] = "made"]
  BY DEF MakeDesc, Moves
<1>2. TypeOK'
  BY <1>1, PlacesDiffer DEF TypeOK, PCs
<1>3. ref_count[o] = 0 /\ o # Nil
  BY ObjsAssumption DEF Allocated, TypeOK
<1>4. Counted'
  <2> SUFFICES ASSUME NEW x \in Objs PROVE ref_count'[x] = Count(holds', x)
    BY DEF Counted
  <2>1. holds[Other(t)] # x /\ Other(t) \in Places /\ holds \in Pointers
    BY <1>1, PlacesDiffer, ObjsAssumption DEF TypeOK, Pointers
  <2>2. holds' \in Pointers /\ holds'[Other(t)] = o
        /\ \A q \in Places \ {Other(t)} : holds'[q] = holds[q]
    BY <2>1 DEF Pointers
  <2>3. Count(holds', x) = IF o = x THEN Count(holds, x) + 1 ELSE Count(holds, x)
    BY ONLY <2>1, <2>2, x \in Objs, Counting
  <2>4. ref_count[x] = Count(holds, x)
    BY DEF Counted
  <2>5. ref_count'[x] = IF o = x THEN ref_count[x] + 1 ELSE ref_count[x]
    BY <1>3 DEF TypeOK
  <2> QED BY <2>3, <2>4, <2>5
<1>5. Allocated' /\ Reaped'
  BY <1>1, <1>3 DEF Allocated, Reaped, TypeOK
<1>6. InCall'
  BY <1>1, <1>3, PlacesDiffer DEF InCall, TypeOK
<1>7. Dying'
  BY <1>1, <1>3 DEF Dying, TypeOK
<1> QED BY <1>1, <1>2, <1>4, <1>5, <1>6, <1>7

(* A step of t that only moves references between places, and leaves the   *)
(* number of those to each object, keeps the invariant.                    *)
LEMMA MoveStep ==
  ASSUME IInv, NEW t \in Threads, NEW p \in Places, NEW q \in Places, p # q,
         holds[q] = Nil, holds' = [holds EXCEPT ![q] = holds[p], ![p] = Nil],
         UNCHANGED <<ref_count, alive, dying, fatal>>,
         pc' = [pc EXCEPT ![t] = "out"], dying[t] = Nil,
         \A u \in Threads \ {t} : /\ p # Ndp(u) /\ p # Other(u)
                                  /\ q # Ndp(u) /\ q # Other(u)
  PROVE  IInv'
<1> USE DEF IInv
<1> DEFINE g == [holds EXCEPT ![q] = holds[p]]
<1>1. holds \in Pointers /\ holds' \in Pointers
  BY DEF TypeOK, Pointers
<1>2. TypeOK'
  BY <1>1 DEF TypeOK, PCs, Pointers
<1>3. ASSUME NEW o \in Objs PROVE Count(holds', o) = Count(holds, o)
  <2>1. g \in Pointers /\ (\A r \in Places \ {q} : g[r] = holds[r])
        /\ g[q] = holds[p] /\ g[p] = holds[p]
    BY <1>1 DEF Pointers
  <2>2. (\A r \in Places \ {p} : holds'[r] = g[r]) /\ holds'[p] = Nil
    BY <1>1 DEF Pointers
  <2>3. Nil # o /\ Count(holds, o) \in Nat
    BY <1>1, ObjsAssumption, CountType
  <2> HIDE DEF g
  <2>4. Count(g, o) = IF holds[p] = o THEN Count(holds, o) + 1 ELSE Count(holds, o)
    BY ONLY <1>1, <2>1, <2>3, holds[q] = Nil, o \in Objs, q \in Places, Counting
  <2>5. Count(holds', o) = IF holds[p] = o THEN Count(g, o) - 1 ELSE Count(g, o)
    BY ONLY <1>1, <2>1, <2>2, <2>3, o \in Objs, p \in Places, Counting
  <2> QED BY <2>3, <2>4, <2>5
<1>4. Counted'
  BY <1>3 DEF Counted
<1>5. Allocated' /\ Reaped'
  BY DEF Allocated, Reaped
<1>6. InCall'
  BY PlacesDiffer DEF InCall, TypeOK
<1>7. Dying'
  BY DEF Dying, TypeOK
<1> QED BY <1>2, <1>4, <1>5, <1>6, <1>7

(* NaClSetAvail keeps the invariant.                                       *)
LEMMA SetAvailStep ==
  ASSUME IInv, NEW t \in Threads, SetAvail(t) PROVE IInv'
<1> PICK d \in Handles :
      /\ FirstAvail(d)
      /\ holds' = [holds EXCEPT ![Entry(d)] = holds[Other(t)], ![Other(t)] = Nil]
  BY DEF SetAvail
<1>1. holds[Entry(d)] = Nil
  BY DEF FirstAvail
<1>2. UNCHANGED <<ref_count, alive, dying, fatal>> /\ pc' = [pc EXCEPT ![t] = "out"]
  BY DEF SetAvail, Moves
<1>3. dying[t] = Nil
  BY DEF SetAvail, IInv, Dying
<1>4. /\ Entry(d) \in Places /\ Other(t) \in Places /\ Other(t) # Entry(d)
      /\ \A u \in Threads \ {t} : /\ Other(t) # Ndp(u) /\ Other(t) # Other(u)
                                  /\ Entry(d) # Ndp(u) /\ Entry(d) # Other(u)
  BY PlacesDiffer
<1> QED BY <1>1, <1>2, <1>3, <1>4, MoveStep

(* Munmap keeps the invariant.                                             *)
LEMMA MunmapStep ==
  ASSUME IInv, NEW t \in Threads, NEW r \in Regions, Munmap(t, r) PROVE IInv'
<1>1. holds' = [holds EXCEPT ![Other(t)] = holds[Mapping(r)], ![Mapping(r)] = Nil]
  BY PlacesDiffer DEF Munmap, IInv, TypeOK
<1>2. UNCHANGED <<ref_count, alive, dying, fatal>> /\ pc' = [pc EXCEPT ![t] = "out"]
  BY DEF Munmap, Moves
<1>3. dying[t] = Nil /\ holds[Other(t)] = Nil
  BY DEF Munmap, IInv, Dying, InCall
<1>4. /\ Mapping(r) \in Places /\ Other(t) \in Places /\ Mapping(r) # Other(t)
      /\ \A u \in Threads \ {t} : /\ Mapping(r) # Ndp(u) /\ Mapping(r) # Other(u)
                                  /\ Other(t) # Ndp(u) /\ Other(t) # Other(u)
  BY PlacesDiffer
<1> QED BY <1>1, <1>2, <1>3, <1>4, MoveStep

(* NaClCommonSysClose keeps the invariant.                                 *)
LEMMA CloseStep ==
  ASSUME IInv, NEW t \in Threads, NEW d \in Handles, Close(t, d) PROVE IInv'
<1>1. holds' = [holds EXCEPT ![Ndp(t)] = holds[Entry(d)], ![Entry(d)] = Nil]
  BY PlacesDiffer DEF Close, IInv, TypeOK
<1>2. holds[Entry(d)] \in Objs
  BY PlacesDiffer DEF Close, IInv, TypeOK
<1>3. ref_count' = ref_count
  BY <1>2 DEF Close, DescRef, DescUnref, IInv, TypeOK
<1>4. UNCHANGED <<alive, dying, fatal>> /\ pc' = [pc EXCEPT ![t] = "out"]
  BY DEF Close, Moves
<1>5. dying[t] = Nil /\ holds[Ndp(t)] = Nil
  BY DEF Close, IInv, Dying, InCall
<1>6. /\ Entry(d) \in Places /\ Ndp(t) \in Places /\ Entry(d) # Ndp(t)
      /\ \A u \in Threads \ {t} : /\ Entry(d) # Ndp(u) /\ Entry(d) # Other(u)
                                  /\ Ndp(t) # Ndp(u) /\ Ndp(t) # Other(u)
  BY PlacesDiffer
<1> QED BY <1>1, <1>3, <1>4, <1>5, <1>6, MoveStep

(* A step of t that takes one more reference to an object that is held     *)
(* keeps the invariant.                                                    *)
LEMMA RefStep ==
  ASSUME IInv, NEW t \in Threads, NEW p \in Places, NEW q \in Places,
         holds[p] # Nil, holds[q] = Nil, q \in {Ndp(t), Other(t)},
         holds' = [holds EXCEPT ![q] = holds[p]],
         ref_count' = [ref_count EXCEPT ![holds[p]] = @ + 1],
         pc' = [pc EXCEPT ![t] = "use"],
         q = Other(t) => pc[t] = "use",
         UNCHANGED <<alive, dying, fatal>>, dying[t] = Nil
  PROVE  IInv'
<1> USE DEF IInv
<1>1. holds[p] \in Objs /\ ref_count[holds[p]] # 0 /\ holds[p] \in alive
  BY HeldCounts
<1>2. TypeOK'
  BY <1>1 DEF TypeOK, PCs
<1>3. Counted'
  <2> SUFFICES ASSUME NEW x \in Objs PROVE ref_count'[x] = Count(holds', x)
    BY DEF Counted
  <2>1. holds[q] # x /\ holds \in Pointers
    BY ObjsAssumption DEF TypeOK, Pointers
  <2>2. holds' \in Pointers /\ holds'[q] = holds[p]
        /\ \A r \in Places \ {q} : holds'[r] = holds[r]
    BY <2>1 DEF Pointers
  <2>3. Count(holds', x) = IF holds[p] = x THEN Count(holds, x) + 1 ELSE Count(holds, x)
    BY ONLY <2>1, <2>2, x \in Objs, q \in Places, Counting
  <2>4. ref_count[x] = Count(holds, x)
    BY DEF Counted
  <2>5. ref_count'[x] = IF holds[p] = x THEN ref_count[x] + 1 ELSE ref_count[x]
    BY <1>1 DEF TypeOK
  <2> QED BY <2>3, <2>4, <2>5
<1>4. Allocated' /\ Reaped'
  BY <1>1 DEF Allocated, Reaped, TypeOK
<1>5. InCall'
  BY <1>1, PlacesDiffer, ObjsAssumption DEF InCall, TypeOK
<1>6. Dying'
  BY <1>1 DEF Dying, TypeOK
<1> QED BY <1>2, <1>3, <1>4, <1>5, <1>6

(* NaClGetDesc keeps the invariant, for the first object of a call.        *)
LEMMA GetDescStep ==
  ASSUME IInv, NEW t \in Threads, NEW d \in Handles, GetDesc(t, d) PROVE IInv'
<1>1. pc[t] = "app" /\ dying[t] = Nil /\ holds[Ndp(t)] = Nil
  BY DEF GetDesc, IInv, Dying, InCall
<1>2. holds[Entry(d)] # Nil /\ holds' = [holds EXCEPT ![Ndp(t)] = holds[Entry(d)]]
      /\ ref_count' = [ref_count EXCEPT ![holds[Entry(d)]] = @ + 1]
      /\ pc' = [pc EXCEPT ![t] = "use"] /\ UNCHANGED <<alive, dying, fatal>>
  BY DEF GetDesc, DescRef, Moves
<1> QED BY <1>1, <1>2, RefStep, PlacesDiffer

(* NaClGetDesc keeps the invariant, for the second object of a call.       *)
LEMMA GetSecondStep ==
  ASSUME IInv, NEW t \in Threads, NEW d \in Handles, GetSecond(t, d) PROVE IInv'
<1>1. pc[t] = "use" /\ dying[t] = Nil /\ holds[Other(t)] = Nil
  BY DEF GetSecond, IInv, Dying
<1>2. holds[Entry(d)] # Nil /\ holds' = [holds EXCEPT ![Other(t)] = holds[Entry(d)]]
      /\ ref_count' = [ref_count EXCEPT ![holds[Entry(d)]] = @ + 1]
      /\ UNCHANGED <<alive, dying, pc, fatal>>
  BY DEF GetSecond, DescRef
<1>3. pc' = [pc EXCEPT ![t] = "use"]
  BY <1>1, <1>2 DEF IInv, TypeOK
<1> QED BY <1>1, <1>2, <1>3, RefStep, PlacesDiffer

(* NaClCommonSysMmap keeps the invariant.                                  *)
LEMMA MmapStep ==
  ASSUME IInv, NEW t \in Threads, NEW r \in Regions, Mmap(t, r) PROVE IInv'
<1> USE DEF IInv
<1> DEFINE n == holds[Ndp(t)]
           m == holds[Mapping(r)]
           g == [holds EXCEPT ![Other(t)] = m]
<1>1. /\ pc[t] = "use" /\ holds[Other(t)] = Nil /\ pc' = [pc EXCEPT ![t] = "out"]
      /\ UNCHANGED <<alive, dying, fatal>>
      /\ ref_count' = [ref_count EXCEPT ![n] = @ + 1]
      /\ holds' = [holds EXCEPT ![Mapping(r)] = n, ![Other(t)] = m]
  BY DEF Mmap, Moves, MemObjCtor, DescRef
<1>2. /\ Ndp(t) \in Places /\ Other(t) \in Places /\ Mapping(r) \in Places
      /\ Mapping(r) # Other(t) /\ Ndp(t) # Other(t) /\ Ndp(t) # Mapping(r)
  BY PlacesDiffer
<1>3. n \in Objs /\ n \in alive /\ ref_count[n] # 0
  BY <1>1, <1>2, HeldCounts DEF InCall
<1>4. holds \in Pointers /\ m \in Objs \cup {Nil} /\ holds' \in Pointers
  BY <1>1, <1>2, <1>3 DEF TypeOK, Pointers
<1>5. TypeOK'
  BY <1>1, <1>3, <1>4 DEF TypeOK, PCs, Pointers
<1>6. Counted'
  <2> SUFFICES ASSUME NEW x \in Objs PROVE ref_count'[x] = Count(holds', x)
    BY DEF Counted
  <2>1. /\ g \in Pointers /\ g[Other(t)] = m /\ g[Mapping(r)] = m
        /\ \A q \in Places \ {Other(t)} : g[q] = holds[q]
    BY <1>2, <1>4 DEF Pointers
  <2>2. /\ \A q \in Places \ {Mapping(r)} : holds'[q] = g[q]
        /\ holds'[Mapping(r)] = n
    BY <1>1, <1>2, <1>4 DEF Pointers
  <2>3. Nil # x /\ Count(holds, x) \in Nat /\ ref_count[x] = Count(holds, x)
    BY <1>2, <1>4, ObjsAssumption, CountType DEF Counted
  <2>4. ref_count'[x] = IF n = x THEN ref_count[x] + 1 ELSE ref_count[x]
    BY <1>1, <1>3 DEF TypeOK
  <2> HIDE DEF g, n, m
  <2>5. Count(g, x) = IF m = x THEN Count(holds, x) + 1 ELSE Count(holds, x)
    BY ONLY <1>1, <1>2, <1>4, <2>1, <2>3, x \in Objs, Counting
  <2>6. Count(holds', x) = IF n = x
                           THEN IF m = x THEN Count(g, x) ELSE Count(g, x) + 1
                           ELSE IF m = x THEN Count(g, x) - 1 ELSE Count(g, x)
    BY ONLY <1>2, <1>4, <2>1, <2>2, x \in Objs, Counting
  <2> QED BY <2>3, <2>4, <2>5, <2>6
<1>7. Allocated' /\ Reaped'
  BY <1>1, <1>3 DEF Allocated, Reaped, TypeOK
<1>8. InCall'
  BY <1>1, PlacesDiffer DEF InCall, TypeOK
<1>9. Dying'
  BY <1>1, <1>3 DEF Dying, TypeOK
<1> QED BY <1>1, <1>5, <1>6, <1>7, <1>8, <1>9

(* NaClDescUnref keeps the invariant, and its count is not 0.              *)
LEMMA UnrefStep ==
  ASSUME IInv, NEW t \in Threads, Unref(t) PROVE IInv'
<1> USE DEF IInv
<1> PICK p \in {Ndp(t), Other(t)} :
      /\ holds[p] # Nil
      /\ holds' = [holds EXCEPT ![p] = Nil]
      /\ ref_count' = [ref_count EXCEPT ![holds[p]] = @ - 1]
      /\ fatal' = (fatal \/ ref_count[holds[p]] = 0)
      /\ IF ref_count[holds[p]] = 1
         THEN /\ pc' = [pc EXCEPT ![t] = "destroy"]
              /\ dying' = [dying EXCEPT ![t] = holds[p]]
         ELSE UNCHANGED <<pc, dying>>
  BY DEF Unref, Moves, DescUnref, Last
<1> DEFINE o == holds[p]
<1>1. p \in Places /\ alive' = alive /\ pc[t] = "out" /\ dying[t] = Nil
  BY PlacesDiffer DEF Unref, Dying
<1>2. o \in Objs /\ ref_count[o] # 0 /\ ref_count[o] \in Nat /\ o \in alive
  BY <1>1, HeldCounts DEF TypeOK
<1>3. ~fatal'
  BY <1>2
<1>4. TypeOK'
  <2>1. ref_count' \in [Objs -> Nat]
    BY <1>2 DEF TypeOK
  <2>2. holds' \in [Places -> Objs \cup {Nil}]
    BY <1>1 DEF TypeOK
  <2>3. pc' \in [Threads -> PCs] /\ dying' \in [Threads -> Objs \cup {Nil}]
    BY <1>2 DEF TypeOK, PCs
  <2>4. alive' \subseteq Objs
    BY <1>1 DEF TypeOK
  <2>5. fatal' \in BOOLEAN
    BY <1>3
  <2> QED BY <2>1, <2>2, <2>3, <2>4, <2>5 DEF TypeOK
<1>5. Counted'
  <2> SUFFICES ASSUME NEW x \in Objs PROVE ref_count'[x] = Count(holds', x)
    BY DEF Counted
  <2>1. holds \in Pointers /\ holds' \in Pointers /\ Nil # x /\ holds'[p] = Nil
        /\ \A q \in Places \ {p} : holds'[q] = holds[q]
    BY <1>1, <1>4, ObjsAssumption DEF TypeOK, Pointers
  <2>2. Count(holds', x) = IF o = x THEN Count(holds, x) - 1 ELSE Count(holds, x)
    BY ONLY <1>1, <2>1, x \in Objs, Counting
  <2>3. ref_count[x] = Count(holds, x)
    BY DEF Counted
  <2>4. ref_count'[x] = IF o = x THEN ref_count[x] - 1 ELSE ref_count[x]
    BY <1>2 DEF TypeOK
  <2> QED BY <2>2, <2>3, <2>4
<1>6. \A x \in Objs : ref_count'[x] = IF o = x THEN ref_count[o] - 1 ELSE ref_count[x]
  BY <1>2 DEF TypeOK
<1>7. Allocated'
  BY <1>1, <1>2, <1>6 DEF Allocated
<1>8. InCall'
  <2>1. \A u \in Threads \ {t} : p # Ndp(u) /\ p # Other(u)
    BY PlacesDiffer
  <2>2. pc'[t] \in {"out", "destroy"} /\ \A u \in Threads \ {t} : pc'[u] = pc[u]
    BY <1>1 DEF TypeOK
  <2>3. \A u \in Threads \ {t} : /\ holds'[Ndp(u)] = holds[Ndp(u)]
                                /\ holds'[Other(u)] = holds[Other(u)]
    BY <2>1, PlacesDiffer DEF TypeOK
  <2> QED BY <2>2, <2>3 DEF InCall
<1>9. Dying' /\ Reaped'
  <2>1. CASE ref_count[o] = 1
    <3>1. /\ dying'[t] = o /\ pc'[t] = "destroy" /\ o # Nil /\ ref_count'[o] = 0
          /\ \A u \in Threads \ {t} : dying'[u] = dying[u] /\ pc'[u] = pc[u]
      BY <1>2, <1>6, <2>1, ObjsAssumption DEF TypeOK
    <3>2. \A u \in Threads : dying[u] # o
      BY <2>1, ObjsAssumption, <1>2 DEF Dying
    <3>3. Dying'
      <4> SUFFICES ASSUME NEW u \in Threads
                   PROVE  /\ pc'[u] = "destroy" => dying'[u] # Nil
                          /\ dying'[u] # Nil =>
                               /\ pc'[u] = "destroy"
                               /\ dying'[u] \in alive'
                               /\ ref_count'[dying'[u]] = 0
                               /\ \A w \in Threads : dying'[w] = dying'[u] => w = u
        BY DEF Dying
      <4>1. CASE u = t
        BY <1>1, <1>2, <3>1, <3>2, <4>1
      <4>2. CASE u # t
        <5>1. dying'[u] = dying[u] /\ pc'[u] = pc[u] /\ dying[u] # o
          BY <3>1, <3>2, <4>2
        <5>2. dying[u] # Nil => dying[u] \in Objs
          BY DEF TypeOK
        <5>3. dying[u] # Nil => ref_count'[dying[u]] = ref_count[dying[u]]
          BY <1>6, <5>1, <5>2
        <5>4. \A w \in Threads : dying'[w] = dying[u] => w # t /\ dying[w] = dying[u]
          BY <3>1, <5>1
        <5> QED BY <1>1, <5>1, <5>3, <5>4 DEF Dying
      <4> QED BY <4>1, <4>2
    <3>4. Reaped'
      <4> SUFFICES ASSUME NEW x \in alive, ref_count'[x] = 0
                   PROVE  \E u \in Threads : dying'[u] = x
        BY <1>1 DEF Reaped
      <4>1. CASE x = o
        BY <3>1, <4>1
      <4>2. CASE x # o
        <5>1. x \in Objs /\ x # Nil /\ ref_count[x] = 0
          BY <1>6, <4>2, ObjsAssumption DEF TypeOK
        <5>2. PICK u \in Threads : dying[u] = x
          BY <5>1 DEF Reaped
        <5>3. u # t
          BY <1>1, <5>1, <5>2 DEF Dying
        <5> QED BY <3>1, <5>2, <5>3
      <4> QED BY <4>1, <4>2
    <3> QED BY <3>3, <3>4
  <2>2. CASE ref_count[o] # 1
    <3>1. ref_count'[o] # 0 /\ dying' = dying /\ pc' = pc
      BY <1>2, <1>6, <2>2
    <3>2. \A u \in Threads : dying[u] # Nil => dying[u] \in Objs /\ dying[u] # o
      BY <1>2 DEF Dying, TypeOK
    <3>3. Dying'
      BY <1>1, <1>6, <3>1, <3>2 DEF Dying
    <3>4. Reaped'
      BY <1>1, <1>6, <3>1 DEF Reaped, TypeOK
    <3> QED BY <3>3, <3>4
  <2> QED BY <2>1, <2>2
<1> QED BY <1>3, <1>4, <1>5, <1>7, <1>8, <1>9

(* The destructor keeps the invariant, and finds a count of 0.             *)
LEMMA DestroyStep ==
  ASSUME IInv, NEW t \in Threads, Destroy(t) PROVE IInv'
<1> USE DEF IInv
<1>1. /\ pc[t] = "destroy" /\ alive' = alive \ {dying[t]}
      /\ dying' = [dying EXCEPT ![t] = Nil] /\ pc' = [pc EXCEPT ![t] = "out"]
      /\ UNCHANGED <<holds, ref_count>>
      /\ fatal' = (fatal \/ ref_count[dying[t]] # 0)
  BY DEF Destroy, Moves, Freed
<1>2. dying[t] # Nil /\ dying[t] \in alive /\ ref_count[dying[t]] = 0
      /\ \A u \in Threads : dying[u] = dying[t] => u = t
  BY <1>1 DEF Dying
<1>3. ~fatal'
  BY <1>1, <1>2
<1>4. TypeOK'
  BY <1>1, <1>3 DEF TypeOK, PCs
<1>5. Counted'
  BY <1>1 DEF Counted
<1>6. Allocated' /\ Reaped'
  BY <1>1, <1>2 DEF Allocated, Reaped, TypeOK
<1>7. InCall'
  BY <1>1 DEF InCall, TypeOK
<1>8. Dying'
  BY <1>1, <1>2 DEF Dying, TypeOK
<1> QED BY <1>3, <1>4, <1>5, <1>6, <1>7, <1>8

(* A step that only moves a thread on keeps the invariant.                 *)
LEMMA MovesOnStep ==
  ASSUME IInv, NEW t \in Threads, DropReceived(t) \/ Finish(t) \/ Return(t)
  PROVE  IInv'
<1> USE DEF IInv
<1>1. /\ UNCHANGED <<holds, ref_count, alive, dying, fatal>> /\ dying[t] = Nil
      /\ \/ pc' = [pc EXCEPT ![t] = "out"]
         \/ /\ pc' = [pc EXCEPT ![t] = "app"]
            /\ holds[Ndp(t)] = Nil /\ holds[Other(t)] = Nil
  BY DEF DropReceived, Finish, Return, Moves, Dying
<1>2. TypeOK'
  BY <1>1 DEF TypeOK, PCs
<1>3. Counted' /\ Allocated' /\ Reaped'
  BY <1>1 DEF Counted, Allocated, Reaped
<1>4. InCall'
  BY <1>1 DEF InCall, TypeOK
<1>5. Dying'
  BY <1>1 DEF Dying, TypeOK
<1> QED BY <1>1, <1>2, <1>3, <1>4, <1>5

(* Every step keeps the invariant.                                         *)
LEMMA InvStep == IInv /\ [Next]_vars => IInv'
<1> SUFFICES ASSUME IInv, [Next]_vars PROVE IInv'
  OBVIOUS
<1>1. CASE UNCHANGED vars
  BY <1>1 DEF vars, IInv, TypeOK, Counted, Allocated, InCall, Dying, Reaped
<1>2. ASSUME NEW t \in Threads, Step(t) PROVE IInv'
  BY <1>2, MakeDescStep, SetAvailStep, MovesOnStep, GetDescStep, GetSecondStep,
     CloseStep, MmapStep, MunmapStep, UnrefStep, DestroyStep DEF Step
<1> QED BY <1>1, <1>2 DEF Next

(* The invariant holds throughout.                                         *)
LEMMA Invariance == Spec => []IInv
BY InvInit, InvStep, PTL DEF Spec

-----------------------------------------------------------------------------
(* The variables keep their types; no reference count goes below 0.        *)
THEOREM TypesHold == Spec => []TypeOK
<1>1. IInv => TypeOK
  BY DEF IInv
<1> QED BY Invariance, <1>1, PTL

(* Reference counts are exact, for every number of threads and objects.    *)
THEOREM CountsExact == Spec => []CountsReferences
<1>1. IInv => CountsReferences
  BY DEF IInv, Counted, Count, CountsReferences, Holders
<1> QED BY Invariance, <1>1, PTL

(* Nothing that the runtime points to is freed.                            *)
THEOREM NothingDangles == Spec => []HeldIsAlive
<1>1. IInv => HeldIsAlive
  BY HeldCounts DEF IInv, HeldIsAlive
<1> QED BY Invariance, <1>1, PTL

(* An object that nothing points to is about to be freed, once.            *)
THEOREM UnusedDestroyed == Spec => []DestroyedOnce
<1>1. IInv => DestroyedOnce
  <2> SUFFICES ASSUME IInv, NEW o \in alive, Holders(o) = {}
               PROVE  Cardinality({t \in Threads : dying[t] = o}) = 1
    BY DEF DestroyedOnce
  <2>1. o \in Objs
    BY DEF IInv, TypeOK
  <2>2. ref_count[o] = 0
    BY <2>1, FS_EmptySet DEF IInv, Counted, Count, Holders
  <2>3. PICK t \in Threads : dying[t] = o
    BY <2>2 DEF IInv, Reaped
  <2>4. {u \in Threads : dying[u] = o} = {t}
    BY <2>1, <2>3, ObjsAssumption DEF IInv, Dying
  <2> QED BY <2>4, FS_Singleton
<1> QED BY Invariance, <1>1, PTL

(* The fatal checks of NaClDescUnref and NaClDescDtor never fire.          *)
THEOREM FatalUnreached == Spec => []NoFatal
<1>1. IInv => NoFatal
  BY DEF IInv, NoFatal
<1> QED BY Invariance, <1>1, PTL

(* A step of a thread clears an entry of the table or leaves it, unless    *)
(* the entry was free.                                                     *)
LEMMA EntryStep ==
  ASSUME TypeOK, NEW t \in Threads, Step(t), NEW d \in Handles,
         holds[Entry(d)] # Nil
  PROVE  holds'[Entry(d)] \in {holds[Entry(d)], Nil}
<1> DEFINE p == Entry(d)
<1>1. p \in Places /\ p # Ndp(t) /\ p # Other(t) /\ Ndp(t) \in Places
      /\ Other(t) \in Places /\ \A r \in Regions : p # Mapping(r) /\ Mapping(r) \in Places
  BY PlacesDiffer
<1>2. DOMAIN holds = Places
  BY DEF TypeOK
<1>3. CASE SetAvail(t)
  <2>1. PICK e \in Handles :
          /\ holds[Entry(e)] = Nil
          /\ holds' = [holds EXCEPT ![Entry(e)] = holds[Other(t)], ![Other(t)] = Nil]
    BY <1>3 DEF SetAvail, FirstAvail
  <2>2. p # Entry(e)
    BY <2>1
  <2> QED BY <1>1, <1>2, <2>1, <2>2
<1>4. ASSUME NEW e \in Handles, Close(t, e) PROVE holds'[p] \in {holds[p], Nil}
  <2>1. holds' = [holds EXCEPT ![Entry(e)] = Nil, ![Ndp(t)] = holds[Entry(e)]]
    BY <1>4 DEF Close
  <2>2. Entry(e) \in Places /\ Entry(e) # Ndp(t)
    BY PlacesDiffer
  <2>3. CASE p = Entry(e)
    <3>1. holds'[Entry(e)] = Nil
      BY <1>1, <1>2, <2>1, <2>2
    <3> QED BY <2>3, <3>1
  <2>4. CASE p # Entry(e)
    <3>1. holds'[p] = holds[p]
      BY <1>1, <1>2, <2>1, <2>4
    <3> QED BY <3>1
  <2> QED BY <2>3, <2>4
<1>5. ASSUME NEW r \in Regions, Mmap(t, r) \/ Munmap(t, r) PROVE holds'[p] = holds[p]
  BY <1>1, <1>2, <1>5 DEF Mmap, Munmap
<1>6. CASE MakeDesc(t) \/ DropReceived(t) \/ Finish(t) \/ Unref(t) \/ Destroy(t) \/ Return(t)
  BY <1>1, <1>2, <1>6 DEF MakeDesc, DropReceived, Finish, Unref, Destroy, Return
<1>7. ASSUME NEW e \in Handles, GetDesc(t, e) \/ GetSecond(t, e) PROVE holds'[p] = holds[p]
  BY <1>1, <1>2, <1>7 DEF GetDesc, GetSecond
<1> QED BY <1>3, <1>4, <1>5, <1>6, <1>7 DEF Step

(* A number names the same object until it is closed, whatever the other   *)
(* threads do.                                                             *)
THEOREM NumbersKept == Spec => EntryKept
<1> DEFINE Kept == \A d \in Handles :
                     holds[Entry(d)] # Nil =>
                       holds'[Entry(d)] \in {holds[Entry(d)], Nil}
<1>1. IInv /\ [Next]_vars => [Kept]_vars
  <2> SUFFICES ASSUME IInv, NEW t \in Threads, Step(t) PROVE Kept
    BY DEF Next
  <2> QED BY EntryStep DEF IInv
<1> QED BY Invariance, <1>1, PTL DEF Spec, EntryKept
=============================================================================
