-------------------------------- MODULE VmMap --------------------------------
(***************************************************************************)
(* The memory map of a module: the array of regions of sel_mem.c, the      *)
(* memory objects of nacl_memory_object.c that say what backs a region,    *)
(* and the system calls that change them, mmap, munmap and brk             *)
(* (nacl_syscall_common.c, linux/nacl_syscall_impl.c), next to the memory  *)
(* itself as the host's mmap and mprotect leave it.                        *)
(*                                                                         *)
(* Addresses are page numbers.  A call holds nap->mu from the search for a *)
(* place to the last update of the map, so it is one step.  A call that is *)
(* refused changes nothing and is not a step here.                         *)
(***************************************************************************)
EXTENDS Integers, Sequences, SequencesExt, FiniteSets

CONSTANTS
  NumPages,    \* the size of the address space, in pages
  PagesPerMap, \* NACL_PAGES_PER_MAP, the pages of an allocation unit
  TextStart, TextEnd, \* the pages of the trampolines and the text
  DataEnd,     \* the pages up to nap->data_end
  StackStart,  \* the first page of the main thread's stack
  Files,       \* the descriptors of files that can be mapped
  NoFile,      \* a null descriptor: anonymous memory
  FileSize,    \* the size of each file, in pages
  Hole,        \* a page in no region
  Places,      \* the places, and
  Lengths,     \* the lengths, that the calls are made with
  Offsets,     \* the offsets in a file that are mapped, aligned
  MaxCalls     \* bound: the calls that change something

(* What is assumed of the constants.                                       *)
Bounds ==
  /\ NumPages \in Nat /\ PagesPerMap \in Nat \ {0} /\ FileSize \in Nat
  /\ {TextStart, TextEnd, DataEnd, StackStart} \subseteq Nat
  /\ 0 < TextStart /\ TextStart < TextEnd /\ TextEnd < DataEnd
  /\ DataEnd <= StackStart /\ StackStart < NumPages
  /\ StackStart % PagesPerMap = 0 /\ NumPages % PagesPerMap = 0
  /\ NoFile \notin Files
  /\ Places \subseteq Nat /\ Lengths \subseteq Nat \ {0}
  /\ Offsets \subseteq {k \in Nat : k % PagesPerMap = 0} /\ MaxCalls \in Nat
  /\ Hole \notin [prot : {"none", "rx", "rw"}, file : Files \cup {NoFile}, at : Nat]

VARIABLES
  vmentry,   \* mem_map.vmentry up to nvalid
  objs,      \* the NaClMemObj that are allocated
  brk,       \* nap->break_addr
  mem,       \* what the host has at each page
  disturbed, \* ghost: the module mapped or unmapped over its own data, or
             \* the host refused to make pages inaccessible
  fatal,     \* ghost: whether a LOG_FATAL was reached
  calls      \* the calls so far

vars == <<vmentry, objs, brk, mem, disturbed, fatal, calls>>

Pages == 0 .. NumPages - 1
Prots == {"none", "rx", "rw"}
NoObj == 0
Anonymous(prot) == [prot |-> prot, file |-> NoFile, at |-> 0]
Backed(prot, file, at) == [prot |-> prot, file |-> file, at |-> at]
Min2(a, b) == IF a <= b THEN a ELSE b

RoundUp(n) == ((n + PagesPerMap - 1) \div PagesPerMap) * PagesPerMap
RoundDown(n) == (n \div PagesPerMap) * PagesPerMap

Region(page_num, npages, prot, nmop) ==
  [page_num |-> page_num, npages |-> npages, prot |-> prot, nmop |-> nmop,
   removed |-> FALSE]
EndPage(e) == e.page_num + e.npages

(* The regions a module starts with: the pages that catch null pointers,   *)
(* the trampolines and text, the data, and the stack.                      *)
FirstRegions ==
  <<Region(0, TextStart, "none", NoObj),
    Region(TextStart, TextEnd - TextStart, "rx", NoObj),
    Region(TextEnd, RoundUp(DataEnd) - TextEnd, "rw", NoObj),
    Region(StackStart, NumPages - StackStart, "rw", NoObj)>>

Holding(v, p) == {i \in DOMAIN v : v[i].page_num <= p /\ p < EndPage(v[i])}

(* What the map says of a page.                                            *)
Says(v, o, p) ==
  LET here == Holding(v, p)
      e == v[CHOOSE i \in here : TRUE]
  IN IF here = {} THEN Hole
     ELSE IF e.nmop = NoObj THEN Anonymous(e.prot)
     ELSE Backed(e.prot, o[e.nmop].file, o[e.nmop].offset + p - e.page_num)

Init ==
  /\ vmentry = FirstRegions
  /\ objs = <<>>
  /\ brk = DataEnd
  /\ mem = [p \in Pages |->
              LET said == Says(FirstRegions, <<>>, p)
              IN IF said = Hole THEN Anonymous("none") ELSE said]
  /\ disturbed = FALSE
  /\ fatal = FALSE
  /\ calls = 0

-----------------------------------------------------------------------------
(* The array.                                                              *)

(* v without the removed entries at its end.                               *)
DropTail(v) ==
  LET kept == {i \in DOMAIN v : ~v[i].removed}
  IN IF kept = {} THEN <<>>
     ELSE SubSeq(v, 1, CHOOSE i \in kept : \A j \in kept : j <= i)

(* Entry i, if it is to go, gives its place to the last one.               *)
FillFromEnd(v, i) ==
  IF i < Len(v) /\ v[i].removed
  THEN DropTail(SubSeq([v EXCEPT ![i] = v[Len(v)]], 1, Len(v) - 1))
  ELSE v

RemoveMarked(v) ==
  LET filled[i \in 0 .. Len(v)] ==
        IF i = 0 THEN DropTail(v) ELSE FillFromEnd(filled[i - 1], i)
  IN filled[Len(v)]

(* Entry k of the sorted array has k - 1 before it; none start together.   *)
Below(v, i) == {j \in DOMAIN v : v[j].page_num < v[i].page_num}
MakeSorted(v) ==
  [k \in DOMAIN v |-> v[CHOOSE i \in DOMAIN v : Cardinality(Below(v, i)) = k - 1]]

-----------------------------------------------------------------------------
(* The memory objects.                                                     *)

FreshObj(o) == CHOOSE n \in 1 .. Cardinality(DOMAIN o) + 1 :
                 n \notin DOMAIN o /\ \A k \in 1 .. n - 1 : k \in DOMAIN o
Allocate(o, n, file, offset) ==
  [k \in DOMAIN o \cup {n} |->
     IF k = n THEN [file |-> file, offset |-> offset] ELSE o[k]]

(* Faulty variant: the object of a region cut at its start is left alone.    *)
OffsetKept(o, n, additional) == o

(* NaClMemObjIncOffset; the null object has no offset.                     *)
IncOffset(o, n, additional) ==
  IF n = NoObj THEN o ELSE [o EXCEPT ![n].offset = @ + additional]

-----------------------------------------------------------------------------
(* The update of the map with a region: st is the array and the objects.   *)

Split(e, first, end) == e.page_num < first /\ end < EndPage(e)
OverlapsEnd(e, first, end) ==
  /\ ~Split(e, first, end)
  /\ e.page_num < first /\ first < EndPage(e)
OverlapsStart(e, first, end) ==
  first <= e.page_num /\ e.page_num < end /\ end < EndPage(e)
Covers(e, first, end) == first <= e.page_num /\ EndPage(e) <= end

Cut(e, first, end) ==
  IF Split(e, first, end) \/ OverlapsEnd(e, first, end)
  THEN [e EXCEPT !.npages = first - e.page_num]
  ELSE IF OverlapsStart(e, first, end)
       THEN [e EXCEPT !.page_num = end, !.npages = EndPage(e) - end]
  ELSE IF Covers(e, first, end) THEN [e EXCEPT !.removed = TRUE]
  ELSE e

(* Faulty variant: both parts of a split region share one object.            *)
SharedPart(st, e, end) ==
  [vm |-> Append(st.vm, Region(end, EndPage(e) - end, e.prot, e.nmop)),
   objs |-> st.objs]

(* The part of a split region above the new one: its object is a copy of   *)
(* the region's, further on in the file.                                   *)
UpperPart(st, e, end) ==
  IF e.nmop = NoObj
  THEN [vm |-> Append(st.vm, Region(end, EndPage(e) - end, e.prot, NoObj)),
        objs |-> st.objs]
  ELSE LET n == FreshObj(st.objs)
       IN [vm |-> Append(st.vm, Region(end, EndPage(e) - end, e.prot, n)),
           objs |-> Allocate(st.objs, n, st.objs[e.nmop].file,
                             st.objs[e.nmop].offset + end - e.page_num)]

(* The loop of NaClVmmapUpdate.  It cuts the entries that overlap the new   *)
(* region, and ends at the one that reaches past its end.  Entries do not   *)
(* overlap each other, so there is one such entry at most.                 *)
Reaching(v, first, end) ==
  {i \in DOMAIN v : Split(v[i], first, end) \/ OverlapsStart(v[i], first, end)}

Change(st, first, end) ==
  LET cut == [vm |-> [i \in DOMAIN st.vm |-> Cut(st.vm[i], first, end)],
              objs |-> st.objs]
      e == st.vm[CHOOSE i \in Reaching(st.vm, first, end) : TRUE]
  IN IF Reaching(st.vm, first, end) = {} THEN cut
     ELSE IF Split(e, first, end) THEN UpperPart(cut, e, end)
     ELSE [vm |-> cut.vm, objs |-> IncOffset(cut.objs, e.nmop, end - e.page_num)]

Update(st, first, npages, prot, nmop, remove) ==
  LET changed == Change([vm |-> MakeSorted(st.vm), objs |-> st.objs],
                        first, first + npages)
      all == IF remove THEN changed.vm
             ELSE Append(changed.vm, Region(first, npages, prot, nmop))
      gone == {all[i].nmop : i \in {j \in DOMAIN all : all[j].removed}}
  IN [vm |-> RemoveMarked(all),
      objs |-> [k \in DOMAIN changed.objs \ gone |-> changed.objs[k]]]

(* NaClCommonUtilUpdateAddrMap: a region without a descriptor has no       *)
(* memory object.                                                          *)
UpdateAddrMap(st, first, npages, prot, file, offset) ==
  IF npages = 0 THEN st
  ELSE IF file = NoFile THEN Update(st, first, npages, prot, NoObj, FALSE)
  ELSE LET n == FreshObj(st.objs)
       IN Update([vm |-> st.vm, objs |-> Allocate(st.objs, n, file, offset)],
                 first, npages, prot, n, FALSE)

-----------------------------------------------------------------------------
(* The searches for a hole.                                                *)

(* Faulty variant: the end of a region is not rounded.                       *)
GapFromEnd(v, i) == EndPage(v[i - 1])

(* The aligned hole between entries i - 1 and i of a sorted array.         *)
GapStart(v, i) == RoundUp(EndPage(v[i - 1]))
GapEnd(v, i) == RoundDown(v[i].page_num)

FindMapSpace(vm, num_pages) ==
  LET v == MakeSorted(vm)
      need == RoundUp(num_pages)
      fit == {i \in 2 .. Len(v) : /\ GapEnd(v, i) > GapStart(v, i)
                                  /\ GapEnd(v, i) - GapStart(v, i) >= need}
  IN IF fit = {} THEN 0
     ELSE GapEnd(v, CHOOSE i \in fit : \A j \in fit : j <= i) - need

FindMapSpaceAboveHint(vm, usr_page, num_pages) ==
  LET v == MakeSorted(vm)
      need == RoundUp(num_pages)
      from(i) == IF GapStart(v, i) <= usr_page /\ usr_page < GapEnd(v, i)
                 THEN usr_page ELSE GapStart(v, i)
      fit == {i \in 2 .. Len(v) : /\ GapEnd(v, i) > GapStart(v, i)
                                  /\ usr_page <= from(i)
                                  /\ GapEnd(v, i) - from(i) >= need}
  IN IF fit = {} THEN 0 ELSE from(CHOOSE i \in fit : \A j \in fit : i <= j)

(* Where mmap puts a region: at the address, or at a hole above it, or at  *)
(* any hole; 0 is no place.                                                *)
PlaceFor(vm, fixed, usr_page, num_pages) ==
  LET above == FindMapSpaceAboveHint(vm, usr_page, num_pages)
  IN IF fixed THEN usr_page
     ELSE IF usr_page # 0 /\ above # 0 THEN above
     ELSE FindMapSpace(vm, num_pages)

-----------------------------------------------------------------------------
(* The system calls.                                                       *)

(* Faulty variant: only the trampolines are protected.                       *)
ContainsTrampolines(usr_page) == usr_page < TextStart

ContainsExecutablePages(usr_page) == RoundDown(usr_page) < TextEnd

MemWith(m, first, npages, Of(_)) ==
  [p \in Pages |-> IF first <= p /\ p < first + npages
                   THEN Of(p - first) ELSE m[p]]

TouchesHeap(first, npages) == first < brk /\ TextEnd < first + npages

(* The host maps the file, then zeros, then inaccessible pages, and the    *)
(* map follows; refused says which of the last two the host refused.       *)
Mmap(fixed, addr, npages, prot, file, offset, refused) ==
  LET length == RoundUp(npages)
      file_pages == IF file = NoFile THEN length ELSE FileSize - offset
      in_file == Min2(length, file_pages)
      no_access == IF file = NoFile THEN length
                   ELSE Min2(length, RoundUp(file_pages))
      first == PlaceFor(vmentry, fixed, RoundUp(addr), length)
      st == [vm |-> vmentry, objs |-> objs]
      st1 == UpdateAddrMap(st, first, in_file, prot,
                           IF prot = "none" THEN NoFile ELSE file, offset)
      st2 == UpdateAddrMap(st1, first + in_file, no_access - in_file, prot,
                           NoFile, 0)
      st3 == UpdateAddrMap(st2, first + no_access, length - no_access, "none",
                           NoFile, 0)
      mem1 == MemWith(mem, first, in_file,
                      LAMBDA i : IF file = NoFile THEN Anonymous(prot)
                                 ELSE Backed(prot, file, offset + i))
      mem2 == MemWith(mem1, first + in_file, no_access - in_file,
                      LAMBDA i : Anonymous(prot))
      mem3 == MemWith(mem2, first + no_access, length - no_access,
                      LAMBDA i : Anonymous("none"))
  IN /\ ~fatal /\ calls < MaxCalls
     /\ file = NoFile \/ offset <= FileSize
     /\ first > 0 /\ first + length <= NumPages
     /\ ~ContainsExecutablePages(first)
     /\ refused = "zeros" => in_file < no_access
     /\ refused = "inaccessible" => no_access < length
     /\ IF refused = "zeros"
        THEN vmentry' = st1.vm /\ objs' = st1.objs /\ mem' = mem1
        ELSE /\ vmentry' = st3.vm /\ objs' = st3.objs
             /\ mem' = IF refused = "inaccessible" THEN mem2 ELSE mem3
     /\ disturbed' = (disturbed \/ TouchesHeap(first, length)
                        \/ refused = "inaccessible")
     /\ calls' = calls + 1
     /\ UNCHANGED <<brk, fatal>>

(* The host maps inaccessible pages over the region, which leaves the map. *)
Munmap(start, npages) ==
  LET length == RoundUp(npages)
      st == Update([vm |-> vmentry, objs |-> objs], start, length, "none",
                   NoObj, TRUE)
  IN /\ ~fatal /\ calls < MaxCalls
     /\ start % PagesPerMap = 0
     /\ start > 0 /\ start + length < NumPages
     /\ ~ContainsExecutablePages(start)
     /\ vmentry' = st.vm /\ objs' = st.objs
     /\ mem' = MemWith(mem, start, length, LAMBDA i : Anonymous("none"))
     /\ disturbed' = (disturbed \/ TouchesHeap(start, length))
     /\ calls' = calls + 1
     /\ UNCHANGED <<brk, fatal>>

(* The break moves within the region that holds it, or that region grows   *)
(* to hold it if the next one leaves room.                                 *)
SetBreak(new_break) ==
  LET v == MakeSorted(vmentry)
      here == Holding(v, brk - 1)
      i == CHOOSE k \in here : TRUE
      end == RoundUp(new_break)
  IN /\ ~fatal /\ calls < MaxCalls
     /\ new_break >= DataEnd /\ new_break # brk
     /\ calls' = calls + 1
     /\ UNCHANGED <<objs, disturbed>>
     /\ \/ /\ new_break < brk
           /\ brk' = new_break
           /\ UNCHANGED <<vmentry, mem, fatal>>
        \/ /\ new_break > brk /\ here = {}
           /\ fatal' = TRUE
           /\ UNCHANGED <<vmentry, mem, brk>>
        \/ /\ new_break > brk /\ here # {}
           /\ new_break <= EndPage(v[i])
           /\ brk' = new_break /\ vmentry' = v
           /\ UNCHANGED <<mem, fatal>>
        \/ /\ new_break > brk /\ here # {}
           /\ new_break > EndPage(v[i])
           /\ i < Len(v) => v[i + 1].page_num >= end
           /\ brk' = new_break
           /\ vmentry' = [v EXCEPT ![i].npages = end - v[i].page_num]
           /\ mem' = MemWith(mem, EndPage(v[i]), end - EndPage(v[i]),
                             LAMBDA k : [mem[EndPage(v[i]) + k]
                                           EXCEPT !.prot = "rw"])
           /\ UNCHANGED fatal

Idle == (fatal \/ calls = MaxCalls) /\ UNCHANGED vars

Next ==
  \/ \E fixed \in BOOLEAN, addr \in Places, npages \in Lengths,
        prot \in {"none", "rw"} :
       \/ Mmap(fixed, addr, npages, prot, NoFile, 0, "nothing")
       \/ \E file \in Files, offset \in Offsets,
             refused \in {"nothing", "zeros", "inaccessible"} :
            Mmap(fixed, addr, npages, prot, file, offset, refused)
  \/ \E start \in Places, npages \in Lengths : Munmap(start, npages)
  \/ \E b \in 1 .. NumPages : SetBreak(b)
  \/ Idle

Spec == Init /\ [][Next]_vars

-----------------------------------------------------------------------------
(* Properties.                                                             *)

(* Every region has a memory object of its own or none, it stays within    *)
(* the file, and no object is left without a region: an update that        *)
(* splits, shortens or removes regions neither shares nor leaks an object, *)
(* whose owner drops the reference to the descriptor.                      *)
ObjectsOwned ==
  /\ DOMAIN objs = {vmentry[i].nmop : i \in DOMAIN vmentry} \ {NoObj}
  /\ \A i, j \in DOMAIN vmentry :
       i # j /\ vmentry[i].nmop # NoObj => vmentry[i].nmop # vmentry[j].nmop
  /\ ~disturbed => \A i \in DOMAIN vmentry : vmentry[i].nmop # NoObj =>
       objs[vmentry[i].nmop].offset + vmentry[i].npages <= FileSize

(* No two regions hold the same page, and none is empty or marked for      *)
(* removal ("must not overlap", sel_mem.h), whatever was mapped over what. *)
(* The map says of every page what the host has there: its protection and, *)
(* where it can be accessed, the file and offset; a page in no region      *)
(* cannot be accessed.  It is so until the module maps over its own data   *)
(* or the host refuses a mapping.                                          *)
MapMatchesMemory ==
  /\ \A p \in Pages : \A i, j \in Holding(vmentry, p) : i = j
  /\ \A i \in DOMAIN vmentry : vmentry[i].npages > 0 /\ ~vmentry[i].removed
  /\ ~disturbed => \A p \in Pages :
       LET said == Says(vmentry, objs, p)
       IN IF said = Hole THEN mem[p].prot = "none"
          ELSE /\ said.prot = mem[p].prot
               /\ said.prot # "none" => said = mem[p]

(* An aligned run of num_pages pages, none of which is taken.              *)
FreeRun(taken, first, num_pages) ==
  /\ first % PagesPerMap = 0 /\ first + RoundUp(num_pages) <= NumPages
  /\ taken \cap (first .. first + RoundUp(num_pages) - 1) = {}

(* The searches find the highest aligned hole that is large enough, or the *)
(* lowest one from the hint on, and answer 0 only when there is none: mmap *)
(* without MAP_FIXED neither covers a mapping nor fails with room left.    *)
HolesFound ==
  LET taken == {p \in Pages : Holding(vmentry, p) # {}}
  IN \A n \in Lengths :
    LET free == {p \in Pages : FreeRun(taken, p, n)}
        found == FindMapSpace(vmentry, n)
    IN /\ IF free = {} THEN found = 0
          ELSE found \in free /\ \A p \in free : p <= found
       /\ \A hint \in {p \in Pages : p % PagesPerMap = 0} :
            LET above == {p \in free : hint <= p}
                place == FindMapSpaceAboveHint(vmentry, hint, n)
            IN IF above = {} THEN place = 0
               ELSE place \in above /\ \A p \in above : place <= p

(* The array of regions implements the table of pages: every mmap, munmap  *)
(* and brk, with all it splits, cuts, removes, moves and sorts, changes    *)
(* exactly the pages it was asked to change, and none of the text.         *)
Table == INSTANCE PageMap WITH
           FirstPages <- [p \in Pages |-> Says(FirstRegions, <<>>, p)],
           page <- [p \in Pages |-> Says(vmentry, objs, p)]
ImplementsPageMap == Table!Spec
=============================================================================
