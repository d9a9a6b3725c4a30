------------------------------- MODULE PageMap -------------------------------
(***************************************************************************)
(* What the memory map of a module promises: a table that says, for every  *)
(* page, its protection and where its contents come from.  VmMap keeps the *)
(* table as an array of regions and implements this specification.         *)
(***************************************************************************)
EXTENDS Integers

CONSTANTS
  NumPages,    \* the size of the address space, in pages
  PagesPerMap, \* the pages of an allocation unit
  TextEnd,     \* the first page that a module may map or unmap
  DataEnd,     \* the pages up to the end of its data, as it was loaded
  FirstPages,  \* the table when the module starts
  Hole,        \* a page in no region
  NoFile,      \* the backing of anonymous memory
  Files,       \* the files that can be mapped
  FileSize     \* their size, in pages

VARIABLES
  page,        \* what the table says of each page
  brk          \* the break of the module, in pages

vars == <<page, brk>>

Pages == 0 .. NumPages - 1
Anonymous(prot) == [prot |-> prot, file |-> NoFile, at |-> 0]
Content(prot, file, at) == [prot |-> prot, file |-> file, at |-> at]

(* The page that continues p, d pages further on.                          *)
Continued(p, d) == IF p.file = NoFile THEN p ELSE [p EXCEPT !.at = @ + d]

RoundUp(n) == ((n + PagesPerMap - 1) \div PagesPerMap) * PagesPerMap

Init == page = FirstPages /\ brk = DataEnd

(* Page i of a region of n mapped from offset at of the file: the file as  *)
(* far as it goes, zeros to the end of the allocation unit, then pages     *)
(* that cannot be accessed.  With no access there is no file behind it.    *)
Mapped(prot, file, at, i) ==
  IF file = NoFile THEN Anonymous(prot)
  ELSE IF at + i >= RoundUp(FileSize) THEN Anonymous("none")
  ELSE IF at + i >= FileSize \/ prot = "none" THEN Anonymous(prot)
  ELSE Content(prot, file, at + i)

With(old, first, n, Of(_)) ==
  [p \in Pages |-> IF first <= p /\ p < first + n THEN Of(p - first) ELSE old[p]]

Aligned(p) == p % PagesPerMap = 0

(* The steps, each from the table old to the table new.                    *)
Map(old, new, first, n, prot, file, at) ==
  new = With(old, first, n, LAMBDA i : Mapped(prot, file, at, i))

(* The host refused the zeros after the file: only the file is mapped.     *)
MapFilePart(old, new, first, n, prot, file, at) ==
  /\ at + n > FileSize
  /\ new = With(old, first, FileSize - at, LAMBDA i : Mapped(prot, file, at, i))

Unmap(old, new, first, n) == new = With(old, first, n, LAMBDA i : Hole)

(* The region that holds the break, whose last page is e, grows over a     *)
(* hole to hold the new one.                                               *)
Grow(old, new, e) ==
  LET q == RoundUp(brk')
  IN /\ brk - 1 <= e /\ e + 1 < brk'
     /\ \A p \in brk - 1 .. e : old[p] # Hole
     /\ \A p \in e + 1 .. q - 1 : old[p] = Hole
     /\ new = With(old, e + 1, q - e - 1, LAMBDA i : Continued(old[e], i + 1))

(* A call changes no page outside the aligned range that it names, which   *)
(* holds none of the text.                                                 *)
ChangeRange(old, new) ==
  \E first \in {p \in Pages : Aligned(p) /\ p >= TextEnd},
     n \in {k \in 1 .. NumPages : Aligned(k)} :
    /\ first + n <= NumPages
    /\ \A p \in Pages \ (first .. first + n - 1) : new[p] = old[p]
    /\ \/ Unmap(old, new, first, n)
       \/ \E prot \in {"none", "rw"}, file \in Files \cup {NoFile},
             at \in {k \in 0 .. FileSize : Aligned(k)} :
            \/ Map(old, new, first, n, prot, file, at)
            \/ file # NoFile /\ MapFilePart(old, new, first, n, prot, file, at)

Call == UNCHANGED brk /\ \E old \in {page}, new \in {page'} : ChangeRange(old, new)
MoveBreak == DataEnd <= brk' /\ brk' <= NumPages /\ UNCHANGED page
GrowBreak ==
  /\ DataEnd <= brk' /\ brk' <= NumPages
  /\ \E e \in Pages : Grow(page, page', e)

Next == MoveBreak \/ GrowBreak \/ Call

Spec == Init /\ [][Next]_vars
=============================================================================
