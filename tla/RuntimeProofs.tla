---------------------------- MODULE RuntimeProofs ----------------------------
(* The parts of the service runtime, for any constants: an accepted text    *)
(* stays contained, whatever its size, its alignment and its instructions,  *)
(* and an IMC receive neither leaks nor swaps a descriptor, whatever it is  *)
(* sent and whichever calls run with it, but for two failures that the code *)
(* does not handle.                                                         *)
EXTENDS MCParts, FiniteSetTheorems, SequenceTheorems, TLAPS

Checked == Text!CodeChecked /\ Text!TransfersMasked /\ Text!Inside

(* The invariants hold before the first instruction is decoded.            *)
LEMMA TextBegins == ASSUME Text!Bounds, Text!Init PROVE Checked
  BY DEF Text!Bounds, Text!Init, Checked, Text!CodeChecked, Text!TransfersMasked,
       Text!Inside, Text!Outside

(* Halting an unavailable instruction changes nothing else of it.          *)
LEMMA SquashedInst ==
  ASSUME Text!Bounds, NEW inst \in Insts, inst.kind # "illegal"
  PROVE  /\ Text!Squashed(inst).length = inst.length
         /\ Text!Squashed(inst).target = inst.target
         /\ Text!Squashed(inst).reg = inst.reg
         /\ Text!Squashed(inst).kind \in Text!Kinds \ {"illegal", "unavailable"}
         /\ Text!Squashed(inst).kind \in Text!Direct <=> inst.kind \in Text!Direct
         /\ Text!Squashed(inst).kind \in Text!Indirect <=> inst.kind \in Text!Indirect
         /\ Text!Squashed(inst).kind \in Text!Calls <=> inst.kind \in Text!Calls
<1>1. inst \in [kind : Text!Kinds, length : Nat \ {0}, reg : STRING \ {Text!NoRegister},
                target : Int]
  BY DEF Text!Bounds
<1>2. CASE inst.kind = "unavailable"
  <2>1. Text!Squashed(inst) = [inst EXCEPT !.kind = "halt"]
    BY <1>2 DEF Text!Squashed
  <2>2. /\ Text!Squashed(inst).length = inst.length
        /\ Text!Squashed(inst).target = inst.target
        /\ Text!Squashed(inst).reg = inst.reg
        /\ Text!Squashed(inst).kind = "halt"
    BY <2>1, <1>1
  <2>3. QED BY <2>2, <1>2 DEF Text!Kinds, Text!Direct, Text!Indirect, Text!Calls
<1>3. CASE inst.kind # "unavailable"
  BY <1>1, <1>3 DEF Text!Squashed
<1>4. QED BY <1>2, <1>3

(* Decode adds one instruction behind the others: it is checked, and what  *)
(* the others were checked for still holds.                                *)
LEMMA DecodeKeepsCode ==
  ASSUME Text!Bounds, Text!CodeChecked, NEW inst \in Insts, Text!Decode(inst)
  PROVE  Text!CodeChecked'
<1>1. /\ vpc \in 0 .. TextSize - 2
      /\ vpc' = vpc + inst.length /\ previous' = vpc
      /\ inst.length \in Nat \ {0} /\ inst.target \in Int /\ inst.kind \in Text!Kinds
      /\ inst.kind # "illegal"
  BY DEF Text!Bounds, Text!CodeChecked, Text!Decode, Text!ValidateInst
<1>2. vpc' \in 0 .. TextSize - 1
  BY <1>1 DEF Text!Decode, Text!Fits, Text!Bounds
<1>3. /\ DOMAIN code' = DOMAIN code \cup {vpc}
      /\ code'[vpc] = Text!Squashed(inst)
      /\ \A a \in DOMAIN code : a # vpc /\ code'[a] = code[a]
  BY <1>1 DEF Text!Decode, Text!CodeChecked
<1>4. /\ Text!Squashed(inst).length = inst.length
      /\ Text!Squashed(inst).target = inst.target
      /\ Text!Squashed(inst).kind \in Text!Kinds \ {"illegal", "unavailable"}
      /\ Text!Squashed(inst).kind \in Text!Direct <=> inst.kind \in Text!Direct
      /\ Text!Squashed(inst).kind \in Text!Indirect <=> inst.kind \in Text!Indirect
      /\ Text!Squashed(inst).kind \in Text!Calls <=> inst.kind \in Text!Calls
  BY <1>1, SquashedInst
<1>5. /\ kttable \subseteq kttable'
      /\ inst.kind \in Text!Direct => inst.target < 0 \/ inst.target \in kttable'
      /\ inst.kind \in Text!Calls => (vpc + inst.length) % Alignment = 0
  BY <1>1 DEF Text!Decode, Text!ValidateInst, Text!RememberTP, Text!InText,
       Text!InTrampolines, Text!ValidateCallAlignment
<1>6. vttable' = {a \in DOMAIN code' : code'[a].kind \notin Text!Indirect}
  BY <1>3, <1>4 DEF Text!Decode, Text!Remembered, Text!CodeChecked
<1>7. ASSUME NEW a \in DOMAIN code'
      PROVE  /\ a \in 0 .. vpc' - 1
             /\ code'[a].kind \in Text!Kinds \ {"illegal", "unavailable"}
             /\ code'[a].length \in Nat \ {0}
             /\ code'[a].target \in Int
             /\ a + code'[a].length \in DOMAIN code' \cup {vpc'}
             /\ a + code'[a].length = vpc' => a = previous'
             /\ code'[a].kind \in Text!Direct =>
                  code'[a].target < 0 \/ code'[a].target \in kttable'
             /\ code'[a].kind \in Text!Calls => (a + code'[a].length) % Alignment = 0
  <2>1. CASE a = vpc
    BY <2>1, <1>1, <1>3, <1>4, <1>5
  <2>2. CASE a \in DOMAIN code
    BY <2>2, <1>1, <1>3, <1>5 DEF Text!CodeChecked
  <2>3. QED BY <2>1, <2>2, <1>3
<1>8. QED BY <1>2, <1>6, <1>7 DEF Text!CodeChecked

(* A transfer that is decoded has its mask before it: only the instruction *)
(* decoded last ends where the next begins.                                *)
LEMMA DecodeKeepsMasks ==
  ASSUME Text!Bounds, Text!CodeChecked, Text!TransfersMasked, NEW inst \in Insts,
       Text!Decode(inst)
  PROVE  Text!TransfersMasked'
<1>1. /\ vpc \in Nat /\ inst.length \in Nat \ {0} /\ inst.kind # "illegal"
  BY DEF Text!Bounds, Text!CodeChecked, Text!Decode, Text!ValidateInst
<1>2. /\ DOMAIN code' = DOMAIN code \cup {vpc}
      /\ code'[vpc] = Text!Squashed(inst)
      /\ \A a \in DOMAIN code : a # vpc /\ code'[a] = code[a]
  BY <1>1 DEF Text!Decode, Text!CodeChecked
<1>3. /\ Text!Squashed(inst).length = inst.length
      /\ Text!Squashed(inst).kind \in Text!Indirect =>
           inst.kind \in Text!Indirect /\ Text!Squashed(inst).reg = inst.reg
  BY <1>1, SquashedInst
<1>4. SUFFICES ASSUME NEW a \in DOMAIN code',
                      a + code'[a].length \in DOMAIN code',
                      code'[a + code'[a].length].kind \in Text!Indirect
               PROVE  /\ code'[a].kind = "mask"
                      /\ code'[a].reg = code'[a + code'[a].length].reg
  BY DEF Text!TransfersMasked
<1>5. CASE a = vpc
  BY <1>1, <1>2, <1>3, <1>4, <1>5 DEF Text!CodeChecked
<1>6. CASE a \in DOMAIN code /\ a + code[a].length \in DOMAIN code
  BY <1>2, <1>4, <1>6 DEF Text!TransfersMasked
<1>7. CASE a \in DOMAIN code /\ a + code[a].length = vpc
  <2>1. a = previous
    BY <1>7 DEF Text!CodeChecked
  <2>2. inst.kind \in Text!Indirect /\ code'[vpc].reg = inst.reg
    BY <1>2, <1>3, <1>4, <1>7
  <2>3. code[previous].kind = "mask" /\ code[previous].reg = inst.reg
    BY <2>2 DEF Text!Decode, Text!ValidateInst, Text!ValidateIndirect
  <2>4. QED BY <2>1, <2>2, <2>3, <1>2, <1>7
<1>8. QED BY <1>2, <1>5, <1>6, <1>7 DEF Text!CodeChecked

(* Where the processor is allowed to be.                                   *)
At(a, reg) ==
  /\ a \in DOMAIN code \cup {Text!Outside, TextSize - 1}
  /\ a \in DOMAIN code => (code[a].kind \in Text!Indirect => reg = code[a].reg)

(* A start that the tables remember needs nothing masked.                  *)
LEMMA StartsAllowed ==
  ASSUME Text!CodeChecked, NEW a \in vttable, NEW reg
  PROVE  At(a, reg)
  BY DEF Text!CodeChecked, At

(* Every step of the processor leads to where it is allowed to be.         *)
LEMMA RunStays ==
  ASSUME Text!Bounds, Text!CodeChecked, Text!TransfersMasked, Text!Inside, Text!Run
  PROVE  Text!Inside'
<1>1. /\ phase = "accepted" /\ vpc = TextSize - 1
      /\ kttable \subseteq vttable /\ Text!BlockStarts \subseteq vttable
      /\ UNCHANGED <<code, vpc, previous, vttable, kttable, phase>>
  BY DEF Text!Inside, Text!Run, Text!TablesAgree, Text!Enter, Text!FallThrough,
       Text!Transfer, Text!IndirectTransfer,
         Text!Running, Text!Goto
<1>2. SUFFICES ASSUME ~At(text_pc', masked') PROVE FALSE
  BY <1>1 DEF Text!Inside, Text!TablesAgree, At, Text!BlockStarts
<1>3. ASSUME NEW a \in Text!BlockStarts, Text!Enter(a) PROVE FALSE
  BY <1>1, <1>2, <1>3, StartsAllowed DEF Text!Enter, Text!Goto
<1>4. CASE Text!FallThrough
  <2>1. /\ text_pc \in DOMAIN code
        /\ text_pc' = text_pc + code[text_pc].length
        /\ masked' = IF code[text_pc].kind = "mask" THEN code[text_pc].reg
                     ELSE Text!NoRegister
    BY <1>4 DEF Text!FallThrough, Text!Running, Text!Goto
  <2>2. text_pc' \in DOMAIN code \cup {TextSize - 1}
    BY <2>1, <1>1 DEF Text!CodeChecked
  <2>3. text_pc' \in DOMAIN code /\ code[text_pc'].kind \in Text!Indirect =>
          masked' = code[text_pc'].reg
    BY <2>1 DEF Text!TransfersMasked
  <2>4. QED BY <2>2, <2>3, <1>2 DEF At
<1>5. CASE Text!Transfer
  <2>1. /\ text_pc \in DOMAIN code /\ code[text_pc].kind \in Text!Direct
        /\ text_pc' = IF code[text_pc].target < 0 THEN Text!Outside
                      ELSE code[text_pc].target
    BY <1>5 DEF Text!Transfer, Text!Running, Text!Goto
  <2>2. text_pc' = Text!Outside \/ text_pc' \in vttable
    BY <2>1, <1>1 DEF Text!CodeChecked
  <2>3. Text!Outside \notin DOMAIN code
    BY DEF Text!CodeChecked, Text!Outside
  <2>4. QED BY <2>2, <2>3, <1>2, StartsAllowed DEF At
<1>6. ASSUME NEW a \in 0 .. TextSize - 1 \cup {Text!Outside}, Text!IndirectTransfer(a)
      PROVE  FALSE
  <2>1. /\ text_pc \in DOMAIN code /\ code[text_pc].kind \in Text!Indirect
        /\ masked = code[text_pc].reg => a \in Text!BlockStarts \cup {Text!Outside}
        /\ text_pc' = a
    BY <1>6 DEF Text!IndirectTransfer, Text!Running, Text!Goto
  <2>2. masked = code[text_pc].reg
    BY <2>1, <1>1 DEF Text!Inside
  <2>3. Text!Outside \notin DOMAIN code
    BY DEF Text!CodeChecked, Text!Outside
  <2>4. text_pc' = Text!Outside \/ text_pc' \in vttable
    BY <2>1, <2>2, <1>1
  <2>5. QED BY <2>3, <2>4, <1>2, StartsAllowed DEF At
<1>7. QED BY <1>3, <1>4, <1>5, <1>6 DEF Text!Run

(* Every step keeps the invariants.                                        *)
LEMMA TextStep ==
  ASSUME Text!Bounds, Checked, [Text!Next]_(Text!vars)
  PROVE  Checked'
<1> USE DEF Checked
<1>1. CASE Text!Unsupported
  BY <1>1 DEF Text!Unsupported, Text!Reject, Text!CodeChecked, Text!TransfersMasked,
       Text!Inside
<1>2. ASSUME NEW inst \in Insts, Text!Decode(inst) PROVE Checked'
  <2>1. Text!Inside'
    BY <1>2 DEF Text!Decode, Text!Inside
  <2>2. QED BY <1>2, <2>1, DecodeKeepsCode, DecodeKeepsMasks
<1>3. ASSUME NEW inst \in Insts, Text!Refuse(inst) PROVE Checked'
  BY <1>3 DEF Text!Refuse, Text!Reject, Text!CodeChecked, Text!TransfersMasked,
       Text!Inside
<1>4. ASSUME NEW fullstop \in BOOLEAN, Text!Finish(fullstop) PROVE Checked'
  <2>1. UNCHANGED <<code, vpc, previous, vttable, kttable, text_pc, masked>>
    BY <1>4 DEF Text!Finish, Text!Reject
  <2>2. Text!CodeChecked' /\ Text!TransfersMasked'
    BY <2>1 DEF Text!CodeChecked, Text!TransfersMasked
  <2>3. Text!Inside'
    BY <2>1, <1>4 DEF Text!Finish, Text!Reject, Text!Inside, Text!CodeChecked,
         Text!TablesAgree, Text!Outside, Text!BlockStarts, Text!Bounds
  <2>4. QED BY <2>2, <2>3
<1>5. CASE Text!Run
  <2>1. UNCHANGED <<code, vpc, previous, vttable, kttable, phase>>
    BY <1>5 DEF Text!Run, Text!Enter, Text!FallThrough, Text!Transfer,
         Text!IndirectTransfer, Text!Goto
  <2>2. Text!CodeChecked' /\ Text!TransfersMasked'
    BY <2>1 DEF Text!CodeChecked, Text!TransfersMasked
  <2>3. QED BY <2>2, <1>5, RunStays
<1>6. CASE UNCHANGED Text!vars
  BY <1>6 DEF Text!vars, Text!CodeChecked, Text!TransfersMasked, Text!Inside,
       Text!TablesAgree, Text!BlockStarts
<1>7. QED BY <1>1, <1>2, <1>3, <1>4, <1>5, <1>6 DEF Text!Next

(* The invariants say that the text is contained.                          *)
LEMMA CheckedContained == ASSUME Text!Bounds, Checked PROVE Text!Contained
<1>1. SUFFICES ASSUME phase = "accepted", text_pc \notin {Text!Outside, TextSize - 1}
               PROVE  Text!Contained
  BY DEF Text!Contained
<1>2. /\ text_pc \in DOMAIN code
      /\ code[text_pc].kind \notin {"illegal", "unavailable"}
      /\ code[text_pc].kind \in Text!Indirect => masked = code[text_pc].reg
      /\ vpc = TextSize - 1 /\ Text!BlockStarts \subseteq vttable
  BY <1>1 DEF Checked, Text!Inside, Text!CodeChecked, Text!TablesAgree
<1>3. ASSUME code[text_pc].kind \in Text!Calls
      PROVE  text_pc + code[text_pc].length \in Text!BlockStarts
  <2>1. text_pc + code[text_pc].length \in DOMAIN code \cup {vpc}
    BY <1>2 DEF Checked, Text!CodeChecked
  <2>2. text_pc + code[text_pc].length \in 0 .. TextSize - 1
    BY <1>2, <2>1 DEF Checked, Text!CodeChecked, Text!Bounds
  <2>3. (text_pc + code[text_pc].length) % Alignment = 0
    BY <1>2, <1>3 DEF Checked, Text!CodeChecked
  <2>4. QED BY <2>2, <2>3 DEF Text!BlockStarts
<1>4. QED BY <1>2, <1>3 DEF Text!Contained

(* Whatever the text, once the validator accepts it the processor is only   *)
(* ever at instructions that were decoded and checked.                      *)
THEOREM AcceptedContained == ASSUME Text!Bounds PROVE Text!Spec => []Text!Contained
<1>1. Text!Init => Checked
  BY TextBegins
<1>2. Checked /\ [Text!Next]_(Text!vars) => Checked'
  BY TextStep
<1>3. Checked => Text!Contained
  BY CheckedContained
<1>4. QED BY <1>1, <1>2, <1>3, PTL DEF Text!Spec

-----------------------------------------------------------------------------
(* IMC: who owns a handle, and what a receiver gets.                        *)

(* Every handle has one place in a call: in kern_handle (hs) or in one of   *)
(* the descriptors made of them (ds).                                       *)
OnePlace(hs, ds) ==
  /\ \A k, n \in DOMAIN hs : hs[k] = hs[n] => k = n
  /\ \A k, n \in DOMAIN ds : ds[k] \in Imc!Handles /\ ds[k] = ds[n] => k = n
  /\ \A k \in DOMAIN hs, n \in DOMAIN ds : hs[k] # ds[n]

OwnedIn(hs, ds) ==
  {h \in Imc!Handles : (\E k \in DOMAIN hs : hs[k] = h) \/ (\E k \in DOMAIN ds : ds[k] = h)}

NewDescs == ByName \cup Imc!Handles \cup {Hollow}

(* kern_handle without its first handle.                                    *)
LEMMA TailOwns ==
  ASSUME NEW hs \in Seq(Imc!Handles), NEW ds \in Seq(NewDescs), OnePlace(hs, ds), hs # <<>>
  PROVE  /\ Tail(hs) \in Seq(Imc!Handles) /\ Head(hs) \in OwnedIn(hs, ds)
         /\ OnePlace(Tail(hs), ds)
         /\ OwnedIn(Tail(hs), ds) = OwnedIn(hs, ds) \ {Head(hs)}
<1>1. /\ Head(hs) = hs[1] /\ Head(hs) \in Imc!Handles /\ Tail(hs) \in Seq(Imc!Handles)
      /\ Len(hs) \in Nat \ {0} /\ DOMAIN hs = 1 .. Len(hs)
      /\ DOMAIN Tail(hs) = 1 .. Len(hs) - 1
      /\ \A k \in 1 .. Len(hs) - 1 : Tail(hs)[k] = hs[k + 1]
  BY HeadTailProperties, LenProperties, EmptySeq
<1>2. OnePlace(Tail(hs), ds)
  BY <1>1 DEF OnePlace
<1>3. \A k \in DOMAIN hs : k = 1 \/ (k - 1 \in DOMAIN Tail(hs) /\ Tail(hs)[k - 1] = hs[k])
  BY <1>1
<1>4. \A k \in DOMAIN Tail(hs) : k + 1 \in DOMAIN hs /\ k + 1 # 1 /\ 1 \in DOMAIN hs
  BY <1>1
<1>5. ASSUME NEW h \in Imc!Handles
      PROVE  h \in OwnedIn(Tail(hs), ds) <=> h \in OwnedIn(hs, ds) /\ h # Head(hs)
  <2>1. CASE h = hs[1]
    BY <1>1, <1>4, <2>1 DEF OwnedIn, OnePlace
  <2>2. CASE h # hs[1]
    <3>1. (\E k \in DOMAIN Tail(hs) : Tail(hs)[k] = h) <=> (\E k \in DOMAIN hs : hs[k] = h)
      BY <1>1, <1>3, <1>4, <2>2
    <3>2. QED BY <3>1, <2>2, <1>1 DEF OwnedIn
  <2>3. QED BY <2>1, <2>2
<1>6. OwnedIn(Tail(hs), ds) = OwnedIn(hs, ds) \ {Head(hs)}
  <2>1. /\ \A h \in OwnedIn(Tail(hs), ds) : h \in Imc!Handles
        /\ \A h \in OwnedIn(hs, ds) : h \in Imc!Handles
    BY DEF OwnedIn
  <2>2. QED BY <1>5, <2>1
<1>7. 1 \in DOMAIN hs BY <1>1
<1>8. QED BY <1>1, <1>2, <1>6, <1>7 DEF OwnedIn

(* The descriptors without the n-th.                                        *)
Without(ds, n, es) ==
  /\ n \in DOMAIN ds
  /\ es \in Seq(NewDescs)
  /\ Len(es) = Len(ds) - 1
  /\ \A k \in 1 .. Len(es) : es[k] = IF k < n THEN ds[k] ELSE ds[k + 1]

LEMMA LessOwns ==
  ASSUME NEW hs \in Seq(Imc!Handles), NEW ds \in Seq(NewDescs), OnePlace(hs, ds),
         NEW n, NEW es, Without(ds, n, es)
  PROVE  /\ ds[n] \in Imc!Handles => ds[n] \in OwnedIn(hs, ds)
         /\ OnePlace(hs, es)
         /\ OwnedIn(hs, es) = OwnedIn(hs, ds) \ {ds[n]}
<1>1. /\ Len(ds) \in Nat \ {0} /\ DOMAIN ds = 1 .. Len(ds) /\ n \in 1 .. Len(ds)
      /\ DOMAIN es = 1 .. Len(ds) - 1
      /\ \A k \in 1 .. Len(ds) - 1 : es[k] = IF k < n THEN ds[k] ELSE ds[k + 1]
  BY LenProperties DEF Without
<1>2. \A k \in DOMAIN es :
        \E j \in DOMAIN ds : /\ j # n /\ es[k] = ds[j]
                             /\ j = IF k < n THEN k ELSE k + 1
  BY <1>1
<1>3. \A j \in DOMAIN ds : j = n \/ \E k \in DOMAIN es : es[k] = ds[j]
  <2>1. SUFFICES ASSUME NEW j \in DOMAIN ds, j # n PROVE \E k \in DOMAIN es : es[k] = ds[j]
    OBVIOUS
  <2>2. CASE j < n BY <1>1, <2>2
  <2>3. CASE j > n
    <3>1. j - 1 \in DOMAIN es /\ ~(j - 1 < n) /\ (j - 1) + 1 = j BY <1>1, <2>3
    <3>2. es[j - 1] = ds[j] BY <3>1, <1>1
    <3>3. QED BY <3>1, <3>2
  <2>4. QED BY <2>1, <2>2, <2>3, <1>1
<1>4. OnePlace(hs, es)
  <2>1. ASSUME NEW k \in DOMAIN es, NEW m \in DOMAIN es, es[k] \in Imc!Handles, es[k] = es[m]
        PROVE  k = m
    <3>1. PICK j \in DOMAIN ds : es[k] = ds[j] /\ j = IF k < n THEN k ELSE k + 1
      BY <1>2
    <3>2. PICK l \in DOMAIN ds : es[m] = ds[l] /\ l = IF m < n THEN m ELSE m + 1
      BY <1>2
    <3>3. j = l BY <3>1, <3>2, <2>1 DEF OnePlace
    <3>4. QED BY <3>1, <3>2, <3>3, <1>1
  <2>2. QED BY <2>1, <1>2 DEF OnePlace
<1>5. ASSUME NEW h \in Imc!Handles
      PROVE  h \in OwnedIn(hs, es) <=> h \in OwnedIn(hs, ds) /\ h # ds[n]
  <2>1. CASE h = ds[n]
    <3>0. n \in DOMAIN ds BY DEF Without
    <3>1. \A k \in DOMAIN es : es[k] # h
      BY <1>2, <2>1, <3>0 DEF OnePlace
    <3>2. \A k \in DOMAIN hs : hs[k] # h
      BY <2>1, <3>0 DEF OnePlace
    <3>3. QED BY <3>1, <3>2, <2>1 DEF OwnedIn
  <2>2. CASE h # ds[n]
    <3>1. (\E k \in DOMAIN es : es[k] = h) <=> (\E k \in DOMAIN ds : ds[k] = h)
      BY <1>2, <1>3, <2>2
    <3>2. QED BY <3>1, <2>2 DEF OwnedIn
  <2>3. QED BY <2>1, <2>2
<1>6. OwnedIn(hs, es) = OwnedIn(hs, ds) \ {ds[n]}
  <2>1. /\ \A h \in OwnedIn(hs, es) : h \in Imc!Handles
        /\ \A h \in OwnedIn(hs, ds) : h \in Imc!Handles
    BY DEF OwnedIn
  <2>2. QED BY <1>5, <2>1
<1>7. QED BY <1>4, <1>6 DEF OwnedIn, Without

(* The first descriptor, and the n-th, may be left out.                     *)
LEMMA TailLess ==
  ASSUME NEW ds \in Seq(NewDescs), ds # <<>>
  PROVE  Head(ds) = ds[1] /\ Without(ds, 1, Tail(ds))
  BY HeadTailProperties, LenProperties, EmptySeq DEF Without

LEMMA RemoveLess ==
  ASSUME NEW ds \in Seq(NewDescs), NEW n \in DOMAIN ds
  PROVE  Without(ds, n, Imc!RemoveAt(ds, n))
<1> DEFINE a == SubSeq(ds, 1, n - 1)
           b == SubSeq(ds, n + 1, Len(ds))
<1>1. n \in 1 .. Len(ds) /\ Len(ds) \in Nat /\ n \in Int
      /\ \A k \in 1 .. Len(ds) : ds[k] \in NewDescs
  BY LenProperties, ElementOfSeq
<1>2. /\ a \in Seq(NewDescs) /\ Len(a) = n - 1
      /\ \A k \in 1 .. n - 1 : a[k] = ds[k]
  <2>1. \A k \in 1 .. n - 1 : ds[k] \in NewDescs BY <1>1
  <2>2. /\ a \in Seq(NewDescs) /\ Len(a) = IF 1 <= n - 1 THEN (n - 1) - 1 + 1 ELSE 0
        /\ \A k \in 1 .. (n - 1) - 1 + 1 : a[k] = ds[1 + k - 1]
    BY <2>1, <1>1, SubSeqProperties
  <2>3. QED BY <2>2, <1>1
<1>3. /\ b \in Seq(NewDescs) /\ Len(b) = Len(ds) - n
      /\ \A k \in 1 .. Len(ds) - n : b[k] = ds[n + k]
  <2>1. \A k \in n + 1 .. Len(ds) : ds[k] \in NewDescs BY <1>1
  <2>2. /\ b \in Seq(NewDescs)
        /\ Len(b) = IF n + 1 <= Len(ds) THEN Len(ds) - (n + 1) + 1 ELSE 0
        /\ \A k \in 1 .. Len(ds) - (n + 1) + 1 : b[k] = ds[(n + 1) + k - 1]
    BY <2>1, <1>1, SubSeqProperties
  <2>3. QED BY <2>2, <1>1
<1> HIDE DEF a, b
<1>4. /\ a \o b \in Seq(NewDescs) /\ Len(a \o b) = Len(ds) - 1
      /\ \A k \in 1 .. Len(ds) - 1 : (a \o b)[k] = IF k < n THEN ds[k] ELSE ds[k + 1]
  <2>1. /\ a \o b \in Seq(NewDescs) /\ Len(a \o b) = Len(a) + Len(b)
        /\ \A k \in 1 .. Len(a) + Len(b) :
             (a \o b)[k] = IF k <= Len(a) THEN a[k] ELSE b[k - Len(a)]
    BY <1>2, <1>3, ConcatProperties
  <2>4. Len(a) + Len(b) = Len(ds) - 1 /\ Len(a) = n - 1
    BY <1>1, <1>2, <1>3
  <2>2. ASSUME NEW k \in 1 .. Len(ds) - 1
        PROVE  (a \o b)[k] = IF k < n THEN ds[k] ELSE ds[k + 1]
    <3>0. (a \o b)[k] = IF k <= n - 1 THEN a[k] ELSE b[k - (n - 1)]
      BY <2>1, <2>4
    <3>1. CASE k < n BY <3>0, <3>1, <1>1, <1>2
    <3>2. CASE ~(k < n)
      <4>1. k - (n - 1) \in 1 .. Len(ds) - n /\ n + (k - (n - 1)) = k + 1 BY <3>2, <1>1
      <4>2. (a \o b)[k] = b[k - (n - 1)] BY <3>0, <1>1, <3>2
      <4>3. QED BY <4>1, <4>2, <1>3, <3>2
    <3>3. QED BY <3>1, <3>2
  <2>3. QED BY <2>1, <2>2, <2>4
<1>5. QED BY <1>4 DEF a, b, Imc!RemoveAt, Without

(* A descriptor is made of a name, and one of the first handle.             *)
LEMMA MoreOwns ==
  ASSUME NEW hs \in Seq(Imc!Handles), NEW ds \in Seq(NewDescs), OnePlace(hs, ds),
         NEW d \in NewDescs, d \notin OwnedIn(hs, ds)
  PROVE  /\ Append(ds, d) \in Seq(NewDescs)
         /\ OnePlace(hs, Append(ds, d))
         /\ OwnedIn(hs, Append(ds, d)) = OwnedIn(hs, ds) \cup ({d} \cap Imc!Handles)
<1>1. /\ Append(ds, d) \in Seq(NewDescs)
      /\ Len(ds) \in Nat /\ DOMAIN ds = 1 .. Len(ds) /\ DOMAIN hs = 1 .. Len(hs)
      /\ DOMAIN Append(ds, d) = 1 .. Len(ds) + 1
      /\ \A k \in 1 .. Len(ds) : Append(ds, d)[k] = ds[k]
      /\ Append(ds, d)[Len(ds) + 1] = d
  BY AppendProperties, LenProperties
<1>2. /\ \A k \in DOMAIN Append(ds, d) :
           \/ k \in DOMAIN ds /\ Append(ds, d)[k] = ds[k]
           \/ k = Len(ds) + 1 /\ Append(ds, d)[k] = d
      /\ \A k \in DOMAIN ds : k \in DOMAIN Append(ds, d) /\ Append(ds, d)[k] = ds[k]
      /\ Len(ds) + 1 \in DOMAIN Append(ds, d)
  BY <1>1
<1>3. \A k \in DOMAIN hs : hs[k] \in Imc!Handles
  BY ElementOfSeq, <1>1
<1> HIDE DEF NewDescs
<1>4. OwnedIn(hs, Append(ds, d)) = OwnedIn(hs, ds) \cup ({d} \cap Imc!Handles)
  BY <1>2, <1>1 DEF OwnedIn
<1>5. OnePlace(hs, Append(ds, d))
  <2>1. ASSUME NEW k \in DOMAIN Append(ds, d), NEW n \in DOMAIN Append(ds, d),
               Append(ds, d)[k] \in Imc!Handles, Append(ds, d)[k] = Append(ds, d)[n]
        PROVE  k = n
    <3>1. CASE k \in DOMAIN ds /\ n \in DOMAIN ds
      BY <1>2, <2>1, <3>1 DEF OnePlace
    <3>2. CASE k \notin DOMAIN ds /\ n \notin DOMAIN ds
      BY <1>2, <3>2
    <3>3. CASE k \in DOMAIN ds /\ n \notin DOMAIN ds
      BY <1>2, <2>1, <3>3 DEF OwnedIn
    <3>4. CASE k \notin DOMAIN ds /\ n \in DOMAIN ds
      BY <1>2, <2>1, <3>4 DEF OwnedIn
    <3>5. QED BY <3>1, <3>2, <3>3, <3>4
  <2>2. ASSUME NEW k \in DOMAIN hs, NEW n \in DOMAIN Append(ds, d)
        PROVE  hs[k] # Append(ds, d)[n]
    <3>1. CASE n \in DOMAIN ds BY <3>1, <1>2 DEF OnePlace
    <3>2. CASE n \notin DOMAIN ds BY <3>2, <1>2, <1>3 DEF OwnedIn
    <3>3. QED BY <3>1, <3>2
  <2>3. QED BY <2>1, <2>2 DEF OnePlace
<1>6. QED BY <1>1, <1>4, <1>5
-----------------------------------------------------------------------------
(* The objects of a message, or those of the handles that are left of it,   *)
(* belong to the descriptors that have one, in their order: taken numbers   *)
(* these descriptors.                                                       *)
Numbers(tags, taken) ==
  /\ taken \in Seq(DOMAIN tags)
  /\ \A k \in DOMAIN tags : tags[k] \notin ByName <=> \E n \in DOMAIN taken : taken[n] = k
  /\ \A m, n \in DOMAIN taken : m < n => taken[m] < taken[n]

Aligned(tags, objects) ==
  \E taken : /\ Numbers(tags, taken)
             /\ Len(objects) <= Len(taken)
             /\ \A k \in 1 .. Len(objects) : objects[k] = tags[taken[k]]

(* The sender has every handle open that it may still send.                 *)
SenderHolds ==
  /\ sending \in Seq(Imc!Objects)
  /\ named \cap ByHandle \subseteq opened
  /\ Imc!Held \cap ByHandle \subseteq opened

QueueSound ==
  /\ queue \in Seq([tags : Seq(Imc!Objects), objects : Seq(Imc!Objects)])
  /\ \A k \in DOMAIN queue : Aligned(queue[k].tags, queue[k].objects)

(* An open handle of the receiver has one owner, a call or the table.       *)
Owned(c) == OwnedIn(c.handles, c.new_desc)

Ownership ==
  /\ handle \in [Imc!Handles -> Imc!Objects \cup {Imc!Closed}]
  /\ installed \subseteq Imc!Handles \cup {Hollow}
  /\ lost \subseteq Imc!Handles /\ installed \cap lost = {}
  /\ \A r \in Receivers : OnePlace(call[r].handles, call[r].new_desc)
  /\ \A r \in Receivers : Owned(call[r]) \cap (installed \cup lost) = {}
  /\ \A r, q \in Receivers : r # q => Owned(call[r]) \cap Owned(call[q]) = {}
  /\ \A h \in Imc!Handles :
       handle[h] # Imc!Closed
         <=> h \in installed \cup lost \/ \E r \in Receivers : h \in Owned(call[r])

(* What a receiver gets for the objects that were sent.                     *)
Received == Imc!Objects \cup {Hollow}

Calls == [pc : {"idle", "internalize", "deliver", "cleanup", "dead"},
          tags : Seq(Imc!Objects), handles : Seq(Imc!Handles), unset : BOOLEAN,
          new_desc : Seq(NewDescs),
          desc_length : Nat, flags : SUBSET {"DESC_TRUNCATED"}, failed : BOOLEAN,
          out : Seq(Received), meant : Seq(Imc!Objects)]

(* The object that a descriptor is of.                                      *)
Object(d, host) == IF d \in Imc!Handles THEN host[d] ELSE d

(* It is the one that was sent, or has no methods.                          *)
Is(d, o) == d = o \/ (d = Hollow /\ o \in Shm)

(* The descriptors made are the first of what the sender named, the tags    *)
(* left are the others, and so are the handles left, as far as there are.   *)
Internalizing(c, host) ==
  /\ c.out = <<>>
  /\ Len(c.new_desc) + Len(c.tags) = Len(c.meant)
  /\ \A k \in DOMAIN c.new_desc : Is(Object(c.new_desc[k], host), c.meant[k])
  /\ \A k \in DOMAIN c.tags : c.tags[k] = c.meant[Len(c.new_desc) + k]
  /\ Aligned(c.tags, [k \in DOMAIN c.handles |-> host[c.handles[k]]])

(* What was handed out and what will be are the first of them.              *)
Delivering(c, host) ==
  /\ "DESC_TRUNCATED" \in c.flags <=> c.desc_length < Len(c.meant)
  /\ Len(c.out) + Len(c.new_desc) <= Len(c.meant)
  /\ c.desc_length < Len(c.meant) =>
       Len(c.out) <= c.desc_length /\ c.desc_length <= Len(c.out) + Len(c.new_desc)
  /\ c.desc_length >= Len(c.meant) => Len(c.out) + Len(c.new_desc) = Len(c.meant)
  /\ \A k \in DOMAIN c.out : Is(c.out[k], c.meant[k])
  /\ \A k \in DOMAIN c.new_desc :
       Len(c.out) + k <= c.desc_length =>
         Is(Object(c.new_desc[k], host), c.meant[Len(c.out) + k])

Progress(c, host) ==
  /\ c.failed <=> c.pc = "cleanup"
  /\ c.pc = "idle" => c = Imc!NoCall
  /\ c.pc = "cleanup" => c.out = <<>>
  /\ c.pc = "internalize" => Internalizing(c, host)
  /\ c.pc = "deliver" => Delivering(c, host)

CallsSound ==
  /\ call \in [Receivers -> Calls]
  /\ \A r \in Receivers : Progress(call[r], handle)

ImcInvariant == SenderHolds /\ QueueSound /\ Ownership /\ CallsSound

(* Fewer of the objects, or the same again.                                 *)
LEMMA FewerAligned ==
  ASSUME NEW tags, NEW objects \in Seq(Imc!Objects), Aligned(tags, objects),
         NEW others, Len(others) \in Nat, Len(others) <= Len(objects),
         \A k \in 1 .. Len(others) : others[k] = objects[k]
  PROVE  Aligned(tags, others)
<1>1. PICK taken : /\ Numbers(tags, taken)
                   /\ Len(objects) <= Len(taken)
                   /\ \A k \in 1 .. Len(objects) : objects[k] = tags[taken[k]]
  BY DEF Aligned
<1>2. Len(objects) \in Nat /\ Len(taken) \in Nat
  BY <1>1, LenProperties DEF Numbers
<1>3. Len(others) <= Len(taken) /\ \A k \in 1 .. Len(others) : others[k] = tags[taken[k]]
  BY <1>1, <1>2
<1>4. QED BY <1>1, <1>3 DEF Aligned

(* A descriptor with a name takes none of the objects ...                   *)
LEMMA NameTaken ==
  ASSUME NEW tags \in Seq(Imc!Objects), NEW objects \in Seq(Imc!Objects),
         Aligned(tags, objects), tags # <<>>, Head(tags) \in ByName
  PROVE  Aligned(Tail(tags), objects)
<1>1. PICK taken : /\ Numbers(tags, taken)
                   /\ Len(objects) <= Len(taken)
                   /\ \A k \in 1 .. Len(objects) : objects[k] = tags[taken[k]]
  BY DEF Aligned
<1>2. /\ Len(tags) \in Nat \ {0} /\ DOMAIN tags = 1 .. Len(tags) /\ Head(tags) = tags[1]
      /\ DOMAIN Tail(tags) = 1 .. Len(tags) - 1
      /\ \A k \in 1 .. Len(tags) - 1 : Tail(tags)[k] = tags[k + 1]
  BY HeadTailProperties, LenProperties, EmptySeq
<1>3. /\ Len(taken) \in Nat /\ Len(objects) \in Nat /\ DOMAIN taken = 1 .. Len(taken)
      /\ \A n \in 1 .. Len(taken) : taken[n] \in 1 .. Len(tags)
  BY <1>1, <1>2, LenProperties, ElementOfSeq DEF Numbers
<1>4. \A n \in 1 .. Len(taken) : taken[n] # 1
  BY <1>1, <1>2, <1>3 DEF Numbers
<1> DEFINE rest == [n \in 1 .. Len(taken) |-> taken[n] - 1]
<1>5. \A n \in 1 .. Len(taken) : rest[n] \in 1 .. Len(tags) - 1 /\ rest[n] = taken[n] - 1
  BY <1>2, <1>3, <1>4
<1>6. /\ rest \in Seq(DOMAIN Tail(tags)) /\ Len(rest) = Len(taken)
      /\ DOMAIN rest = 1 .. Len(taken)
  BY <1>2, <1>3, <1>5
<1> HIDE DEF rest
<1>7. ASSUME NEW k \in DOMAIN Tail(tags)
      PROVE  Tail(tags)[k] \notin ByName <=> \E n \in DOMAIN rest : rest[n] = k
  <2>1. k + 1 \in DOMAIN tags /\ Tail(tags)[k] = tags[k + 1] BY <1>2
  <2>2. tags[k + 1] \notin ByName <=> \E n \in DOMAIN taken : taken[n] = k + 1
    BY <1>1, <2>1 DEF Numbers
  <2>3. \A n \in 1 .. Len(taken) : rest[n] = k <=> taken[n] = k + 1
    BY <1>2, <1>3, <1>5
  <2>4. QED BY <2>1, <2>2, <2>3, <1>3, <1>6
<1>8. \A m, n \in DOMAIN rest : m < n => rest[m] < rest[n]
  BY <1>1, <1>3, <1>5, <1>6 DEF Numbers
<1>9. \A k \in 1 .. Len(objects) : objects[k] = Tail(tags)[rest[k]]
  BY <1>1, <1>2, <1>3, <1>5
<1>10. QED BY <1>1, <1>6, <1>7, <1>8, <1>9 DEF Aligned, Numbers

(* ... and another one the first.                                           *)
LEMMA HandleTaken ==
  ASSUME NEW tags \in Seq(Imc!Objects), NEW objects \in Seq(Imc!Objects),
         Aligned(tags, objects), tags # <<>>, objects # <<>>, Head(tags) \notin ByName
  PROVE  objects[1] = Head(tags) /\ Aligned(Tail(tags), Tail(objects))
<1>1. PICK taken : /\ Numbers(tags, taken)
                   /\ Len(objects) <= Len(taken)
                   /\ \A k \in 1 .. Len(objects) : objects[k] = tags[taken[k]]
  BY DEF Aligned
<1>2. /\ Len(tags) \in Nat \ {0} /\ DOMAIN tags = 1 .. Len(tags) /\ Head(tags) = tags[1]
      /\ DOMAIN Tail(tags) = 1 .. Len(tags) - 1
      /\ \A k \in 1 .. Len(tags) - 1 : Tail(tags)[k] = tags[k + 1]
  BY HeadTailProperties, LenProperties, EmptySeq
<1>3. /\ Len(objects) \in Nat \ {0} /\ Len(Tail(objects)) = Len(objects) - 1
      /\ \A k \in 1 .. Len(objects) - 1 : Tail(objects)[k] = objects[k + 1]
  BY HeadTailProperties, LenProperties, EmptySeq
<1>4. /\ Len(taken) \in Nat \ {0} /\ DOMAIN taken = 1 .. Len(taken)
      /\ \A n \in 1 .. Len(taken) : taken[n] \in 1 .. Len(tags)
  BY <1>1, <1>2, <1>3, LenProperties, ElementOfSeq DEF Numbers
<1>5. taken[1] = 1
  <2>3. 1 \in DOMAIN tags /\ tags[1] \notin ByName
    BY <1>2
  <2>1. PICK n \in DOMAIN taken : taken[n] = 1
    BY <1>1, <2>3 DEF Numbers
  <2>2. n = 1 \/ taken[1] < taken[n]
    BY <1>1, <1>4 DEF Numbers
  <2>4. QED BY <2>1, <2>2, <1>4
<1>6. \A n \in 2 .. Len(taken) : taken[n] \in 2 .. Len(tags)
  <2>1. \A n \in 2 .. Len(taken) : n \in DOMAIN taken /\ 1 \in DOMAIN taken /\ 1 < n
    BY <1>4
  <2>2. \A n \in 2 .. Len(taken) : taken[1] < taken[n] /\ taken[n] \in 1 .. Len(tags)
    BY <2>1, <1>1, <1>4 DEF Numbers
  <2>3. QED BY <2>2, <1>5, <1>2
<1> DEFINE rest == [n \in 1 .. Len(taken) - 1 |-> taken[n + 1] - 1]
<1>7. \A n \in 1 .. Len(taken) - 1 :
        /\ rest[n] = taken[n + 1] - 1 /\ rest[n] \in 1 .. Len(tags) - 1
        /\ n + 1 \in 2 .. Len(taken) /\ n + 1 \in DOMAIN taken
  BY <1>2, <1>4, <1>6
<1>8. /\ rest \in Seq(DOMAIN Tail(tags)) /\ Len(rest) = Len(taken) - 1
      /\ DOMAIN rest = 1 .. Len(taken) - 1
  BY <1>2, <1>4, <1>7
<1> HIDE DEF rest
<1>9. ASSUME NEW k \in DOMAIN Tail(tags)
      PROVE  Tail(tags)[k] \notin ByName <=> \E n \in DOMAIN rest : rest[n] = k
  <2>1. k + 1 \in DOMAIN tags /\ Tail(tags)[k] = tags[k + 1] /\ k + 1 # 1 BY <1>2
  <2>2. tags[k + 1] \notin ByName <=> \E n \in DOMAIN taken : taken[n] = k + 1
    BY <1>1, <2>1 DEF Numbers
  <2>3. \A n \in 1 .. Len(taken) - 1 : rest[n] = k <=> taken[n + 1] = k + 1
    BY <1>2, <1>4, <1>7
  <2>4. \A n \in DOMAIN taken : taken[n] = k + 1 =>
          n - 1 \in 1 .. Len(taken) - 1 /\ (n - 1) + 1 = n
    BY <2>1, <1>4, <1>5
  <2>5. (\E n \in DOMAIN taken : taken[n] = k + 1) <=> \E n \in DOMAIN rest : rest[n] = k
    <3>1. ASSUME NEW n \in DOMAIN taken, taken[n] = k + 1
          PROVE  \E l \in DOMAIN rest : rest[l] = k
      <4>1. n - 1 \in 1 .. Len(taken) - 1 /\ (n - 1) + 1 = n BY <2>4, <3>1
      <4>2. rest[n - 1] = k BY <4>1, <2>3, <3>1
      <4>3. QED BY <4>1, <4>2, <1>8
    <3>2. ASSUME NEW n \in DOMAIN rest, rest[n] = k
          PROVE  \E l \in DOMAIN taken : taken[l] = k + 1
      BY <3>2, <2>3, <1>7, <1>8
    <3>3. QED BY <3>1, <3>2
  <2>6. QED BY <2>1, <2>2, <2>5
<1>10. ASSUME NEW m \in DOMAIN rest, NEW n \in DOMAIN rest, m < n
       PROVE  rest[m] < rest[n]
  <2>1. /\ m + 1 \in DOMAIN taken /\ n + 1 \in DOMAIN taken /\ m + 1 < n + 1
        /\ rest[m] = taken[m + 1] - 1 /\ rest[n] = taken[n + 1] - 1
    <3>1. m \in 1 .. Len(taken) - 1 /\ n \in 1 .. Len(taken) - 1 BY <1>8
    <3>2. m + 1 < n + 1 BY <3>1, <1>10, <1>4
    <3>3. QED BY <3>1, <3>2, <1>7
  <2>2. taken[m + 1] < taken[n + 1]
    BY <1>1, <2>1 DEF Numbers
  <2>3. taken[m + 1] \in Int /\ taken[n + 1] \in Int
    BY <2>1, <1>4
  <2>4. QED BY <2>1, <2>2, <2>3
<1>11. \A k \in 1 .. Len(objects) - 1 : Tail(objects)[k] = Tail(tags)[rest[k]]
  <2>1. ASSUME NEW k \in 1 .. Len(objects) - 1 PROVE Tail(objects)[k] = Tail(tags)[rest[k]]
    <3>1. /\ k \in 1 .. Len(taken) - 1 /\ k + 1 \in 1 .. Len(objects)
          /\ Tail(objects)[k] = objects[k + 1]
      BY <1>1, <1>3, <1>4
    <3>2. objects[k + 1] = tags[taken[k + 1]] BY <1>1, <3>1
    <3>3. taken[k + 1] = rest[k] + 1 /\ rest[k] \in 1 .. Len(tags) - 1
      BY <1>6, <1>7, <3>1
    <3>4. QED BY <3>1, <3>2, <3>3, <1>2
  <2>2. QED BY <2>1
<1>12. objects[1] = Head(tags)
  BY <1>1, <1>2, <1>3, <1>5
<1>13. Len(Tail(objects)) <= Len(rest)
  BY <1>1, <1>3, <1>4, <1>8
<1>14. QED BY <1>3, <1>8, <1>9, <1>10, <1>11, <1>12, <1>13 DEF Aligned, Numbers

(* The model's Cardinality is the library's.                                *)
LEMMA SameCardinality == ASSUME NEW S PROVE Imc!Cardinality(S) = Cardinality(S)
  BY Zenon DEF Imc!Cardinality, Cardinality

(* The objects that SendMsg sends, all of them open.                        *)
LEMMA SentAligned ==
  ASSUME NEW tags \in Seq(Imc!Objects),
         NEW taken \in Imc!InOrder({k \in DOMAIN tags : tags[k] \notin ByName})
  PROVE  LET objects == [k \in DOMAIN taken |-> tags[taken[k]]]
         IN objects \in Seq(Imc!Objects) /\ Aligned(tags, objects)
<1> DEFINE places == {k \in DOMAIN tags : tags[k] \notin ByName}
           objects == [k \in DOMAIN taken |-> tags[taken[k]]]
<1>1. Imc!Cardinality(places) \in Nat
  <2>1. IsFiniteSet(DOMAIN tags) /\ places \subseteq DOMAIN tags
    BY LenProperties, FS_Interval
  <2>2. QED BY <2>1, FS_Subset, FS_CardinalityType, SameCardinality
<1>9. taken \in Imc!InOrder(places)
  OBVIOUS
<1>10. \A k \in places : k \in DOMAIN tags
  OBVIOUS
<1>4. \A k \in DOMAIN tags : tags[k] \notin ByName <=> k \in places
  OBVIOUS
<1> HIDE DEF places
<1>2. /\ taken \in [1 .. Imc!Cardinality(places) -> places]
      /\ Imc!Range(taken) = places
      /\ \A m, n \in DOMAIN taken : m < n => taken[m] < taken[n]
  BY <1>9 DEF Imc!InOrder
<1> DEFINE count == Imc!Cardinality(places)
           positions == DOMAIN tags
<1>12. count \in Nat /\ taken \in [1 .. count -> positions]
  BY <1>1, <1>2, <1>10
<1> HIDE DEF count, positions
<1>13. taken \in Seq(positions) /\ Len(taken) = count /\ DOMAIN taken = 1 .. count
  BY <1>12
<1>3. /\ taken \in Seq(DOMAIN tags) /\ DOMAIN taken = 1 .. count /\ Len(taken) = count
      /\ \A n \in DOMAIN taken : taken[n] \in DOMAIN tags
  BY <1>12, <1>13 DEF positions
<1>11. \A k \in DOMAIN tags : tags[k] \notin ByName <=> \E n \in DOMAIN taken : taken[n] = k
  BY <1>2, <1>4 DEF Imc!Range
<1>5. /\ objects \in Seq(Imc!Objects) /\ Len(objects) = Len(taken)
      /\ \A k \in 1 .. Len(objects) : objects[k] = tags[taken[k]]
  <2>3. \A k \in DOMAIN tags : tags[k] \in Imc!Objects
    BY ElementOfSeq, LenProperties
  <2>1. \A k \in 1 .. count : tags[taken[k]] \in Imc!Objects
    BY <1>3, <2>3
  <2>2. objects = [k \in 1 .. count |-> tags[taken[k]]]
    BY <1>3
  <2>4. QED BY <2>1, <2>2, <1>12, <1>3
<1>6. Numbers(tags, taken)
  BY <1>2, <1>3, <1>11 DEF Numbers
<1>7. Len(objects) <= Len(taken)
  BY <1>1, <1>3, <1>5
<1>8. QED BY <1>5, <1>6, <1>7 DEF Aligned

-----------------------------------------------------------------------------
(* What a step of one call does to the handles of the process: nothing, or  *)
(* it opens one for the call, or the call gives one up, which is closed,    *)
(* enters the table or is lost.  q is the call before the step, c after it. *)
HandleMoves(h, q, c) ==
  \/ /\ handle'[h] = handle[h]
     /\ h \in installed' <=> h \in installed
     /\ h \in lost' <=> h \in lost
     /\ h \in Owned(c) <=> h \in Owned(q)
  \/ /\ handle[h] = Imc!Closed /\ handle'[h] # Imc!Closed
     /\ h \in Owned(c) /\ h \notin installed' /\ h \notin lost'
  \/ /\ h \in Owned(q) /\ h \notin Owned(c)
     /\ handle'[h] = Imc!Closed /\ h \notin installed' /\ h \notin lost'
  \/ /\ h \in Owned(q) /\ h \notin Owned(c)
     /\ handle'[h] = handle[h] /\ (h \in installed' <=> h \notin lost')

(* The other calls still have their handles, with the same objects.         *)
LEMMA KeepsProgress ==
  ASSUME NEW c \in Calls, NEW host, NEW other, Progress(c, host),
         \A h \in Owned(c) : other[h] = host[h]
  PROVE  Progress(c, other)
<1>1. /\ \A k \in DOMAIN c.handles : c.handles[k] \in Owned(c)
      /\ \A k \in DOMAIN c.new_desc : c.new_desc[k] \in Imc!Handles => c.new_desc[k] \in Owned(c)
  <2>1. /\ c.handles \in Seq(Imc!Handles)
    BY DEF Calls
  <2>2. \A k \in DOMAIN c.handles : c.handles[k] \in Imc!Handles
    BY <2>1, ElementOfSeq, LenProperties
  <2>3. QED BY <2>2 DEF Owned, OwnedIn
<1>2. [k \in DOMAIN c.handles |-> host[c.handles[k]]] = [k \in DOMAIN c.handles |-> other[c.handles[k]]]
  BY <1>1
<1>3. \A k \in DOMAIN c.new_desc : Object(c.new_desc[k], host) = Object(c.new_desc[k], other)
  BY <1>1 DEF Object
<1>4. Internalizing(c, host) => Internalizing(c, other)
  BY <1>2, <1>3 DEF Internalizing
<1>5. Delivering(c, host) => Delivering(c, other)
  BY <1>3 DEF Delivering
<1>6. QED BY <1>4, <1>5 DEF Progress

(* A step of one call that keeps the invariant of that call.                *)
LEMMA CallStep ==
  ASSUME ImcInvariant, NEW r \in Receivers, NEW c \in Calls,
         call' = [call EXCEPT ![r] = c],
         OnePlace(c.handles, c.new_desc), Progress(c, handle'),
         handle' \in [Imc!Handles -> Imc!Objects \cup {Imc!Closed}],
         installed' \subseteq Imc!Handles \cup {Hollow}, lost' \subseteq Imc!Handles,
         \A h \in Imc!Handles : HandleMoves(h, call[r], c),
         UNCHANGED <<named, opened, sending>>, QueueSound'
  PROVE  ImcInvariant'
<1>1. /\ call \in [Receivers -> Calls] /\ call' \in [Receivers -> Calls] /\ call'[r] = c
      /\ \A q \in Receivers : q # r => call'[q] = call[q]
  BY DEF ImcInvariant, CallsSound
<1>2. \A q \in Receivers : Owned(call[q]) \subseteq Imc!Handles /\ Owned(c) \subseteq Imc!Handles
  BY DEF Owned, OwnedIn
<1>3. ASSUME NEW q \in Receivers, q # r, NEW h \in Owned(call[q])
      PROVE  /\ h \notin Owned(c) /\ handle'[h] = handle[h]
             /\ h \notin installed' /\ h \notin lost'
  <2>1. /\ h \in Imc!Handles /\ h \notin Owned(call[r]) /\ h \notin installed /\ h \notin lost
        /\ handle[h] # Imc!Closed
    BY <1>2, <1>3 DEF ImcInvariant, Ownership
  <2>2. QED BY <2>1 DEF HandleMoves
<1>4. SenderHolds'
  BY DEF ImcInvariant, SenderHolds, Imc!Held
<1>5. CallsSound'
  <2>1. ASSUME NEW q \in Receivers PROVE Progress(call'[q], handle')
    <3>1. CASE q = r BY <3>1, <1>1
    <3>2. CASE q # r
      <4>1. call[q] \in Calls /\ Progress(call[q], handle)
        BY <1>1 DEF ImcInvariant, CallsSound
      <4>2. \A h \in Owned(call[q]) : handle'[h] = handle[h] BY <1>3, <3>2
      <4>3. Progress(call[q], handle') BY <4>1, <4>2, KeepsProgress
      <4>4. QED BY <4>3, <1>1, <3>2
    <3>3. QED BY <3>1, <3>2
  <2>2. QED BY <1>1, <2>1 DEF CallsSound
<1>6. Ownership'
  <2>1. \A q \in Receivers : OnePlace(call'[q].handles, call'[q].new_desc)
    BY <1>1 DEF ImcInvariant, Ownership
  <2>2. ASSUME NEW h \in Owned(c), h \in installed' \/ h \in lost' PROVE FALSE
    <3>1. h \in Imc!Handles BY <1>2
    <3>2. h \in Owned(call[r]) => h \notin installed /\ h \notin lost
      BY DEF ImcInvariant, Ownership
    <3>3. QED BY <2>2, <3>1, <3>2 DEF HandleMoves
  <2>3. \A q \in Receivers : Owned(call'[q]) \cap (installed' \cup lost') = {}
    BY <2>2, <1>1, <1>3
  <2>4. ASSUME NEW p \in Receivers, NEW q \in Receivers, p # q
        PROVE  Owned(call'[p]) \cap Owned(call'[q]) = {}
    <3>1. CASE p # r /\ q # r
      BY <3>1, <2>4, <1>1 DEF ImcInvariant, Ownership
    <3>2. CASE p = r
      <4>1. q # r BY <2>4, <3>2
      <4>2. call'[p] = c /\ call'[q] = call[q] BY <1>1, <3>2, <4>1
      <4>3. QED BY <4>1, <4>2, <1>3
    <3>3. CASE q = r
      <4>1. p # r BY <2>4, <3>3
      <4>2. call'[q] = c /\ call'[p] = call[p] BY <1>1, <3>3, <4>1
      <4>3. QED BY <4>1, <4>2, <1>3
    <3>4. QED BY <3>1, <3>2, <3>3
  <2>5. ASSUME NEW h \in Imc!Handles
        PROVE  handle'[h] # Imc!Closed
                 <=> h \in installed' \cup lost' \/ \E q \in Receivers : h \in Owned(call'[q])
    <3>1. (\E q \in Receivers : h \in Owned(call'[q]))
            <=> h \in Owned(c) \/ \E q \in Receivers \ {r} : h \in Owned(call[q])
      BY <1>1
    <3>2. (\E q \in Receivers : h \in Owned(call[q]))
            <=> h \in Owned(call[r]) \/ \E q \in Receivers \ {r} : h \in Owned(call[q])
      OBVIOUS
    <3>3. handle[h] # Imc!Closed <=> h \in installed \cup lost \/ \E q \in Receivers : h \in Owned(call[q])
      BY DEF ImcInvariant, Ownership
    <3>4. (\E q \in Receivers \ {r} : h \in Owned(call[q])) =>
            h \notin Owned(call[r])
      BY DEF ImcInvariant, Ownership
    <3>5. HandleMoves(h, call[r], c) OBVIOUS
    <3>6. QED BY <3>1, <3>2, <3>3, <3>4, <3>5 DEF HandleMoves
  <2>6. installed' \cap lost' = {}
    <3>1. \A h \in Imc!Handles : h \in installed => h \notin lost
      BY DEF ImcInvariant, Ownership
    <3>2. \A h \in Owned(call[r]) : h \notin installed /\ h \notin lost
      BY DEF ImcInvariant, Ownership
    <3>3. \A h \in Imc!Handles : ~(h \in installed' /\ h \in lost')
      BY <3>1, <3>2 DEF HandleMoves
    <3>4. QED BY <3>3
  <2>7. QED BY <2>1, <2>3, <2>4, <2>5, <2>6 DEF Ownership
<1>7. QED BY <1>4, <1>5, <1>6 DEF ImcInvariant

(* What the invariant says of one call.                                     *)
LEMMA CallHolds ==
  ASSUME ImcInvariant, NEW r \in Receivers
  PROVE  /\ call \in [Receivers -> Calls] /\ call[r] \in Calls
         /\ handle \in [Imc!Handles -> Imc!Objects \cup {Imc!Closed}]
         /\ installed \subseteq Imc!Handles \cup {Hollow} /\ lost \subseteq Imc!Handles
         /\ call[r].handles \in Seq(Imc!Handles) /\ call[r].new_desc \in Seq(NewDescs)
         /\ call[r].tags \in Seq(Imc!Objects) /\ call[r].out \in Seq(Received)
         /\ call[r].meant \in Seq(Imc!Objects) /\ call[r].desc_length \in Nat
         /\ OnePlace(call[r].handles, call[r].new_desc)
         /\ Progress(call[r], handle)
         /\ \A h \in Owned(call[r]) :
              /\ h \in Imc!Handles /\ h \notin installed /\ h \notin lost
              /\ handle[h] \in Imc!Objects
<1>1. call \in [Receivers -> Calls] /\ call[r] \in Calls
  BY DEF ImcInvariant, CallsSound
<1>2. \A h \in Owned(call[r]) : h \in Imc!Handles
  BY DEF Owned, OwnedIn
<1>3. \A h \in Owned(call[r]) :
        h \notin installed /\ h \notin lost /\ handle[h] \in Imc!Objects
  BY <1>2 DEF ImcInvariant, Ownership
<1>4. QED BY <1>1, <1>2, <1>3 DEF ImcInvariant, Ownership, CallsSound, Calls

-----------------------------------------------------------------------------
(* The steps of a receive.                                                  *)

LEMMA SameQueue ==
  ASSUME ImcInvariant, UNCHANGED queue PROVE QueueSound'
  BY DEF ImcInvariant, QueueSound

(* The handles of a message are opened, and all of them are the call's.     *)
LEMMA ReceiveStep ==
  ASSUME Imc!Bounds, ImcInvariant, NEW r \in Receivers, NEW room \in Rooms,
         Imc!RecvMsg(r, room)
  PROVE  ImcInvariant'
<1> DEFINE msg == Head(queue)
<1>1. /\ call[r].pc = "idle" /\ queue # <<>> /\ queue' = Tail(queue)
      /\ UNCHANGED <<named, opened, sending, send_pc, sends, installed, lost>>
  BY DEF Imc!RecvMsg, Imc!sender, Imc!ghosts
<1>2. PICK lowest \in SUBSET Imc!ClosedHandles :
        /\ Imc!Cardinality(lowest) <= Len(msg.objects)
        /\ \E given \in Imc!InOrder(lowest) :
             /\ handle' = [h \in Imc!Handles |->
                              IF h \in lowest
                              THEN msg.objects[CHOOSE k \in DOMAIN given : given[k] = h]
                              ELSE handle[h]]
             /\ Imc!Set(r, [Imc!NoCall EXCEPT
                          !.pc = "internalize", !.tags = msg.tags, !.handles = given,
                          !.desc_length = room, !.meant = msg.tags])
  BY Zenon DEF Imc!RecvMsg
<1>3. PICK given \in Imc!InOrder(lowest) :
             /\ handle' = [h \in Imc!Handles |->
                              IF h \in lowest
                              THEN msg.objects[CHOOSE k \in DOMAIN given : given[k] = h]
                              ELSE handle[h]]
             /\ Imc!Set(r, [Imc!NoCall EXCEPT
                          !.pc = "internalize", !.tags = msg.tags, !.handles = given,
                          !.desc_length = room, !.meant = msg.tags])
  BY <1>2
<1>4. /\ msg \in [tags : Seq(Imc!Objects), objects : Seq(Imc!Objects)]
      /\ Aligned(msg.tags, msg.objects) /\ QueueSound'
  <2>1. /\ Tail(queue) \in Seq([tags : Seq(Imc!Objects), objects : Seq(Imc!Objects)])
        /\ msg \in [tags : Seq(Imc!Objects), objects : Seq(Imc!Objects)]
        /\ DOMAIN queue = 1 .. Len(queue) /\ Len(queue) \in Nat \ {0} /\ msg = queue[1]
        /\ DOMAIN Tail(queue) = 1 .. Len(queue) - 1
        /\ \A k \in 1 .. Len(queue) - 1 : Tail(queue)[k] = queue[k + 1]
    <3> DEFINE M == [tags : Seq(Imc!Objects), objects : Seq(Imc!Objects)]
    <3>1. queue \in Seq(M) BY DEF ImcInvariant, QueueSound
    <3> HIDE DEF M
    <3>2. /\ Tail(queue) \in Seq(M) /\ msg \in M
          /\ DOMAIN queue = 1 .. Len(queue) /\ Len(queue) \in Nat \ {0} /\ msg = queue[1]
          /\ DOMAIN Tail(queue) = 1 .. Len(queue) - 1
          /\ \A k \in 1 .. Len(queue) - 1 : Tail(queue)[k] = queue[k + 1]
      BY <3>1, <1>1, HeadTailProperties, LenProperties, EmptySeq
    <3>3. QED BY <3>2 DEF M
  <2>2. \A k \in DOMAIN queue : Aligned(queue[k].tags, queue[k].objects)
    BY DEF ImcInvariant, QueueSound
  <2>3. \A k \in DOMAIN Tail(queue) : k + 1 \in DOMAIN queue /\ Tail(queue)[k] = queue[k + 1]
    BY <2>1
  <2>4. \A k \in DOMAIN Tail(queue) : Aligned(Tail(queue)[k].tags, Tail(queue)[k].objects)
    BY <2>2, <2>3
  <2>5. 1 \in DOMAIN queue BY <2>1
  <2>6. QED BY <2>1, <2>2, <2>4, <2>5, <1>1 DEF QueueSound
<1> HIDE DEF msg
<1> DEFINE count == Imc!Cardinality(lowest)
<1>5. count \in Nat /\ lowest \subseteq Imc!Handles /\ \A h \in lowest : handle[h] = Imc!Closed
  <2>1. /\ lowest \subseteq Imc!Handles
        /\ \A h \in lowest : handle[h] = Imc!Closed
    BY DEF Imc!ClosedHandles
  <2>2. IsFiniteSet(Imc!Handles)
    BY FS_Interval DEF Imc!Handles, Imc!Bounds
  <2>3. QED BY <2>1, <2>2, FS_Subset, FS_CardinalityType, SameCardinality
<1>6. /\ given \in [1 .. count -> lowest] /\ \A h \in lowest : \E k \in DOMAIN given : given[k] = h
      /\ \A m, n \in DOMAIN given : m < n => given[m] < given[n]
  <2>1. /\ given \in [1 .. count -> lowest] /\ Imc!Range(given) = lowest
        /\ \A m, n \in DOMAIN given : m < n => given[m] < given[n]
    BY DEF Imc!InOrder
  <2>2. QED BY <2>1 DEF Imc!Range
<1>7. count <= Len(msg.objects)
  BY <1>2
<1> HIDE DEF count
<1>8. /\ given \in Seq(Imc!Handles) /\ Len(given) = count /\ DOMAIN given = 1 .. count
      /\ \A k \in DOMAIN given : given[k] \in lowest /\ given[k] \in Nat
  <2>1. /\ given \in [1 .. count -> lowest] /\ count \in Nat
        /\ \A h \in lowest : h \in Imc!Handles /\ h \in Nat
    BY <1>5, <1>6 DEF Imc!Handles
  <2>2. given \in [1 .. count -> Imc!Handles]
    BY <2>1
  <2>3. given \in Seq(Imc!Handles) /\ Len(given) = count /\ DOMAIN given = 1 .. count
    BY <2>2, <2>1
  <2>4. QED BY <2>1, <2>3
<1>9. \A m, n \in DOMAIN given : given[m] = given[n] => m = n
  <2>1. ASSUME NEW m \in DOMAIN given, NEW n \in DOMAIN given, m # n
        PROVE  given[m] # given[n]
    <3>1. given[m] \in Nat /\ given[n] \in Nat /\ (m < n \/ n < m)
      BY <1>8, <2>1, <1>5
    <3>2. QED BY <3>1, <1>6
  <2>2. QED BY <2>1
<1>10. /\ msg.tags \in Seq(Imc!Objects) /\ msg.objects \in Seq(Imc!Objects)
       /\ Len(msg.tags) \in Nat /\ Len(msg.objects) \in Nat
       /\ \A k \in 1 .. Len(msg.objects) : msg.objects[k] \in Imc!Objects
  BY <1>4, LenProperties, ElementOfSeq
<1>11. \A k \in DOMAIN given : handle'[given[k]] = msg.objects[k]
  <2>1. ASSUME NEW k \in DOMAIN given PROVE handle'[given[k]] = msg.objects[k]
    <3>1. (CHOOSE n \in DOMAIN given : given[n] = given[k]) = k
      BY <1>9
    <3>2. handle'[given[k]] = msg.objects[CHOOSE n \in DOMAIN given : given[n] = given[k]]
      BY <1>3, <1>5, <1>8
    <3>3. QED BY <3>1, <3>2
  <2>2. QED BY <2>1
<1>12. /\ \A h \in lowest : handle'[h] \in Imc!Objects
       /\ \A h \in Imc!Handles \ lowest : handle'[h] = handle[h]
  <2>1. ASSUME NEW h \in lowest PROVE handle'[h] \in Imc!Objects
    <3>1. PICK k \in DOMAIN given : given[k] = h BY <1>6
    <3>2. k \in 1 .. Len(msg.objects) BY <1>5, <1>7, <1>8, <1>10
    <3>3. QED BY <3>1, <3>2, <1>10, <1>11
  <2>2. QED BY <2>1, <1>3
<1>13. handle' \in [Imc!Handles -> Imc!Objects \cup {Imc!Closed}]
  <2>1. handle' = [h \in Imc!Handles |-> handle'[h]] BY <1>3
  <2>2. \A h \in Imc!Handles : handle'[h] \in Imc!Objects \cup {Imc!Closed}
    BY <1>12, CallHolds
  <2>3. QED BY <2>1, <2>2
<1> DEFINE c == [Imc!NoCall EXCEPT
                   !.pc = "internalize", !.tags = msg.tags, !.handles = given,
                   !.desc_length = room, !.meant = msg.tags]
<1>14. /\ c.pc = "internalize" /\ c.tags = msg.tags /\ c.handles = given /\ c.new_desc = <<>>
       /\ c.out = <<>> /\ c.meant = msg.tags /\ ~c.failed /\ c \in Calls
       /\ call' = [call EXCEPT ![r] = c]
  <2>1. room \in Nat BY DEF Imc!Bounds
  <2>3. /\ <<>> \in Seq(NewDescs) /\ <<>> \in Seq(Imc!Objects) /\ <<>> \in Seq(Received)
        /\ {} \in SUBSET {"DESC_TRUNCATED"}
    BY EmptySeq
  <2>4. call' = [call EXCEPT ![r] = c]
    BY <1>3 DEF Imc!Set
  <2>5. Imc!NoCall \in Calls
    BY <2>3, EmptySeq DEF Imc!NoCall, Calls
  <2>6. c \in Calls
    BY <2>1, <2>5, <1>8, <1>10 DEF Calls
  <2>7. /\ c.pc = "internalize" /\ c.tags = msg.tags /\ c.handles = given
        /\ c.new_desc = <<>> /\ c.out = <<>> /\ c.meant = msg.tags
    BY DEF Imc!NoCall
  <2>8. ~c.failed
    BY DEF Imc!NoCall
  <2>9. QED BY <2>4, <2>6, <2>7, <2>8
<1> HIDE DEF c
<1>15. Owned(call[r]) = {}
  <2>1. call[r] = Imc!NoCall BY <1>1, CallHolds DEF Progress
  <2>2. call[r].handles = <<>> /\ call[r].new_desc = <<>> BY <2>1 DEF Imc!NoCall
  <2>3. QED BY <2>2 DEF Owned, OwnedIn
<1>16. Owned(c) = lowest /\ OnePlace(c.handles, c.new_desc)
  <2>1. \A h \in Imc!Handles : h \in Owned(c) <=> h \in lowest
    BY <1>14, <1>8, <1>6 DEF Owned, OwnedIn
  <2>2. Owned(c) \subseteq Imc!Handles BY DEF Owned, OwnedIn
  <2>3. Owned(c) = lowest BY <2>1, <2>2, <1>5
  <2>4. DOMAIN c.new_desc = {} BY <1>14
  <2>5. QED BY <2>3, <2>4, <1>9, <1>14 DEF OnePlace
<1>17. Progress(c, handle')
  <2>1. Aligned(c.tags, [k \in DOMAIN c.handles |-> handle'[c.handles[k]]])
    <3> DEFINE objects == [k \in DOMAIN given |-> handle'[given[k]]]
    <3>1. /\ Len(objects) = count /\ count <= Len(msg.objects)
          /\ \A k \in 1 .. count : objects[k] = msg.objects[k]
      <4>1. objects = [k \in 1 .. count |-> handle'[given[k]]] BY <1>8
      <4>2. QED BY <4>1, <1>5, <1>7, <1>8, <1>11
    <3> HIDE DEF objects
    <3>2. Aligned(msg.tags, objects)
      BY <3>1, <1>4, <1>5, <1>10, FewerAligned
    <3>3. QED BY <3>2, <1>14 DEF objects
  <2>2. Internalizing(c, handle')
    BY <2>1, <1>14, <1>10 DEF Internalizing
  <2>3. QED BY <2>2, <1>14 DEF Progress
<1>18. \A h \in Imc!Handles : HandleMoves(h, call[r], c)
  <2>1. ASSUME NEW h \in lowest PROVE HandleMoves(h, call[r], c)
    <3>1. handle[h] = Imc!Closed /\ handle'[h] # Imc!Closed
      BY <1>5, <1>12 DEF Imc!Bounds
    <3>2. h \notin installed' /\ h \notin lost'
      BY <3>1, <1>1, <1>5 DEF ImcInvariant, Ownership
    <3>3. QED BY <3>1, <3>2, <1>16 DEF HandleMoves
  <2>2. ASSUME NEW h \in Imc!Handles, h \notin lowest PROVE HandleMoves(h, call[r], c)
    BY <2>2, <1>1, <1>12, <1>15, <1>16 DEF HandleMoves
  <2>3. QED BY <2>1, <2>2
<1>19. QED BY <1>1, <1>4, <1>13, <1>14, <1>16, <1>17, <1>18, CallHolds, CallStep

(* One more descriptor is made of the next tag, and of the next handle.     *)
LEMMA MoreInternalized ==
  ASSUME NEW c \in Calls, NEW host, Internalizing(c, host), c.tags # <<>>,
         NEW d, Is(Object(d, host), Head(c.tags)), NEW e \in Calls,
         e.tags = Tail(c.tags), e.new_desc = Append(c.new_desc, d), d \in NewDescs,
         e.out = c.out, e.meant = c.meant,
         Aligned(e.tags, [k \in DOMAIN e.handles |-> host[e.handles[k]]])
  PROVE  Internalizing(e, host)
<1> DEFINE n == Len(c.new_desc)
           m == Len(c.tags)
<1>1. /\ c.tags \in Seq(Imc!Objects) /\ c.new_desc \in Seq(NewDescs)
  BY DEF Calls
<1>2. /\ m \in Nat \ {0} /\ DOMAIN c.tags = 1 .. m /\ Head(c.tags) = c.tags[1]
      /\ DOMAIN e.tags = 1 .. m - 1 /\ Len(e.tags) = m - 1
      /\ \A k \in 1 .. m - 1 : e.tags[k] = c.tags[k + 1]
  BY <1>1, HeadTailProperties, LenProperties, EmptySeq
<1>3. /\ n \in Nat /\ DOMAIN c.new_desc = 1 .. n /\ Len(e.new_desc) = n + 1
      /\ DOMAIN e.new_desc = 1 .. n + 1
      /\ \A k \in 1 .. n : e.new_desc[k] = c.new_desc[k]
      /\ e.new_desc[n + 1] = d
  BY <1>1, AppendProperties, LenProperties
<1>4. /\ c.out = <<>> /\ n + m = Len(c.meant)
      /\ \A k \in 1 .. n : Is(Object(c.new_desc[k], host), c.meant[k])
      /\ \A k \in 1 .. m : c.tags[k] = c.meant[n + k]
  BY <1>2, <1>3 DEF Internalizing
<1> HIDE DEF n, m
<1>5. \A k \in 1 .. n + 1 : Is(Object(e.new_desc[k], host), c.meant[k])
  <2>1. Is(Object(e.new_desc[n + 1], host), c.meant[n + 1])
    BY <1>2, <1>3, <1>4
  <2>2. QED BY <2>1, <1>3, <1>4
<1>6. \A k \in 1 .. m - 1 : e.tags[k] = c.meant[(n + 1) + k]
  <2>1. \A k \in 1 .. m - 1 : k + 1 \in 1 .. m /\ n + (k + 1) = (n + 1) + k
    BY <1>2, <1>3
  <2>2. QED BY <2>1, <1>2, <1>4
<1>7. (n + 1) + (m - 1) = n + m BY <1>2, <1>3
<1>8. QED BY <1>2, <1>3, <1>4, <1>5, <1>6, <1>7 DEF Internalizing

(* The next tag is of the first handle in kern_handle, and the tags behind  *)
(* it are of the others.                                                    *)
LEMMA TakesHandle ==
  ASSUME NEW c \in Calls, NEW host, Internalizing(c, host),
         \A h \in Owned(c) : host[h] \in Imc!Objects,
         c.tags # <<>>, c.handles # <<>>, Head(c.tags) \notin ByName
  PROVE  /\ host[Head(c.handles)] = Head(c.tags)
         /\ Aligned(Tail(c.tags),
                    [k \in DOMAIN Tail(c.handles) |-> host[Tail(c.handles)[k]]])
<1> DEFINE n == Len(c.handles)
           objects == [k \in DOMAIN c.handles |-> host[c.handles[k]]]
           others == [k \in DOMAIN Tail(c.handles) |-> host[Tail(c.handles)[k]]]
<1>1. c.tags \in Seq(Imc!Objects) /\ c.handles \in Seq(Imc!Handles)
  BY DEF Calls
<1>2. /\ n \in Nat \ {0} /\ DOMAIN c.handles = 1 .. n /\ Head(c.handles) = c.handles[1]
      /\ DOMAIN Tail(c.handles) = 1 .. n - 1
      /\ \A k \in 1 .. n - 1 : Tail(c.handles)[k] = c.handles[k + 1]
      /\ \A k \in 1 .. n : c.handles[k] \in Imc!Handles
  BY <1>1, HeadTailProperties, LenProperties, EmptySeq, ElementOfSeq
<1>3. \A k \in 1 .. n : host[c.handles[k]] \in Imc!Objects
  BY <1>2 DEF Owned, OwnedIn
<1>4. /\ objects \in Seq(Imc!Objects) /\ Len(objects) = n
      /\ \A k \in 1 .. n : objects[k] = host[c.handles[k]]
  BY <1>2, <1>3
<1>5. /\ Len(others) = n - 1
      /\ \A k \in 1 .. n - 1 : others[k] = host[c.handles[k + 1]]
  <2>1. others = [k \in 1 .. n - 1 |-> host[Tail(c.handles)[k]]] BY <1>2
  <2>2. QED BY <2>1, <1>2
<1>6. Aligned(c.tags, objects)
  BY DEF Internalizing
<1> HIDE DEF n, objects, others
<1>7. objects # <<>> BY <1>2, <1>4
<1>8. objects[1] = Head(c.tags) /\ Aligned(Tail(c.tags), Tail(objects))
  BY <1>1, <1>4, <1>6, <1>7, HandleTaken
<1>9. /\ Tail(objects) \in Seq(Imc!Objects) /\ Len(Tail(objects)) = n - 1
      /\ \A k \in 1 .. n - 1 : Tail(objects)[k] = objects[k + 1]
  BY <1>4, <1>7, HeadTailProperties
<1>10. \A k \in 1 .. n - 1 : others[k] = Tail(objects)[k]
  <2>1. ASSUME NEW k \in 1 .. n - 1 PROVE others[k] = Tail(objects)[k]
    <3>1. k + 1 \in 1 .. n BY <1>2
    <3>2. objects[k + 1] = host[c.handles[k + 1]] BY <3>1, <1>4
    <3>3. QED BY <3>2, <1>5, <1>9
  <2>2. QED BY <2>1
<1>11. Aligned(Tail(c.tags), others)
  <2>1. n - 1 \in Nat BY <1>2
  <2>2. /\ Len(others) \in Nat /\ Len(others) <= Len(Tail(objects))
        /\ \A k \in 1 .. Len(others) : others[k] = Tail(objects)[k]
    BY <2>1, <1>5, <1>9, <1>10
  <2>3. Tail(objects) \in Seq(Imc!Objects) /\ Aligned(Tail(c.tags), Tail(objects))
    BY <1>8, <1>9
  <2>4. QED BY <2>2, <2>3, FewerAligned
<1>12. 1 \in 1 .. n BY <1>2
<1>13. QED BY <1>2, <1>4, <1>8, <1>11, <1>12 DEF others

LEMMA InternalizeStep ==
  ASSUME Imc!Bounds, ImcInvariant, NEW r \in Receivers, Imc!Internalize(r)
  PROVE  ImcInvariant'
<1> DEFINE c == call[r]
           o == Head(c.tags)
           objects == [k \in DOMAIN c.handles |-> handle[c.handles[k]]]
<1>1. /\ c.pc = "internalize" /\ c.tags # <<>> /\ (o \in ByName \/ c.handles # <<>>)
      /\ UNCHANGED <<named, opened, sending, queue, handle, installed, lost>>
      /\ call' = [call EXCEPT ![r] = [c EXCEPT
                  !.tags = Tail(@),
                  !.new_desc = Append(@, IF o \in ByName THEN o ELSE Head(c.handles)),
                  !.handles = IF o \in ByName THEN @ ELSE Tail(c.handles)]]
  BY DEF Imc!Internalize, Imc!Set, Imc!LeftHandles, Imc!sender, Imc!ghosts
<1>2. /\ c \in Calls /\ c.tags \in Seq(Imc!Objects) /\ c.new_desc \in Seq(NewDescs)
      /\ c.handles \in Seq(Imc!Handles) /\ OnePlace(c.handles, c.new_desc)
      /\ Progress(c, handle) /\ Internalizing(c, handle) /\ ~c.failed
      /\ \A h \in OwnedIn(c.handles, c.new_desc) : h \in Imc!Handles /\ handle[h] \in Imc!Objects
  BY <1>1, CallHolds DEF Progress, Owned
<1>3. o \in Imc!Objects /\ Tail(c.tags) \in Seq(Imc!Objects)
  BY <1>1, <1>2, HeadTailProperties
<1>4. /\ objects \in Seq(Imc!Objects) /\ Len(objects) = Len(c.handles)
      /\ DOMAIN c.handles = 1 .. Len(c.handles) /\ Len(c.handles) \in Nat
      /\ \A k \in 1 .. Len(c.handles) : objects[k] = handle[c.handles[k]]
  <2>1. \A k \in DOMAIN c.handles : c.handles[k] \in Imc!Handles
    BY <1>2, ElementOfSeq, LenProperties
  <2>2. \A k \in DOMAIN c.handles : handle[c.handles[k]] \in Imc!Objects
    BY <2>1, <1>2 DEF OwnedIn
  <2>3. DOMAIN c.handles = 1 .. Len(c.handles) /\ Len(c.handles) \in Nat
    BY <1>2, LenProperties
  <2>4. QED BY <2>2, <2>3
<1>5. Aligned(c.tags, objects)
  BY <1>2 DEF Internalizing
<1> HIDE DEF c, objects
<1>6. CASE o \in ByName
  <2> DEFINE e == [c EXCEPT !.tags = Tail(@), !.new_desc = Append(@, o)]
  <2>1. o \notin Imc!Handles /\ o \in NewDescs
    BY <1>6 DEF Imc!Bounds, NewDescs
  <2>2. /\ Append(c.new_desc, o) \in Seq(NewDescs)
        /\ OnePlace(c.handles, Append(c.new_desc, o))
        /\ OwnedIn(c.handles, Append(c.new_desc, o)) = OwnedIn(c.handles, c.new_desc)
    <3>1. o \notin OwnedIn(c.handles, c.new_desc) BY <2>1, <1>2
    <3>2. /\ Append(c.new_desc, o) \in Seq(NewDescs)
          /\ OnePlace(c.handles, Append(c.new_desc, o))
          /\ OwnedIn(c.handles, Append(c.new_desc, o))
               = OwnedIn(c.handles, c.new_desc) \cup ({o} \cap Imc!Handles)
      BY <3>1, <2>1, <1>2, MoreOwns
    <3>3. {o} \cap Imc!Handles = {} BY <2>1
    <3>4. QED BY <3>2, <3>3
  <2>3. /\ e \in Calls /\ e.tags = Tail(c.tags) /\ e.new_desc = Append(c.new_desc, o)
        /\ e.out = c.out /\ e.meant = c.meant /\ e.handles = c.handles /\ e.pc = "internalize"
    BY <2>2, <1>1, <1>2, <1>3 DEF Calls
  <2>4. ~e.failed
    BY <1>2
  <2>5. call' = [call EXCEPT ![r] = e]
    <3>1. e = [c EXCEPT !.tags = Tail(@), !.new_desc = Append(@, o), !.handles = c.handles]
      BY <1>2 DEF Calls
    <3>2. QED BY <3>1, <1>1, <1>6
  <2> HIDE DEF e
  <2>6. Aligned(e.tags, [k \in DOMAIN e.handles |-> handle[e.handles[k]]])
    BY <2>3, <1>1, <1>2, <1>4, <1>5, <1>6, NameTaken DEF objects
  <2>7. Is(Object(o, handle), o) BY <2>1 DEF Object, Is
  <2>8. Internalizing(e, handle)
    BY <2>1, <2>3, <2>6, <2>7, <1>1, <1>2, MoreInternalized
  <2>9. Progress(e, handle')
    BY <2>3, <2>4, <2>8, <1>1 DEF Progress
  <2>10. \A h \in Imc!Handles : HandleMoves(h, call[r], e)
    BY <2>2, <2>3, <1>1 DEF HandleMoves, Owned, c
  <2>11. OnePlace(e.handles, e.new_desc) BY <2>2, <2>3
  <2>12. QED BY <2>3, <2>5, <2>9, <2>10, <2>11, <1>1, CallHolds, CallStep, SameQueue
<1>7. CASE o \notin ByName
  <2> DEFINE d == Head(c.handles)
             e == [c EXCEPT !.tags = Tail(@), !.new_desc = Append(@, d),
                            !.handles = Tail(@)]
  <2>1. c.handles # <<>> BY <1>1, <1>7
  <2>2. /\ Tail(c.handles) \in Seq(Imc!Handles) /\ d \in OwnedIn(c.handles, c.new_desc)
        /\ OnePlace(Tail(c.handles), c.new_desc)
        /\ OwnedIn(Tail(c.handles), c.new_desc) = OwnedIn(c.handles, c.new_desc) \ {d}
    BY <2>1, <1>2, TailOwns
  <2>3. d \in Imc!Handles /\ d \in NewDescs
    BY <2>2, <1>2 DEF NewDescs
  <2>4. /\ Append(c.new_desc, d) \in Seq(NewDescs)
        /\ OnePlace(Tail(c.handles), Append(c.new_desc, d))
        /\ OwnedIn(Tail(c.handles), Append(c.new_desc, d)) = OwnedIn(c.handles, c.new_desc)
    <3>1. d \notin OwnedIn(Tail(c.handles), c.new_desc) BY <2>2
    <3>2. /\ Append(c.new_desc, d) \in Seq(NewDescs)
          /\ OnePlace(Tail(c.handles), Append(c.new_desc, d))
          /\ OwnedIn(Tail(c.handles), Append(c.new_desc, d))
               = OwnedIn(Tail(c.handles), c.new_desc) \cup ({d} \cap Imc!Handles)
      BY <3>1, <2>2, <2>3, <1>2, MoreOwns
    <3>3. QED BY <3>2, <2>2, <2>3
  <2>5. /\ e \in Calls /\ e.tags = Tail(c.tags) /\ e.new_desc = Append(c.new_desc, d)
        /\ e.out = c.out /\ e.meant = c.meant /\ e.handles = Tail(c.handles)
        /\ e.pc = "internalize"
    BY <2>2, <2>4, <1>1, <1>2, <1>3 DEF Calls
  <2>6. ~e.failed
    BY <1>2
  <2>7. call' = [call EXCEPT ![r] = e]
    BY <1>1, <1>7
  <2> HIDE DEF e
  <2>8. handle[d] = o /\ Aligned(Tail(c.tags), [k \in DOMAIN Tail(c.handles) |->
                                                  handle[Tail(c.handles)[k]]])
    BY <2>1, <1>1, <1>2, <1>7, TakesHandle DEF Owned
  <2>9. Is(Object(d, handle), o)
    BY <2>3, <2>8 DEF Object, Is
  <2>10. Aligned(e.tags, [k \in DOMAIN e.handles |-> handle[e.handles[k]]])
    BY <2>5, <2>8
  <2> HIDE DEF d
  <2>13. Internalizing(e, handle)
    BY <2>3, <2>5, <2>9, <2>10, <1>1, <1>2, MoreInternalized
  <2>14. Progress(e, handle')
    BY <2>5, <2>6, <2>13, <1>1 DEF Progress
  <2>15. \A h \in Imc!Handles : HandleMoves(h, call[r], e)
    BY <2>4, <2>5, <1>1 DEF HandleMoves, Owned, c
  <2>16. OnePlace(e.handles, e.new_desc) BY <2>4, <2>5
  <2>17. QED BY <2>5, <2>7, <2>14, <2>15, <2>16, <1>1, CallHolds, CallStep, SameQueue
<1>8. QED BY <1>6, <1>7

(* A step that only changes where the call is leaves the handles alone.     *)
LEMMA ProgressStep ==
  ASSUME ImcInvariant, NEW r \in Receivers, NEW e \in Calls,
         call' = [call EXCEPT ![r] = e], Progress(e, handle),
         e.handles = call[r].handles, e.new_desc = call[r].new_desc,
         UNCHANGED <<named, opened, sending, queue, handle, installed, lost>>
  PROVE  ImcInvariant'
<1>1. \A h \in Imc!Handles : HandleMoves(h, call[r], e)
  BY DEF HandleMoves, Owned
<1>2. OnePlace(e.handles, e.new_desc) BY CallHolds
<1>3. Progress(e, handle') OBVIOUS
<1>4. QED BY <1>1, <1>2, <1>3, CallHolds, CallStep, SameQueue

(* The call is in its cleanup, with nothing that it was given.              *)
LEMMA RecvBufFailsStep ==
  ASSUME ImcInvariant, NEW r \in Receivers, Imc!RecvBufFails(r)
  PROVE  ImcInvariant'
<1> DEFINE e == [Imc!NoCall EXCEPT !.pc = "cleanup", !.failed = TRUE, !.unset = TRUE]
<1>1. /\ call[r].pc = "idle" /\ call' = [call EXCEPT ![r] = e]
      /\ UNCHANGED <<named, opened, sending, queue, handle, installed, lost>>
  BY DEF Imc!RecvBufFails, Imc!Set, Imc!sender, Imc!ghosts
<1>2. call[r] = Imc!NoCall
  BY <1>1, CallHolds DEF Progress
<1>3. Imc!NoCall \in Calls
  BY EmptySeq DEF Imc!NoCall, Calls
<1>4. /\ e \in Calls /\ e.pc = "cleanup"
      /\ e.handles = Imc!NoCall.handles /\ e.new_desc = Imc!NoCall.new_desc
  BY <1>3 DEF Calls
<1>5. e.failed
  BY <1>3 DEF Calls
<1>6. e.out = <<>>
  BY DEF Imc!NoCall
<1> HIDE DEF e
<1>7. Progress(e, handle)
  BY <1>4, <1>5, <1>6 DEF Progress
<1>8. QED BY <1>1, <1>2, <1>4, <1>7, ProgressStep DEF e

(* What it closes was open, or nothing changes.                             *)
LEMMA CloseStrayStep ==
  ASSUME ImcInvariant, NEW r \in Receivers, Imc!CloseStray(r)
  PROVE  ImcInvariant' \/ strayed' = TRUE
<1> DEFINE c == call[r]
           e == [c EXCEPT !.unset = FALSE]
<1>1. c.unset
  BY DEF Imc!CloseStray
<1>2. /\ call' = [call EXCEPT ![r] = e]
      /\ UNCHANGED <<named, opened, sending, queue, installed, lost>>
      /\ UNCHANGED handle \/ strayed' = TRUE
  BY DEF Imc!CloseStray, Imc!Set, Imc!sender
<1>3. c \in Calls /\ Progress(c, handle)
  BY CallHolds
<1>4. c # Imc!NoCall
  <2>1. ~Imc!NoCall.unset BY DEF Imc!NoCall
  <2>2. QED BY <1>1, <2>1
<1> HIDE DEF c
<1>5. /\ e \in Calls /\ e.pc = c.pc /\ e.tags = c.tags /\ e.handles = c.handles
      /\ e.new_desc = c.new_desc /\ e.desc_length = c.desc_length /\ e.flags = c.flags
      /\ e.out = c.out /\ e.meant = c.meant
  BY <1>3 DEF Calls
<1>6. e.failed <=> c.failed
  BY <1>3 DEF Calls
<1> HIDE DEF e
<1>7. /\ Internalizing(c, handle) => Internalizing(e, handle)
      /\ Delivering(c, handle) => Delivering(e, handle)
  BY <1>5 DEF Internalizing, Delivering
<1>8. Progress(e, handle)
  BY <1>3, <1>4, <1>5, <1>6, <1>7 DEF Progress
<1>9. CASE UNCHANGED handle
  BY <1>2, <1>5, <1>8, <1>9, ProgressStep DEF c
<1>10. QED BY <1>2, <1>9

(* The handle leaves the call, and the descriptor does not have it.         *)
LEMMA CtorFailsStep ==
  ASSUME Imc!Bounds, ImcInvariant, NEW r \in Receivers, Imc!CtorFails(r)
  PROVE  ImcInvariant'
<1> DEFINE c == call[r]
           o == Head(c.tags)
           d == Head(c.handles)
           e == [c EXCEPT !.tags = Tail(@), !.new_desc = Append(@, Hollow),
                          !.handles = Tail(c.handles)]
<1>1. /\ c.pc = "internalize" /\ c.tags # <<>> /\ o \in Shm /\ c.handles # <<>>
      /\ call' = [call EXCEPT ![r] = e] /\ lost' = lost \cup {d}
      /\ UNCHANGED <<named, opened, sending, queue, handle, installed>>
  BY DEF Imc!CtorFails, Imc!Set, Imc!LeftHandles, Imc!sender
<1>2. /\ c \in Calls /\ c.tags \in Seq(Imc!Objects) /\ c.new_desc \in Seq(NewDescs)
      /\ c.handles \in Seq(Imc!Handles) /\ OnePlace(c.handles, c.new_desc)
      /\ Progress(c, handle) /\ Internalizing(c, handle) /\ ~c.failed
      /\ \A h \in Owned(c) : /\ h \in Imc!Handles /\ h \notin installed /\ h \notin lost
                             /\ handle[h] \in Imc!Objects
  BY <1>1, CallHolds DEF Progress
<1>3. o \notin ByName /\ Hollow \notin Imc!Handles /\ Hollow \in NewDescs
  BY <1>1 DEF Imc!Bounds, NewDescs
<1>4. Tail(c.tags) \in Seq(Imc!Objects)
  BY <1>1, <1>2, HeadTailProperties
<1> HIDE DEF c
<1>5. /\ Tail(c.handles) \in Seq(Imc!Handles) /\ d \in Owned(c)
      /\ OnePlace(Tail(c.handles), c.new_desc)
      /\ OwnedIn(Tail(c.handles), c.new_desc) = Owned(c) \ {d}
  BY <1>1, <1>2, TailOwns DEF Owned
<1>6. /\ Append(c.new_desc, Hollow) \in Seq(NewDescs)
      /\ OnePlace(Tail(c.handles), Append(c.new_desc, Hollow))
      /\ OwnedIn(Tail(c.handles), Append(c.new_desc, Hollow)) = Owned(c) \ {d}
  <2>1. Hollow \notin OwnedIn(Tail(c.handles), c.new_desc)
    BY <1>3 DEF OwnedIn
  <2>2. /\ Append(c.new_desc, Hollow) \in Seq(NewDescs)
        /\ OnePlace(Tail(c.handles), Append(c.new_desc, Hollow))
        /\ OwnedIn(Tail(c.handles), Append(c.new_desc, Hollow))
             = OwnedIn(Tail(c.handles), c.new_desc) \cup ({Hollow} \cap Imc!Handles)
    <3> DEFINE hs == Tail(c.handles)
               ds == c.new_desc
    <3>1. /\ hs \in Seq(Imc!Handles) /\ ds \in Seq(NewDescs) /\ OnePlace(hs, ds)
          /\ Hollow \in NewDescs /\ Hollow \notin OwnedIn(hs, ds)
      BY <2>1, <1>2, <1>3, <1>5
    <3> HIDE DEF hs, ds
    <3>2. /\ Append(ds, Hollow) \in Seq(NewDescs) /\ OnePlace(hs, Append(ds, Hollow))
          /\ OwnedIn(hs, Append(ds, Hollow)) = OwnedIn(hs, ds) \cup ({Hollow} \cap Imc!Handles)
      BY <3>1, MoreOwns
    <3>3. QED BY <3>2 DEF hs, ds
  <2>3. {Hollow} \cap Imc!Handles = {} BY <1>3
  <2>4. QED BY <2>2, <2>3, <1>5
<1>7. /\ e \in Calls /\ e.tags = Tail(c.tags) /\ e.new_desc = Append(c.new_desc, Hollow)
      /\ e.out = c.out /\ e.meant = c.meant /\ e.handles = Tail(c.handles)
      /\ e.pc = "internalize"
  BY <1>1, <1>2, <1>4, <1>5, <1>6 DEF Calls
<1>8. ~e.failed
  BY <1>2 DEF Calls
<1> HIDE DEF e
<1>9. Aligned(e.tags, [k \in DOMAIN e.handles |-> handle[e.handles[k]]])
  BY <1>1, <1>2, <1>3, <1>7, TakesHandle
<1>10. Is(Object(Hollow, handle), o)
  BY <1>1, <1>3 DEF Is, Object
<1>11. Internalizing(e, handle)
  BY <1>1, <1>2, <1>3, <1>7, <1>9, <1>10, MoreInternalized
<1>12. Progress(e, handle')
  BY <1>1, <1>7, <1>8, <1>11 DEF Progress
<1>13. Owned(e) = Owned(c) \ {d} /\ OnePlace(e.handles, e.new_desc)
  BY <1>6, <1>7 DEF Owned
<1>14. \A h \in Imc!Handles : HandleMoves(h, c, e)
  <2>1. ASSUME NEW h \in Imc!Handles, h = d PROVE HandleMoves(h, c, e)
    BY <2>1, <1>1, <1>2, <1>5, <1>13 DEF HandleMoves
  <2>2. ASSUME NEW h \in Imc!Handles, h # d PROVE HandleMoves(h, c, e)
    BY <2>2, <1>1, <1>13 DEF HandleMoves
  <2>3. QED BY <2>1, <2>2
<1>15. /\ installed' \subseteq Imc!Handles \cup {Hollow} /\ lost' \subseteq Imc!Handles
       /\ handle' \in [Imc!Handles -> Imc!Objects \cup {Imc!Closed}]
  BY <1>1, <1>2, <1>5, CallHolds
<1>16. QED BY <1>1, <1>7, <1>12, <1>13, <1>14, <1>15, CallStep, SameQueue DEF c

LEMMA InternalizeFailsStep ==
  ASSUME ImcInvariant, NEW r \in Receivers, Imc!InternalizeFails(r)
  PROVE  ImcInvariant'
<1> DEFINE c == call[r]
           e == [c EXCEPT !.pc = "cleanup", !.failed = TRUE]
<1>1. /\ c.pc = "internalize" /\ call' = [call EXCEPT ![r] = e]
      /\ UNCHANGED <<named, opened, sending, queue, handle, installed, lost>>
  BY DEF Imc!InternalizeFails, Imc!Set, Imc!sender, Imc!ghosts
<1>2. c \in Calls /\ c.out = <<>>
  BY <1>1, CallHolds DEF Progress, Internalizing
<1> HIDE DEF c
<1>3. /\ e \in Calls /\ e.pc = "cleanup" /\ e.out = <<>>
      /\ e.handles = c.handles /\ e.new_desc = c.new_desc
  BY <1>2 DEF Calls
<1>4. e.failed
  BY <1>2 DEF Calls
<1>5. Progress(e, handle)
  BY <1>3, <1>4 DEF Progress
<1>6. QED BY <1>1, <1>3, <1>5, ProgressStep DEF c

LEMMA InternalizedStep ==
  ASSUME ImcInvariant, NEW r \in Receivers, Imc!Internalized(r)
  PROVE  ImcInvariant'
<1> DEFINE c == call[r]
           e == [c EXCEPT !.pc = "deliver", !.flags = Imc!Flags(c)]
<1>1. /\ c.pc = "internalize" /\ c.tags = <<>> /\ call' = [call EXCEPT ![r] = e]
      /\ UNCHANGED <<named, opened, sending, queue, handle, installed, lost>>
  BY DEF Imc!Internalized, Imc!Set, Imc!sender, Imc!ghosts
<1>2. /\ c \in Calls /\ Internalizing(c, handle) /\ ~c.failed
      /\ c.desc_length \in Nat /\ Len(c.new_desc) \in Nat /\ Len(c.meant) \in Nat
      /\ DOMAIN c.new_desc = 1 .. Len(c.new_desc)
  BY <1>1, CallHolds, LenProperties DEF Progress
<1> HIDE DEF c
<1>3. Imc!Flags(c) \in SUBSET {"DESC_TRUNCATED"}
  BY DEF Imc!Flags
<1>4. /\ e \in Calls /\ e.pc = "deliver" /\ e.out = c.out /\ e.meant = c.meant
      /\ e.handles = c.handles /\ e.new_desc = c.new_desc /\ e.desc_length = c.desc_length
      /\ e.flags = Imc!Flags(c)
  BY <1>2, <1>3 DEF Calls
<1>5. ~e.failed
  BY <1>2 DEF Calls
<1>6. /\ c.out = <<>> /\ Len(c.new_desc) = Len(c.meant)
      /\ \A k \in DOMAIN c.new_desc : Is(Object(c.new_desc[k], handle), c.meant[k])
  BY <1>1, <1>2 DEF Internalizing
<1>7. "DESC_TRUNCATED" \in e.flags <=> e.desc_length < Len(e.meant)
  BY <1>4, <1>6 DEF Imc!Flags
<1> HIDE DEF e
<1>8. Delivering(e, handle)
  <2>1. Len(e.out) = 0 /\ DOMAIN e.out = {} BY <1>4, <1>6
  <2>2. \A k \in DOMAIN e.new_desc : 0 + k = k BY <1>2, <1>4
  <2>3. QED BY <2>1, <2>2, <1>2, <1>4, <1>6, <1>7 DEF Delivering
<1>9. Progress(e, handle)
  BY <1>4, <1>5, <1>8 DEF Progress
<1>10. QED BY <1>1, <1>4, <1>9, ProgressStep DEF c, e

(* The call closes the handle of its n-th descriptor, if that has one ...   *)
LEMMA DropDesc ==
  ASSUME ImcInvariant, NEW r \in Receivers, NEW n \in DOMAIN call[r].new_desc,
         Imc!CloseHandle(call[r].new_desc[n]),
         NEW e \in Calls, call' = [call EXCEPT ![r] = e], Progress(e, handle),
         e.handles = call[r].handles, Without(call[r].new_desc, n, e.new_desc),
         UNCHANGED <<named, opened, sending, queue, installed, lost>>
  PROVE  ImcInvariant'
<1> DEFINE c == call[r]
           d == c.new_desc[n]
<1>1. /\ handle \in [Imc!Handles -> Imc!Objects \cup {Imc!Closed}]
      /\ handle' = IF d \in Imc!Handles THEN [handle EXCEPT ![d] = Imc!Closed] ELSE handle
  BY CallHolds DEF Imc!CloseHandle
<1>2. /\ handle' \in [Imc!Handles -> Imc!Objects \cup {Imc!Closed}]
      /\ \A h \in Imc!Handles : handle'[h] = IF h = d THEN Imc!Closed ELSE handle[h]
  BY <1>1
<1>3. /\ c.handles \in Seq(Imc!Handles) /\ c.new_desc \in Seq(NewDescs)
      /\ e.new_desc \in Seq(NewDescs) /\ OnePlace(c.handles, c.new_desc)
      /\ \A h \in Owned(c) : h \in Imc!Handles /\ h \notin installed /\ h \notin lost
  BY CallHolds DEF Calls
<1>4. /\ d \in Imc!Handles => d \in Owned(c)
      /\ OnePlace(e.handles, e.new_desc) /\ Owned(e) = Owned(c) \ {d}
  BY <1>3, LessOwns DEF Owned
<1> HIDE DEF c, d
<1>5. \A h \in Owned(e) : handle'[h] = handle[h]
  BY <1>2, <1>3, <1>4
<1>6. Progress(e, handle')
  BY <1>5, KeepsProgress
<1>7. \A h \in Imc!Handles : HandleMoves(h, c, e)
  BY <1>2, <1>3, <1>4 DEF HandleMoves
<1>8. installed' \subseteq Imc!Handles \cup {Hollow} /\ lost' \subseteq Imc!Handles BY CallHolds
<1>9. QED BY <1>2, <1>4, <1>6, <1>7, <1>8, CallStep, SameQueue DEF c

(* ... or the first in kern_handle.                                         *)
LEMMA DropHandle ==
  ASSUME ImcInvariant, NEW r \in Receivers, call[r].handles # <<>>,
         Imc!CloseHandle(Head(call[r].handles)),
         NEW e \in Calls, call' = [call EXCEPT ![r] = e], Progress(e, handle),
         e.handles = Tail(call[r].handles), e.new_desc = call[r].new_desc,
         UNCHANGED <<named, opened, sending, queue, installed, lost>>
  PROVE  ImcInvariant'
<1> DEFINE c == call[r]
           d == Head(c.handles)
<1>1. /\ c.handles \in Seq(Imc!Handles) /\ c.new_desc \in Seq(NewDescs)
      /\ OnePlace(c.handles, c.new_desc)
      /\ \A h \in Owned(c) : h \in Imc!Handles /\ h \notin installed /\ h \notin lost
  BY CallHolds
<1>2. /\ d \in Owned(c)
      /\ OnePlace(e.handles, e.new_desc) /\ Owned(e) = Owned(c) \ {d}
  BY <1>1, TailOwns DEF Owned
<1>3. /\ handle \in [Imc!Handles -> Imc!Objects \cup {Imc!Closed}]
      /\ handle' = IF d \in Imc!Handles THEN [handle EXCEPT ![d] = Imc!Closed] ELSE handle
  BY CallHolds DEF Imc!CloseHandle
<1>4. /\ handle' \in [Imc!Handles -> Imc!Objects \cup {Imc!Closed}]
      /\ \A h \in Imc!Handles : handle'[h] = IF h = d THEN Imc!Closed ELSE handle[h]
  BY <1>3
<1> HIDE DEF c, d
<1>5. \A h \in Owned(e) : handle'[h] = handle[h]
  BY <1>1, <1>2, <1>4
<1>6. Progress(e, handle')
  BY <1>5, KeepsProgress
<1>7. \A h \in Imc!Handles : HandleMoves(h, c, e)
  BY <1>1, <1>2, <1>4 DEF HandleMoves
<1>8. installed' \subseteq Imc!Handles \cup {Hollow} /\ lost' \subseteq Imc!Handles BY CallHolds
<1>9. QED BY <1>2, <1>4, <1>6, <1>7, <1>8, CallStep, SameQueue DEF c

LEMMA DropExcessStep ==
  ASSUME ImcInvariant, NEW r \in Receivers, Imc!DropExcess(r)
  PROVE  ImcInvariant'
<1> DEFINE c == call[r]
           n == c.desc_length + 1
           e == [c EXCEPT !.new_desc = Imc!RemoveAt(@, n)]
<1>1. /\ c.pc = "deliver" /\ c.desc_length < Len(c.new_desc)
      /\ Imc!CloseHandle(c.new_desc[n]) /\ call' = [call EXCEPT ![r] = e]
      /\ UNCHANGED <<named, opened, sending, queue, installed, lost>>
  BY DEF Imc!DropExcess, Imc!Set, Imc!sender, Imc!ghosts
<1>2. /\ c \in Calls /\ Delivering(c, handle) /\ ~c.failed /\ c.desc_length \in Nat
      /\ c.new_desc \in Seq(NewDescs) /\ Len(c.new_desc) \in Nat
      /\ DOMAIN c.new_desc = 1 .. Len(c.new_desc)
      /\ c.out \in Seq(Received) /\ Len(c.out) \in Nat /\ Len(c.meant) \in Nat
  BY <1>1, CallHolds, LenProperties DEF Progress
<1>3. n \in DOMAIN c.new_desc
  BY <1>1, <1>2
<1>4. /\ Imc!RemoveAt(c.new_desc, n) \in Seq(NewDescs)
      /\ Len(Imc!RemoveAt(c.new_desc, n)) = Len(c.new_desc) - 1
      /\ DOMAIN Imc!RemoveAt(c.new_desc, n) = 1 .. Len(c.new_desc) - 1
      /\ \A k \in 1 .. Len(c.new_desc) - 1 :
           Imc!RemoveAt(c.new_desc, n)[k]
             = IF k < n THEN c.new_desc[k] ELSE c.new_desc[k + 1]
  BY <1>2, <1>3, RemoveLess, LenProperties DEF Without
<1> HIDE DEF c, n
<1>5. /\ e \in Calls /\ e.pc = "deliver" /\ e.handles = c.handles /\ e.out = c.out
      /\ e.meant = c.meant /\ e.flags = c.flags /\ e.desc_length = c.desc_length
      /\ e.new_desc = Imc!RemoveAt(c.new_desc, n)
  BY <1>1, <1>2, <1>4 DEF Calls
<1>6. ~e.failed
  BY <1>2 DEF Calls
<1> HIDE DEF e
<1>7. Delivering(e, handle)
  <2>1. /\ "DESC_TRUNCATED" \in c.flags <=> c.desc_length < Len(c.meant)
        /\ Len(c.out) + Len(c.new_desc) <= Len(c.meant)
        /\ c.desc_length < Len(c.meant) => Len(c.out) <= c.desc_length
        /\ \A k \in DOMAIN c.out : Is(c.out[k], c.meant[k])
        /\ \A k \in DOMAIN c.new_desc :
             Len(c.out) + k <= c.desc_length =>
               Is(Object(c.new_desc[k], handle), c.meant[Len(c.out) + k])
    BY <1>2 DEF Delivering
  <2>2. Len(e.new_desc) = Len(c.new_desc) - 1 /\ DOMAIN e.new_desc = 1 .. Len(c.new_desc) - 1
    BY <1>4, <1>5
  <2>7. /\ Len(c.out) \in Nat /\ Len(c.new_desc) \in Nat /\ Len(c.meant) \in Nat
        /\ c.desc_length \in Nat /\ c.desc_length < Len(c.new_desc)
        /\ Len(c.out) + Len(c.new_desc) <= Len(c.meant)
    BY <2>1, <1>1, <1>2
  <2>3. /\ c.desc_length < Len(c.meant) /\ c.desc_length <= Len(c.out) + (Len(c.new_desc) - 1)
        /\ Len(c.out) + (Len(c.new_desc) - 1) <= Len(c.meant)
        /\ ~(c.desc_length >= Len(c.meant))
    <3> DEFINE out == Len(c.out)
               made == Len(c.new_desc)
               sent == Len(c.meant)
               room == c.desc_length
    <3>1. /\ out \in Nat /\ made \in Nat /\ sent \in Nat /\ room \in Nat
          /\ room < made /\ out + made <= sent
      BY <2>7
    <3> HIDE DEF out, made, sent, room
    <3>2. /\ room < sent /\ room <= out + (made - 1) /\ out + (made - 1) <= sent
          /\ ~(room >= sent)
      BY <3>1
    <3>3. QED BY <3>2 DEF out, made, sent, room
  <2>4. ASSUME NEW k \in 1 .. Len(c.new_desc) - 1, Len(c.out) + k <= c.desc_length
        PROVE  Is(Object(e.new_desc[k], handle), c.meant[Len(c.out) + k])
    <3>1. k \in DOMAIN c.new_desc /\ k < n BY <2>4, <1>2 DEF n
    <3>2. e.new_desc[k] = c.new_desc[k] BY <3>1, <1>4, <1>5
    <3>3. QED BY <3>1, <3>2, <2>1, <2>4
  <2>6. QED BY <2>1, <2>2, <2>3, <2>4, <1>5 DEF Delivering
<1>8. Progress(e, handle)
  BY <1>5, <1>6, <1>7 DEF Progress
<1>9. Without(c.new_desc, n, e.new_desc)
  BY <1>2, <1>3, <1>5, RemoveLess
<1>10. QED BY <1>1, <1>3, <1>4, <1>5, <1>8, <1>9, DropDesc DEF c

LEMMA InstallStep ==
  ASSUME Imc!Bounds, ImcInvariant, NEW r \in Receivers, Imc!Install(r)
  PROVE  ImcInvariant'
<1> DEFINE c == call[r]
           d == Head(c.new_desc)
           object == Object(d, handle)
           e == [c EXCEPT !.new_desc = Tail(@), !.out = Append(@, object)]
<1>1. /\ c.pc = "deliver" /\ c.new_desc # <<>>
      /\ Len(c.out) + Len(c.new_desc) <= c.desc_length
      /\ installed' = installed \cup ({d} \ ByName)
      /\ call' = [call EXCEPT ![r] = e]
      /\ UNCHANGED <<named, opened, sending, queue, handle, lost>>
  BY DEF Imc!Install, Imc!Set, Imc!sender, Imc!ghosts, Object
<1>2. /\ c \in Calls /\ Delivering(c, handle) /\ ~c.failed /\ c.desc_length \in Nat
      /\ c.new_desc \in Seq(NewDescs) /\ Len(c.new_desc) \in Nat
      /\ c.handles \in Seq(Imc!Handles) /\ OnePlace(c.handles, c.new_desc)
      /\ DOMAIN c.new_desc = 1 .. Len(c.new_desc)
      /\ c.out \in Seq(Received) /\ Len(c.out) \in Nat /\ Len(c.meant) \in Nat
      /\ DOMAIN c.out = 1 .. Len(c.out)
      /\ \A h \in Owned(c) : /\ h \in Imc!Handles /\ h \notin installed /\ h \notin lost
                             /\ handle[h] \in Imc!Objects
  BY <1>1, CallHolds, LenProperties DEF Progress
<1>3. /\ 1 \in DOMAIN c.new_desc /\ d = c.new_desc[1] /\ d \in NewDescs
      /\ Tail(c.new_desc) \in Seq(NewDescs)
      /\ Len(Tail(c.new_desc)) = Len(c.new_desc) - 1
      /\ DOMAIN Tail(c.new_desc) = 1 .. Len(c.new_desc) - 1
      /\ \A k \in 1 .. Len(c.new_desc) - 1 : Tail(c.new_desc)[k] = c.new_desc[k + 1]
      /\ Without(c.new_desc, 1, Tail(c.new_desc))
  BY <1>1, <1>2, TailLess, HeadTailProperties, LenProperties DEF Without
<1>4. /\ d \in Imc!Handles => d \in Owned(c)
      /\ OnePlace(c.handles, Tail(c.new_desc))
      /\ OwnedIn(c.handles, Tail(c.new_desc)) = Owned(c) \ {d}
  BY <1>2, <1>3, LessOwns DEF Owned
<1>5. object \in Received
  BY <1>2, <1>3, <1>4 DEF Object, NewDescs, Received, Imc!Objects
<1> HIDE DEF c, d, object
<1>6. /\ Append(c.out, object) \in Seq(Received)
      /\ Len(Append(c.out, object)) = Len(c.out) + 1
      /\ DOMAIN Append(c.out, object) = 1 .. Len(c.out) + 1
      /\ \A k \in 1 .. Len(c.out) : Append(c.out, object)[k] = c.out[k]
      /\ Append(c.out, object)[Len(c.out) + 1] = object
  BY <1>2, <1>5, AppendProperties, LenProperties
<1>7. /\ e \in Calls /\ e.pc = "deliver" /\ e.handles = c.handles
      /\ e.out = Append(c.out, object) /\ e.meant = c.meant /\ e.flags = c.flags
      /\ e.desc_length = c.desc_length /\ e.new_desc = Tail(c.new_desc)
  BY <1>1, <1>2, <1>3, <1>6 DEF Calls
<1>8. ~e.failed
  BY <1>2 DEF Calls
<1> HIDE DEF e
<1>9. Delivering(e, handle)
  <2>1. /\ "DESC_TRUNCATED" \in c.flags <=> c.desc_length < Len(c.meant)
        /\ Len(c.out) + Len(c.new_desc) <= Len(c.meant)
        /\ c.desc_length < Len(c.meant) => c.desc_length <= Len(c.out) + Len(c.new_desc)
        /\ c.desc_length >= Len(c.meant) => Len(c.out) + Len(c.new_desc) = Len(c.meant)
        /\ \A k \in DOMAIN c.out : Is(c.out[k], c.meant[k])
        /\ \A k \in DOMAIN c.new_desc :
             Len(c.out) + k <= c.desc_length =>
               Is(Object(c.new_desc[k], handle), c.meant[Len(c.out) + k])
    BY <1>2 DEF Delivering
  <2>8. /\ Len(c.out) \in Nat /\ Len(c.new_desc) \in Nat /\ 1 \in 1 .. Len(c.new_desc)
        /\ c.desc_length \in Nat /\ Len(c.out) + Len(c.new_desc) <= c.desc_length
        /\ Len(e.out) = Len(c.out) + 1 /\ Len(e.new_desc) = Len(c.new_desc) - 1
        /\ DOMAIN e.new_desc = 1 .. Len(c.new_desc) - 1
    BY <1>1, <1>2, <1>3, <1>6, <1>7
  <2>2. /\ Len(e.out) + Len(e.new_desc) = Len(c.out) + Len(c.new_desc)
        /\ Len(e.out) <= c.desc_length
    <3> DEFINE out == Len(c.out)
               made == Len(c.new_desc)
               room == c.desc_length
    <3>1. /\ out \in Nat /\ made \in Nat /\ 1 \in 1 .. made /\ room \in Nat
          /\ out + made <= room
      BY <2>8
    <3>2. Len(e.out) = out + 1 /\ Len(e.new_desc) = made - 1
      BY <2>8
    <3> HIDE DEF out, made, room
    <3>3. (out + 1) + (made - 1) = out + made /\ out + 1 <= room
      BY <3>1
    <3>4. QED BY <3>2, <3>3 DEF out, made, room
  <2>4. Is(object, c.meant[Len(c.out) + 1])
    <3>1. 1 \in DOMAIN c.new_desc /\ Len(c.out) + 1 <= c.desc_length
      BY <2>2, <2>8, <1>3
    <3>2. QED BY <3>1, <2>1, <1>3 DEF object
  <2>5. \A k \in DOMAIN e.out : Is(e.out[k], c.meant[k])
    BY <2>1, <2>4, <1>2, <1>6, <1>7
  <2>6. ASSUME NEW k \in DOMAIN e.new_desc, Len(e.out) + k <= c.desc_length
        PROVE  Is(Object(e.new_desc[k], handle), c.meant[Len(e.out) + k])
    <3>1. k \in 1 .. Len(c.new_desc) - 1 BY <2>8
    <3>2. k + 1 \in 1 .. Len(c.new_desc) /\ Len(e.out) + k = Len(c.out) + (k + 1)
      BY <3>1, <2>8
    <3>3. e.new_desc[k] = c.new_desc[k + 1] BY <3>1, <1>3, <1>7
    <3>4. QED BY <3>2, <3>3, <2>1, <2>6, <1>2
  <2>7. QED BY <2>1, <2>2, <2>5, <2>6, <1>7 DEF Delivering
<1>10. Progress(e, handle')
  BY <1>1, <1>7, <1>8, <1>9 DEF Progress
<1>11. Owned(e) = Owned(c) \ {d} /\ OnePlace(e.handles, e.new_desc)
  BY <1>4, <1>7 DEF Owned
<1>12. \A h \in Imc!Handles : HandleMoves(h, c, e)
  <2>1. ASSUME NEW h \in Imc!Handles, h = d PROVE HandleMoves(h, c, e)
    BY <2>1, <1>1, <1>2, <1>4, <1>11 DEF HandleMoves, Imc!Bounds
  <2>2. ASSUME NEW h \in Imc!Handles, h # d PROVE HandleMoves(h, c, e)
    BY <2>2, <1>1, <1>11 DEF HandleMoves
  <2>3. QED BY <2>1, <2>2
<1>13. installed' \subseteq Imc!Handles \cup {Hollow} /\ lost' \subseteq Imc!Handles
  BY <1>1, <1>3, CallHolds DEF NewDescs
<1>14. QED BY <1>1, <1>7, <1>10, <1>11, <1>12, <1>13, CallHolds, CallStep, SameQueue DEF c

LEMMA CleanupStep ==
  ASSUME ImcInvariant, NEW r \in Receivers, Imc!Cleanup(r)
  PROVE  ImcInvariant'
<1> DEFINE c == call[r]
<1>1. /\ c \in Calls /\ Progress(c, handle) /\ c.new_desc \in Seq(NewDescs)
      /\ c.handles \in Seq(Imc!Handles)
      /\ UNCHANGED <<named, opened, sending, queue, installed, lost>>
  BY CallHolds DEF Imc!Cleanup, Imc!sender, Imc!ghosts
<1>2. CASE /\ c.pc = "cleanup" /\ c.new_desc # <<>> /\ Head(c.new_desc) # Hollow
           /\ Imc!CloseHandle(Head(c.new_desc))
           /\ Imc!Set(r, [c EXCEPT !.new_desc = Tail(@)])
  <2> DEFINE e == [c EXCEPT !.new_desc = Tail(@)]
  <2>1. call' = [call EXCEPT ![r] = e] BY <1>2 DEF Imc!Set
  <2>2. /\ Head(c.new_desc) = c.new_desc[1] /\ Tail(c.new_desc) \in Seq(NewDescs)
        /\ 1 \in DOMAIN c.new_desc /\ Without(c.new_desc, 1, Tail(c.new_desc))
    BY <1>1, <1>2, TailLess DEF Without
  <2> HIDE DEF c
  <2>3. /\ e \in Calls /\ e.pc = "cleanup" /\ e.out = c.out /\ e.handles = c.handles
        /\ e.new_desc = Tail(c.new_desc)
    BY <1>1, <1>2, <2>2 DEF Calls
  <2>4. e.failed <=> c.failed
    BY <1>1 DEF Calls
  <2> HIDE DEF e
  <2>5. Progress(e, handle)
    BY <2>3, <2>4, <1>1, <1>2 DEF Progress
  <2>6. Imc!CloseHandle(c.new_desc[1])
    BY <2>2, <1>2
  <2>7. Without(c.new_desc, 1, e.new_desc)
    BY <2>2, <2>3
  <2>8. UNCHANGED <<named, opened, sending, queue, installed, lost>>
    BY <1>1
  <2>9. QED BY <2>1, <2>2, <2>3, <2>5, <2>6, <2>7, <2>8, DropDesc DEF c
<1>3. CASE /\ c.pc \in {"cleanup", "deliver"} /\ c.handles # <<>>
           /\ Imc!CloseHandle(Head(c.handles))
           /\ Imc!Set(r, [c EXCEPT !.handles = Tail(@)])
  <2> DEFINE e == [c EXCEPT !.handles = Tail(@)]
  <2>1. call' = [call EXCEPT ![r] = e] BY <1>3 DEF Imc!Set
  <2>2. Tail(c.handles) \in Seq(Imc!Handles)
    BY <1>1, <1>3, HeadTailProperties
  <2> HIDE DEF c
  <2>3. /\ e \in Calls /\ e.pc = c.pc /\ e.out = c.out /\ e.handles = Tail(c.handles)
        /\ e.new_desc = c.new_desc /\ e.flags = c.flags /\ e.meant = c.meant
        /\ e.desc_length = c.desc_length
    BY <1>1, <2>2 DEF Calls
  <2>4. e.failed <=> c.failed
    BY <1>1 DEF Calls
  <2> HIDE DEF e
  <2>5. Delivering(c, handle) => Delivering(e, handle)
    BY <2>3 DEF Delivering
  <2>6. Progress(e, handle)
    BY <2>3, <2>4, <2>5, <1>1, <1>3 DEF Progress
  <2>7. QED BY <2>1, <2>3, <2>6, <1>1, <1>3, DropHandle DEF c
<1>4. QED BY <1>2, <1>3 DEF Imc!Cleanup

LEMMA ReturnStep ==
  ASSUME ImcInvariant, NEW r \in Receivers, Imc!Return(r)
  PROVE  ImcInvariant'
<1>1. /\ call[r].new_desc = <<>> /\ call[r].handles = <<>>
      /\ call' = [call EXCEPT ![r] = Imc!NoCall]
      /\ UNCHANGED <<named, opened, sending, queue, handle, installed, lost>>
  BY DEF Imc!Return, Imc!Finished, Imc!Set, Imc!sender, Imc!ghosts
<1>2. Imc!NoCall \in Calls
  BY EmptySeq DEF Imc!NoCall, Calls
<1>3. ~Imc!NoCall.failed /\ Imc!NoCall.pc = "idle"
  BY DEF Imc!NoCall
<1>4. Progress(Imc!NoCall, handle)
  BY <1>3 DEF Progress
<1>5. Imc!NoCall.new_desc = <<>> /\ Imc!NoCall.handles = <<>>
  BY DEF Imc!NoCall
<1>6. QED BY <1>1, <1>2, <1>4, <1>5, ProgressStep

(* The module closes what its table has.                                    *)
LEMMA CloseReceivedStep ==
  ASSUME ImcInvariant, NEW h \in installed, Imc!CloseReceived(h)
  PROVE  ImcInvariant'
<1>1. /\ installed' = installed \ {h} /\ h \in Imc!Handles /\ call' = call
      /\ handle \in [Imc!Handles -> Imc!Objects \cup {Imc!Closed}]
      /\ handle' = [handle EXCEPT ![h] = Imc!Closed]
      /\ UNCHANGED <<named, opened, sending, queue, lost>>
      /\ installed \subseteq Imc!Handles \cup {Hollow} /\ h \notin lost /\ call \in [Receivers -> Calls]
  BY DEF Imc!CloseReceived, Imc!CloseHandle, Imc!sender, Imc!ghosts, ImcInvariant, Ownership, CallsSound
<1>2. \A q \in Receivers : h \notin Owned(call[q]) /\ Owned(call[q]) \subseteq Imc!Handles
  BY DEF ImcInvariant, Ownership, Owned, OwnedIn
<1>3. /\ handle' \in [Imc!Handles -> Imc!Objects \cup {Imc!Closed}]
      /\ \A g \in Imc!Handles : handle'[g] = IF g = h THEN Imc!Closed ELSE handle[g]
  BY <1>1
<1>4. Ownership'
  <2>1. /\ \A r \in Receivers : OnePlace(call[r].handles, call[r].new_desc)
        /\ \A r \in Receivers : Owned(call[r]) \cap (installed \cup lost) = {}
        /\ lost \subseteq Imc!Handles /\ installed \cap lost = {}
        /\ \A r, q \in Receivers : r # q => Owned(call[r]) \cap Owned(call[q]) = {}
        /\ \A g \in Imc!Handles :
             handle[g] # Imc!Closed
               <=> g \in installed \cup lost \/ \E r \in Receivers : g \in Owned(call[r])
    BY DEF ImcInvariant, Ownership
  <2>2. \A r \in Receivers : Owned(call[r]) \cap (installed' \cup lost') = {}
    BY <2>1, <1>1
  <2>3. \A g \in Imc!Handles :
          handle'[g] # Imc!Closed
            <=> g \in installed' \cup lost' \/ \E r \in Receivers : g \in Owned(call[r])
    BY <2>1, <1>1, <1>2, <1>3
  <2>4. /\ installed' \subseteq Imc!Handles \cup {Hollow} /\ lost' \subseteq Imc!Handles
        /\ installed' \cap lost' = {}
    BY <2>1, <1>1
  <2>5. QED BY <2>1, <2>2, <2>3, <2>4, <1>1, <1>3 DEF Ownership
<1>5. CallsSound'
  <2>1. ASSUME NEW q \in Receivers PROVE Progress(call[q], handle')
    <3>1. call[q] \in Calls /\ Progress(call[q], handle)
      BY DEF ImcInvariant, CallsSound
    <3>2. \A g \in Owned(call[q]) : handle'[g] = handle[g]
      BY <1>2, <1>3
    <3>3. QED BY <3>1, <3>2, KeepsProgress
  <2>2. QED BY <2>1, <1>1 DEF CallsSound
<1>6. SenderHolds' /\ QueueSound'
  BY <1>1, SameQueue DEF ImcInvariant, SenderHolds, Imc!Held
<1>7. QED BY <1>4, <1>5, <1>6 DEF ImcInvariant

(* When the process ends the host closes its handles.                       *)
LEMMA CrashStep == ASSUME ImcInvariant, Imc!Crash PROVE ImcInvariant'
<1> DEFINE dead == [Imc!NoCall EXCEPT !.pc = "dead"]
<1>1. /\ handle' = [h \in Imc!Handles |-> Imc!Closed] /\ installed' = {} /\ lost' = {}
      /\ call' = [r \in Receivers |-> dead]
      /\ UNCHANGED <<named, opened, sending, queue>>
  BY DEF Imc!Crash, Imc!sender
<1>2. Imc!NoCall \in Calls
  BY EmptySeq DEF Imc!NoCall, Calls
<1>3. dead \in Calls /\ dead.pc = "dead"
  BY <1>2 DEF Calls
<1>4. dead.handles = <<>> /\ dead.new_desc = <<>>
  BY DEF Imc!NoCall
<1>5. ~dead.failed
  BY DEF Imc!NoCall
<1> HIDE DEF dead
<1>6. \A r \in Receivers : Owned(call'[r]) = {} /\ OnePlace(call'[r].handles, call'[r].new_desc)
  BY <1>1, <1>4 DEF Owned, OwnedIn, OnePlace
<1>7. Ownership'
  BY <1>1, <1>6 DEF Ownership
<1>8. CallsSound'
  BY <1>1, <1>3, <1>5 DEF CallsSound, Progress
<1>9. SenderHolds' /\ QueueSound'
  BY <1>1, SameQueue DEF ImcInvariant, SenderHolds, Imc!Held
<1>10. QED BY <1>7, <1>8, <1>9 DEF ImcInvariant

-----------------------------------------------------------------------------
(* The steps of the sender leave the receiver alone.                        *)
LEMMA SenderStep ==
  ASSUME ImcInvariant, UNCHANGED <<handle, installed, lost, call>>, SenderHolds', QueueSound'
  PROVE  ImcInvariant'
<1>1. Ownership'
  BY DEF ImcInvariant, Ownership
<1>2. CallsSound'
  BY DEF ImcInvariant, CallsSound
<1>3. QED BY <1>1, <1>2 DEF ImcInvariant

LEMMA GetDescsStep ==
  ASSUME Imc!Bounds, ImcInvariant, NEW descs \in Imc!Descs, Imc!GetDescs(descs)
  PROVE  ImcInvariant'
<1>1. descs \in Seq(Imc!Objects)
  <2>1. PICK n \in 0 .. UserDescMax : descs \in [1 .. n -> Imc!Objects]
    BY DEF Imc!Descs
  <2>2. n \in Nat BY DEF Imc!Bounds
  <2>3. QED BY <2>1, <2>2
<1>2. /\ sending' = descs /\ Imc!Range(descs) \subseteq named
      /\ UNCHANGED <<named, opened, queue, handle, installed, lost, call>>
  BY DEF Imc!GetDescs, Imc!receiver, Imc!ghosts
<1>3. SenderHolds'
  <2>1. Imc!Held' = Imc!Range(descs) BY <1>2 DEF Imc!Held, Imc!Range
  <2>2. QED BY <2>1, <1>1, <1>2 DEF SenderHolds, ImcInvariant
<1>4. QED BY <1>2, <1>3, SenderStep, SameQueue

LEMMA CloseStep ==
  ASSUME ImcInvariant, NEW o \in ByHandle, Imc!Close(o)
  PROVE  ImcInvariant'
<1>1. /\ named' = named \ {o}
      /\ opened' = IF o \in Imc!Held THEN opened ELSE opened \ {o}
      /\ UNCHANGED <<sending, queue, handle, installed, lost, call>>
  BY DEF Imc!Close, Imc!receiver, Imc!ghosts
<1>2. Imc!Held' = Imc!Held BY <1>1 DEF Imc!Held, Imc!Range
<1>3. SenderHolds'
  BY <1>1, <1>2 DEF SenderHolds, ImcInvariant
<1>4. QED BY <1>1, <1>3, SenderStep, SameQueue

LEMMA DropStep ==
  ASSUME ImcInvariant, Imc!Drop
  PROVE  ImcInvariant'
<1>1. /\ opened' = opened \cap named /\ sending' = <<>>
      /\ UNCHANGED <<named, queue, handle, installed, lost, call>>
  BY DEF Imc!Drop, Imc!receiver, Imc!ghosts
<1>2. Imc!Held' = {}
  BY <1>1 DEF Imc!Held, Imc!Range
<1>3. sending' \in Seq(Imc!Objects) BY <1>1, EmptySeq
<1>4. SenderHolds'
  BY <1>1, <1>2, <1>3 DEF SenderHolds, ImcInvariant
<1>5. QED BY <1>1, <1>4, SenderStep, SameQueue

(* Every handle that a message needs is still open when it is sent.         *)
LEMMA SendMsgStep ==
  ASSUME ImcInvariant, Imc!SendMsg
  PROVE  ImcInvariant'
<1> DEFINE places == {k \in DOMAIN sending : sending[k] \notin ByName}
           M == [tags : Seq(Imc!Objects), objects : Seq(Imc!Objects)]
<1>1. /\ Imc!Held \cap Fixed = {}
      /\ UNCHANGED <<named, opened, sending, handle, installed, lost, call>>
  BY DEF Imc!SendMsg, Imc!receiver, Imc!ghosts
<1>2. PICK taken \in Imc!InOrder(places) :
        queue' = Append(queue,
                   [tags |-> sending,
                    objects |-> [k \in DOMAIN taken |->
                                   IF sending[taken[k]] \in opened THEN sending[taken[k]]
                                   ELSE Imc!Closed]])
  BY Zenon DEF Imc!SendMsg
<1> DEFINE objects == [k \in DOMAIN taken |-> sending[taken[k]]]
           msg == [tags |-> sending, objects |-> objects]
<1>3. \A k \in DOMAIN taken : taken[k] \in places
  BY DEF Imc!InOrder
<1>4. \A k \in DOMAIN taken : sending[taken[k]] \in opened
  <2>1. ASSUME NEW k \in DOMAIN taken PROVE sending[taken[k]] \in opened
    <3>1. taken[k] \in DOMAIN sending /\ sending[taken[k]] \notin ByName BY <1>3
    <3>2. sending[taken[k]] \in Imc!Held BY <3>1 DEF Imc!Held, Imc!Range
    <3>3. sending[taken[k]] \in Imc!Objects
      BY <3>1, ElementOfSeq, LenProperties DEF ImcInvariant, SenderHolds
    <3>4. sending[taken[k]] \in ByHandle
      BY <3>1, <3>2, <3>3, <1>1 DEF Imc!Objects
    <3>5. QED BY <3>2, <3>4 DEF ImcInvariant, SenderHolds
  <2>2. QED BY <2>1
<1>5. queue' = Append(queue, msg)
  <2>1. [k \in DOMAIN taken |-> IF sending[taken[k]] \in opened THEN sending[taken[k]]
                                ELSE Imc!Closed] = objects
    BY <1>4
  <2>2. QED BY <2>1, <1>2, Zenon
<1>6. msg \in M /\ Aligned(msg.tags, msg.objects)
  <2>1. sending \in Seq(Imc!Objects) BY DEF ImcInvariant, SenderHolds
  <2>2. objects \in Seq(Imc!Objects) /\ Aligned(sending, objects)
    BY <2>1, SentAligned
  <2> HIDE DEF objects
  <2>3. QED BY <2>1, <2>2
<1>7. /\ queue \in Seq(M) /\ \A k \in DOMAIN queue : Aligned(queue[k].tags, queue[k].objects)
  BY DEF ImcInvariant, QueueSound
<1> HIDE DEF msg, M
<1>8. /\ queue' \in Seq(M) /\ Len(queue) \in Nat /\ DOMAIN queue = 1 .. Len(queue)
      /\ DOMAIN queue' = 1 .. Len(queue) + 1
      /\ \A k \in 1 .. Len(queue) : queue'[k] = queue[k]
      /\ queue'[Len(queue) + 1] = msg
  BY <1>5, <1>6, <1>7, AppendProperties, LenProperties
<1>9. \A k \in DOMAIN queue' : Aligned(queue'[k].tags, queue'[k].objects)
  BY <1>6, <1>7, <1>8
<1>10. QueueSound'
  BY <1>8, <1>9 DEF QueueSound, M
<1>11. SenderHolds'
  BY <1>1 DEF ImcInvariant, SenderHolds, Imc!Held
<1>12. QED BY <1>1, <1>10, <1>11, SenderStep

LEMMA ImcBegins == ASSUME Imc!Bounds, Imc!Init PROVE ImcInvariant
<1>1. SenderHolds
  BY EmptySeq DEF Imc!Init, SenderHolds, Imc!Held, Imc!Range
<1>2. QueueSound
  BY EmptySeq DEF Imc!Init, QueueSound
<1>3. \A r \in Receivers : call[r] = Imc!NoCall
  BY DEF Imc!Init
<1>4. Imc!NoCall \in Calls
  BY EmptySeq DEF Imc!NoCall, Calls
<1>5. ~Imc!NoCall.failed /\ Imc!NoCall.pc = "idle"
  BY DEF Imc!NoCall
<1>6. Imc!NoCall.new_desc = <<>> /\ Imc!NoCall.handles = <<>>
  BY DEF Imc!NoCall
<1>7. CallsSound
  <2>1. call \in [Receivers -> Calls]
    BY <1>4 DEF Imc!Init
  <2>2. QED BY <2>1, <1>3, <1>5 DEF CallsSound, Progress
<1>8. Ownership
  <2>1. \A r \in Receivers : Owned(call[r]) = {} /\ OnePlace(call[r].handles, call[r].new_desc)
    BY <1>3, <1>6 DEF Owned, OwnedIn, OnePlace
  <2>2. /\ handle \in [Imc!Handles -> Imc!Objects \cup {Imc!Closed}]
        /\ \A h \in Imc!Handles : handle[h] = Imc!Closed
        /\ installed = {} /\ lost = {}
    BY DEF Imc!Init
  <2>3. QED BY <2>1, <2>2 DEF Ownership
<1>9. QED BY <1>1, <1>2, <1>7, <1>8 DEF ImcInvariant

LEMMA ImcStep ==
  ASSUME Imc!Bounds, ImcInvariant, [Imc!Next]_(Imc!vars)
  PROVE  ImcInvariant' \/ strayed' = TRUE
<1>1. ASSUME NEW descs \in Imc!Descs, Imc!GetDescs(descs) PROVE ImcInvariant'
  BY <1>1, GetDescsStep
<1>2. ASSUME NEW o \in ByHandle, Imc!Close(o) PROVE ImcInvariant'
  BY <1>2, CloseStep
<1>3. CASE Imc!SendFails
  <2>1. UNCHANGED <<named, opened, sending, queue, handle, installed, lost, call>>
    BY <1>3 DEF Imc!SendFails, Imc!receiver, Imc!ghosts
  <2>2. SenderHolds'
    BY <2>1 DEF ImcInvariant, SenderHolds, Imc!Held
  <2>3. QED BY <2>1, <2>2, SenderStep, SameQueue
<1>4. CASE Imc!SendMsg
  BY <1>4, SendMsgStep
<1>5. CASE Imc!Drop
  BY <1>5, DropStep
<1>6. ASSUME NEW r \in Receivers, NEW room \in Rooms, Imc!RecvMsg(r, room)
      PROVE  ImcInvariant'
  BY <1>6, ReceiveStep
<1>7. ASSUME NEW r \in Receivers,
             \/ Imc!RecvBufFails(r) \/ Imc!CloseStray(r)
             \/ Imc!Internalize(r) \/ Imc!CtorFails(r) \/ Imc!InternalizeFails(r)
             \/ Imc!Internalized(r)
             \/ Imc!DropExcess(r) \/ Imc!Install(r) \/ Imc!Cleanup(r) \/ Imc!Return(r)
      PROVE  ImcInvariant' \/ strayed' = TRUE
  BY <1>7, RecvBufFailsStep, CloseStrayStep, InternalizeStep, CtorFailsStep,
     InternalizeFailsStep, InternalizedStep, DropExcessStep, InstallStep, CleanupStep,
     ReturnStep, Zenon
<1>8. ASSUME NEW h \in installed, Imc!CloseReceived(h) PROVE ImcInvariant'
  BY <1>8, CloseReceivedStep
<1>9. CASE UNCHANGED Imc!vars
  <2>1. UNCHANGED <<named, opened, sending, queue, handle, installed, lost, call>>
    BY <1>9 DEF Imc!vars, Imc!ghosts
  <2>2. SenderHolds'
    BY <2>1 DEF ImcInvariant, SenderHolds, Imc!Held
  <2>3. QED BY <2>1, <2>2, SenderStep, SameQueue
<1>10. CASE Imc!ReceiverNext
  BY <1>6, <1>7, <1>8, <1>10, CrashStep, Zenon DEF Imc!ReceiverNext
<1>11. QED BY <1>1, <1>2, <1>3, <1>4, <1>5, <1>9, <1>10, Zenon DEF Imc!Next

(* A stray close is not forgotten, and the invariant holds up to the first. *)
Sound == strayed \in BOOLEAN /\ (strayed = FALSE => ImcInvariant)

LEMMA StrayedStays ==
  ASSUME [Imc!Next]_(Imc!vars) PROVE strayed' = strayed \/ strayed' = TRUE
<1>1. ASSUME \/ \E descs \in Imc!Descs : Imc!GetDescs(descs)
             \/ \E o \in ByHandle : Imc!Close(o)
             \/ Imc!SendFails \/ Imc!SendMsg \/ Imc!Drop
      PROVE  strayed' = strayed
  BY <1>1 DEF Imc!GetDescs, Imc!Close, Imc!SendFails, Imc!SendMsg, Imc!Drop, Imc!receiver,
              Imc!ghosts
<1>2. ASSUME NEW r \in Receivers,
             \/ \E room \in Rooms : Imc!RecvMsg(r, room)
             \/ Imc!RecvBufFails(r) \/ Imc!CloseStray(r)
             \/ Imc!Internalize(r) \/ Imc!CtorFails(r) \/ Imc!InternalizeFails(r)
             \/ Imc!Internalized(r)
             \/ Imc!DropExcess(r) \/ Imc!Install(r) \/ Imc!Cleanup(r) \/ Imc!Return(r)
      PROVE  strayed' = strayed \/ strayed' = TRUE
  <2>1. ASSUME NEW room \in Rooms, Imc!RecvMsg(r, room) PROVE strayed' = strayed
    BY <2>1 DEF Imc!RecvMsg, Imc!ghosts
  <2>2. CASE Imc!RecvBufFails(r) BY <2>2 DEF Imc!RecvBufFails, Imc!ghosts
  <2>3. CASE Imc!CloseStray(r) BY <2>3 DEF Imc!CloseStray
  <2>4. CASE Imc!Internalize(r) BY <2>4 DEF Imc!Internalize, Imc!ghosts
  <2>5. CASE Imc!CtorFails(r) BY <2>5 DEF Imc!CtorFails
  <2>6. CASE Imc!InternalizeFails(r) BY <2>6 DEF Imc!InternalizeFails, Imc!ghosts
  <2>7. CASE Imc!Internalized(r) BY <2>7 DEF Imc!Internalized, Imc!ghosts
  <2>8. CASE Imc!DropExcess(r) BY <2>8 DEF Imc!DropExcess, Imc!ghosts
  <2>9. CASE Imc!Install(r) BY <2>9 DEF Imc!Install, Imc!ghosts
  <2>10. CASE Imc!Cleanup(r) BY <2>10 DEF Imc!Cleanup, Imc!ghosts
  <2>11. CASE Imc!Return(r) BY <2>11 DEF Imc!Return, Imc!ghosts
  <2>12. QED BY <1>2, <2>1, <2>2, <2>3, <2>4, <2>5, <2>6, <2>7, <2>8, <2>9, <2>10, <2>11
<1>3. ASSUME NEW h \in installed, Imc!CloseReceived(h) PROVE strayed' = strayed
  BY <1>3 DEF Imc!CloseReceived, Imc!ghosts
<1>4. CASE Imc!Crash BY <1>4 DEF Imc!Crash
<1>5. CASE UNCHANGED Imc!vars BY <1>5 DEF Imc!vars, Imc!ghosts
<1>6. CASE Imc!ReceiverNext
  BY <1>2, <1>3, <1>4, <1>6, Zenon DEF Imc!ReceiverNext
<1>7. QED BY <1>1, <1>5, <1>6, Zenon DEF Imc!Next

LEMMA SoundBegins == ASSUME Imc!Bounds, Imc!Init PROVE Sound
<1>1. strayed = FALSE BY DEF Imc!Init
<1>2. QED BY <1>1, ImcBegins DEF Sound

LEMMA SoundStep ==
  ASSUME Imc!Bounds, Sound, [Imc!Next]_(Imc!vars) PROVE Sound'
<1>1. strayed' \in BOOLEAN BY StrayedStays DEF Sound
<1>2. ASSUME strayed' = FALSE PROVE ImcInvariant'
  <2>1. strayed = FALSE BY <1>2, StrayedStays DEF Sound
  <2>2. ImcInvariant BY <2>1 DEF Sound
  <2>3. QED BY <2>2, <1>2, ImcStep
<1>3. QED BY <1>1, <1>2 DEF Sound

(* The places of a handle are counted.                                      *)
LEMMA OwnersCounted == ASSUME Sound PROVE Imc!HandlesOwned
<1> SUFFICES ASSUME ImcInvariant PROVE Imc!HandlesOwned
  BY DEF Sound, Imc!HandlesOwned
<1> SUFFICES ASSUME NEW h \in Imc!Handles
             PROVE  Imc!Cardinality(Imc!InKernHandle(h)) + Imc!Cardinality(Imc!InNewDesc(h))
                      + (IF h \in installed THEN 1 ELSE 0) + (IF h \in lost THEN 1 ELSE 0)
                      = IF handle[h] = Imc!Closed THEN 0 ELSE 1
  BY DEF Imc!HandlesOwned
<1>1. /\ \A p : p \in Imc!InKernHandle(h) <=>
           \E r \in Receivers : \E k \in DOMAIN call[r].handles :
             p = <<r, k>> /\ call[r].handles[k] = h
      /\ \A p : p \in Imc!InNewDesc(h) <=>
           \E r \in Receivers : \E k \in DOMAIN call[r].new_desc :
             p = <<r, k>> /\ call[r].new_desc[k] = h
  BY DEF Imc!InKernHandle, Imc!InNewDesc
<1>2. /\ \A r \in Receivers : h \in Owned(call[r]) <=>
           \/ \E k \in DOMAIN call[r].handles : call[r].handles[k] = h
           \/ \E k \in DOMAIN call[r].new_desc : call[r].new_desc[k] = h
  BY DEF Owned, OwnedIn
<1>3. /\ \A r \in Receivers : OnePlace(call[r].handles, call[r].new_desc)
      /\ \A r \in Receivers : h \in Owned(call[r]) => h \notin installed /\ h \notin lost
      /\ h \in installed => h \notin lost
      /\ \A r, q \in Receivers : h \in Owned(call[r]) /\ h \in Owned(call[q]) => r = q
      /\ handle[h] # Imc!Closed
           <=> h \in installed \cup lost \/ \E r \in Receivers : h \in Owned(call[r])
  BY DEF ImcInvariant, Ownership
<1>4. Imc!Cardinality({}) = 0 /\ \A p : Imc!Cardinality({p}) = 1
  BY FS_EmptySet, FS_Singleton, SameCardinality
<1>5. CASE \A r \in Receivers : h \notin Owned(call[r])
  <2>1. Imc!InKernHandle(h) = {} /\ Imc!InNewDesc(h) = {}
    BY <1>1, <1>2, <1>5
  <2>2. handle[h] = Imc!Closed <=> h \notin installed /\ h \notin lost
    BY <1>3, <1>5
  <2>3. QED BY <2>1, <2>2, <1>3, <1>4
<1>6. ASSUME NEW r \in Receivers, h \in Owned(call[r])
      PROVE  Imc!Cardinality(Imc!InKernHandle(h)) + Imc!Cardinality(Imc!InNewDesc(h)) = 1
  <2>1. \A q \in Receivers : h \in Owned(call[q]) <=> q = r
    BY <1>3, <1>6
  <2>2. CASE \E k \in DOMAIN call[r].handles : call[r].handles[k] = h
    <3>1. PICK k \in DOMAIN call[r].handles : call[r].handles[k] = h BY <2>2
    <3>2. Imc!InKernHandle(h) = {<<r, k>>}
      BY <3>1, <2>1, <1>1, <1>2, <1>3 DEF OnePlace
    <3>3. Imc!InNewDesc(h) = {}
      BY <3>1, <2>1, <1>1, <1>2, <1>3 DEF OnePlace
    <3>4. Imc!Cardinality({<<r, k>>}) = 1 BY <1>4
    <3>5. QED BY <3>2, <3>3, <3>4, <1>4
  <2>3. CASE ~ \E k \in DOMAIN call[r].handles : call[r].handles[k] = h
    <3>1. PICK k \in DOMAIN call[r].new_desc : call[r].new_desc[k] = h
      BY <2>3, <1>2, <1>6
    <3>2. Imc!InNewDesc(h) = {<<r, k>>}
      BY <3>1, <2>1, <1>1, <1>2, <1>3 DEF OnePlace
    <3>3. Imc!InKernHandle(h) = {}
      BY <2>3, <2>1, <1>1, <1>2
    <3>4. Imc!Cardinality({<<r, k>>}) = 1 BY <1>4
    <3>5. QED BY <3>2, <3>3, <3>4, <1>4
  <2>4. QED BY <2>2, <2>3
<1>7. CASE \E r \in Receivers : h \in Owned(call[r])
  <2>1. h \notin installed /\ h \notin lost /\ handle[h] # Imc!Closed BY <1>7, <1>3
  <2>2. QED BY <2>1, <1>6, <1>7
<1>8. QED BY <1>5, <1>7

(* A receive that is over has what the sender named.                        *)
LEMMA ReceivedNamed == ASSUME Sound PROVE Imc!DescriptorsMatch
<1> SUFFICES ASSUME ImcInvariant PROVE Imc!DescriptorsMatch
  BY DEF Sound, Imc!DescriptorsMatch
<1> SUFFICES ASSUME NEW r \in Receivers, Imc!Finished(call[r])
             PROVE  LET c == call[r]
                    IN IF c.failed THEN c.out = <<>>
                       ELSE IF "DESC_TRUNCATED" \in c.flags
                            THEN /\ c.desc_length < Len(c.meant)
                                 /\ Imc!Match(c.out, SubSeq(c.meant, 1, c.desc_length))
                            ELSE Imc!Match(c.out, c.meant)
  BY DEF Imc!DescriptorsMatch
<1> DEFINE c == call[r]
<1>1. /\ c.pc \in {"deliver", "cleanup"} /\ c.new_desc = <<>>
  BY DEF Imc!Finished
<1>2. /\ Progress(c, handle) /\ c.out \in Seq(Received) /\ c.meant \in Seq(Imc!Objects)
      /\ c.desc_length \in Nat
  BY CallHolds
<1> HIDE DEF c
<1>3. CASE c.failed
  <2>1. c.out = <<>> BY <1>2, <1>3 DEF Progress
  <2>2. QED BY <2>1, <1>3 DEF c
<1>4. CASE ~c.failed
  <2> DEFINE out == c.out
             names == c.meant
             room == c.desc_length
             n == Len(out)
             m == Len(names)
  <2>1. Delivering(c, handle)
    BY <1>1, <1>2, <1>4 DEF Progress
  <2>2. /\ "DESC_TRUNCATED" \in c.flags <=> room < m
        /\ n + 0 <= m
        /\ room < m => n <= room /\ room <= n + 0
        /\ room >= m => n + 0 = m
        /\ \A k \in DOMAIN out : Is(out[k], names[k])
    BY <2>1, <1>1 DEF Delivering
  <2>3. out \in Seq(Received) /\ names \in Seq(Imc!Objects) /\ room \in Nat
    BY <1>2
  <2> HIDE DEF out, names, room
  <2>4. /\ n \in Nat /\ m \in Nat /\ DOMAIN out = 1 .. n /\ DOMAIN names = 1 .. m
        /\ \A k \in 1 .. m : names[k] \in Imc!Objects
    BY <2>3, LenProperties, ElementOfSeq
  <2>5. CASE room < m
    <3>1. n = room
      <4> HIDE DEF n, m
      <4>1. n \in Nat /\ room \in Nat /\ n <= room /\ room <= n + 0
        BY <2>2, <2>3, <2>4, <2>5
      <4>2. QED BY <4>1
    <3>2. /\ SubSeq(names, 1, room) \in Seq(Imc!Objects) /\ Len(SubSeq(names, 1, room)) = n
          /\ \A k \in 1 .. n : SubSeq(names, 1, room)[k] = names[k]
      <4>1. \A k \in 1 .. room : names[k] \in Imc!Objects BY <2>3, <2>4, <2>5
      <4>2. /\ SubSeq(names, 1, room) \in Seq(Imc!Objects)
            /\ Len(SubSeq(names, 1, room)) = IF 1 <= room THEN room - 1 + 1 ELSE 0
            /\ \A k \in 1 .. room - 1 + 1 : SubSeq(names, 1, room)[k] = names[1 + k - 1]
        BY <4>1, <2>3, SubSeqProperties
      <4>3. QED BY <4>2, <3>1, <2>3
    <3>3. Imc!Match(out, SubSeq(names, 1, room))
      BY <3>1, <3>2, <2>2, <2>3, <2>4 DEF Imc!Match, Is
    <3>4. QED BY <3>3, <2>2, <2>5, <1>4 DEF c, out, names, room
  <2>6. CASE ~(room < m)
    <3>1. n = m
      <4> HIDE DEF n, m
      <4>1. n \in Nat /\ m \in Nat /\ room \in Nat BY <2>3, <2>4
      <4>2. room >= m BY <4>1, <2>6
      <4>3. n + 0 = m BY <4>2, <2>2
      <4>4. QED BY <4>1, <4>3
    <3>2. Imc!Match(out, names)
      BY <3>1, <2>2, <2>3, <2>4 DEF Imc!Match, Is
    <3>3. QED BY <3>2, <2>2, <2>6, <1>4 DEF c, out, names, room
  <2>7. QED BY <2>5, <2>6
<1>5. QED BY <1>3, <1>4

(* In a receive that fails, is cut or races with others and with closes     *)
(* (NaClImcRecvTypedMessage and its callers), an open handle has one owner, *)
(* and one that is owned is open.  The exceptions are those that the code   *)
(* has: a handle that the failed constructor of a shared memory descriptor  *)
(* was given is open and nobody's, and nothing is claimed once a call that  *)
(* had no memory for recv_buf has closed a handle it was not given.         *)
THEOREM NoHandleLeaks == ASSUME Imc!Bounds PROVE Imc!Spec => []Imc!HandlesOwned
<1>1. Imc!Init => Sound BY SoundBegins
<1>2. Sound /\ [Imc!Next]_(Imc!vars) => Sound' BY SoundStep
<1>3. Sound => Imc!HandlesOwned BY OwnersCounted
<1>4. QED BY <1>1, <1>2, <1>3, PTL DEF Imc!Spec

(* Up to such a close imc_recvmsg gives what imc_sendmsg was given, in its  *)
(* order, or with the flag as many as there is room for, or nothing if it   *)
(* fails; a descriptor without methods stands only where such a constructor *)
(* failed.                                                                  *)
THEOREM ReceivedAsSent == ASSUME Imc!Bounds PROVE Imc!Spec => []Imc!DescriptorsMatch
<1>1. Imc!Init => Sound BY SoundBegins
<1>2. Sound /\ [Imc!Next]_(Imc!vars) => Sound' BY SoundStep
<1>3. Sound => Imc!DescriptorsMatch BY ReceivedNamed
<1>4. QED BY <1>1, <1>2, <1>3, PTL DEF Imc!Spec

-----------------------------------------------------------------------------
(* The composition.                                                         *)

(* A step of the composition is a step of a component or leaves it alone.   *)
LEMMA ComponentSteps ==
  ASSUME [PartsNext]_parts
  PROVE  /\ [Text!Next]_(Text!vars) /\ [Imc!Next]_(Imc!vars)
         /\ [Map!Next]_(Map!vars)
<1>1. ASSUME PartsNext
      PROVE  /\ (Text!Next \/ UNCHANGED text) /\ (Imc!Next \/ UNCHANGED imc)
             /\ (Map!Next \/ UNCHANGED map)
  BY <1>1 DEF PartsNext, StepOf
<1>2. CASE UNCHANGED parts
  BY <1>2 DEF parts, text, Text!vars, imc, Imc!vars, Imc!ghosts, map, Map!vars
<1>3. QED BY <1>1, <1>2 DEF text, Text!vars, imc, Imc!vars, Imc!ghosts, map, Map!vars

(* The same of the composition, whenever the validator is what runs.        *)
THEOREM ContainedInParts == PartsSpec => []Contained
<1>1. PartsInit => Checked BY TextBegins, TextBounds DEF PartsInit
<1>2. Checked /\ [PartsNext]_parts => Checked' BY ComponentSteps, TextStep, TextBounds
<1>3. Checked => Contained BY CheckedContained, TextBounds DEF Contained, During
<1>4. QED BY <1>1, <1>2, <1>3, PTL DEF PartsSpec

(* Handles have the same owners in the composition, with the same two       *)
(* exceptions, whenever IMC is what runs.                                   *)
THEOREM HandlesInParts == PartsSpec => []HandlesOwned
<1>1. PartsInit => Sound BY SoundBegins, ImcBounds DEF PartsInit
<1>2. Sound /\ [PartsNext]_parts => Sound'
  BY ComponentSteps, SoundStep, ImcBounds
<1>3. Sound => HandlesOwned BY OwnersCounted DEF HandlesOwned, During
<1>4. QED BY <1>1, <1>2, <1>3, PTL DEF PartsSpec

(* And what is received is what was sent, with the same exceptions.         *)
THEOREM DescriptorsInParts == PartsSpec => []DescriptorsMatch
<1>1. PartsInit => Sound BY SoundBegins, ImcBounds DEF PartsInit
<1>2. Sound /\ [PartsNext]_parts => Sound'
  BY ComponentSteps, SoundStep, ImcBounds
<1>3. Sound => DescriptorsMatch BY ReceivedNamed DEF DescriptorsMatch, During
<1>4. QED BY <1>1, <1>2, <1>3, PTL DEF PartsSpec

(* What the proofs of the memory map show holds of it in the composition.   *)
LEMMA MapInParts == PartsSpec => []Map!MapInvariant
<1>1. PartsInit => Map!MapInvariant BY Map!MapInit, MapBounds DEF PartsInit
<1>2. Map!MapInvariant /\ [PartsNext]_parts => Map!MapInvariant'
  BY ComponentSteps, Map!MapNext, MapBounds
<1>3. QED BY <1>1, <1>2, PTL DEF PartsSpec

(* Regions neither share nor leak a memory object, ...                      *)
THEOREM ObjectsInParts == PartsSpec => []ObjectsOwned
<1>1. Map!MapInvariant => ObjectsOwned
  BY Map!OwnedIfSound, MapBounds DEF ObjectsOwned, During
<1>2. QED BY <1>1, MapInParts, PTL

(* ... the map says of every page what the host has there, ...              *)
THEOREM MemoryInParts == PartsSpec => []MapMatchesMemory
<1>1. Map!MapInvariant => MapMatchesMemory
  BY Map!MatchesIfSound, MapBounds DEF MapMatchesMemory, During
<1>2. QED BY <1>1, MapInParts, PTL

(* ... the searches find the best hole, ...                                 *)
THEOREM HolesInParts == PartsSpec => []HolesFound
<1>1. Map!MapInvariant => HolesFound
  BY Map!FoundIfSound, MapBounds DEF HolesFound, During
<1>2. QED BY <1>1, MapInParts, PTL

(* ... and the array implements the table of pages.                         *)
THEOREM TableInParts == PartsSpec => ImplementsPageMap
<1>1. PartsInit => Map!Table!Init BY DEF PartsInit, Map!Init, Map!Table!Init
<1>2. Map!MapInvariant /\ [PartsNext]_parts => [Map!Table!Next]_(Map!Table!vars)
  BY ComponentSteps, Map!TableNext, MapBounds
<1>3. QED
  BY <1>1, <1>2, MapInParts, PTL DEF PartsSpec, ImplementsPageMap, Map!ImplementsPageMap,
                                     Map!Table!Spec
=============================================================================
