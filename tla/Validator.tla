----------------------------- MODULE Validator -----------------------------
(***************************************************************************)
(* The x86-32 validator (validator_x86/ncvalidate.c, ncdecode.c) and the   *)
(* code it lets through.  The text is decoded once, from its first byte to *)
(* the one before its last; the tables of instruction starts and of jump   *)
(* targets decide at the end.  What an accepted text does when it runs is  *)
(* the processor's part.                                                   *)
(*                                                                         *)
(* Addresses are relative to the text's base, which is aligned.  The bytes *)
(* of an instruction are abstracted to what the validator tells apart: its *)
(* kind, its length, the register of a mask or of an indirect transfer and *)
(* the target of a direct one.  A conditional jump stands for the jumps.   *)
(***************************************************************************)
EXTENDS Integers

CONSTANTS
  TextSize,      \* text_region_bytes
  Alignment,     \* align_boundary
  TrampolineEnd, \* NACL_TRAMPOLINE_END, the bytes before the text
  BlockSize,     \* NACL_INSTR_BLOCK_SIZE
  Insts          \* the instructions the text is made of

Direct == {"jump", "call"}
Indirect == {"indirect jump", "indirect call"}
Calls == {"call", "indirect call"}
Kinds == Direct \cup Indirect
         \cup {"plain", "mask",
               "unavailable", \* of a kind this processor lacks
               "illegal",     \* or with bad prefixes or a bad length
               "halt"}

NoInst == -1     \* no instruction precedes
Outside == -1    \* pc: in the trampolines or the service runtime
NoRegister == "none"

Bounds ==
  /\ TextSize \in Nat \ {0}
  /\ Alignment \in Nat \ {0}
  /\ Insts \subseteq [kind : Kinds, length : Nat \ {0},
                     reg : STRING \ {NoRegister}, target : Int]

VARIABLES
  code,             \* the instructions decoded, by address
  vpc, previous,    \* the next address to decode and the one decoded before
  vttable, kttable, \* the starts one may jump to; the targets of the jumps
  phase,            \* "decode", "accepted" or "rejected"
  pc, masked        \* of the processor: where it is; the register just masked

vars == <<code, vpc, previous, vttable, kttable, phase, pc, masked>>

Init ==
  /\ code = [a \in {} |-> [kind |-> "halt"]]
  /\ vpc = 0
  /\ previous = NoInst
  /\ vttable = {}
  /\ kttable = {}
  /\ phase = "decode"
  /\ pc = Outside
  /\ masked = NoRegister

InText(a) == 0 <= a /\ a < TextSize
InTrampolines(a) == -TrampolineEnd <= a /\ a < 0 /\ a % BlockSize = 0
BlockStarts == {a \in 0 .. TextSize - 1 : a % Alignment = 0}

-----------------------------------------------------------------------------
(* The checks of one instruction.                                          *)

RememberTP(inst) == InText(inst.target) \/ InTrampolines(inst.target)

(* ValidateIndirect5: the instruction before masks the same register.      *)
ValidateIndirect(inst) ==
  /\ previous # NoInst
  /\ code[previous].kind = "mask"
  /\ code[previous].reg = inst.reg
  /\ inst.reg \notin {"esp", "memory"}

ValidateCallAlignment(inst) == (vpc + inst.length) % Alignment = 0

ValidateInst(inst) ==
  /\ inst.kind # "illegal"
  /\ inst.kind \in Direct => RememberTP(inst)
  /\ inst.kind \in Indirect => ValidateIndirect(inst)
  /\ inst.kind \in Calls => ValidateCallAlignment(inst)

Fits(inst) == vpc + inst.length <= TextSize - 1

(* What is left in the text: halts in place of an unavailable instruction. *)
Squashed(inst) ==
  IF inst.kind = "unavailable" THEN [inst EXCEPT !.kind = "halt"] ELSE inst

(* Faulty variant of the next definition: the transfer stays a start.      *)
NotForgotten(inst) == vttable \cup {vpc}

(* RememberIP, and ForgetIP: an indirect transfer is no start, its mask is. *)
Remembered(inst) == IF inst.kind \in Indirect THEN vttable ELSE vttable \cup {vpc}

-----------------------------------------------------------------------------
(* The pass over the text.  A failure is never taken back (sawfailure), so *)
(* the text is rejected at the first one.                                  *)

Reject ==
  /\ phase' = "rejected"
  /\ UNCHANGED <<code, vpc, previous, vttable, kttable, pc, masked>>

(* The processor has no CPUID instruction: nothing is decoded.             *)
Unsupported == phase = "decode" /\ vpc = 0 /\ Reject

Decode(inst) ==
  /\ phase = "decode"
  /\ vpc < TextSize - 1
  /\ Fits(inst)
  /\ ValidateInst(inst)
  /\ code' = [a \in DOMAIN code \cup {vpc} |->
                IF a = vpc THEN Squashed(inst) ELSE code[a]]
  /\ vttable' = Remembered(inst)
  /\ kttable' = IF inst.kind \in Direct /\ InText(inst.target)
                THEN kttable \cup {inst.target} ELSE kttable
  /\ previous' = vpc
  /\ vpc' = vpc + inst.length
  /\ UNCHANGED <<phase, pc, masked>>

Refuse(inst) ==
  /\ phase = "decode"
  /\ vpc < TextSize - 1
  /\ ~(Fits(inst) /\ ValidateInst(inst))
  /\ Reject

(* NCValidateFinish: every target and every aligned address is a start.    *)
TablesAgree == kttable \subseteq vttable /\ BlockStarts \subseteq vttable

Finish(fullstop) ==
  /\ phase = "decode"
  /\ vpc >= TextSize - 1
  /\ IF fullstop /\ TablesAgree
     THEN /\ phase' = "accepted"
          /\ UNCHANGED <<code, vpc, previous, vttable, kttable, pc, masked>>
     ELSE Reject

-----------------------------------------------------------------------------
(* The processor, on an accepted text.  The module is entered, and         *)
(* returned to, at an aligned address of the text.                         *)

Goto(a, reg) ==
  /\ pc' = a
  /\ masked' = reg
  /\ UNCHANGED <<code, vpc, previous, vttable, kttable, phase>>

Running(kinds) ==
  /\ phase = "accepted"
  /\ pc \in DOMAIN code
  /\ code[pc].kind \in kinds

Enter(a) == phase = "accepted" /\ pc = Outside /\ Goto(a, NoRegister)

FallThrough ==
  /\ Running({"plain", "mask", "jump"})
  /\ Goto(pc + code[pc].length,
          IF code[pc].kind = "mask" THEN code[pc].reg ELSE NoRegister)

Transfer ==
  /\ Running(Direct)
  /\ Goto(IF code[pc].target < 0 THEN Outside ELSE code[pc].target, NoRegister)

(* A masked register holds an aligned address; any other, any address.     *)
IndirectTransfer(a) ==
  /\ Running(Indirect)
  /\ masked = code[pc].reg => a \in BlockStarts \cup {Outside}
  /\ Goto(a, NoRegister)

Run ==
  \/ \E a \in BlockStarts : Enter(a)
  \/ FallThrough
  \/ Transfer
  \/ \E a \in 0 .. TextSize - 1 \cup {Outside} : IndirectTransfer(a)

Next ==
  \/ Unsupported
  \/ \E inst \in Insts : Decode(inst) \/ Refuse(inst)
  \/ \E fullstop \in BOOLEAN : Finish(fullstop)
  \/ Run

Spec == Init /\ [][Next]_vars

-----------------------------------------------------------------------------
(* A text that is accepted stays where the validator looked, however it is *)
(* entered: the processor is only ever at an instruction that was decoded, *)
(* of a kind that is allowed, or at the last byte; it transfers through a  *)
(* register only right after masking it; and a call returns, through an    *)
(* aligned address, to the instruction after it.                           *)
Contained ==
  phase = "accepted" /\ pc \notin {Outside, TextSize - 1} =>
    /\ pc \in DOMAIN code
    /\ code[pc].kind \notin {"illegal", "unavailable"}
    /\ code[pc].kind \in Indirect => masked = code[pc].reg
    /\ code[pc].kind \in Calls =>
         (pc + code[pc].length) \in BlockStarts \cap vttable

(* The invariants that carry it: of the instructions decoded, ...          *)
CodeChecked ==
  /\ \A a \in DOMAIN code :
       /\ a \in 0 .. vpc - 1
       /\ code[a].kind \in Kinds \ {"illegal", "unavailable"}
       /\ code[a].length \in Nat \ {0}
       /\ code[a].target \in Int
       /\ a + code[a].length \in DOMAIN code \cup {vpc}
       /\ a + code[a].length = vpc => a = previous
       /\ code[a].kind \in Direct => code[a].target < 0 \/ code[a].target \in kttable
       /\ code[a].kind \in Calls => (a + code[a].length) % Alignment = 0
  /\ vpc \in 0 .. TextSize - 1
  /\ vttable = {a \in DOMAIN code : code[a].kind \notin Indirect}

(* ... of the one before an indirect transfer, which masks its register, ... *)
TransfersMasked ==
  \A a \in DOMAIN code :
    LET next == a + code[a].length
    IN next \in DOMAIN code /\ code[next].kind \in Indirect =>
         code[a].kind = "mask" /\ code[a].reg = code[next].reg

(* ... and of where the processor is.                                      *)
Inside ==
  /\ phase # "accepted" => pc = Outside
  /\ phase = "accepted" =>
       /\ vpc = TextSize - 1
       /\ TablesAgree
       /\ pc \in DOMAIN code \cup {Outside, TextSize - 1}
       /\ pc \in DOMAIN code =>
            (code[pc].kind \in Indirect => masked = code[pc].reg)
=============================================================================
