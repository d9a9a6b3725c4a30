------------------------------ MODULE MCNcMutex ------------------------------
(* The programs of the runs of NcMutex.                                     *)
EXTENDS NcMutex

Use(kind, others) == [type |-> kind, calls |-> others]

(* Disciplined programs of every kind, and what may go wrong in others.     *)
MixedUses ==
  {Use("fast", {"wait"}), Use("fast", {"timedwait", "misuse"}),
   Use("recursive", {}), Use("recursive", {"wait"}),
   Use("errorcheck", {"misuse"}), Use("errorcheck", {"wait", "misuse"})}

(* Those of them whose waits are checked for an end.                        *)
WaitingUses ==
  {Use("fast", {"wait"}), Use("fast", {"timedwait"}), Use("recursive", {}),
   Use("errorcheck", {"misuse"}), Use("errorcheck", {"wait", "misuse"})}

TimedUses == {Use("fast", {"timedwait"})}

CheckedWaitUses == {Use("errorcheck", {"wait"})}
=============================================================================
