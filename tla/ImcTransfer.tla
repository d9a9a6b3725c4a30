---------------------------- MODULE ImcTransfer ----------------------------
(***************************************************************************)
(* Descriptors sent from one module to another over an IMC socket:         *)
(* imc_sendmsg and imc_recvmsg (nacl_syscall_common.c under                *)
(* src/native_client/src/trusted/service_runtime) with the transfer        *)
(* library below them (nrd_xfer.c under src/native_client/src/trusted/desc)*)
(*                                                                         *)
(* A descriptor is known by the host object behind it.  Its class matters  *)
(* as far as what it sends: a handle (shared memory, a data-only socket),  *)
(* only bytes (a connection capability) or nothing at all (an IMC socket). *)
(* Reference counts are DescTable's: here a descriptor of the sender has   *)
(* its handle open as long as its table or a system call holds it.         *)
(***************************************************************************)
EXTENDS Integers, Sequences, FiniteSets, SequencesExt

CONSTANTS
  ByHandle, ByName, Fixed, \* the objects, by what their descriptors send
  Shm,                     \* those of ByHandle that are shared memory
  Hollow,                  \* a descriptor whose constructor failed: no methods
  Receivers,               \* the threads of the receiving module
  MaxHandles,              \* the handles the host lets its process have open
  UserDescMax,             \* NACL_ABI_IMC_USER_DESC_MAX (8)
  Rooms,                   \* the numbers of descriptors a receiver asks for
  MaxSends                 \* bound: the messages that are sent

Objects == ByHandle \cup ByName \cup Fixed
Handles == 0 .. MaxHandles - 1
Closed == "closed"

Bounds ==
  /\ MaxHandles \in Nat /\ UserDescMax \in Nat /\ Rooms \subseteq Nat
  /\ Closed \notin Objects
  /\ ByName \cap Handles = {}
  /\ Shm \subseteq ByHandle \ ByName
  /\ Hollow \notin Handles

VARIABLES
  named,      \* the sender: the objects in its descriptor table
  opened,     \* the objects whose handles are open in its process
  sending,    \* the descriptors that its imc_sendmsg holds
  send_pc,    \* where that call is
  queue,      \* the messages in the channel
  sends,      \* how many were sent
  handle,     \* the receiver: what each handle of its process refers to
  installed,  \* the handles of the descriptors in its table
  lost,       \* ghost: the handles that a failed constructor was given
  strayed,    \* ghost: whether a call closed a handle that it was not given
  call        \* the calls of imc_recvmsg, by thread

ghosts == <<lost, strayed>>

vars == <<named, opened, sending, send_pc, queue, sends, handle, installed, ghosts, call>>

sender == <<named, opened, sending, send_pc, sends>>
receiver == <<handle, installed, ghosts, call>>

-----------------------------------------------------------------------------
(* A message has the type tags of the descriptors, with the bytes by which  *)
(* some of them are named, and the objects of the handles of the others.    *)
Messages == [tags : Seq(Objects), objects : Seq(Objects \cup {Closed})]

(* tags: what is left of the type tags.  handles: kern_handle, from         *)
(* next_handle on; unset: whether it was never set and is not closed yet.   *)
(* new_desc: what the descriptors made of them have, a name or a handle.    *)
(* desc_length: the room the module gave.  flags, failed and out: what it   *)
(* gets.  meant is a ghost: what the sender named.                          *)
NoCall == [pc |-> "idle", tags |-> <<>>, handles |-> <<>>, unset |-> FALSE, new_desc |-> <<>>,
           desc_length |-> 0, flags |-> {}, failed |-> FALSE, out |-> <<>>,
           meant |-> <<>>]

Init ==
  /\ named = Objects
  /\ opened = ByHandle
  /\ sending = <<>>
  /\ send_pc = "idle"
  /\ queue = <<>>
  /\ sends = 0
  /\ handle = [h \in Handles |-> Closed]
  /\ installed = {}
  /\ lost = {}
  /\ strayed = FALSE
  /\ call = [r \in Receivers |-> NoCall]

-----------------------------------------------------------------------------
(* The sender.                                                             *)

Held == Range(sending)

(* imc_sendmsg takes a reference to each descriptor.                       *)
GetDescs(descs) ==
  /\ send_pc = "idle"
  /\ sends < MaxSends
  /\ Range(descs) \subseteq named
  /\ sending' = descs
  /\ send_pc' = "held"
  /\ UNCHANGED <<named, opened, queue, sends, receiver>>

(* Faulty variant: the handle is closed though a system call may use it.   *)
CloseAtOnce(o) ==
  /\ o \in named
  /\ send_pc = "held"
  /\ named' = named \ {o}
  /\ opened' = opened \ {o}
  /\ UNCHANGED <<sending, send_pc, queue, sends, receiver>>

(* Another thread of the sender closes a descriptor.  Bound: only one that  *)
(* has a handle, and only while a message is being sent.                   *)
Close(o) ==
  /\ o \in named
  /\ send_pc = "held"
  /\ named' = named \ {o}
  /\ opened' = IF o \in Held THEN opened ELSE opened \ {o}
  /\ UNCHANGED <<sending, send_pc, queue, sends, receiver>>

(* A class that is not transferable has no ExternalizeSize; there may be   *)
(* no memory for the header.  Nothing is sent.                             *)
SendFails ==
  /\ send_pc = "held"
  /\ send_pc' = "out"
  /\ UNCHANGED <<named, opened, sending, queue, sends, receiver>>

(* The numbers of S, the lowest first.                                     *)
InOrder(S) ==
  {s \in [1 .. Cardinality(S) -> S] :
     Range(s) = S /\ \A i, j \in DOMAIN s : i < j => s[i] < s[j]}

(* Externalize of each descriptor in turn puts its handle, if it has one,  *)
(* behind the others, and SendMsg sends them, as far as they are open.     *)
SendMsg ==
  /\ send_pc = "held"
  /\ Held \cap Fixed = {}
  /\ \E taken \in InOrder({i \in DOMAIN sending : sending[i] \notin ByName}) :
       queue' = Append(queue,
         [tags |-> sending,
          objects |-> [k \in DOMAIN taken |->
                         IF sending[taken[k]] \in opened THEN sending[taken[k]]
                         ELSE Closed]])
  /\ sends' = sends + 1
  /\ send_pc' = "out"
  /\ UNCHANGED <<named, opened, sending, receiver>>

(* imc_sendmsg drops its references: of what was closed, the handle too.   *)
Drop ==
  /\ send_pc = "out"
  /\ opened' = opened \cap named
  /\ sending' = <<>>
  /\ send_pc' = "idle"
  /\ UNCHANGED <<named, queue, sends, receiver>>

-----------------------------------------------------------------------------
(* The receiver.  A call that finds no message, or a channel whose other   *)
(* end is closed, changes nothing and is left out.                         *)

Set(r, c) == call' = [call EXCEPT ![r] = c]

ClosedHandles == {h \in Handles : handle[h] = Closed}

(* RecvMsg: the host gives the process the lowest handles that are free,   *)
(* and no more than it may have (MSG_CTRUNC).                              *)
RecvMsg(r, desc_length) ==
  /\ call[r].pc = "idle"
  /\ queue # <<>>
  /\ queue' = Tail(queue)
  /\ LET msg == Head(queue)
     IN \E lowest \in SUBSET ClosedHandles :
          /\ Cardinality(lowest) <= Len(msg.objects)
          /\ Cardinality(lowest) = Len(msg.objects) \/ lowest = ClosedHandles
          /\ \A h \in lowest, free \in ClosedHandles \ lowest : h < free
          /\ \E given \in InOrder(lowest) :
               /\ handle' = [h \in Handles |->
                                IF h \in lowest
                                THEN msg.objects[CHOOSE k \in DOMAIN given : given[k] = h]
                                ELSE handle[h]]
               /\ Set(r, [NoCall EXCEPT
                            !.pc = "internalize", !.tags = msg.tags, !.handles = given,
                            !.desc_length = desc_length, !.meant = msg.tags])
  /\ UNCHANGED <<sender, installed, ghosts>>

(* There is no memory for recv_buf: the call goes to its cleanup before     *)
(* kern_handle is set.                                                      *)
RecvBufFails(r) ==
  /\ call[r].pc = "idle"
  /\ Set(r, [NoCall EXCEPT !.pc = "cleanup", !.failed = TRUE, !.unset = TRUE])
  /\ UNCHANGED <<sender, queue, handle, installed, ghosts>>

(* Faulty variant: the handle stays in kern_handle.                        *)
KeptHandles(c) == c.handles

(* What is left in kern_handle when a descriptor takes its first one.      *)
LeftHandles(c) == Tail(c.handles)

(* NaClDescInternalize of the next type tag.                               *)
Internalize(r) ==
  LET c == call[r]
      o == Head(c.tags)
  IN /\ c.pc = "internalize" /\ c.tags # <<>>
     /\ o \in ByName \/ c.handles # <<>>
     /\ Set(r, [c EXCEPT
                  !.tags = Tail(@),
                  !.new_desc = Append(@, IF o \in ByName THEN o ELSE Head(c.handles)),
                  !.handles = IF o \in ByName THEN @ ELSE LeftHandles(c)])
     /\ UNCHANGED <<sender, queue, handle, installed, ghosts>>

(* The constructor of a shared memory descriptor fails, as its mutex cannot *)
(* be made (the sizes that are sent are not negative), and nobody looks:    *)
(* the handle has left kern_handle, and what is handed on is a descriptor   *)
(* without methods that does not have it either.                            *)
CtorFails(r) ==
  LET c == call[r]
  IN /\ c.pc = "internalize" /\ c.tags # <<>>
     /\ Head(c.tags) \in Shm /\ c.handles # <<>>
     /\ Set(r, [c EXCEPT !.tags = Tail(@), !.new_desc = Append(@, Hollow),
                         !.handles = LeftHandles(c)])
     /\ lost' = lost \cup {Head(c.handles)}
     /\ UNCHANGED <<sender, queue, handle, installed, strayed>>

(* There is no memory for it, its constructor fails and is looked at, or    *)
(* there are too few handles: EIO, ENOMEM.                                 *)
InternalizeFails(r) ==
  LET c == call[r]
  IN /\ c.pc = "internalize" /\ c.tags # <<>>
     /\ Set(r, [c EXCEPT !.pc = "cleanup", !.failed = TRUE])
     /\ UNCHANGED <<sender, queue, handle, installed, ghosts>>

(* The flags that reach the module.  The lengths of the data are left out. *)
Flags(c) ==
  IF c.desc_length < Len(c.new_desc) THEN {"DESC_TRUNCATED"} ELSE {}

Internalized(r) ==
  LET c == call[r]
  IN /\ c.pc = "internalize" /\ c.tags = <<>>
     /\ Set(r, [c EXCEPT !.pc = "deliver", !.flags = Flags(c)])
     /\ UNCHANGED <<sender, queue, handle, installed, ghosts>>

(* NaClClose, in the destructor of a descriptor or of kern_handle; one that *)
(* has a name closes nothing.                                               *)
CloseHandle(d) ==
  handle' = IF d \in Handles THEN [handle EXCEPT ![d] = Closed] ELSE handle

(* The descriptors in excess are dropped first ...                         *)
DropExcess(r) ==
  LET c == call[r]
  IN /\ c.pc = "deliver" /\ c.handles = <<>>
     /\ c.desc_length < Len(c.new_desc)
     /\ c.new_desc[c.desc_length + 1] # Hollow
     /\ CloseHandle(c.new_desc[c.desc_length + 1])
     /\ Set(r, [c EXCEPT !.new_desc = RemoveAt(@, c.desc_length + 1)])
     /\ UNCHANGED <<sender, queue, installed, ghosts>>

(* ... and the others enter the table (NaClSetAvail).                      *)
Install(r) ==
  LET c == call[r]
      d == Head(c.new_desc)
  IN /\ c.pc = "deliver" /\ c.handles = <<>> /\ c.new_desc # <<>>
     /\ Len(c.out) + Len(c.new_desc) <= c.desc_length
     /\ installed' = installed \cup ({d} \ ByName)
     /\ Set(r, [c EXCEPT !.new_desc = Tail(@),
                         !.out = Append(@, IF d \in Handles THEN handle[d] ELSE d)])
     /\ UNCHANGED <<sender, queue, handle, ghosts>>

(* What is left is dropped one by one: after a failure the descriptors,    *)
(* and then in any case the handles of which none was made.                *)
Cleanup(r) ==
  LET c == call[r]
  IN /\ \/ /\ c.pc = "cleanup" /\ c.new_desc # <<>> /\ Head(c.new_desc) # Hollow
           /\ CloseHandle(Head(c.new_desc))
           /\ Set(r, [c EXCEPT !.new_desc = Tail(@)])
        \/ /\ (c.pc = "cleanup" /\ c.new_desc = <<>>) \/ c.pc = "deliver"
           /\ c.handles # <<>>
           /\ CloseHandle(Head(c.handles))
           /\ Set(r, [c EXCEPT !.handles = Tail(@)])
     /\ UNCHANGED <<sender, queue, installed, ghosts>>

(* The same loop over a kern_handle that was never set.  What the stack has *)
(* there are numbers that are no handles of the process, and closing them   *)
(* changes nothing, or one of them is, whoever has it.  Bound: the loop is  *)
(* followed up to that one.                                                 *)
CloseStray(r) ==
  LET c == call[r]
  IN /\ c.unset
     /\ \/ UNCHANGED <<handle, strayed>>
        \/ \E h \in Handles \ ClosedHandles : CloseHandle(h) /\ strayed' = TRUE
     /\ Set(r, [c EXCEPT !.unset = FALSE])
     /\ UNCHANGED <<sender, queue, installed, lost>>

Finished(c) ==
  /\ c.pc \in {"deliver", "cleanup"}
  /\ c.new_desc = <<>> /\ c.handles = <<>> /\ ~c.unset

Return(r) ==
  /\ Finished(call[r])
  /\ Set(r, NoCall)
  /\ UNCHANGED <<sender, queue, handle, installed, ghosts>>

(* The module closes a descriptor it received.                             *)
CloseReceived(h) ==
  /\ h \in installed \cap Handles
  /\ installed' = installed \ {h}
  /\ CloseHandle(h)
  /\ UNCHANGED <<sender, queue, ghosts, call>>

(* The descriptor that a call drops next, in DropExcess or Cleanup.        *)
Dropped(c) ==
  {c.new_desc[k] : k \in {k \in DOMAIN c.new_desc :
     \/ c.pc = "cleanup" /\ k = 1
     \/ c.pc = "deliver" /\ c.handles = <<>> /\ k = c.desc_length + 1}}

(* Whoever uses a descriptor without methods, or drops it, locks a mutex    *)
(* that was not made or calls a destructor that is not there: the process   *)
(* ends, and the host closes its handles.                                   *)
Crash ==
  /\ Hollow \in installed \cup UNION {Dropped(call[r]) : r \in Receivers}
  /\ handle' = [h \in Handles |-> Closed]
  /\ installed' = {}
  /\ lost' = {}
  /\ call' = [r \in Receivers |-> [NoCall EXCEPT !.pc = "dead"]]
  /\ UNCHANGED <<sender, queue, strayed>>

-----------------------------------------------------------------------------
Descs == UNION {[1 .. n -> Objects] : n \in 0 .. UserDescMax}

ReceiverNext ==
  \/ \E r \in Receivers :
       \/ \E desc_length \in Rooms : RecvMsg(r, desc_length)
       \/ RecvBufFails(r) \/ CloseStray(r)
       \/ Internalize(r) \/ CtorFails(r) \/ InternalizeFails(r) \/ Internalized(r)
       \/ DropExcess(r) \/ Install(r) \/ Cleanup(r) \/ Return(r)
  \/ \E h \in installed : CloseReceived(h)
  \/ Crash

(* Bound: the receiver is followed up to its first stray close, as nothing  *)
(* is claimed of what comes after one.                                      *)
Next ==
  \/ \E descs \in Descs : GetDescs(descs)
  \/ \E o \in ByHandle : Close(o)
  \/ SendFails
  \/ SendMsg
  \/ Drop
  \/ ~strayed /\ ReceiverNext

Spec == Init /\ [][Next]_vars

-----------------------------------------------------------------------------
(* Where the calls of imc_recvmsg have a handle: in kern_handle, and in the *)
(* descriptors they made.                                                   *)
InKernHandle(h) ==
  UNION {{r} \X {k \in DOMAIN call[r].handles : call[r].handles[k] = h} : r \in Receivers}
InNewDesc(h) ==
  UNION {{r} \X {k \in DOMAIN call[r].new_desc : call[r].new_desc[k] = h} : r \in Receivers}

(* Every handle that is open in the receiver has exactly one owner, a call  *)
(* or a descriptor of the table, and what is owned is open, at every point  *)
(* of a receive that fails, is cut or races with others and with closes     *)
(* ("a NaClHandle might be closed twice", nrd_xfer.c).  The code has two    *)
(* exceptions, and there are no others: a handle that a failed constructor  *)
(* was given is open and nobody's; and once a call without recv_buf has     *)
(* closed a handle that was open, nothing is claimed.                       *)
HandlesOwned ==
  ~strayed => \A h \in Handles :
    Cardinality(InKernHandle(h)) + Cardinality(InNewDesc(h))
      + (IF h \in installed THEN 1 ELSE 0) + (IF h \in lost THEN 1 ELSE 0)
      = IF handle[h] = Closed THEN 0 ELSE 1

(* Violated.  What a call or the table has is open, whatever fails: whoever *)
(* has a handle that is closed closes it a second time, which is what the   *)
(* comment above the cleanup of nrd_xfer.c says must not happen.            *)
OwnedIsOpen ==
  \A h \in Handles :
    h \in installed \/ InKernHandle(h) # {} \/ InNewDesc(h) # {} => handle[h] # Closed

(* Descriptors of these objects, some of the shared memory without methods. *)
Match(out, names) ==
  /\ Len(out) = Len(names)
  /\ \A k \in DOMAIN out : out[k] = names[k] \/ (out[k] = Hollow /\ names[k] \in Shm)

(* What a receiver gets is what the sender named, in that order, though     *)
(* descriptors are closed on either side in the meantime: all of them or,   *)
(* with the flag and only then, as many as it asked for; and none of them   *)
(* if the call fails.  In the place of a shared memory descriptor whose     *)
(* constructor failed there is one without methods, and nothing is claimed  *)
(* after a stray close.                                                     *)
DescriptorsMatch ==
  ~strayed => \A r \in Receivers : Finished(call[r]) =>
    LET c == call[r]
    IN IF c.failed THEN c.out = <<>>
       ELSE IF "DESC_TRUNCATED" \in c.flags
            THEN /\ c.desc_length < Len(c.meant)
                 /\ Match(c.out, SubSeq(c.meant, 1, c.desc_length))
            ELSE Match(c.out, c.meant)
=============================================================================
