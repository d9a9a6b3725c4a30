-------------------------------- MODULE NetAcl --------------------------------
(***************************************************************************)
(* Network access control of the service runtime: NaClIsConnectionOk       *)
(* (nacl_socks_client.c under                                              *)
(* src/native_client/src/trusted/service_runtime/linux), which the socket  *)
(* system calls consult, and the answers of the access control daemon      *)
(* (src/third_party/nacl_acl_server).                                      *)
(*                                                                         *)
(* The answers are kept in a ring buffer that every thread of the module   *)
(* scans and fills without a lock.  An iteration of the scan, the load and *)
(* the store of rsprb_index, the store of an entry's address, the copy of  *)
(* its ports and the final test are steps of their own.  An answer is the  *)
(* set of the bits set in the bitmap that was received; one daemon may     *)
(* answer differently at different times.  The hash is not looked at by    *)
(* the daemon and is left out; the nonce is 0 and comes back as 0.         *)
(***************************************************************************)
EXTENDS Integers, Sequences, FiniteSets

CONSTANTS
  Threads,      \* the threads of the module
  Ips,          \* the addresses the module uses, but INADDR_ANY
  AnyIp,        \* INADDR_ANY, 0: also the address of an entry never filled
  Ports,        \* the ports the module uses, in host order
  NumEntries,   \* NUM_REMOTE_SERVER_PORTS (20)
  MaxAnswers    \* bound: how many answers are parsed

ASSUME AddressAssumption == AnyIp \notin Ips
ASSUME PortsAssumption == Ports \subseteq 0 .. 65535
ASSUME EntriesAssumption == NumEntries \in Nat \ {0}
ASSUME BoundAssumption == MaxAnswers \in Nat

VARIABLES
  serial,    \* ghost: whether the module calls from one thread at a time
  ring,      \* remoteServerPortsRingbuffer
  index,     \* rsprb_index
  pc,        \* where each thread is in NaClIsConnectionOk
  req,       \* the arguments and locals of the call
  result,    \* the last return value of each thread
  answers,   \* ghost: the addresses whose answers were parsed, in order
  latest,    \* ghost: the bits of the last answer parsed for each address
  received   \* ghost: every bit that any daemon set

vars == <<serial, ring, index, pc, req, result, answers, latest, received>>

-----------------------------------------------------------------------------
Addresses == Ips \cup {AnyIp}
Slots == 0 .. NumEntries - 1

Error == -1     \* whatever nonzero value an error path returns
Pending == -2   \* no value yet

(* htons on the little-endian machines the service runtime runs on.        *)
Swapped(port) == (port % 256) * 256 + port \div 256

(* The bits of the bitmaps that the ports of the module can reach.         *)
Bits == Ports \cup {Swapped(p) : p \in Ports}

(* scan: in the loop.  ask: about to ask the daemon.  parse: the answer is *)
(* in ret_buf.  advance: rsprb_index is loaded.  fill_ip, fill_ports: p is *)
(* an entry.  verify: about to call verifyServerPort on an entry.          *)
PCs == {"idle", "scan", "ask", "parse", "advance", "fill_ip", "fill_ports",
        "verify"}

(* ip and port: of addr, the port as in sin_port.  slot: i, or the entry p *)
(* points to.  loaded: the value of rsprb_index.  buf: the bits in ret_buf.*)
Request == [ip : Addresses, port : Bits \cup {0}, slot : Slots, loaded : Nat,
            buf : SUBSET Bits]
NoRequest == [ip |-> AnyIp, port |-> 0, slot |-> 0, loaded |-> 0, buf |-> {}]
NewRequest(ip, port) ==
  [ip |-> ip, port |-> Swapped(port), slot |-> 0, loaded |-> 0, buf |-> {}]

(* NaClRemoteServerPorts.                                                  *)
RemotePorts == [ip : Addresses, ports : SUBSET Bits]

(* The ring buffer is zero-initialised.                                    *)
Init ==
  /\ serial \in BOOLEAN
  /\ ring = [i \in Slots |-> [ip |-> AnyIp, ports |-> {}]]
  /\ index = 0
  /\ pc = [t \in Threads |-> "idle"]
  /\ req = [t \in Threads |-> NoRequest]
  /\ result = [t \in Threads |-> Pending]
  /\ answers = <<>>
  /\ latest = [a \in Ips |-> {}]
  /\ received = {}

(* A return from NaClIsConnectionOk.                                       *)
Return(t, r) ==
  /\ pc' = [pc EXCEPT ![t] = "idle"]
  /\ req' = [req EXCEPT ![t] = NoRequest]
  /\ result' = [result EXCEPT ![t] = r]

-----------------------------------------------------------------------------
(* A socket call with an address of family AF_INET, or of another one.     *)
Call(t, ip, port, inet) ==
  /\ pc[t] = "idle"
  /\ serial => \A u \in Threads : pc[u] = "idle"
  /\ \/ /\ inet
        /\ pc' = [pc EXCEPT ![t] = "scan"]
        /\ req' = [req EXCEPT ![t] = NewRequest(ip, port)]
        /\ result' = [result EXCEPT ![t] = Pending]
     \/ /\ ~inet
        /\ Return(t, Error)
  /\ UNCHANGED <<serial, ring, index, answers, latest, received>>

(* Faulty variant: the last entry is not looked at.                        *)
LastSlotOneShort(i) == i >= NumEntries - 2

LastSlot(i) == i = NumEntries - 1

(* One iteration of the loop over the entries.                             *)
Scan(t) ==
  LET i == req[t].slot IN
  /\ pc[t] = "scan"
  /\ \/ /\ ring[i].ip = req[t].ip
        /\ pc' = [pc EXCEPT ![t] = "verify"]
        /\ UNCHANGED req
     \/ /\ ring[i].ip # req[t].ip
        /\ LastSlot(i)
        /\ pc' = [pc EXCEPT ![t] = "ask"]
        /\ UNCHANGED req
     \/ /\ ring[i].ip # req[t].ip
        /\ ~LastSlot(i)
        /\ req' = [req EXCEPT ![t].slot = @ + 1]
        /\ UNCHANGED pc
  /\ UNCHANGED <<serial, ring, index, result, answers, latest, received>>

(* socket, connect, send or recv fails, or the daemon does not grant.      *)
AskFails(t) ==
  /\ pc[t] = "ask"
  /\ Return(t, Error)
  /\ UNCHANGED <<serial, ring, index, answers, latest, received>>

(* Faulty variant: ret_buf is not cleared before recv.                     *)
InRetBufUncleared(got, old) == got \cup old

(* The bits in ret_buf after a recv that may have come short: those that   *)
(* came.  What has not come is 0, which also reads as a success code.      *)
InRetBuf(got, old) == got

(* The daemon answers, and `got' is what one recv returns of it.  `old' is *)
(* what the stack held where ret_buf is.                                   *)
Ask(t, got, old) ==
  /\ pc[t] = "ask"
  /\ Len(answers) < MaxAnswers
  /\ pc' = [pc EXCEPT ![t] = "parse"]
  /\ req' = [req EXCEPT ![t].buf = InRetBuf(got, old)]
  /\ received' = received \cup got
  /\ UNCHANGED <<serial, ring, index, result, answers, latest>>

(* ParseNaClHashResp accepts the answer and loads rsprb_index.             *)
LoadIndex(t) ==
  /\ pc[t] = "parse"
  /\ pc' = [pc EXCEPT ![t] = "advance"]
  /\ req' = [req EXCEPT ![t].loaded = index]
  /\ UNCHANGED <<serial, ring, index, result, answers, latest, received>>

NextIndex(n) == n + 1

(* The entry the value of rsprb_index stands for.                          *)
Entry(n) == n % NumEntries

(* The store of rsprb_index++, and the entry the old value stands for.     *)
StoreIndex(t) ==
  /\ pc[t] = "advance"
  /\ index' = NextIndex(req[t].loaded)
  /\ pc' = [pc EXCEPT ![t] = "fill_ip"]
  /\ req' = [req EXCEPT ![t].slot = Entry(req[t].loaded)]
  /\ UNCHANGED <<serial, ring, result, answers, latest, received>>

(* p->ip = server_ip.                                                      *)
FillIp(t) ==
  /\ pc[t] = "fill_ip"
  /\ ring' = [ring EXCEPT ![req[t].slot].ip = req[t].ip]
  /\ pc' = [pc EXCEPT ![t] = "fill_ports"]
  /\ UNCHANGED <<serial, index, req, result, answers, latest, received>>

(* Faulty variant: an answer adds to the ports of the entry.               *)
FilledPortsJoined(old, new) == old \cup new

FilledPorts(old, new) == new

(* The copy of the bitmap into the entry.                                  *)
FillPorts(t) ==
  LET slot == req[t].slot IN
  /\ pc[t] = "fill_ports"
  /\ ring' = [ring EXCEPT ![slot].ports = FilledPorts(@, req[t].buf)]
  /\ answers' = Append(answers, req[t].ip)
  /\ latest' = IF req[t].ip = AnyIp THEN latest
               ELSE [latest EXCEPT ![req[t].ip] = req[t].buf]
  /\ pc' = [pc EXCEPT ![t] = "verify"]
  /\ UNCHANGED <<serial, index, req, result, received>>

(* verifyServerPort: whether the bit is set in the entry as it is now.     *)
Verify(t) ==
  /\ pc[t] = "verify"
  /\ Return(t, IF req[t].port \in ring[req[t].slot].ports THEN 1 ELSE 0)
  /\ UNCHANGED <<serial, ring, index, answers, latest, received>>

(* The module may make its last call.                                      *)
Quiet ==
  /\ \A t \in Threads : pc[t] = "idle"
  /\ UNCHANGED vars

Next ==
  \/ \E t \in Threads, ip \in Addresses, port \in Ports, inet \in BOOLEAN :
       Call(t, ip, port, inet)
  \/ \E t \in Threads, got, old \in SUBSET Bits : Ask(t, got, old)
  \/ \E t \in Threads :
       \/ Scan(t) \/ AskFails(t)
       \/ LoadIndex(t) \/ StoreIndex(t) \/ FillIp(t) \/ FillPorts(t)
       \/ Verify(t)
  \/ Quiet

Spec == Init /\ [][Next]_vars

-----------------------------------------------------------------------------
TypeOK ==
  /\ serial \in BOOLEAN
  /\ ring \in [Slots -> RemotePorts]
  /\ index \in Nat
  /\ pc \in [Threads -> PCs]
  /\ req \in [Threads -> Request]
  /\ result \in [Threads -> {Pending, Error, 0, 1}]
  /\ answers \in Seq(Addresses)
  /\ latest \in [Ips -> SUBSET Bits]
  /\ received \subseteq Bits

(* The verdict on an address is always that of the last answer from this   *)
(* address, from the cache or not, also after the ring has wrapped around; *)
(* for modules that make their socket calls one at a time.                 *)
VerdictFromAnswer ==
  [][serial => \A t \in Threads :
       Verify(t) /\ req[t].ip # AnyIp =>
         (result'[t] = 1 <=> req[t].port \in latest[req[t].ip])]_vars

(* The ring holds the last NumEntries answers, each from another address:  *)
(* the daemon of an address is not asked again as long as its answer is    *)
(* among them.                                                             *)
RecentAnswersKept ==
  serial /\ (\A t \in Threads : pc[t] \in {"idle", "scan", "ask", "verify"}) =>
    LET n     == Len(answers)
        first == IF n > NumEntries THEN n - NumEntries + 1 ELSE 1
    IN  \A j \in first .. n :
          /\ \A k \in first .. n : answers[j] = answers[k] => j = k
          /\ answers[j] # AnyIp =>
               \E i \in Slots :
                 ring[i] = [ip |-> answers[j], ports |-> latest[answers[j]]]

(* However the threads interleave in the ring, a bit that is found set was *)
(* set by a daemon: short answers, entries never filled and races can only *)
(* take bits from one address to another, never make one up.               *)
SetBitWasReceived ==
  [][\A t \in Threads :
       Verify(t) /\ result'[t] = 1 => req[t].port \in received]_vars
=============================================================================
