----------------------------- MODULE NetAclProofs -----------------------------
(***************************************************************************)
(* Proofs about NetAcl for rings of any size and any number of threads:    *)
(* types, and that no bit is made up, for any interleaving; that the ring  *)
(* keeps the latest answers and verdicts are theirs, for modules that make *)
(* their socket calls one at a time.                                       *)
(***************************************************************************)
EXTENDS NetAcl, TLAPS

(* A value of rsprb_index always stands for an entry.                      *)
LEMMA EntryIsSlot == \A n \in Nat : Entry(n) \in Slots
BY EntriesAssumption DEF Entry, Slots

(* The scan stays within the ring.                                         *)
LEMMA NextSlot == \A i \in Slots : ~LastSlot(i) => i + 1 \in Slots
BY EntriesAssumption DEF LastSlot, Slots

(* The locals of a call that begins, and of none, have their type.         *)
LEMMA RequestType ==
  /\ NoRequest \in Request
  /\ \A ip \in Addresses, port \in Ports : NewRequest(ip, port) \in Request
<1>1. 0 \in Slots
  BY EntriesAssumption DEF Slots
<1>2. NoRequest \in Request
  BY <1>1 DEF NoRequest, Request, Addresses
<1>3. \A port \in Ports : Swapped(port) \in Bits
  BY DEF Bits
<1>4. \A ip \in Addresses, port \in Ports : NewRequest(ip, port) \in Request
  BY <1>1, <1>3 DEF NewRequest, Request
<1> QED BY <1>2, <1>4

(* Initially the ring is empty and nobody calls.                           *)
LEMMA TypeInit == Init => TypeOK
<1> SUFFICES ASSUME Init PROVE TypeOK
  OBVIOUS
<1>1. ring \in [Slots -> RemotePorts]
  BY DEF Init, RemotePorts, Addresses
<1>2. req \in [Threads -> Request]
  BY RequestType DEF Init
<1>3. pc \in [Threads -> PCs] /\ result \in [Threads -> {Pending, Error, 0, 1}]
  BY DEF Init, PCs
<1>4. serial \in BOOLEAN
  BY DEF Init
<1>5. answers \in Seq(Addresses)
  BY DEF Init
<1>6. index \in Nat /\ latest \in [Ips -> SUBSET Bits] /\ received \subseteq Bits
  BY DEF Init
<1> QED BY <1>1, <1>2, <1>3, <1>4, <1>5, <1>6 DEF TypeOK

(* Every step keeps the types.                                             *)
LEMMA TypeStep == TypeOK /\ [Next]_vars => TypeOK'
<1> SUFFICES ASSUME TypeOK, [Next]_vars PROVE TypeOK'
  OBVIOUS
<1> USE DEF TypeOK, PCs
<1>1. ASSUME NEW t \in Threads, NEW ip \in Addresses, NEW port \in Ports,
             NEW inet \in BOOLEAN, Call(t, ip, port, inet)
      PROVE  TypeOK'
  BY <1>1, RequestType DEF Call, Return
<1>2. ASSUME NEW t \in Threads, NEW got \in SUBSET Bits,
             NEW old \in SUBSET Bits, Ask(t, got, old)
      PROVE  TypeOK'
  <2>1. req' = [req EXCEPT ![t].buf = got]
    BY <1>2 DEF Ask, InRetBuf
  <2>2. req' \in [Threads -> Request]
    <3>1. [req[t] EXCEPT !.buf = got] \in Request
      <4>1. req[t] \in Request /\ got \in SUBSET Bits
        OBVIOUS
      <4> QED BY ONLY <4>1 DEF Request
    <3>2. req' = [req EXCEPT ![t] = [req[t] EXCEPT !.buf = got]]
      BY ONLY <2>1
    <3> QED BY <3>1, <3>2
  <2> QED BY <1>2, <2>2 DEF Ask
<1>3. ASSUME NEW t \in Threads, Scan(t) PROVE TypeOK'
  <2>1. req[t].slot \in Slots
    BY DEF Request
  <2>2. ~LastSlot(req[t].slot) => req[t].slot + 1 \in Slots
    BY <2>1, NextSlot
  <2>3. req' \in [Threads -> Request]
    <3>1. CASE req' = req
      BY <3>1
    <3>2. CASE ~LastSlot(req[t].slot) /\ req' = [req EXCEPT ![t].slot = @ + 1]
      BY <3>2, <2>2 DEF Request
    <3> QED BY <1>3, <3>1, <3>2 DEF Scan
  <2> QED BY <1>3, <2>3 DEF Scan
<1>4. ASSUME NEW t \in Threads, AskFails(t) PROVE TypeOK'
  BY <1>4, RequestType DEF AskFails, Return
<1>5. ASSUME NEW t \in Threads, LoadIndex(t) PROVE TypeOK'
  <2>1. req' \in [Threads -> Request]
    BY <1>5 DEF LoadIndex, Request
  <2> QED BY <1>5, <2>1 DEF LoadIndex
<1>6. ASSUME NEW t \in Threads, StoreIndex(t) PROVE TypeOK'
  <2>1. req[t].loaded \in Nat
    BY DEF Request
  <2>2. Entry(req[t].loaded) \in Slots
    BY <2>1, EntryIsSlot
  <2>3. req' \in [Threads -> Request]
    BY <1>6, <2>2 DEF StoreIndex, Request
  <2> QED BY <1>6, <2>1, <2>3 DEF StoreIndex, NextIndex
<1>7. ASSUME NEW t \in Threads, FillIp(t) PROVE TypeOK'
  <2>1. req[t].slot \in Slots /\ req[t].ip \in Addresses
    BY DEF Request
  <2>2. ring' \in [Slots -> RemotePorts]
    BY <1>7, <2>1 DEF FillIp, RemotePorts
  <2> QED BY <1>7, <2>2 DEF FillIp
<1>8. ASSUME NEW t \in Threads, FillPorts(t) PROVE TypeOK'
  <2>1. /\ req[t].slot \in Slots /\ req[t].ip \in Addresses
        /\ req[t].buf \in SUBSET Bits
    BY DEF Request
  <2>2. ring' \in [Slots -> RemotePorts]
    BY <1>8, <2>1 DEF FillPorts, FilledPorts, RemotePorts
  <2>3. latest' \in [Ips -> SUBSET Bits]
    BY <1>8, <2>1 DEF FillPorts, Addresses
  <2>4. answers' \in Seq(Addresses)
    BY <1>8, <2>1 DEF FillPorts
  <2> QED BY <1>8, <2>2, <2>3, <2>4 DEF FillPorts
<1>9. ASSUME NEW t \in Threads, Verify(t) PROVE TypeOK'
  BY <1>9, RequestType DEF Verify, Return
<1>10. CASE UNCHANGED vars
  BY <1>10 DEF vars
<1> HIDE DEF TypeOK, PCs
<1> QED
  BY <1>1, <1>2, <1>3, <1>4, <1>5, <1>6, <1>7, <1>8, <1>9, <1>10
     DEF Next, Quiet

(* The ring and the locals of every call keep their types.                 *)
THEOREM TypeCorrect == Spec => []TypeOK
BY TypeInit, TypeStep, PTL DEF Spec

(* What is in the ring or on its way there came from a daemon.             *)
BitsReceived ==
  /\ \A i \in Slots : ring[i].ports \subseteq received
  /\ \A t \in Threads : req[t].buf \subseteq received

(* Every step keeps that, races in the ring included.                      *)
LEMMA ReceivedStep == TypeOK /\ BitsReceived /\ [Next]_vars => BitsReceived'
<1> SUFFICES ASSUME TypeOK, BitsReceived, [Next]_vars PROVE BitsReceived'
  OBVIOUS
<1> USE DEF TypeOK, BitsReceived
<1>1. ASSUME NEW t \in Threads, NEW ip \in Addresses, NEW port \in Ports,
             NEW inet \in BOOLEAN, Call(t, ip, port, inet)
      PROVE  BitsReceived'
  BY <1>1 DEF Call, Return, NoRequest, NewRequest
<1>2. ASSUME NEW t \in Threads, NEW got \in SUBSET Bits,
             NEW old \in SUBSET Bits, Ask(t, got, old)
      PROVE  BitsReceived'
  BY <1>2 DEF Ask, InRetBuf
<1>3. ASSUME NEW t \in Threads, FillIp(t) PROVE BitsReceived'
  BY <1>3 DEF FillIp
<1>4. ASSUME NEW t \in Threads, FillPorts(t) PROVE BitsReceived'
  BY <1>4 DEF FillPorts, FilledPorts
<1>5. ASSUME NEW t \in Threads, AskFails(t) \/ Verify(t)
      PROVE  BitsReceived'
  BY <1>5 DEF AskFails, Verify, Return, NoRequest
<1>6. ASSUME NEW t \in Threads, Scan(t) PROVE BitsReceived'
  <2>1. CASE req' = req
    BY <1>6, <2>1 DEF Scan
  <2>2. CASE req' = [req EXCEPT ![t].slot = @ + 1]
    <3>1. \A u \in Threads : req'[u].buf = req[u].buf
      BY <2>2 DEF Request
    <3> QED BY <1>6, <3>1 DEF Scan
  <2> QED BY <1>6, <2>1, <2>2 DEF Scan
<1>7. ASSUME NEW t \in Threads, LoadIndex(t) PROVE BitsReceived'
  BY <1>7 DEF LoadIndex
<1>8. ASSUME NEW t \in Threads, StoreIndex(t) PROVE BitsReceived'
  BY <1>8 DEF StoreIndex
<1>9. CASE UNCHANGED vars
  BY <1>9 DEF vars
<1> HIDE DEF TypeOK, BitsReceived
<1> QED
  BY <1>1, <1>2, <1>3, <1>4, <1>5, <1>6, <1>7, <1>8, <1>9 DEF Next, Quiet

(* A bit found set was set by a daemon, for every ring, number of threads  *)
(* and interleaving.                                                       *)
THEOREM NoBitMadeUp == Spec => SetBitWasReceived
<1>1. Init => BitsReceived
  BY DEF Init, BitsReceived, NoRequest
<1>2. TypeOK /\ BitsReceived /\ [Next]_vars =>
        [\A t \in Threads :
           Verify(t) /\ result'[t] = 1 => req[t].port \in received]_vars
  <2> SUFFICES ASSUME TypeOK, BitsReceived,
                      NEW t \in Threads, Verify(t), result'[t] = 1
               PROVE  req[t].port \in received
    OBVIOUS
  <2>1. req[t].port \in ring[req[t].slot].ports
    BY DEF Verify, Return, TypeOK
  <2>2. req[t].slot \in Slots
    BY DEF TypeOK, Request
  <2> QED BY <2>1, <2>2 DEF BitsReceived
<1> QED
  BY <1>1, <1>2, ReceivedStep, TypeInit, TypeStep, PTL
     DEF Spec, SetBitWasReceived

(* What holds of a module that makes its socket calls one at a time.        *)

(* One thread is in a call.                                                 *)
OneCalls == \A t, u \in Threads : pc[t] # "idle" /\ pc[u] # "idle" => t = u

Filling(t) == pc[t] \in {"fill_ip", "fill_ports"}

(* rsprb_index counts the answers, and the entry of the next is filled.     *)
IndexCounts ==
  /\ (\A t \in Threads : ~Filling(t)) => index = Len(answers)
  /\ \A t \in Threads :
       /\ pc[t] = "advance" => req[t].loaded = Len(answers)
       /\ Filling(t) => /\ index = Len(answers) + 1
                        /\ req[t].slot = Entry(Len(answers))

(* What the scan has found, or not found, is so still.                      *)
ScanStands ==
  \A t \in Threads :
    /\ pc[t] = "scan" => \A i \in Slots : i < req[t].slot => ring[i].ip # req[t].ip
    /\ pc[t] \in {"ask", "parse", "advance", "fill_ip"} =>
         \A i \in Slots : ring[i].ip # req[t].ip
    /\ pc[t] = "fill_ports" => \A i \in Slots : ring[i].ip = req[t].ip <=> i = req[t].slot
    /\ pc[t] = "verify" => ring[req[t].slot].ip = req[t].ip

(* The entry whose address is written and whose ports are not yet.          *)
HalfFilled(i) == \E t \in Threads : pc[t] = "fill_ports" /\ req[t].slot = i

(* An entry has the last answer of its address.                             *)
EntriesCurrent ==
  \A i \in Slots : ring[i].ip # AnyIp /\ ~HalfFilled(i) =>
    ring[i].ports = latest[ring[i].ip]

(* The answers that the ring has room for.                                  *)
Recent == {j \in 1 .. Len(answers) : j > Len(answers) - NumEntries}

(* Each is in the entry of its number, and from another address.            *)
RecentInPlace ==
  /\ \A j \in Recent : HalfFilled(Entry(j - 1)) \/ ring[Entry(j - 1)].ip = answers[j]
  /\ \A j, k \in Recent : answers[j] = answers[k] => j = k

(* The inductive invariant of such a module.                                *)
SerialInvariant ==
  serial => OneCalls /\ IndexCounts /\ ScanStands /\ EntriesCurrent /\ RecentInPlace

(* Two answers in one entry are NumEntries answers apart.                   *)
LEMMA EntriesApart ==
  \A j, k \in Nat : j < k /\ k < j + NumEntries => Entry(j) # Entry(k)
<1>1. ASSUME NEW a \in Nat, NEW b \in Nat, a < b
      PROVE  NumEntries * a + NumEntries <= NumEntries * b
  <2>1. PICK c \in Nat : b = a + 1 + c
    <3>1. b - a - 1 \in Nat BY <1>1
    <3> QED BY <3>1
  <2>2. NumEntries * b = NumEntries * a + NumEntries + NumEntries * c
    BY <2>1, EntriesAssumption
  <2>3. NumEntries * a \in Nat /\ NumEntries * c \in Nat BY EntriesAssumption
  <2> QED BY <2>2, <2>3, EntriesAssumption
<1>2. \A j \in Nat : /\ j \div NumEntries \in Nat /\ j % NumEntries \in Nat
                     /\ j = NumEntries * (j \div NumEntries) + (j % NumEntries)
  BY EntriesAssumption
<1>3. ASSUME NEW j \in Nat, NEW k \in Nat, j < k, k < j + NumEntries,
             j % NumEntries = k % NumEntries
      PROVE  FALSE
  <2>1. PICK a \in Nat : j = NumEntries * a + (j % NumEntries) BY <1>2
  <2>2. PICK b \in Nat : k = NumEntries * b + (k % NumEntries) BY <1>2
  <2>3. NumEntries * a \in Nat /\ NumEntries * b \in Nat /\ j % NumEntries \in Nat
    BY <1>2, EntriesAssumption
  <2>4. a # b BY <1>3, <2>1, <2>2
  <2>5. a < b => NumEntries * a + NumEntries <= NumEntries * b BY <1>1
  <2>6. b < a => NumEntries * b + NumEntries <= NumEntries * a BY <1>1
  <2> QED BY <1>3, <2>1, <2>2, <2>3, <2>4, <2>5, <2>6, EntriesAssumption
<1> QED BY <1>3 DEF Entry

(* What holds of the entries stands as long as the ring does.               *)
LEMMA RingStands ==
  ASSUME SerialInvariant, serial, UNCHANGED <<ring, latest, answers>>,
         NEW t \in Threads, pc[t] # "fill_ports", pc'[t] # "fill_ports",
         \A u \in Threads : u # t => pc[u] = "idle" /\ pc'[u] = "idle"
  PROVE  EntriesCurrent' /\ RecentInPlace'
<1>1. \A i : ~HalfFilled(i) /\ ~HalfFilled(i)' BY DEF HalfFilled
<1>2. EntriesCurrent /\ RecentInPlace BY DEF SerialInvariant
<1>3. EntriesCurrent' BY <1>1, <1>2 DEF EntriesCurrent
<1>4. RecentInPlace' BY <1>1, <1>2 DEF RecentInPlace, Recent
<1> QED BY <1>3, <1>4

(* Every step of such a module keeps the invariant.                         *)
LEMMA SerialStep ==
  ASSUME TypeOK, TypeOK', SerialInvariant, [Next]_vars
  PROVE  SerialInvariant'
<1>s. serial' = serial
  BY DEF Next, Call, Ask, Scan, AskFails, LoadIndex, StoreIndex, FillIp, FillPorts, Verify,
         Quiet, vars
<1> SUFFICES ASSUME serial
             PROVE  (OneCalls /\ IndexCounts /\ ScanStands /\ EntriesCurrent /\ RecentInPlace)'
  BY <1>s DEF SerialInvariant
<1>i. OneCalls /\ IndexCounts /\ ScanStands /\ EntriesCurrent /\ RecentInPlace
  BY DEF SerialInvariant
<1>t. /\ ring \in [Slots -> RemotePorts] /\ pc \in [Threads -> PCs]
      /\ req \in [Threads -> Request] /\ index \in Nat
      /\ answers \in Seq(Addresses) /\ latest \in [Ips -> SUBSET Bits]
      /\ req' \in [Threads -> Request] /\ pc' \in [Threads -> PCs]
  BY DEF TypeOK
<1>r. /\ \A t \in Threads : req[t].slot \in Slots /\ req[t].ip \in Addresses
      /\ NoRequest.slot \in Slots
      /\ Slots = 0 .. NumEntries - 1 /\ NumEntries \in Nat \ {0}
      /\ Len(answers) \in Nat
  BY <1>t, EntriesAssumption DEF Request, NoRequest, Slots
<1> DEFINE Good == (OneCalls /\ IndexCounts /\ ScanStands /\ EntriesCurrent /\ RecentInPlace)'
<1>1. ASSUME NEW t \in Threads, NEW ip \in Addresses, NEW port \in Ports,
             NEW inet \in BOOLEAN, Call(t, ip, port, inet)
      PROVE  Good
  <2>1. /\ \A u \in Threads : pc[u] = "idle"
        /\ \A u \in Threads : u # t => pc'[u] = "idle"
        /\ UNCHANGED <<ring, index, latest, answers>>
    BY <1>1, <1>t DEF Call, Return
  <2>2. pc'[t] = "idle" \/ (pc'[t] = "scan" /\ req'[t].slot = 0)
    BY <1>1, <1>t DEF Call, Return, NewRequest
  <2>3. EntriesCurrent' /\ RecentInPlace' BY <2>1, <2>2, RingStands
  <2>4. OneCalls' BY <2>1 DEF OneCalls
  <2>5. IndexCounts' BY <1>i, <2>1, <2>2 DEF IndexCounts, Filling
  <2>6. ScanStands' BY <1>r, <2>1, <2>2 DEF ScanStands
  <2> QED BY <2>3, <2>4, <2>5, <2>6
<1>2. ASSUME NEW t \in Threads, NEW got \in SUBSET Bits,
             NEW old \in SUBSET Bits, Ask(t, got, old)
      PROVE  Good
  <2>1. /\ pc[t] = "ask" /\ pc' = [pc EXCEPT ![t] = "parse"]
        /\ req' = [req EXCEPT ![t] = [req[t] EXCEPT !.buf = got]]
        /\ UNCHANGED <<ring, index, latest, answers>>
    BY <1>2 DEF Ask, InRetBuf
  <2>2. pc'[t] = "parse" /\ req'[t].ip = req[t].ip BY <1>t, <2>1 DEF Request
  <2>3. \A u \in Threads : u # t => pc[u] = "idle" /\ pc'[u] = "idle"
    BY <1>i, <1>t, <2>1 DEF OneCalls
  <2>4. EntriesCurrent' /\ RecentInPlace' BY <2>1, <2>2, <2>3, RingStands
  <2>5. OneCalls' BY <2>3 DEF OneCalls
  <2>6. IndexCounts' BY <1>i, <2>1, <2>2, <2>3 DEF IndexCounts, Filling
  <2>7. ScanStands' BY <1>i, <2>1, <2>2, <2>3 DEF ScanStands
  <2> QED BY <2>4, <2>5, <2>6, <2>7
<1>3. ASSUME NEW t \in Threads, Scan(t) PROVE Good
  <2>1. /\ pc[t] = "scan" /\ UNCHANGED <<ring, index, latest, answers>>
        /\ \/ ring[req[t].slot].ip = req[t].ip /\ pc' = [pc EXCEPT ![t] = "verify"] /\ req' = req
           \/ /\ ring[req[t].slot].ip # req[t].ip /\ req[t].slot = NumEntries - 1
              /\ pc' = [pc EXCEPT ![t] = "ask"] /\ req' = req
           \/ /\ ring[req[t].slot].ip # req[t].ip /\ pc' = pc
              /\ req' = [req EXCEPT ![t].slot = @ + 1]
    BY <1>3 DEF Scan, LastSlot
  <2>2. \A u \in Threads : u # t => pc[u] = "idle" /\ pc'[u] = "idle"
    BY <1>i, <1>t, <2>1 DEF OneCalls
  <2>3. \/ pc'[t] = "verify" /\ ring[req[t].slot].ip = req[t].ip /\ req'[t] = req[t]
        \/ /\ pc'[t] = "ask" /\ ring[req[t].slot].ip # req[t].ip /\ req[t].slot = NumEntries - 1
           /\ req'[t] = req[t]
        \/ /\ pc'[t] = "scan" /\ ring[req[t].slot].ip # req[t].ip
           /\ req'[t].slot = req[t].slot + 1 /\ req'[t].ip = req[t].ip
    BY <1>t, <2>1 DEF Request
  <2>4. EntriesCurrent' /\ RecentInPlace' BY <2>1, <2>2, <2>3, RingStands
  <2>5. OneCalls' BY <2>2 DEF OneCalls
  <2>6. IndexCounts' BY <1>i, <2>1, <2>2, <2>3 DEF IndexCounts, Filling
  <2>7. \A i \in Slots : i < req[t].slot => ring[i].ip # req[t].ip
    BY <1>i, <2>1 DEF ScanStands
  <2>8. ScanStands' BY <1>r, <2>1, <2>2, <2>3, <2>7 DEF ScanStands
  <2> QED BY <2>4, <2>5, <2>6, <2>8
<1>4. ASSUME NEW t \in Threads, AskFails(t) \/ Verify(t) PROVE Good
  <2>1. /\ pc[t] \in {"ask", "verify"} /\ pc' = [pc EXCEPT ![t] = "idle"]
        /\ req' = [req EXCEPT ![t] = NoRequest]
        /\ UNCHANGED <<ring, index, latest, answers>>
    BY <1>4 DEF AskFails, Verify, Return
  <2>2. pc'[t] = "idle" BY <1>t, <2>1
  <2>3. \A u \in Threads : u # t => pc[u] = "idle" /\ pc'[u] = "idle"
    BY <1>i, <1>t, <2>1 DEF OneCalls
  <2>4. EntriesCurrent' /\ RecentInPlace' BY <2>1, <2>2, <2>3, RingStands
  <2>5. OneCalls' BY <2>3 DEF OneCalls
  <2>6. IndexCounts' BY <1>i, <2>1, <2>2, <2>3 DEF IndexCounts, Filling
  <2>7. ScanStands' BY <2>2, <2>3 DEF ScanStands
  <2> QED BY <2>4, <2>5, <2>6, <2>7
<1>5. ASSUME NEW t \in Threads, LoadIndex(t) PROVE Good
  <2>1. /\ pc[t] = "parse" /\ pc' = [pc EXCEPT ![t] = "advance"]
        /\ req' = [req EXCEPT ![t] = [req[t] EXCEPT !.loaded = index]]
        /\ UNCHANGED <<ring, index, latest, answers>>
    BY <1>5 DEF LoadIndex
  <2>2. pc'[t] = "advance" /\ req'[t].ip = req[t].ip /\ req'[t].loaded = index
    BY <1>t, <2>1 DEF Request
  <2>3. \A u \in Threads : u # t => pc[u] = "idle" /\ pc'[u] = "idle"
    BY <1>i, <1>t, <2>1 DEF OneCalls
  <2>4. EntriesCurrent' /\ RecentInPlace' BY <2>1, <2>2, <2>3, RingStands
  <2>5. OneCalls' BY <2>3 DEF OneCalls
  <2>6. IndexCounts' BY <1>i, <2>1, <2>2, <2>3 DEF IndexCounts, Filling
  <2>7. ScanStands' BY <1>i, <2>1, <2>2, <2>3 DEF ScanStands
  <2> QED BY <2>4, <2>5, <2>6, <2>7
<1>6. ASSUME NEW t \in Threads, StoreIndex(t) PROVE Good
  <2>1. /\ pc[t] = "advance" /\ pc' = [pc EXCEPT ![t] = "fill_ip"]
        /\ req' = [req EXCEPT ![t] = [req[t] EXCEPT !.slot = Entry(req[t].loaded)]]
        /\ index' = req[t].loaded + 1
        /\ UNCHANGED <<ring, latest, answers>>
    BY <1>6 DEF StoreIndex, NextIndex
  <2>2. /\ pc'[t] = "fill_ip" /\ req'[t].ip = req[t].ip
        /\ req'[t].slot = Entry(req[t].loaded)
    BY <1>t, <2>1 DEF Request
  <2>3. \A u \in Threads : u # t => pc[u] = "idle" /\ pc'[u] = "idle"
    BY <1>i, <1>t, <2>1 DEF OneCalls
  <2>4. EntriesCurrent' /\ RecentInPlace' BY <2>1, <2>2, <2>3, RingStands
  <2>5. OneCalls' BY <2>3 DEF OneCalls
  <2>6. req[t].loaded = Len(answers) BY <1>i, <2>1 DEF IndexCounts
  <2>7. IndexCounts' BY <2>1, <2>2, <2>3, <2>6 DEF IndexCounts, Filling
  <2>8. ScanStands' BY <1>i, <2>1, <2>2, <2>3 DEF ScanStands
  <2> QED BY <2>4, <2>5, <2>7, <2>8
<1>7. ASSUME NEW t \in Threads, FillIp(t) PROVE Good
  <2>1. PICK s \in Slots : s = req[t].slot BY <1>r
  <2>2. /\ pc[t] = "fill_ip" /\ pc' = [pc EXCEPT ![t] = "fill_ports"]
        /\ ring' = [ring EXCEPT ![s].ip = req[t].ip]
        /\ UNCHANGED <<index, latest, answers, req>>
    BY <1>7, <2>1 DEF FillIp
  <2>3. pc'[t] = "fill_ports" BY <1>t, <2>2
  <2>4. \A u \in Threads : u # t => pc[u] = "idle" /\ pc'[u] = "idle"
    BY <1>i, <1>t, <2>2 DEF OneCalls
  <2>5. ring'[s].ip = req[t].ip /\ \A i \in Slots : i # s => ring'[i] = ring[i]
    BY <1>t, <2>2 DEF RemotePorts
  <2>6. \A i : (~HalfFilled(i)) /\ (HalfFilled(i)' <=> i = s)
    BY <2>1, <2>2, <2>3, <2>4 DEF HalfFilled
  <2>7. OneCalls' BY <2>4 DEF OneCalls
  <2>8. IndexCounts' BY <1>i, <2>2, <2>3, <2>4 DEF IndexCounts, Filling
  <2>9. ScanStands'
    <3>1. \A i \in Slots : ring[i].ip # req[t].ip BY <1>i, <2>2 DEF ScanStands
    <3> QED BY <2>1, <2>2, <2>3, <2>4, <2>5, <3>1 DEF ScanStands
  <2>10. EntriesCurrent' BY <1>i, <2>2, <2>5, <2>6 DEF EntriesCurrent
  <2>11. RecentInPlace'
    <3>1. \A j \in Recent : Entry(j - 1) \in Slots
      <4>1. \A j \in Recent : j - 1 \in Nat BY <1>r DEF Recent
      <4> QED BY <4>1, EntryIsSlot
    <3>2. Recent' = Recent BY <2>2 DEF Recent
    <3>3. \A j \in Recent : HalfFilled(Entry(j - 1))' \/ ring'[Entry(j - 1)].ip = answers[j]
      BY <1>i, <2>5, <2>6, <3>1 DEF RecentInPlace
    <3> QED BY <1>i, <2>2, <3>2, <3>3 DEF RecentInPlace
  <2> QED BY <2>7, <2>8, <2>9, <2>10, <2>11
<1>8. ASSUME NEW t \in Threads, FillPorts(t) PROVE Good
  <2>1. PICK s \in Slots : s = req[t].slot BY <1>r
  <2>2. PICK n \in Nat : n = Len(answers) BY <1>r
  <2>3. /\ pc[t] = "fill_ports" /\ pc' = [pc EXCEPT ![t] = "verify"]
        /\ ring' = [ring EXCEPT ![s].ports = req[t].buf]
        /\ answers' = Append(answers, req[t].ip)
        /\ latest' = IF req[t].ip = AnyIp THEN latest
                     ELSE [latest EXCEPT ![req[t].ip] = req[t].buf]
        /\ UNCHANGED <<index, req>>
    BY <1>8, <2>1 DEF FillPorts, FilledPorts
  <2>4. pc'[t] = "verify" BY <1>t, <2>3
  <2>5. \A u \in Threads : u # t => pc[u] = "idle" /\ pc'[u] = "idle"
    BY <1>i, <1>t, <2>3 DEF OneCalls
  <2>6. /\ ring'[s].ip = ring[s].ip /\ ring'[s].ports = req[t].buf
        /\ \A i \in Slots : i # s => ring'[i] = ring[i]
    BY <1>t, <2>3 DEF RemotePorts
  <2>7. \A i : (HalfFilled(i) <=> i = s) /\ ~HalfFilled(i)'
    BY <2>1, <2>3, <2>4, <2>5 DEF HalfFilled
  <2>8. /\ ring[s].ip = req[t].ip /\ \A i \in Slots : i # s => ring[i].ip # req[t].ip
        /\ index = n + 1 /\ s = Entry(n)
    BY <1>i, <2>1, <2>2, <2>3 DEF ScanStands, IndexCounts, Filling
  <2>9. /\ Len(answers') = n + 1 /\ answers'[n + 1] = req[t].ip
        /\ \A j \in 1 .. n : answers'[j] = answers[j]
    BY <1>t, <1>r, <2>2, <2>3
  <2>10. OneCalls' BY <2>5 DEF OneCalls
  <2>11. IndexCounts' BY <2>3, <2>4, <2>5, <2>8, <2>9 DEF IndexCounts, Filling
  <2>12. ScanStands' BY <2>1, <2>3, <2>4, <2>5, <2>6, <2>8 DEF ScanStands
  <2>13. EntriesCurrent'
    <3>1. \A a \in Ips : a # req[t].ip => latest'[a] = latest[a] BY <1>t, <2>3
    <3>2. req[t].ip # AnyIp => latest'[req[t].ip] = req[t].buf
      BY <1>t, <1>r, <2>3 DEF Addresses
    <3>3. \A i \in Slots : ring[i].ip # AnyIp => ring[i].ip \in Ips
      BY <1>t DEF RemotePorts, Addresses
    <3> QED BY <1>i, <2>6, <2>7, <2>8, <3>1, <3>2, <3>3 DEF EntriesCurrent
  <2>14. RecentInPlace'
    <3>r. \A j \in Recent' : j \in 1 .. n + 1 /\ j > n + 1 - NumEntries
      <4>1. Recent' = {j \in 1 .. Len(answers') : j > Len(answers') - NumEntries}
        BY DEF Recent
      <4> QED BY <1>r, <2>9, <4>1
    <3>1. \A j \in Recent' : j = n + 1 \/ (j \in Recent /\ j \in 1 .. n /\ j - 1 \in Nat)
      BY <1>r, <2>2, <3>r DEF Recent
    <3>2. ASSUME NEW j \in Recent', j # n + 1 PROVE Entry(j - 1) \in Slots \ {s}
      <4>1. j \in 1 .. n /\ j > n + 1 - NumEntries BY <3>r, <3>2
      <4>2. Entry(j - 1) # Entry(n)
        <5>1. j - 1 \in Nat /\ j - 1 < n /\ n < j - 1 + NumEntries BY <1>r, <4>1
        <5> QED BY <5>1, EntriesApart
      <4> QED BY <2>8, <4>1, <4>2, EntryIsSlot
    <3>3. ASSUME NEW j \in Recent', j # n + 1
          PROVE  /\ ring[Entry(j - 1)].ip = answers[j]
                 /\ answers[j] # req[t].ip /\ answers'[j] = answers[j]
      BY <1>i, <2>7, <2>8, <2>9, <3>1, <3>2, <3>3 DEF RecentInPlace
    <3>4. ASSUME NEW j \in Recent' PROVE ring'[Entry(j - 1)].ip = answers'[j]
      <4>1. CASE j = n + 1 BY <2>6, <2>8, <2>9, <4>1
      <4>2. CASE j # n + 1 BY <2>6, <3>2, <3>3, <4>2
      <4> QED BY <4>1, <4>2
    <3>5. ASSUME NEW j \in Recent', NEW k \in Recent', answers'[j] = answers'[k] PROVE j = k
      <4>1. CASE j # n + 1 /\ k # n + 1 BY <1>i, <3>1, <3>3, <3>5, <4>1 DEF RecentInPlace
      <4>2. CASE j = n + 1 \/ k = n + 1 BY <2>9, <3>3, <3>5, <4>2
      <4> QED BY <4>1, <4>2
    <3> QED BY <3>4, <3>5 DEF RecentInPlace
  <2> QED BY <2>10, <2>11, <2>12, <2>13, <2>14
<1>9. CASE UNCHANGED vars
  BY <1>i, <1>9
  DEF vars, OneCalls, IndexCounts, Filling, ScanStands, EntriesCurrent, HalfFilled,
      RecentInPlace, Recent
<1> QED
  BY <1>1, <1>2, <1>3, <1>4, <1>5, <1>6, <1>7, <1>8, <1>9 DEF Next, Quiet


(* Initially the ring is empty.                                             *)
LEMMA SerialInit == Init => SerialInvariant
<1> SUFFICES ASSUME Init PROVE SerialInvariant
  OBVIOUS
<1>1. OneCalls /\ ScanStands BY DEF Init, OneCalls, ScanStands
<1>2. IndexCounts BY DEF Init, IndexCounts, Filling
<1>3. EntriesCurrent BY DEF Init, EntriesCurrent
<1>4. Recent = {} BY DEF Init, Recent
<1>5. RecentInPlace BY <1>4 DEF RecentInPlace
<1> QED BY <1>1, <1>2, <1>3, <1>5 DEF SerialInvariant

(* Where nobody fills an entry the latest answers are all there.            *)
LEMMA SerialKeeps ==
  ASSUME TypeOK, SerialInvariant
  PROVE  RecentAnswersKept
<1> SUFFICES ASSUME serial, \A t \in Threads : pc[t] \in {"idle", "scan", "ask", "verify"},
                    NEW j \in Recent
             PROVE  /\ \A k \in Recent : answers[j] = answers[k] => j = k
                    /\ answers[j] # AnyIp =>
                         \E i \in Slots :
                           ring[i] = [ip |-> answers[j], ports |-> latest[answers[j]]]
  <2>1. Len(answers) \in Nat BY DEF TypeOK
  <2>2. (IF Len(answers) > NumEntries THEN Len(answers) - NumEntries + 1 ELSE 1)
          .. Len(answers) = Recent
    BY <2>1, EntriesAssumption DEF Recent
  <2> QED BY <2>2 DEF RecentAnswersKept
<1>1. EntriesCurrent /\ RecentInPlace BY DEF SerialInvariant
<1>2. \A i : ~HalfFilled(i) BY DEF HalfFilled
<1>3. Entry(j - 1) \in Slots
  <2>1. j - 1 \in Nat BY DEF Recent, TypeOK
  <2> QED BY <2>1, EntryIsSlot
<1>4. PICK i \in Slots : i = Entry(j - 1) BY <1>3
<1>5. ring[i].ip = answers[j] BY <1>1, <1>2, <1>4 DEF RecentInPlace
<1>6. answers[j] # AnyIp => ring[i].ports = latest[answers[j]]
  BY <1>1, <1>2, <1>5 DEF EntriesCurrent
<1>7. ring[i] = [ip |-> ring[i].ip, ports |-> ring[i].ports] BY DEF TypeOK, RemotePorts
<1>8. \A k \in Recent : answers[j] = answers[k] => j = k BY <1>1 DEF RecentInPlace
<1> QED BY <1>5, <1>6, <1>7, <1>8

(* For modules that call from one thread at a time the ring keeps the last  *)
(* NumEntries answers, each once, whatever NumEntries is and wherever the   *)
(* index has got to.                                                        *)
THEOREM LatestAnswersKept == Spec => []RecentAnswersKept
<1>1. TypeOK /\ TypeOK' /\ SerialInvariant /\ [Next]_vars => SerialInvariant'
  BY SerialStep
<1>2. TypeOK /\ SerialInvariant => RecentAnswersKept BY SerialKeeps
<1> QED BY <1>1, <1>2, SerialInit, TypeInit, TypeStep, PTL DEF Spec

(* For such modules a verdict is that of the last answer of the address,    *)
(* from the cache or not.                                                   *)
THEOREM VerdictsFromAnswers == Spec => VerdictFromAnswer
<1>1. TypeOK /\ SerialInvariant /\ [Next]_vars =>
        [serial => \A t \in Threads :
           Verify(t) /\ req[t].ip # AnyIp =>
             (result'[t] = 1 <=> req[t].port \in latest[req[t].ip])]_vars
  <2> SUFFICES ASSUME TypeOK, SerialInvariant, serial,
                      NEW t \in Threads, Verify(t), req[t].ip # AnyIp
               PROVE  result'[t] = 1 <=> req[t].port \in latest[req[t].ip]
    OBVIOUS
  <2>1. PICK s \in Slots : s = req[t].slot BY DEF TypeOK, Request
  <2>2. pc[t] = "verify" /\ result'[t] = (IF req[t].port \in ring[s].ports THEN 1 ELSE 0)
    BY <2>1 DEF Verify, Return, TypeOK
  <2>3. \A i : ~HalfFilled(i) BY <2>2 DEF HalfFilled, SerialInvariant, OneCalls
  <2>4. ring[s].ip = req[t].ip BY <2>1, <2>2 DEF SerialInvariant, ScanStands
  <2>5. ring[s].ports = latest[req[t].ip]
    BY <2>3, <2>4 DEF SerialInvariant, EntriesCurrent
  <2> QED BY <2>2, <2>5
<1>2. TypeOK /\ TypeOK' /\ SerialInvariant /\ [Next]_vars => SerialInvariant'
  BY SerialStep
<1> QED BY <1>1, <1>2, SerialInit, TypeInit, TypeStep, PTL DEF Spec, VerdictFromAnswer
=============================================================================
