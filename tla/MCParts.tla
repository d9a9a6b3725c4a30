------------------------------- MODULE MCParts -------------------------------
(* Several components, checked in one run: the initial state says which of  *)
(* them runs, and the others stay in their initial states.                  *)
EXTENDS MCNcMutex, TLC

CONSTANTS
  Parts,         \* the components of the run
  NumPages, PagesPerMap, TextStart, TextEnd, DataEnd, StackStart, Files, NoFile,
  FileSize, Hole, Places, Lengths, Offsets, MaxCalls,            \* of VmMap
  ByHandle, ByName, Fixed, Shm, Hollow, Receivers, MaxHandles, UserDescMax,
  Rooms, MaxSends,                                               \* of ImcTransfer
  TextSize, Alignment, TrampolineEnd, BlockSize,                 \* of Validator
  KeyThreads, KeysMax, UintMax, Iterations, MaxUses,             \* of NcKeys
  Pthreads, Main, NoThread, Blocks, MainTls, NoBlock, MaxThreadId,
  MaxCachedMemoryBlocks,                                         \* of NcThread
  MaxSessions                                                    \* of AudioStream

VARIABLES
  part,
  vmentry, objs, brk, mem, disturbed, fatal, map_calls,
  named, opened, sending, send_pc, queue, sends, handle, installed, lost, strayed, call,
  code, vpc, previous, vttable, kttable, phase, text_pc, masked,
  load_status, may_start, errcode, start_main, channel, plugin, request, status,
  audio_holder, have_audio, ready, size, first, shutdown, device, audio_callback,
  stream, audio_main, filled, sessions,
  generation, destruction_callback, thread_specific_data, key_pc, i, seen,
  key_callback, left, use, usable, uses,
  done, lock, once_pc, res, runs,
  pthread_pc, basic, tdb, regs, saved, on, blocks, table, nextId, wrapped, running,
  program, id, parent, claimed, meant, delivered,
  requests, responses, leftover, client, server, next_outgoing_request_id,
  srpc_calls, serving, executed, unanswered, result

(* The instructions of the text: one of each kind the validator knows, with *)
(* targets before the text, at a start, off the starts and after the text. *)
Insts ==
  {[kind |-> k[1], length |-> k[2], reg |-> k[3], target |-> k[4]] :
     k \in {<<"plain", 1, "eax", 0>>, <<"mask", 1, "eax", 0>>,
            <<"indirect jump", 1, "eax", 0>>, <<"indirect jump", 1, "ecx", 0>>,
            <<"indirect call", 2, "eax", 0>>, <<"call", 1, "eax", 2>>,
            <<"jump", 1, "eax", 3>>, <<"jump", 1, "eax", -4>>,
            <<"jump", 1, "eax", TextSize>>, <<"unavailable", 2, "eax", 0>>,
            <<"illegal", 1, "eax", 0>>}}

(* The threads that receive are alike, and nothing else speaks of them.     *)
ReceiversAlike == Permutations(Receivers)

(* The main thread creates all the others.                                  *)
MainCreates ==
  LET others == Pthreads \ {Main}
  IN  [children |-> others, creators |-> {Main}, targets |-> others, one_claim |-> TRUE]

(* The module of proofs has all of VmMap, and lemmas that may be cited here. *)
Map == INSTANCE VmMapProofs WITH calls <- map_calls
Imc == INSTANCE ImcTransfer
Text == INSTANCE Validator WITH pc <- text_pc
Start == INSTANCE ModuleStart WITH main <- start_main
Audio == INSTANCE AudioStream WITH
           main <- audio_main, callback <- audio_callback, holder <- audio_holder
Key == INSTANCE NcKeys WITH
         Threads <- KeyThreads, pc <- key_pc, callback <- key_callback
Once == INSTANCE NcOnce WITH pc <- once_pc
Pthread == INSTANCE NcThread WITH
             Threads <- Pthreads, pc <- pthread_pc, mem <- blocks, handle <- id,
             Programs <- {MainCreates}
Srpc == INSTANCE SrpcChannel WITH calls <- srpc_calls

ASSUME TextBounds == Text!Bounds
ASSUME MapBounds == Map!Bounds
ASSUME ImcBounds == Imc!Bounds
ASSUME KeyBounds == Key!Bounds
ASSUME SrpcBounds == Srpc!Bounds

map == <<vmentry, objs, brk, mem, disturbed, fatal, map_calls>>
imc == <<named, opened, sending, send_pc, queue, sends, handle, installed, lost, strayed,
         call>>
text == <<code, vpc, previous, vttable, kttable, phase, text_pc, masked>>
start == <<load_status, may_start, errcode, start_main, channel, plugin, request, status>>
audio == <<audio_holder, have_audio, ready, size, first, shutdown, device,
           audio_callback, stream, audio_main, filled, sessions>>
keys == <<generation, destruction_callback, thread_specific_data, key_pc, i, seen,
          key_callback, left, use, usable, uses>>
once == <<done, lock, once_pc, res, runs>>
pthread == <<pthread_pc, basic, tdb, regs, saved, on, blocks, table, nextId, wrapped,
             running, program, id, parent, claimed, meant, delivered>>
srpc == <<requests, responses, leftover, client, server, next_outgoing_request_id,
          srpc_calls, serving, executed, unanswered, result>>

(* A step of p, in which the other components do nothing.                   *)
StepOf(p, A) ==
  /\ part = p
  /\ UNCHANGED part
  /\ A
  /\ IF p = "mutex" THEN TRUE ELSE UNCHANGED vars
  /\ IF p = "map" THEN TRUE ELSE UNCHANGED map
  /\ IF p = "imc" THEN TRUE ELSE UNCHANGED imc
  /\ IF p = "text" THEN TRUE ELSE UNCHANGED text
  /\ IF p = "start" THEN TRUE ELSE UNCHANGED start
  /\ IF p = "audio" THEN TRUE ELSE UNCHANGED audio
  /\ IF p = "keys" THEN TRUE ELSE UNCHANGED keys
  /\ IF p = "once" THEN TRUE ELSE UNCHANGED once
  /\ IF p = "pthread" THEN TRUE ELSE UNCHANGED pthread
  /\ IF p = "srpc" THEN TRUE ELSE UNCHANGED srpc

PartsInit ==
  /\ part \in Parts
  /\ Init /\ Map!Init /\ Imc!Init /\ Text!Init /\ Start!Init /\ Audio!Init
  /\ Key!Init /\ Once!Init /\ Pthread!Init /\ Srpc!Init
  /\ part # "mutex" => mutex_type = "fast" /\ calls = {"wait"}

PartsNext ==
  \/ StepOf("mutex", Next)
  \/ StepOf("map", Map!Next)
  \/ StepOf("imc", Imc!Next)
  \/ StepOf("text", Text!Next)
  \/ StepOf("start", Start!Next)
  \/ StepOf("audio", Audio!Next)
  \/ StepOf("keys", Key!Next)
  \/ StepOf("once", Once!Next)
  \/ StepOf("pthread", Pthread!Next)
  \/ StepOf("srpc", Srpc!Next)

parts == <<part, vars, map, imc, text, start, audio, keys, once, pthread, srpc>>

PartsSpec == PartsInit /\ [][PartsNext]_parts

(* The fairness of each component, while it is the one that runs.           *)
PartsFairness ==
  /\ \A t \in Threads : WF_vars(StepOf("mutex", Step(t)))
  /\ WF_start(StepOf("start", Start!RuntimeNext))
  /\ WF_audio(StepOf("audio", Audio!MainNext))
  /\ WF_audio(StepOf("audio", Audio!CallbackNext))
  /\ WF_audio(StepOf("audio", Audio!StreamNext))
  /\ \A t \in Pthreads :
       WF_pthread(StepOf("pthread", UNCHANGED program /\ Pthread!Continue(t)))
  /\ \A t \in Pthreads \ {Main} :
       SF_pthread(StepOf("pthread", UNCHANGED program /\ Pthread!ExitBegin(t)))
  /\ SF_pthread(StepOf("pthread", UNCHANGED program /\ Pthread!MainExit))
  /\ WF_pthread(StepOf("pthread", UNCHANGED program /\ Pthread!Shutdown))
  /\ WF_srpc(StepOf("srpc", Srpc!Receive))
  /\ WF_srpc(StepOf("srpc", Srpc!Serve))

FairPartsSpec == PartsSpec /\ PartsFairness

(* The invariants of the components, while they run, and their properties.  *)
During(p, P) == part = p => P

MapMatchesMemory == During("map", Map!MapMatchesMemory)
ObjectsOwned == During("map", Map!ObjectsOwned)
HolesFound == During("map", Map!HolesFound)
ImplementsPageMap == Map!ImplementsPageMap
HandlesOwned == During("imc", Imc!HandlesOwned)
DescriptorsMatch == During("imc", Imc!DescriptorsMatch)
Contained == During("text", Text!Contained)
StartAgreed == During("start", Start!StartAgreed)
StartAnswered == Start!StartAnswered
BlocksFilled == Audio!BlocksFilled
ShutdownEndsWaits == Audio!ShutdownEndsWaits
ValuesOfThisKey == During("keys", Key!ValuesOfThisKey)
OnceBeforeReturn == During("once", Once!OnceBeforeReturn)
JoinReturns == Pthread!JoinReturns
ShutdownCompletes == Pthread!ShutdownCompletes
AnswersMatch == During("srpc", Srpc!AnswersMatch)
CallReturns == Srpc!CallReturns
=============================================================================
