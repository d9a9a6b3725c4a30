---------------------------- MODULE WaitingProofs ----------------------------
(* The start of a module, audio_stream, pthread_once, keys and SRPC, for    *)
(* any constants: what the waiting parts of the composition promise, of a   *)
(* component alone and of the composition.                                  *)
EXTENDS MCParts, SequenceTheorems, TLAPS

(***************************************************************************)
(* The start of a module: main and the plugin agree on its outcome.        *)
(***************************************************************************)

(* What the status of the load can be: not known yet, the error that main   *)
(* met, or, once main has reported, LOAD_OK.                                *)
Sayable == {Start!Unknown, Start!LoadOk, errcode}

(* Nothing is said of the load before main has tried it, and afterwards     *)
(* only what is sayable.                                                    *)
StatusSays ==
  /\ load_status \in Sayable /\ status \in Sayable
  /\ start_main = "load" => /\ channel = "none" /\ load_status = Start!Unknown
                      /\ status = Start!Unknown /\ ~may_start
                      /\ plugin \in {"connect"} /\ request = Start!Nothing
  /\ may_start => status # Start!Unknown
  /\ channel = "reply" => status # Start!Unknown

(* A plugin whose call of start_module is under way has no answer yet, so   *)
(* the channel's thread reads the status for at most one answer.            *)
OneStart ==
  /\ request = "start_module" => plugin = "origin"
  /\ channel \in {"start", "reply"} => plugin \in {"origin", "closed"}

(* The inductive invariant.                                                 *)
StartInvariant == Start!TypeOK /\ StatusSays /\ OneStart /\ Start!StartAgreed

(* It holds when main begins.                                               *)
LEMMA StartInit == Start!Init => StartInvariant
  BY DEF Start!Init, StartInvariant, Start!TypeOK, StatusSays, Sayable, OneStart,
       Start!StartAgreed,
         Start!Codes, Start!LoadErrors, Start!LoadOk, Start!Unknown, Start!Nothing,
              Start!Calls,
         Start!MainPlaces, Start!ChannelPlaces, Start!PluginStates

(* The steps change the variables within their types.                       *)
LEMMA StartTypes ==
  ASSUME Start!TypeOK, [Start!Next]_(Start!vars)
  PROVE  Start!TypeOK'
<1> USE DEF Start!TypeOK
<1>1. ASSUME NEW c \in Start!Codes, Start!Load(c) PROVE Start!TypeOK'
  <2>1. start_main' \in Start!MainPlaces
    BY <1>1 DEF Start!Load, Start!MainPlaces
  <2>2. QED BY <2>1, <1>1 DEF Start!Load
<1>2. ASSUME Start!Accept PROVE Start!TypeOK'
  <2>1. /\ start_main' \in Start!MainPlaces
        /\ channel' \in Start!ChannelPlaces
        /\ plugin' \in Start!PluginStates
    BY <1>2 DEF Start!Accept, Start!MainPlaces, Start!ChannelPlaces, Start!PluginStates
  <2>2. QED BY <2>1, <1>2 DEF Start!Accept
<1>3. ASSUME Start!ReportLoaded PROVE Start!TypeOK'
  <2>1. start_main' \in Start!MainPlaces
    BY <1>3 DEF Start!ReportLoaded, Start!MainPlaces
  <2>2. QED BY <2>1, <1>3 DEF Start!ReportLoaded, Start!Codes
<1>4. ASSUME Start!StartCallSeen PROVE Start!TypeOK'
  <2>1. start_main' \in Start!MainPlaces
    BY <1>4 DEF Start!StartCallSeen, Start!MainPlaces
  <2>2. QED BY <2>1, <1>4 DEF Start!StartCallSeen
<1>5. ASSUME Start!Launch PROVE Start!TypeOK'
  <2>1. start_main' \in Start!MainPlaces
    BY <1>5 DEF Start!Launch, Start!MainPlaces
  <2>2. QED BY <2>1, <1>5 DEF Start!Launch
<1>6. ASSUME Start!SetOrigin PROVE Start!TypeOK'
  <2>1. plugin' \in Start!PluginStates
    BY <1>6 DEF Start!SetOrigin, Start!PluginStates
  <2>2. QED BY <2>1, <1>6 DEF Start!SetOrigin, Start!Answer
<1>7. ASSUME Start!StartModuleCalled PROVE Start!TypeOK'
  <2>1. channel' \in Start!ChannelPlaces
    BY <1>7 DEF Start!StartModuleCalled, Start!ChannelPlaces
  <2>2. QED BY <2>1, <1>7 DEF Start!StartModuleCalled
<1>8. ASSUME Start!StartModule PROVE Start!TypeOK'
  <2>1. channel' \in Start!ChannelPlaces
    BY <1>8 DEF Start!StartModule, Start!ChannelPlaces
  <2>2. QED BY <2>1, <1>8 DEF Start!StartModule
<1>9. ASSUME Start!StartModuleReplies PROVE Start!TypeOK'
  <2>1. channel' \in Start!ChannelPlaces /\ plugin' \in Start!PluginStates
    BY <1>9 DEF Start!StartModuleReplies, Start!ChannelPlaces, Start!PluginStates
  <2>2. QED BY <2>1, <1>9 DEF Start!StartModuleReplies, Start!Answer
<1>10. ASSUME Start!ChannelEnds PROVE Start!TypeOK'
  <2>1. start_main' \in Start!MainPlaces /\ plugin' \in Start!PluginStates
    BY <1>10 DEF Start!ChannelEnds, Start!MainPlaces, Start!PluginStates
  <2>2. QED BY <2>1, <1>10 DEF Start!ChannelEnds, Start!Answer
<1>11. ASSUME Start!CallFails PROVE Start!TypeOK'
  <2>1. plugin' \in Start!PluginStates
    BY <1>11 DEF Start!CallFails, Start!PluginStates
  <2>2. QED BY <2>1, <1>11 DEF Start!CallFails, Start!Answer
<1>12. ASSUME Start!ChrootFails PROVE Start!TypeOK'
  <2>1. start_main' \in Start!MainPlaces
    BY <1>12 DEF Start!ChrootFails, Start!MainPlaces
  <2>2. QED BY <2>1, <1>12 DEF Start!ChrootFails
<1>13. ASSUME Start!ModuleExits PROVE Start!TypeOK'
  <2>1. start_main' \in Start!MainPlaces
    BY <1>13 DEF Start!ModuleExits, Start!MainPlaces
  <2>2. QED BY <2>1, <1>13 DEF Start!ModuleExits
<1>14. ASSUME NEW c \in Start!Calls, Start!Call(c) PROVE Start!TypeOK'
  BY <1>14 DEF Start!Call
<1>15. ASSUME Start!PluginCloses PROVE Start!TypeOK'
  <2>1. plugin' \in Start!PluginStates
    BY <1>15 DEF Start!PluginCloses, Start!PluginStates
  <2>2. QED BY <2>1, <1>15 DEF Start!PluginCloses, Start!Answer
<1>16. ASSUME UNCHANGED Start!vars PROVE Start!TypeOK'
  BY <1>16 DEF Start!vars
<1>17. QED
  BY <1>1, <1>2, <1>3, <1>4, <1>5, <1>6, <1>7, <1>8, <1>9, <1>10, <1>11, <1>12,
     <1>13, <1>14, <1>15, <1>16 DEF Start!Next, Start!RuntimeNext

(* main, the channel's thread and the plugin keep the rest of it.           *)
LEMMA StartStep ==
  ASSUME StartInvariant, [Start!Next]_(Start!vars)
  PROVE  StartInvariant'
<1> DEFINE Agreement == StatusSays /\ OneStart /\ Start!StartAgreed
<1> USE DEF StatusSays, Sayable, OneStart, Start!StartAgreed,
            Start!LoadOk, Start!Unknown, Start!Nothing, Start!Answer
<1>0. Start!TypeOK /\ Agreement BY DEF StartInvariant
<1>1. ASSUME NEW c \in Start!Codes, Start!Load(c) PROVE Agreement'
  BY ONLY <1>0, <1>1 DEF Start!Load, Start!Codes, Start!LoadErrors, Start!TypeOK
<1>2. ASSUME Start!Accept PROVE Agreement'
  BY ONLY <1>0, <1>2 DEF Start!Accept
<1>3. ASSUME Start!ReportLoaded PROVE Agreement'
  BY ONLY <1>0, <1>3 DEF Start!ReportLoaded
<1>4. ASSUME Start!StartCallSeen PROVE Agreement'
  BY ONLY <1>0, <1>4 DEF Start!StartCallSeen
<1>5. ASSUME Start!Launch PROVE Agreement'
  BY ONLY <1>0, <1>5 DEF Start!Launch
<1>6. ASSUME Start!SetOrigin PROVE Agreement'
  BY ONLY <1>0, <1>6 DEF Start!SetOrigin
<1>7. ASSUME Start!StartModuleCalled PROVE Agreement'
  BY ONLY <1>0, <1>7 DEF Start!StartModuleCalled
<1>8. ASSUME Start!StartModule PROVE Agreement'
  BY ONLY <1>0, <1>8 DEF Start!StartModule
<1>9. ASSUME Start!StartModuleReplies PROVE Agreement'
  BY ONLY <1>0, <1>9 DEF Start!StartModuleReplies
<1>10. ASSUME Start!ChannelEnds PROVE Agreement'
  BY ONLY <1>0, <1>10 DEF Start!ChannelEnds
<1>11. ASSUME Start!CallFails PROVE Agreement'
  BY ONLY <1>0, <1>11 DEF Start!CallFails
<1>12. ASSUME Start!ChrootFails PROVE Agreement'
  BY ONLY <1>0, <1>12 DEF Start!ChrootFails
<1>13. ASSUME Start!ModuleExits PROVE Agreement'
  BY ONLY <1>0, <1>13 DEF Start!ModuleExits
<1>14. ASSUME NEW c \in Start!Calls, Start!Call(c) PROVE Agreement'
  BY ONLY <1>0, <1>14 DEF Start!Call
<1>15. ASSUME Start!PluginCloses PROVE Agreement'
  BY ONLY <1>0, <1>15 DEF Start!PluginCloses
<1>16. ASSUME UNCHANGED Start!vars PROVE Agreement'
  BY ONLY <1>0, <1>16 DEF Start!vars
<1>17. Agreement'
  BY <1>1, <1>2, <1>3, <1>4, <1>5, <1>6, <1>7, <1>8, <1>9, <1>10, <1>11, <1>12,
     <1>13, <1>14, <1>15, <1>16 DEF Start!Next, Start!RuntimeNext
<1>18. QED BY <1>0, <1>17, StartTypes DEF StartInvariant

(* A module runs only if it was loaded without an error and start_module    *)
(* was answered so, and a plugin is refused only for the error that main    *)
(* met: module_load_status and module_may_start are enough for main and the *)
(* channel's thread to agree.                                               *)
THEOREM StartedAsAgreed == Start!Spec => []Start!StartAgreed
<1>1. StartInvariant => Start!StartAgreed BY DEF StartInvariant
<1>2. QED BY <1>1, StartInit, StartStep, PTL DEF Start!Spec

(***************************************************************************)
(* audio_stream and the audio callback.                                    *)
(***************************************************************************)

(* Who has nacl_multimedia_mutex, and what the main thread has done when it *)
(* is in audio_init or audio_shutdown.                                      *)
Locks ==
  /\ audio_holder = "stream" <=> stream \in {"copy", "sync", "wait", "woken", "done"}
  /\ audio_holder = "main" <=> audio_main \in {"tell", "close"}
  /\ audio_holder = "stream" => have_audio
  /\ stream = "copy" => ~first
  /\ audio_main = "init" => ~have_audio
  /\ audio_main \in {"shutdown", "lock", "tell", "close"} => have_audio
  /\ audio_main \in {"lock", "tell", "close"} => shutdown

(* The device is open when have_audio says so, plays after the first call   *)
(* of audio_stream and not before, and calls back only when it plays.       *)
Device ==
  /\ device \in {"closed", "paused", "playing", "closing"}
  /\ have_audio <=> device # "closed"
  /\ device = "paused" => first
  /\ device = "playing" => ~first
  /\ device = "closing" => audio_main = "close"
  /\ device \in {"closed", "paused"} => audio_callback = "idle"

(* A block that is ready has a size and a callback that waits for it, until *)
(* a shutdown is announced; without one no callback waits.                  *)
Lent ==
  /\ size = Audio!Block => ready
  /\ ready /\ ~shutdown => size = Audio!Block /\ audio_callback \in {"wait", "woken"}
  /\ audio_callback = "wait" => ready

(* audio_stream returns to the module only with a block, and only the first *)
(* call finds none.                                                         *)
BlockAwaits ==
  have_audio /\ ~first /\ ~shutdown /\ stream \notin {"wait", "woken"} => ready

(* What is given back has been filled.                                      *)
FilledBefore ==
  ~shutdown =>
    /\ stream = "sync" /\ ready => filled
    /\ audio_callback = "woken" /\ ~ready => filled

(* The inductive invariant.                                                 *)
AudioInvariant == Locks /\ Device /\ Lent /\ BlockAwaits /\ FilledBefore

(* It holds before the first session.                                       *)
LEMMA AudioBegins == Audio!Init => AudioInvariant
  BY DEF Audio!Init, AudioInvariant, Locks, Device, Lent, BlockAwaits, FilledBefore,
       Audio!Nobody,
         Audio!Block

(* The main thread, SDL's thread and the module's audio thread keep it.     *)
LEMMA AudioStep ==
  ASSUME AudioInvariant, [Audio!Next]_(Audio!vars)
  PROVE  AudioInvariant'
<1> USE DEF AudioInvariant, Locks, Device, Lent, BlockAwaits, FilledBefore,
     Audio!Nobody, Audio!Block
<1>1. ASSUME NEW started \in BOOLEAN, Audio!AudioInit(started) PROVE AudioInvariant'
  BY ONLY AudioInvariant, <1>1 DEF Audio!AudioInit, Audio!audio
<1>2. ASSUME Audio!AudioInitRefused PROVE AudioInvariant'
  BY ONLY AudioInvariant, <1>2 DEF Audio!AudioInitRefused, Audio!audio
<1>3. ASSUME Audio!ShutdownFlag PROVE AudioInvariant'
  BY ONLY AudioInvariant, <1>3 DEF Audio!ShutdownFlag, Audio!audio
<1>4. ASSUME Audio!ShutdownLock PROVE AudioInvariant'
  BY ONLY AudioInvariant, <1>4 DEF Audio!ShutdownLock, Audio!audio
<1>5. ASSUME Audio!ShutdownTell PROVE AudioInvariant'
  BY ONLY AudioInvariant, <1>5 DEF Audio!ShutdownTell, Audio!audio, Audio!Tell
<1>6. ASSUME Audio!CloseBegins PROVE AudioInvariant'
  BY ONLY AudioInvariant, <1>6 DEF Audio!CloseBegins, Audio!audio
<1>7. ASSUME Audio!ShutdownEnds PROVE AudioInvariant'
  BY ONLY AudioInvariant, <1>7 DEF Audio!ShutdownEnds, Audio!audio
<1>8. ASSUME Audio!CallbackBegins PROVE AudioInvariant'
  BY ONLY AudioInvariant, <1>8 DEF Audio!CallbackBegins, Audio!audio
<1>9. ASSUME Audio!CallbackLends PROVE AudioInvariant'
  BY ONLY AudioInvariant, <1>9 DEF Audio!CallbackLends, Audio!audio, Audio!Tell,
       Audio!AudioMutexFree
<1>10. ASSUME Audio!CallbackSkips PROVE AudioInvariant'
  BY ONLY AudioInvariant, <1>10 DEF Audio!CallbackSkips, Audio!audio,
       Audio!AudioMutexFree
<1>11. ASSUME Audio!CallbackWakes PROVE AudioInvariant'
  BY ONLY AudioInvariant, <1>11 DEF Audio!CallbackWakes, Audio!audio, Audio!MustWait,
       Audio!AudioMutexFree
<1>12. ASSUME Audio!StreamLocks PROVE AudioInvariant'
  BY ONLY AudioInvariant, <1>12 DEF Audio!StreamLocks, Audio!audio
<1>13. ASSUME Audio!StreamCopies PROVE AudioInvariant'
  <2>1. size = Audio!Block => filled' BY ONLY <1>13, Zenon DEF Audio!StreamCopies
  <2>2. QED BY ONLY AudioInvariant, <1>13, <2>1 DEF Audio!StreamCopies, Audio!audio
<1>14. ASSUME Audio!StreamSyncs PROVE AudioInvariant'
  BY ONLY AudioInvariant, <1>14 DEF Audio!StreamSyncs, Audio!audio, Audio!Tell
<1>15. ASSUME Audio!StreamWakes PROVE AudioInvariant'
  BY ONLY AudioInvariant, <1>15 DEF Audio!StreamWakes, Audio!audio
<1>16. ASSUME Audio!StreamReturns PROVE AudioInvariant'
  BY ONLY AudioInvariant, <1>16 DEF Audio!StreamReturns, Audio!audio
<1>17. ASSUME Audio!AskForAudio PROVE AudioInvariant'
  BY ONLY AudioInvariant, <1>17 DEF Audio!AskForAudio, Audio!audio
<1>18. ASSUME Audio!AskForShutdown PROVE AudioInvariant'
  BY ONLY AudioInvariant, <1>18 DEF Audio!AskForShutdown, Audio!audio
<1>19. ASSUME Audio!StreamThreadStarts PROVE AudioInvariant'
  BY ONLY AudioInvariant, <1>19 DEF Audio!StreamThreadStarts, Audio!audio
<1>20. ASSUME Audio!StreamCalled PROVE AudioInvariant'
  BY ONLY AudioInvariant, <1>20 DEF Audio!StreamCalled, Audio!audio
<1>21. ASSUME Audio!Spurious PROVE AudioInvariant'
  BY ONLY AudioInvariant, <1>21 DEF Audio!Spurious, Audio!audio
<1>22. ASSUME UNCHANGED Audio!vars PROVE AudioInvariant'
  BY ONLY AudioInvariant, <1>22 DEF Audio!vars, Audio!audio
<1>23. QED
  BY <1>1, <1>2, <1>3, <1>4, <1>5, <1>6, <1>7, <1>8, <1>9, <1>10, <1>11,
     <1>12, <1>13, <1>14, <1>15, <1>16, <1>17, <1>18, <1>19, <1>20, <1>21, <1>22
     DEF Audio!Next, Audio!MainNext, Audio!CallbackNext, Audio!StreamNext,
          Audio!ModuleNext

(* audio_stream only ever copies into a block that SDL has lent and still   *)
(* waits for, of a device that is open, although the copy is made without   *)
(* audio.mutex.                                                             *)
THEOREM CopiesIntoLent == Audio!Spec => []Audio!BlockLent
<1>1. AudioInvariant => Audio!BlockLent
  BY DEF AudioInvariant, Locks, Device, Lent, BlockAwaits, Audio!BlockLent, Audio!Block
<1>2. QED BY <1>1, AudioBegins, AudioStep, PTL DEF Audio!Spec

(* A callback that returns gives back a block that is filled.               *)
LEMMA GivenBackFilled ==
  ASSUME AudioInvariant, [Audio!Next]_(Audio!vars)
  PROVE  [audio_callback # "idle" /\ audio_callback' = "idle" /\ ~shutdown =>
            filled]_(Audio!vars)
<1>1. ASSUME audio_callback # "idle", audio_callback' = "idle", ~shutdown,
     Audio!Next PROVE filled
  <2> USE DEF AudioInvariant, Lent, FilledBefore
  <2>1. ~Audio!CallbackLends BY <1>1 DEF Audio!CallbackLends
  <2>2. ~Audio!CallbackSkips BY <1>1 DEF Audio!CallbackSkips
  <2>3. ASSUME Audio!CallbackWakes PROVE filled
    BY <1>1, <2>3 DEF Audio!CallbackWakes, Audio!MustWait
  <2>4. \/ audio_callback' = audio_callback
        \/ Audio!Tell(audio_callback) = audio_callback'
        \/ Audio!CallbackNext
        \/ Audio!Spurious
    BY <1>1 DEF Audio!Next, Audio!MainNext, Audio!StreamNext, Audio!ModuleNext,
         Audio!AudioInit, Audio!AudioInitRefused,
                Audio!ShutdownFlag, Audio!ShutdownLock, Audio!ShutdownTell,
                     Audio!CloseBegins, Audio!ShutdownEnds,
                Audio!StreamLocks, Audio!StreamCopies, Audio!StreamSyncs,
                     Audio!StreamWakes, Audio!StreamReturns,
                Audio!AskForAudio, Audio!AskForShutdown, Audio!StreamThreadStarts,
                     Audio!StreamCalled
  <2>5. Audio!CallbackNext BY <1>1, <2>4 DEF Audio!Tell, Audio!Spurious
  <2>6. QED BY <1>1, <2>1, <2>2, <2>3, <2>5 DEF Audio!CallbackNext, Audio!CallbackBegins
<1>2. QED BY <1>1 DEF Audio!vars

(* The callback returns a block to SDL only when the module has filled it,  *)
(* until a shutdown is announced.                                           *)
THEOREM ReturnsFilled == Audio!Spec => Audio!BlocksFilled
  BY AudioBegins, AudioStep, GivenBackFilled, PTL DEF Audio!Spec, Audio!BlocksFilled

(***************************************************************************)
(* pthread_once runs its routine once, for any number of threads.          *)
(***************************************************************************)

(* The invariant holds before the first call.                               *)
LEMMA OnceInit == Once!Init => Once!OnceInvariant
  BY DEF Once!Init, Once!OnceInvariant, Once!TypeOK, Once!Inside

(* Every step of every thread keeps it.                                     *)
LEMMA OnceStep ==
  ASSUME Once!OnceInvariant, [Once!Next]_(Once!vars)
  PROVE  Once!OnceInvariant'
<1> USE DEF Once!OnceInvariant, Once!TypeOK, Once!Inside
<1>1. ASSUME NEW t \in Threads, Once!FirstRead(t) PROVE Once!OnceInvariant'
  BY <1>1 DEF Once!FirstRead, Once!Goto
<1>2. ASSUME NEW t \in Threads, Once!FirstTest(t) PROVE Once!OnceInvariant'
  BY <1>2 DEF Once!FirstTest, Once!Goto
<1>3. ASSUME NEW t \in Threads, Once!Lock(t) PROVE Once!OnceInvariant'
  BY <1>3 DEF Once!Lock, Once!Goto
<1>4. ASSUME NEW t \in Threads, Once!BeginRoutine(t) PROVE Once!OnceInvariant'
  BY <1>4 DEF Once!BeginRoutine, Once!Goto
<1>5. ASSUME NEW t \in Threads, Once!FoundDone(t) PROVE Once!OnceInvariant'
  BY <1>5 DEF Once!FoundDone, Once!Goto
<1>6. ASSUME NEW t \in Threads, Once!EndRoutine(t) PROVE Once!OnceInvariant'
  BY <1>6 DEF Once!EndRoutine, Once!Goto
<1>7. ASSUME NEW t \in Threads, Once!Mark(t) PROVE Once!OnceInvariant'
  BY <1>7 DEF Once!Mark, Once!Goto
<1>8. ASSUME NEW t \in Threads, Once!Unlock(t) PROVE Once!OnceInvariant'
  BY <1>8 DEF Once!Unlock, Once!Goto
<1>9. CASE UNCHANGED Once!vars
  BY <1>9 DEF Once!vars
<1>10. QED
  BY <1>1, <1>2, <1>3, <1>4, <1>5, <1>6, <1>7, <1>8, <1>9 DEF Once!Next, Once!Step

(* Nothing returns before the routine has ended.                            *)
LEMMA OnceReturns == ASSUME Once!OnceInvariant PROVE Once!OnceBeforeReturn
<1>1. runs.begun \in {0, 1} BY DEF Once!OnceInvariant
<1>2. runs.begun <= 1 BY <1>1
<1>3. ASSUME NEW t \in Threads, once_pc[t] = "return" PROVE runs.ended = 1
  <2>1. done = 1 BY <1>3 DEF Once!OnceInvariant
  <2>2. QED BY <2>1 DEF Once!OnceInvariant
<1>4. QED BY <1>2, <1>3 DEF Once!OnceBeforeReturn

(* The routine begins at most once, and has ended when any call returns.    *)
THEOREM RoutineOnce == Once!Spec => []Once!OnceBeforeReturn
  BY OnceInit, OnceStep, OnceReturns, PTL DEF Once!Spec

(***************************************************************************)
(* Thread-specific data: a value belongs to the use of the key.            *)
(***************************************************************************)

(* Where a thread is on its way with the key i[t].                          *)
AtKey == {"swap", "fill", "unswap", "clear", "store", "destroy"}

(* Generations never reach UINT_MAX, and what was read of one, or stored    *)
(* with one, is no later than the key's: a generation that is gone does not *)
(* come back.                                                               *)
Generations ==
  /\ \A t \in KeyThreads : key_pc[t] \in AtKey => i[t] \in Key!Keys
  /\ \A k \in Key!Keys : generation[k] < UintMax
  /\ \A t \in KeyThreads, k \in Key!Keys :
       thread_specific_data[t][k].generation <= generation[k]
  /\ \A t \in KeyThreads :
       key_pc[t] \in {"swap", "unswap", "store"} => seen[t] <= generation[i[t]]
  /\ \A t \in KeyThreads : key_pc[t] = "swap" => Key!Reusable(seen[t])
  /\ \A t \in KeyThreads : key_pc[t] \in {"exit", "destroy"} => left[t] # 0

(* The threads that have taken a key: to create it or to delete it.         *)
Taking(t) == key_pc[t] \in {"fill", "unswap"}

(* An allocated key is usable or taken by one thread, not both.             *)
KeysTaken ==
  /\ \A k \in usable : Key!KeyAllocated(generation[k]) /\ use[k] # 0
  /\ \A t \in KeyThreads : Taking(t) =>
       i[t] \notin usable /\ Key!KeyAllocated(generation[i[t]]) /\ use[i[t]] # 0
  /\ \A t, u \in KeyThreads : Taking(t) /\ Taking(u) /\ i[t] = i[u] => t = u
  /\ \A t \in KeyThreads : key_pc[t] = "fill" =>
       use[i[t]] = key_callback[t]
  /\ \A t \in KeyThreads : key_pc[t] = "unswap" => seen[t] = generation[i[t]]

(* No thread is between taking k and writing its destructor.                *)
Filled(k) == \A t \in KeyThreads : key_pc[t] = "fill" => i[t] # k

(* A value with the key's generation belongs to this use of the key, and so *)
(* do one that is about to be stored and the destructor that was read.      *)
ValuesCurrent ==
  /\ \A k \in Key!Keys : Key!KeyAllocated(generation[k]) /\ Filled(k) =>
       destruction_callback[k] \in {Key!Null, use[k]}
  /\ \A t \in KeyThreads, k \in Key!Keys :
       thread_specific_data[t][k].ptr # Key!Null
         /\ thread_specific_data[t][k].generation = generation[k] =>
       /\ Key!KeyAllocated(generation[k]) /\ Filled(k)
       /\ thread_specific_data[t][k].ptr = use[k]
       /\ key_pc[t] = "destroy" /\ i[t] = k => key_callback[t] \in {Key!Null, use[k]}
  /\ \A t \in KeyThreads : key_pc[t] = "store" =>
       /\ Key!KeyAllocated(seen[t])
       /\ seen[t] = generation[i[t]] => Filled(i[t]) /\ key_callback[t] = use[i[t]]

(* The inductive invariant.                                                 *)
KeysInvariant == Key!TypeOK /\ Generations /\ KeysTaken /\ ValuesCurrent

(* A generation below UINT_MAX is followed by the next number, which is     *)
(* even if it was odd, and stays below UINT_MAX where the code goes on.     *)
LEMMA GenerationSteps ==
  \A g \in Nat : g < UintMax =>
    /\ Key!Increment(g) = g + 1
    /\ Key!KeyAllocated(g) <=> ~Key!KeyAllocated(g + 1)
    /\ Key!KeyAllocated(g) \/ Key!Reusable(g) => g + 1 < UintMax
<1> SUFFICES ASSUME NEW g \in Nat, g < UintMax
             PROVE  /\ Key!Increment(g) = g + 1
                    /\ Key!KeyAllocated(g) <=> ~Key!KeyAllocated(g + 1)
                    /\ Key!KeyAllocated(g) \/ Key!Reusable(g) => g + 1 < UintMax
  OBVIOUS
<1>1. UintMax \in Nat /\ UintMax % 2 = 1 BY KeyBounds DEF Key!Bounds
<1>2. (g + 1) % (UintMax + 1) = g + 1 BY <1>1
<1>3. g % 2 = 1 <=> ~((g + 1) % 2 = 1) OBVIOUS
<1>4. g % 2 = 1 \/ g # UintMax - 1 => g + 1 < UintMax BY <1>1
<1> QED BY <1>2, <1>3, <1>4 DEF Key!Increment, Key!KeyAllocated, Key!Reusable

(* Where a thread can be.                                                   *)
KeyPlaces == {Key!Free, "create", "swap", "fill", "delete", "unswap", "clear", "store",
              "exit", "destroy", "gone"}

(* A step changes the variables of one thread.                              *)
KeyLocal(t) ==
  /\ key_pc' = key_pc \/ \E p \in KeyPlaces : key_pc' = [key_pc EXCEPT ![t] = p]
  /\ i' = i \/ \E j \in 0 .. KeysMax : i' = [i EXCEPT ![t] = j]
  /\ seen' = seen \/ \E s \in 0 .. UintMax : seen' = [seen EXCEPT ![t] = s]
  /\ key_callback' = key_callback
       \/ \E c \in 0 .. MaxUses : key_callback' = [key_callback EXCEPT ![t] = c]
  /\ left' = left \/ \E l \in 0 .. Iterations : left' = [left EXCEPT ![t] = l]

(* It does so within their types.                                           *)
LEMMA KeyLocals ==
  ASSUME KeysInvariant, NEW t \in KeyThreads, Key!Step(t)
  PROVE  KeyLocal(t)
<1> USE DEF KeyLocal, KeyPlaces, Key!Goto
<1>1. /\ key_pc[t] \in AtKey => i[t] \in 0 .. KeysMax - 1
      /\ i[t] \in 0 .. KeysMax /\ left[t] \in 0 .. Iterations
      /\ key_pc[t] \in {"exit", "destroy"} => left[t] # 0
      /\ \A k \in Key!Keys : /\ generation[k] \in 0 .. UintMax
                             /\ destruction_callback[k] \in 0 .. MaxUses
                             /\ use[k] \in 0 .. MaxUses
      /\ Key!Keys = 0 .. KeysMax - 1 /\ uses \in 0 .. MaxUses
      /\ KeysMax \in Nat /\ Iterations \in Nat /\ MaxUses \in Nat
      /\ 0 \in 0 .. KeysMax /\ {0, 1} \subseteq 0 .. UintMax /\ Iterations \in 0 .. Iterations
  <2>1. KeysMax \in Nat \ {0} /\ Iterations \in Nat /\ MaxUses \in Nat
        /\ UintMax \in Nat /\ UintMax # 0
    BY KeyBounds DEF Key!Bounds
  <2>2. {0, 1} \subseteq 0 .. UintMax BY <2>1
  <2> QED BY <2>1, <2>2 DEF KeysInvariant, Key!TypeOK, Generations, Key!Keys
<1>2. ASSUME Key!CreateCalled(t) \/ Key!NoKeyLeft(t) \/ Key!CreateReturns(t) PROVE KeyLocal(t)
  BY <1>1, <1>2 DEF Key!CreateCalled, Key!NoKeyLeft, Key!CreateReturns
<1>3. ASSUME Key!CreateReads(t) PROVE KeyLocal(t)
  <2>1. i[t] \in Key!Keys /\ i[t] + 1 \in 0 .. KeysMax BY <1>1, <1>3 DEF Key!CreateReads
  <2> QED BY <1>1, <1>3, <2>1 DEF Key!CreateReads, Key!Read
<1>4. ASSUME Key!CreateSwaps(t) PROVE KeyLocal(t)
  <2>1. uses + 1 \in 0 .. MaxUses BY <1>1, <1>4 DEF Key!CreateSwaps
  <2> QED BY <1>4, <2>1 DEF Key!CreateSwaps
<1>5. ASSUME Key!CreateLoses(t) \/ Key!SkipKey(t) PROVE KeyLocal(t)
  <2>1. i[t] + 1 \in 0 .. KeysMax BY <1>1, <1>5 DEF Key!CreateLoses, Key!SkipKey, AtKey
  <2> QED BY <1>5, <2>1 DEF Key!CreateLoses, Key!SkipKey
<1>6. ASSUME NEW k \in Key!Keys, Key!DeleteCalled(t, k) \/ Key!SetCalled(t, k)
      PROVE  KeyLocal(t)
  <2>1. k \in 0 .. KeysMax /\ generation[k] \in 0 .. UintMax /\ use[k] \in 0 .. MaxUses
    BY <1>1
  <2> QED BY <1>6, <2>1 DEF Key!DeleteCalled, Key!SetCalled, Key!Read
<1>7. ASSUME Key!DeleteSwaps(t) \/ Key!DeleteClears(t) \/ Key!SetStores(t) PROVE KeyLocal(t)
  BY <1>7 DEF Key!DeleteSwaps, Key!DeleteClears, Key!SetStores
<1>8. ASSUME Key!ExitCalled(t) PROVE KeyLocal(t)
  BY <1>1, <1>8 DEF Key!ExitCalled
<1>9. ASSUME Key!ReadDestructor(t) PROVE KeyLocal(t)
  <2>1. i[t] \in Key!Keys BY <1>1, <1>9 DEF Key!ReadDestructor
  <2> QED BY <1>1, <1>9, <2>1 DEF Key!ReadDestructor
<1>10. ASSUME Key!NextIteration(t) PROVE KeyLocal(t)
  <2>1. left[t] - 1 \in 0 .. Iterations BY <1>1, <1>10 DEF Key!NextIteration
  <2> QED BY <1>1, <1>10, <2>1 DEF Key!NextIteration
<1>11. ASSUME NEW again \in BOOLEAN, Key!CallDestructor(t, again) PROVE KeyLocal(t)
  <2>1. i[t] + 1 \in 0 .. KeysMax BY <1>1, <1>11 DEF Key!CallDestructor, AtKey
  <2> QED BY <1>1, <1>11, <2>1 DEF Key!CallDestructor
<1> QED
  BY <1>2, <1>3, <1>4, <1>5, <1>6, <1>7, <1>8, <1>9, <1>10, <1>11, Zenon DEF Key!Step

(* So nothing of another thread changes.                                    *)
LEMMA KeyOthers ==
  ASSUME Key!TypeOK, NEW t \in KeyThreads, KeyLocal(t)
  PROVE  /\ key_pc' \in [KeyThreads -> KeyPlaces] /\ i' \in [KeyThreads -> 0 .. KeysMax]
         /\ seen' \in [KeyThreads -> 0 .. UintMax] /\ key_callback' \in [KeyThreads -> 0 .. MaxUses]
         /\ left' \in [KeyThreads -> 0 .. Iterations]
         /\ \A u \in KeyThreads \ {t} :
              /\ key_pc'[u] = key_pc[u] /\ i'[u] = i[u] /\ seen'[u] = seen[u]
              /\ key_callback'[u] = key_callback[u] /\ left'[u] = left[u]
<1> USE DEF Key!TypeOK, KeyLocal, KeyPlaces
<1>1. /\ key_pc' \in [KeyThreads -> KeyPlaces]
      /\ \A u \in KeyThreads \ {t} : key_pc'[u] = key_pc[u]
  OBVIOUS
<1>2. /\ i' \in [KeyThreads -> 0 .. KeysMax] /\ \A u \in KeyThreads \ {t} : i'[u] = i[u]
  OBVIOUS
<1>3. /\ seen' \in [KeyThreads -> 0 .. UintMax]
      /\ \A u \in KeyThreads \ {t} : seen'[u] = seen[u]
  OBVIOUS
<1>4. /\ key_callback' \in [KeyThreads -> 0 .. MaxUses]
      /\ \A u \in KeyThreads \ {t} : key_callback'[u] = key_callback[u]
  OBVIOUS
<1>5. /\ left' \in [KeyThreads -> 0 .. Iterations]
      /\ \A u \in KeyThreads \ {t} : left'[u] = left[u]
  OBVIOUS
<1> QED BY <1>1, <1>2, <1>3, <1>4, <1>5

(* What is stored keeps its type, and only a store or a destructor changes  *)
(* it.                                                                      *)
LEMMA KeyData ==
  ASSUME KeysInvariant, NEW t \in KeyThreads, Key!Step(t)
  PROVE  /\ thread_specific_data' \in
              [KeyThreads -> [Key!Keys -> [generation : 0 .. UintMax, ptr : 0 .. MaxUses]]]
         /\ \/ UNCHANGED thread_specific_data
            \/ /\ key_pc[t] = "store" /\ i[t] \in Key!Keys
               /\ thread_specific_data'[t][i[t]] = [generation |-> seen[t], ptr |-> key_callback[t]]
               /\ \A u \in KeyThreads, k \in Key!Keys :
                    u # t \/ k # i[t] => thread_specific_data'[u][k] = thread_specific_data[u][k]
            \/ /\ key_pc[t] = "destroy" /\ i[t] \in Key!Keys
               /\ thread_specific_data'[t][i[t]] =
                    [generation |-> thread_specific_data[t][i[t]].generation, ptr |-> Key!Null]
               /\ \A u \in KeyThreads, k \in Key!Keys :
                    u # t \/ k # i[t] => thread_specific_data'[u][k] = thread_specific_data[u][k]
<1>t. /\ thread_specific_data \in
           [KeyThreads -> [Key!Keys -> [generation : 0 .. UintMax, ptr : 0 .. MaxUses]]]
      /\ seen[t] \in 0 .. UintMax /\ key_callback[t] \in 0 .. MaxUses
      /\ Key!Null \in 0 .. MaxUses
  BY KeyBounds DEF KeysInvariant, Key!TypeOK, Key!Bounds, Key!Null
<1>1. ASSUME key_pc[t] \in AtKey, NEW g \in 0 .. UintMax, NEW p \in 0 .. MaxUses,
             Key!Store(t, i[t], g, p)
      PROVE  /\ i[t] \in Key!Keys
             /\ thread_specific_data' \in
                  [KeyThreads -> [Key!Keys -> [generation : 0 .. UintMax, ptr : 0 .. MaxUses]]]
             /\ thread_specific_data'[t][i[t]] = [generation |-> g, ptr |-> p]
             /\ \A u \in KeyThreads, k \in Key!Keys :
                  u # t \/ k # i[t] => thread_specific_data'[u][k] = thread_specific_data[u][k]
  <2>1. PICK k : k = i[t] OBVIOUS
  <2>2. PICK r : r = [generation |-> g, ptr |-> p] OBVIOUS
  <2>3. k \in Key!Keys BY <1>1, <2>1 DEF KeysInvariant, Generations
  <2>4. r \in [generation : 0 .. UintMax, ptr : 0 .. MaxUses] BY <2>2
  <2>5. thread_specific_data' = [thread_specific_data EXCEPT ![t][k] = r]
    BY <1>1, <2>1, <2>2 DEF Key!Store
  <2> HIDE <2>2
  <2>6. /\ thread_specific_data' \in
             [KeyThreads -> [Key!Keys -> [generation : 0 .. UintMax, ptr : 0 .. MaxUses]]]
        /\ thread_specific_data'[t][k] = r
        /\ \A u \in KeyThreads, j \in Key!Keys :
             u # t \/ j # k => thread_specific_data'[u][j] = thread_specific_data[u][j]
    BY <1>t, <2>3, <2>4, <2>5
  <2> QED BY <2>1, <2>2, <2>3, <2>6
<1>2. ASSUME Key!SetStores(t) PROVE key_pc[t] = "store" /\ Key!Store(t, i[t], seen[t], key_callback[t])
  BY <1>2 DEF Key!SetStores
<1>3. ASSUME NEW again \in BOOLEAN, Key!CallDestructor(t, again)
      PROVE  /\ key_pc[t] = "destroy"
             /\ \/ UNCHANGED thread_specific_data
                \/ Key!Store(t, i[t], thread_specific_data[t][i[t]].generation, Key!Null)
  BY <1>3 DEF Key!CallDestructor
<1>4. \/ Key!SetStores(t) \/ \E again \in BOOLEAN : Key!CallDestructor(t, again)
      \/ UNCHANGED thread_specific_data
  BY Zenon
  DEF Key!Step, Key!CreateCalled, Key!CreateReads, Key!NoKeyLeft, Key!CreateSwaps,
      Key!CreateLoses, Key!CreateReturns, Key!DeleteCalled, Key!SetCalled, Key!DeleteSwaps,
      Key!DeleteClears, Key!ExitCalled, Key!ReadDestructor, Key!SkipKey, Key!NextIteration,
      Key!shared
<1>5. CASE UNCHANGED thread_specific_data BY <1>t, <1>5
<1>6. CASE Key!SetStores(t)
  <2>1. key_pc[t] = "store" /\ key_pc[t] \in AtKey BY <1>2, <1>6 DEF AtKey
  <2> QED BY <1>t, <1>1, <1>2, <1>6, <2>1
<1>7. ASSUME NEW again \in BOOLEAN, Key!CallDestructor(t, again),
             Key!Store(t, i[t], thread_specific_data[t][i[t]].generation, Key!Null)
      PROVE  /\ key_pc[t] = "destroy" /\ i[t] \in Key!Keys
             /\ thread_specific_data' \in
                  [KeyThreads -> [Key!Keys -> [generation : 0 .. UintMax, ptr : 0 .. MaxUses]]]
             /\ thread_specific_data'[t][i[t]] =
                  [generation |-> thread_specific_data[t][i[t]].generation, ptr |-> Key!Null]
             /\ \A u \in KeyThreads, k \in Key!Keys :
                  u # t \/ k # i[t] => thread_specific_data'[u][k] = thread_specific_data[u][k]
  <2>1. key_pc[t] = "destroy" /\ key_pc[t] \in AtKey BY <1>3, <1>7 DEF AtKey
  <2>2. i[t] \in Key!Keys BY <2>1 DEF KeysInvariant, Generations
  <2>3. thread_specific_data[t][i[t]].generation \in 0 .. UintMax BY <1>t, <2>2
  <2> QED BY <1>t, <1>1, <1>7, <2>1, <2>3
<1> QED BY <1>3, <1>4, <1>5, <1>6, <1>7

(* How the generations and the uses of the keys change: by one, where a     *)
(* thread takes a key or gives it back.                                     *)
LEMMA KeyRises ==
  ASSUME KeysInvariant, NEW t \in KeyThreads, Key!Step(t)
  PROVE  \/ UNCHANGED <<generation, use>>
         \/ /\ i[t] \in Key!Keys /\ generation[i[t]] = seen[t]
            /\ generation' = [generation EXCEPT ![i[t]] = generation[i[t]] + 1]
            /\ generation[i[t]] + 1 < UintMax
            /\ \/ /\ key_pc[t] = "swap" /\ key_pc'[t] = "fill"
                  /\ ~Key!KeyAllocated(generation[i[t]])
                  /\ Key!KeyAllocated(generation[i[t]] + 1)
                  /\ \E n \in 1 .. MaxUses :
                       /\ use' = [use EXCEPT ![i[t]] = n] /\ key_callback'[t] = n
                       /\ i' = i /\ seen' = seen /\ UNCHANGED <<destruction_callback, usable>>
               \/ /\ key_pc[t] = "unswap" /\ key_pc'[t] = "clear"
                  /\ Key!KeyAllocated(generation[i[t]])
                  /\ ~Key!KeyAllocated(generation[i[t]] + 1)
                  /\ use' = [use EXCEPT ![i[t]] = 0]
                  /\ i' = i /\ UNCHANGED <<destruction_callback, usable>>
<1>t. /\ key_pc[t] \in {"swap", "unswap"} => i[t] \in Key!Keys
      /\ \A k \in Key!Keys : generation[k] \in Nat /\ generation[k] < UintMax
      /\ uses \in 0 .. MaxUses /\ MaxUses \in Nat
  BY KeyBounds DEF KeysInvariant, Generations, AtKey, Key!TypeOK, Key!Bounds
<1>p. key_pc \in [KeyThreads -> KeyPlaces] /\ key_callback \in [KeyThreads -> 0 .. MaxUses]
  BY DEF KeysInvariant, Key!TypeOK, KeyPlaces
<1>1. \/ Key!CreateSwaps(t) \/ Key!DeleteSwaps(t) \/ UNCHANGED <<generation, use>>
  BY Zenon
  DEF Key!Step, Key!CreateCalled, Key!CreateReads, Key!NoKeyLeft,
      Key!CreateLoses, Key!CreateReturns, Key!DeleteCalled, Key!SetCalled,
      Key!DeleteClears, Key!SetStores, Key!ExitCalled, Key!ReadDestructor, Key!SkipKey,
      Key!NextIteration, Key!CallDestructor, Key!shared, Key!ghosts
<1>2. CASE Key!CreateSwaps(t)
  <2>1. PICK k : k = i[t] OBVIOUS
  <2>2. PICK n : n = uses + 1 OBVIOUS
  <2>3. /\ key_pc[t] = "swap" /\ generation[k] = seen[t] /\ uses < MaxUses
        /\ generation' = [generation EXCEPT ![k] = Key!Increment(@)]
        /\ use' = [use EXCEPT ![k] = n]
        /\ key_callback' = [key_callback EXCEPT ![t] = n]
        /\ key_pc' = [key_pc EXCEPT ![t] = "fill"]
        /\ i' = i /\ seen' = seen /\ UNCHANGED <<destruction_callback, usable>>
    BY <1>2, <2>1, <2>2 DEF Key!CreateSwaps, Key!Goto
  <2>4. k \in Key!Keys /\ Key!Reusable(generation[k])
    BY <1>t, <2>1, <2>3 DEF KeysInvariant, Generations
  <2>5. /\ Key!Increment(generation[k]) = generation[k] + 1 /\ generation[k] + 1 < UintMax
        /\ ~Key!KeyAllocated(generation[k]) /\ Key!KeyAllocated(generation[k] + 1)
    BY <1>t, <2>4, GenerationSteps DEF Key!Reusable
  <2>6. n \in 1 .. MaxUses BY <1>t, <2>2, <2>3
  <2>7. key_pc'[t] = "fill" /\ key_callback'[t] = n BY <1>p, <2>3
  <2>8. generation' = [generation EXCEPT ![k] = generation[k] + 1] BY <2>3, <2>5
  <2> QED BY <2>1, <2>3, <2>4, <2>5, <2>6, <2>7, <2>8
<1>3. CASE Key!DeleteSwaps(t)
  <2>1. PICK k : k = i[t] OBVIOUS
  <2>2. key_pc[t] = "unswap" BY <1>3 DEF Key!DeleteSwaps
  <2>3. k \in Key!Keys /\ generation[k] = seen[t] /\ Key!KeyAllocated(generation[k])
    BY <1>t, <2>1, <2>2 DEF KeysInvariant, KeysTaken, Taking
  <2>4. /\ generation' = [generation EXCEPT ![k] = Key!Increment(@)]
        /\ use' = [use EXCEPT ![k] = 0]
        /\ key_pc' = [key_pc EXCEPT ![t] = "clear"]
        /\ i' = i /\ UNCHANGED <<destruction_callback, usable>>
    BY <1>3, <2>1, <2>3 DEF Key!DeleteSwaps, Key!Goto
  <2>5. /\ Key!Increment(generation[k]) = generation[k] + 1 /\ generation[k] + 1 < UintMax
        /\ ~Key!KeyAllocated(generation[k] + 1)
    BY <1>t, <2>3, GenerationSteps
  <2>6. key_pc'[t] = "clear" BY <1>p, <2>4
  <2>7. generation' = [generation EXCEPT ![k] = generation[k] + 1] BY <2>4, <2>5
  <2> QED BY <2>1, <2>2, <2>3, <2>4, <2>5, <2>6, <2>7
<1> QED BY <1>1, <1>2, <1>3

(* The steps keep the types.                                                *)
LEMMA KeyTypes ==
  ASSUME KeysInvariant, NEW t \in KeyThreads, Key!Step(t)
  PROVE  Key!TypeOK'
<1>t. Key!TypeOK BY DEF KeysInvariant
<1>b. MaxUses \in Nat /\ UintMax \in Nat /\ Key!Null \in 0 .. MaxUses
  BY KeyBounds DEF Key!Bounds, Key!Null
<1>1. /\ key_pc' \in [KeyThreads -> KeyPlaces] /\ i' \in [KeyThreads -> 0 .. KeysMax]
      /\ seen' \in [KeyThreads -> 0 .. UintMax] /\ key_callback' \in [KeyThreads -> 0 .. MaxUses]
      /\ left' \in [KeyThreads -> 0 .. Iterations]
  BY <1>t, KeyLocals, KeyOthers
<1>2. thread_specific_data' \in
        [KeyThreads -> [Key!Keys -> [generation : 0 .. UintMax, ptr : 0 .. MaxUses]]]
  BY KeyData
<1>3. generation' \in [Key!Keys -> 0 .. UintMax] /\ use' \in [Key!Keys -> 0 .. MaxUses]
  <2>1. CASE UNCHANGED <<generation, use>> BY <1>t, <2>1 DEF Key!TypeOK
  <2>2. CASE ~UNCHANGED <<generation, use>>
    <3>1. PICK k \in Key!Keys, n \in 0 .. MaxUses, g \in 0 .. UintMax :
            generation' = [generation EXCEPT ![k] = g] /\ use' = [use EXCEPT ![k] = n]
      <4>1. i[t] \in Key!Keys BY <2>2, KeyRises
      <4>2. generation[i[t]] + 1 \in 0 .. UintMax
        BY <1>b, <1>t, <2>2, <4>1, KeyRises DEF Key!TypeOK
      <4>3. 0 \in 0 .. MaxUses /\ 1 .. MaxUses \subseteq 0 .. MaxUses BY <1>b
      <4>4. \E n \in 0 .. MaxUses : use' = [use EXCEPT ![i[t]] = n]
        BY <2>2, <4>3, KeyRises
      <4> QED BY <2>2, <4>1, <4>2, <4>4, KeyRises
    <3> QED BY <1>t, <3>1 DEF Key!TypeOK
  <2> QED BY <2>1, <2>2
<1>4. destruction_callback' \in [Key!Keys -> 0 .. MaxUses]
  <2>1. \/ UNCHANGED destruction_callback
        \/ destruction_callback' = [destruction_callback EXCEPT ![i[t]] = key_callback[t]]
        \/ destruction_callback' = [destruction_callback EXCEPT ![i[t]] = Key!Null]
    BY Zenon
    DEF Key!Step, Key!CreateCalled, Key!CreateReads, Key!NoKeyLeft, Key!CreateSwaps,
        Key!CreateLoses, Key!CreateReturns, Key!DeleteCalled, Key!SetCalled, Key!DeleteSwaps,
        Key!DeleteClears, Key!SetStores, Key!ExitCalled, Key!ReadDestructor, Key!SkipKey,
        Key!NextIteration, Key!CallDestructor, Key!shared
  <2> QED BY <1>b, <1>t, <2>1 DEF Key!TypeOK
<1>5. usable' \subseteq Key!Keys
  <2>1. key_pc[t] = "fill" => i[t] \in Key!Keys
    BY DEF KeysInvariant, Generations, AtKey
  <2>2. \/ UNCHANGED usable
        \/ \E k \in Key!Keys : usable' = usable \ {k}
        \/ key_pc[t] = "fill" /\ usable' = usable \cup {i[t]}
    BY Zenon
    DEF Key!Step, Key!CreateCalled, Key!CreateReads, Key!NoKeyLeft, Key!CreateSwaps,
        Key!CreateLoses, Key!CreateReturns, Key!DeleteCalled, Key!SetCalled, Key!DeleteSwaps,
        Key!DeleteClears, Key!SetStores, Key!ExitCalled, Key!ReadDestructor, Key!SkipKey,
        Key!NextIteration, Key!CallDestructor, Key!ghosts
  <2> QED BY <1>t, <2>1, <2>2 DEF Key!TypeOK
<1>6. uses' \in 0 .. MaxUses
  <2>1. UNCHANGED uses \/ (uses < MaxUses /\ uses' = uses + 1)
    BY Zenon
    DEF Key!Step, Key!CreateCalled, Key!CreateReads, Key!NoKeyLeft, Key!CreateSwaps,
        Key!CreateLoses, Key!CreateReturns, Key!DeleteCalled, Key!SetCalled, Key!DeleteSwaps,
        Key!DeleteClears, Key!SetStores, Key!ExitCalled, Key!ReadDestructor, Key!SkipKey,
        Key!NextIteration, Key!CallDestructor, Key!ghosts
  <2> QED BY <1>b, <1>t, <2>1 DEF Key!TypeOK
<1> QED BY <1>1, <1>2, <1>3, <1>4, <1>5, <1>6 DEF Key!TypeOK, KeyPlaces

(* The steps, by what they do to the key their thread is at: nothing,       *)
KeyQuiet(t) ==
  /\ key_pc[t] \notin {"fill", "unswap"} /\ key_pc'[t] \notin AtKey
  /\ key_pc'[t] = "exit" => left'[t] # 0
  /\ UNCHANGED <<generation, use, usable>>
  /\ \A k \in Key!Keys : destruction_callback'[k] \in {destruction_callback[k], Key!Null}

(* find it free,                                                            *)
KeyFound(t) ==
  /\ key_pc[t] = "create" /\ key_pc'[t] = "swap"
  /\ i[t] \in Key!Keys /\ i'[t] = i[t]
  /\ seen'[t] = generation[i[t]] /\ Key!Reusable(generation[i[t]])
  /\ UNCHANGED <<generation, use, usable, destruction_callback>>

(* take it and give it to the module,                                       *)
KeyTaken(t) == key_pc[t] = "swap" /\ key_pc'[t] = "fill" /\ ~UNCHANGED generation

KeyGiven(t) ==
  /\ key_pc[t] = "fill" /\ key_pc'[t] = Key!Free /\ i[t] \in Key!Keys
  /\ destruction_callback' = [destruction_callback EXCEPT ![i[t]] = key_callback[t]]
  /\ usable' = usable \cup {i[t]} /\ UNCHANGED <<generation, use>>

(* take it from the module and free it,                                     *)
KeyReturned(t) ==
  /\ key_pc[t] = Key!Free /\ key_pc'[t] = "unswap" /\ i'[t] \in usable
  /\ usable' = usable \ {i'[t]} /\ seen'[t] = generation[i'[t]]
  /\ UNCHANGED <<generation, use, destruction_callback>>

KeyFreed(t) == key_pc[t] = "unswap" /\ key_pc'[t] = "clear" /\ ~UNCHANGED generation

(* read it for a value, or its destructor.                                  *)
KeyRead(t) ==
  /\ key_pc[t] = Key!Free /\ key_pc'[t] = "store" /\ i'[t] \in usable
  /\ seen'[t] = generation[i'[t]] /\ key_callback'[t] = use[i'[t]]
  /\ UNCHANGED <<generation, use, usable, destruction_callback>>

DestructorRead(t) ==
  /\ key_pc[t] = "exit" /\ key_pc'[t] = "destroy" /\ i[t] \in Key!Keys /\ i'[t] = i[t]
  /\ key_callback'[t] = destruction_callback[i[t]]
  /\ left'[t] # 0
  /\ UNCHANGED <<generation, use, usable, destruction_callback>>

(* Every step is one of these.                                              *)
LEMMA KeyMoves ==
  ASSUME KeysInvariant, NEW t \in KeyThreads, Key!Step(t)
  PROVE  \/ KeyQuiet(t) \/ KeyFound(t) \/ KeyTaken(t) \/ KeyGiven(t) \/ KeyReturned(t)
         \/ KeyFreed(t) \/ KeyRead(t) \/ DestructorRead(t)
<1>t. /\ key_pc \in [KeyThreads -> KeyPlaces] /\ i \in [KeyThreads -> 0 .. KeysMax]
      /\ seen \in [KeyThreads -> 0 .. UintMax] /\ key_callback \in [KeyThreads -> 0 .. MaxUses]
      /\ left \in [KeyThreads -> 0 .. Iterations]
      /\ generation \in [Key!Keys -> 0 .. UintMax] /\ usable \subseteq Key!Keys
      /\ destruction_callback \in [Key!Keys -> 0 .. MaxUses]
  BY DEF KeysInvariant, Key!TypeOK, KeyPlaces
<1>i. /\ \A k \in usable : Key!KeyAllocated(generation[k])
      /\ key_pc[t] \in {"exit", "destroy"} => left[t] # 0
      /\ key_pc[t] \in AtKey => i[t] \in Key!Keys
      /\ KeysMax \in Nat /\ Iterations \in Nat \ {0}
  BY KeyBounds DEF KeysInvariant, KeysTaken, Generations, Key!Bounds
<1>a. /\ Key!Free \notin AtKey /\ "create" \notin AtKey /\ "gone" \notin AtKey
      /\ "exit" \notin AtKey /\ Key!Free # "exit"
      /\ {"swap", "fill", "unswap", "clear", "store", "destroy"} = AtKey
      /\ Key!Free \notin {"fill", "unswap"}
  BY DEF AtKey, Key!Free
<1> USE DEF KeyQuiet, Key!Goto, Key!shared, Key!ghosts
<1>1. ASSUME Key!CreateCalled(t) \/ Key!NoKeyLeft(t) \/ Key!CreateLoses(t) \/ Key!SetStores(t)
      PROVE  KeyQuiet(t)
  <2>1. /\ key_pc[t] \notin {"fill", "unswap"}
        /\ \/ key_pc' = [key_pc EXCEPT ![t] = "create"]
           \/ key_pc' = [key_pc EXCEPT ![t] = Key!Free]
        /\ UNCHANGED <<generation, use, usable, destruction_callback>>
    BY <1>1, <1>a DEF Key!CreateCalled, Key!NoKeyLeft, Key!CreateLoses, Key!SetStores
  <2>2. key_pc'[t] \in {"create", Key!Free} BY <1>t, <2>1
  <2> QED BY <1>a, <2>1, <2>2
<1>s. ASSUME Key!SkipKey(t) PROVE KeyQuiet(t)
  <2>1. /\ key_pc[t] = "destroy" /\ key_pc' = [key_pc EXCEPT ![t] = "exit"]
        /\ UNCHANGED <<generation, use, usable, destruction_callback, left>>
    BY <1>s DEF Key!SkipKey
  <2> QED BY <1>t, <1>i, <1>a, <2>1
<1>2. ASSUME Key!CreateReads(t), ~Key!Reusable(generation[i[t]]) PROVE KeyQuiet(t)
  BY <1>2, <1>a DEF Key!CreateReads
<1>3. ASSUME Key!CreateReads(t), Key!Reusable(generation[i[t]])
      PROVE  KeyFound(t)
  BY <1>t, <1>i, <1>3 DEF KeyFound, Key!CreateReads, Key!Read, Key!Keys
<1>4. ASSUME Key!CreateSwaps(t)
      PROVE  KeyTaken(t)
  <2>1. key_pc[t] = "swap" /\ key_pc'[t] = "fill" BY <1>t, <1>4 DEF Key!CreateSwaps
  <2>2. use' = [use EXCEPT ![i[t]] = uses + 1] /\ generation' = [generation EXCEPT ![i[t]] = Key!Increment(@)]
    BY <1>4 DEF Key!CreateSwaps
  <2>3. i[t] \in Key!Keys /\ generation[i[t]] \in Nat /\ generation[i[t]] < UintMax
    BY <1>t, <1>i, <1>a, <2>1 DEF KeysInvariant, Generations
  <2>4. Key!Increment(generation[i[t]]) = generation[i[t]] + 1 BY <2>3, GenerationSteps
  <2> QED BY <1>t, <2>1, <2>2, <2>3, <2>4 DEF KeyTaken
<1>5. ASSUME Key!CreateReturns(t)
      PROVE  KeyGiven(t)
  BY <1>t, <1>i, <1>a, <1>5 DEF KeyGiven, Key!CreateReturns
<1>6. ASSUME NEW k \in Key!Keys, Key!DeleteCalled(t, k)
      PROVE  KeyReturned(t)
  <2>1. k \in usable /\ Key!KeyAllocated(generation[k]) BY <1>i, <1>6 DEF Key!DeleteCalled
  <2>2. i'[t] = k BY <1>t, <1>6 DEF Key!DeleteCalled
  <2> QED BY <1>t, <1>6, <2>1, <2>2 DEF KeyReturned, Key!DeleteCalled, Key!Read
<1>7. ASSUME Key!DeleteSwaps(t)
      PROVE  KeyFreed(t)
  <2>1. key_pc[t] = "unswap" BY <1>7 DEF Key!DeleteSwaps
  <2>2. generation[i[t]] = seen[t] BY <2>1 DEF KeysInvariant, KeysTaken
  <2>3. key_pc'[t] = "clear" /\ generation' = [generation EXCEPT ![i[t]] = Key!Increment(@)]
    BY <1>t, <1>7, <2>2 DEF Key!DeleteSwaps
  <2>4. i[t] \in Key!Keys /\ generation[i[t]] \in Nat /\ generation[i[t]] < UintMax
    BY <1>t, <1>i, <1>a, <2>1 DEF KeysInvariant, Generations
  <2>5. Key!Increment(generation[i[t]]) = generation[i[t]] + 1 BY <2>4, GenerationSteps
  <2> QED BY <1>t, <2>1, <2>3, <2>4, <2>5 DEF KeyFreed
<1>8. ASSUME Key!DeleteClears(t) PROVE KeyQuiet(t)
  <2>1. /\ key_pc[t] = "clear" /\ key_pc' = [key_pc EXCEPT ![t] = Key!Free]
        /\ destruction_callback' = [destruction_callback EXCEPT ![i[t]] = Key!Null]
        /\ UNCHANGED <<generation, use, usable>>
    BY <1>8 DEF Key!DeleteClears
  <2>2. key_pc'[t] \notin AtKey /\ key_pc'[t] # "exit" BY <1>t, <1>a, <2>1
  <2> QED BY <1>t, <2>1, <2>2
<1>9. ASSUME NEW k \in Key!Keys, Key!SetCalled(t, k)
      PROVE  KeyRead(t)
  <2>1. k \in usable /\ Key!KeyAllocated(generation[k]) BY <1>i, <1>9 DEF Key!SetCalled
  <2>2. i'[t] = k BY <1>t, <1>9 DEF Key!SetCalled
  <2> QED BY <1>t, <1>9, <2>1, <2>2 DEF KeyRead, Key!SetCalled, Key!Read
<1>10. ASSUME Key!ExitCalled(t) PROVE KeyQuiet(t)
  BY <1>t, <1>i, <1>a, <1>10 DEF Key!ExitCalled
<1>11. ASSUME Key!ReadDestructor(t)
       PROVE  DestructorRead(t)
  BY <1>t, <1>i, <1>11 DEF DestructorRead, Key!ReadDestructor, Key!Keys
<1>12. ASSUME Key!NextIteration(t) PROVE KeyQuiet(t)
  <2>1. /\ key_pc[t] = "exit" /\ UNCHANGED <<generation, use, usable, destruction_callback>>
        /\ left' = [left EXCEPT ![t] = @ - 1]
        /\ \/ left[t] > 1 /\ key_pc' = key_pc
           \/ key_pc' = [key_pc EXCEPT ![t] = "gone"]
    BY <1>12 DEF Key!NextIteration
  <2>2. left[t] > 1 => left'[t] # 0 BY <1>t, <1>i, <2>1
  <2> QED BY <1>t, <1>a, <2>1, <2>2
<1>13. ASSUME NEW again \in BOOLEAN, Key!CallDestructor(t, again) PROVE KeyQuiet(t)
  <2>1. /\ key_pc[t] = "destroy" /\ UNCHANGED <<generation, use, usable, destruction_callback>>
        /\ left' = left /\ key_pc' = [key_pc EXCEPT ![t] = "exit"]
    BY <1>13 DEF Key!CallDestructor
  <2> QED BY <1>t, <1>i, <1>a, <2>1
<1> HIDE DEF KeyQuiet
<1>14. \/ Key!CreateCalled(t) \/ Key!NoKeyLeft(t) \/ Key!CreateLoses(t) \/ Key!SetStores(t)
       \/ Key!SkipKey(t) \/ Key!DeleteClears(t) \/ Key!ExitCalled(t) \/ Key!NextIteration(t)
       \/ \E again \in BOOLEAN : Key!CallDestructor(t, again)
       \/ Key!CreateReads(t) \/ Key!CreateSwaps(t) \/ Key!CreateReturns(t) \/ Key!DeleteSwaps(t)
       \/ \E k \in Key!Keys : Key!DeleteCalled(t, k) \/ Key!SetCalled(t, k)
       \/ Key!ReadDestructor(t)
  BY Zenon DEF Key!Step
<1>15. \/ KeyQuiet(t) \/ (Key!CreateReads(t) /\ Key!Reusable(generation[i[t]]))
       \/ Key!CreateSwaps(t) \/ Key!CreateReturns(t) \/ Key!DeleteSwaps(t)
       \/ \E k \in Key!Keys : Key!DeleteCalled(t, k) \/ Key!SetCalled(t, k)
       \/ Key!ReadDestructor(t)
  <2>1. CASE Key!CreateReads(t) BY <1>2, <2>1
  <2>2. CASE ~Key!CreateReads(t)
    BY <1>1, <1>s, <1>8, <1>10, <1>12, <1>13, <1>14, <2>2, Zenon
  <2> QED BY <2>1, <2>2, Zenon
<1> QED BY <1>3, <1>4, <1>5, <1>6, <1>7, <1>9, <1>11, <1>15, Zenon

(* Taken or freed, the key's generation and use change, and nobody else's.  *)
LEMMA KeyChanges ==
  ASSUME KeysInvariant, NEW t \in KeyThreads, Key!Step(t), KeyTaken(t) \/ KeyFreed(t)
  PROVE  /\ i[t] \in Key!Keys /\ i'[t] = i[t] /\ UNCHANGED <<destruction_callback, usable>>
         /\ generation'[i[t]] = generation[i[t]] + 1 /\ generation'[i[t]] < UintMax
         /\ \A k \in Key!Keys : k # i[t] => generation'[k] = generation[k] /\ use'[k] = use[k]
         /\ KeyTaken(t) => /\ ~Key!KeyAllocated(generation[i[t]])
                           /\ Key!KeyAllocated(generation'[i[t]])
                           /\ use'[i[t]] = key_callback'[t] /\ use'[i[t]] # 0
         /\ KeyFreed(t) => /\ Key!KeyAllocated(generation[i[t]])
                           /\ ~Key!KeyAllocated(generation'[i[t]])
<1>1. ~UNCHANGED <<generation, use>> BY DEF KeyTaken, KeyFreed
<1>2. PICK k : k = i[t] OBVIOUS
<1>3. /\ generation \in [Key!Keys -> 0 .. UintMax] /\ use \in [Key!Keys -> 0 .. MaxUses]
      /\ MaxUses \in Nat
  BY KeyBounds DEF KeysInvariant, Key!TypeOK, Key!Bounds
<1>4. /\ k \in Key!Keys /\ generation' = [generation EXCEPT ![k] = generation[k] + 1]
      /\ generation[k] + 1 < UintMax /\ i' = i /\ UNCHANGED <<destruction_callback, usable>>
  BY <1>1, <1>2, KeyRises
<1>5. CASE KeyTaken(t)
  <2>1. /\ ~Key!KeyAllocated(generation[k]) /\ Key!KeyAllocated(generation[k] + 1)
        /\ \E n \in 1 .. MaxUses : use' = [use EXCEPT ![k] = n] /\ key_callback'[t] = n
    BY <1>1, <1>2, <1>5, KeyRises DEF KeyTaken
  <2>2. ~KeyFreed(t) BY <1>5 DEF KeyTaken, KeyFreed
  <2> QED BY <1>2, <1>3, <1>4, <1>5, <2>1, <2>2
<1>6. CASE KeyFreed(t)
  <2>1. /\ Key!KeyAllocated(generation[k]) /\ ~Key!KeyAllocated(generation[k] + 1)
        /\ use' = [use EXCEPT ![k] = 0]
    BY <1>1, <1>2, <1>6, KeyRises DEF KeyFreed
  <2>2. ~KeyTaken(t) BY <1>6 DEF KeyTaken, KeyFreed
  <2> QED BY <1>2, <1>3, <1>4, <1>6, <2>1, <2>2
<1> QED BY <1>5, <1>6

(* The generations rise.                                                    *)
LEMMA KeyGenerations ==
  ASSUME KeysInvariant, NEW t \in KeyThreads, Key!Step(t)
  PROVE  Generations'
<1>t. /\ Key!TypeOK /\ Generations /\ Key!TypeOK' BY KeyTypes DEF KeysInvariant
<1>o. \A u \in KeyThreads \ {t} :
        key_pc'[u] = key_pc[u] /\ i'[u] = i[u] /\ seen'[u] = seen[u] /\ left'[u] = left[u]
  BY <1>t, KeyLocals, KeyOthers
<1>m. \/ KeyQuiet(t) \/ KeyFound(t) \/ KeyTaken(t) \/ KeyGiven(t) \/ KeyReturned(t)
      \/ KeyFreed(t) \/ KeyRead(t) \/ DestructorRead(t)
  BY KeyMoves
<1>1. \A k \in Key!Keys : /\ generation[k] \in Nat /\ generation'[k] \in Nat
                          /\ generation[k] <= generation'[k] /\ generation'[k] < UintMax
  <2>1. \A k \in Key!Keys : /\ generation[k] \in Nat /\ generation'[k] \in Nat
                            /\ generation[k] < UintMax
    BY <1>t, KeyBounds DEF Key!TypeOK, Key!Bounds, Generations
  <2>2. CASE KeyTaken(t) \/ KeyFreed(t)
    <3>1. /\ i[t] \in Key!Keys
          /\ generation'[i[t]] = generation[i[t]] + 1 /\ generation'[i[t]] < UintMax
          /\ \A k \in Key!Keys : k # i[t] => generation'[k] = generation[k]
      BY <2>2, KeyChanges
    <3> QED BY <2>1, <3>1
  <2>3. CASE UNCHANGED generation BY <2>1, <2>3
  <2> QED
    BY <1>m, <2>2, <2>3 DEF KeyQuiet, KeyFound, KeyGiven, KeyReturned, KeyRead, DestructorRead
<1>2. /\ key_pc'[t] \in AtKey => i'[t] \in Key!Keys
      /\ key_pc'[t] \in {"swap", "unswap", "store"} => seen'[t] = generation'[i'[t]]
      /\ key_pc'[t] = "swap" => Key!Reusable(seen'[t])
      /\ key_pc'[t] \in {"exit", "destroy"} => left'[t] # 0
  <2>1. usable \subseteq Key!Keys BY <1>t DEF Key!TypeOK
  <2>2. CASE KeyQuiet(t) BY <2>2 DEF KeyQuiet, AtKey
  <2>3. CASE KeyFound(t) BY <2>3 DEF KeyFound
  <2>4. CASE KeyTaken(t) \/ KeyFreed(t) BY <2>4, KeyChanges DEF KeyTaken, KeyFreed
  <2>5. CASE KeyGiven(t) BY <2>5 DEF KeyGiven, AtKey, Key!Free
  <2>6. CASE KeyReturned(t) \/ KeyRead(t) BY <2>1, <2>6 DEF KeyReturned, KeyRead
  <2>7. CASE DestructorRead(t) BY <2>7 DEF DestructorRead
  <2> QED BY <1>m, <2>2, <2>3, <2>4, <2>5, <2>6, <2>7
<1>3. \A u \in KeyThreads, k \in Key!Keys :
        thread_specific_data'[u][k].generation <= generation'[k]
  <2>1. \A u \in KeyThreads, k \in Key!Keys :
          /\ thread_specific_data[u][k].generation \in Nat
          /\ thread_specific_data[u][k].generation <= generation'[k]
    BY <1>t, <1>1, KeyBounds DEF Key!TypeOK, Key!Bounds, Generations
  <2>2. CASE UNCHANGED thread_specific_data BY <2>1, <2>2
  <2>3. CASE key_pc[t] = "store"
    <3>1. seen[t] <= generation[i[t]] /\ seen[t] \in Nat
      BY <1>t, <2>3, KeyBounds DEF Key!TypeOK, Key!Bounds, Generations
    <3>2. CASE i[t] \in Key!Keys
          /\ thread_specific_data'[t][i[t]] = [generation |-> seen[t], ptr |-> key_callback[t]]
          /\ \A u \in KeyThreads, k \in Key!Keys :
               u # t \/ k # i[t] => thread_specific_data'[u][k] = thread_specific_data[u][k]
      <4>1. thread_specific_data'[t][i[t]].generation <= generation'[i[t]] BY <1>1, <3>1, <3>2
      <4> QED BY <2>1, <3>2, <4>1
    <3> QED BY <2>2, <2>3, <3>2, KeyData
  <2>4. CASE key_pc[t] # "store"
    <3>1. CASE i[t] \in Key!Keys
          /\ thread_specific_data'[t][i[t]] =
               [generation |-> thread_specific_data[t][i[t]].generation, ptr |-> Key!Null]
          /\ \A u \in KeyThreads, k \in Key!Keys :
               u # t \/ k # i[t] => thread_specific_data'[u][k] = thread_specific_data[u][k]
      <4>1. thread_specific_data'[t][i[t]].generation <= generation'[i[t]] BY <2>1, <3>1
      <4> QED BY <2>1, <3>1, <4>1
    <3> QED BY <2>2, <2>4, <3>1, KeyData
  <2> QED BY <2>3, <2>4
<1>4. \A u \in KeyThreads : key_pc'[u] \in AtKey => i'[u] \in Key!Keys
  BY <1>t, <1>o, <1>2 DEF Generations
<1>5. \A u \in KeyThreads : /\ key_pc'[u] = "swap" => Key!Reusable(seen'[u])
                            /\ key_pc'[u] \in {"exit", "destroy"} => left'[u] # 0
  BY <1>t, <1>o, <1>2 DEF Generations
<1>6. ASSUME NEW u \in KeyThreads, key_pc'[u] \in {"swap", "unswap", "store"}
      PROVE  seen'[u] <= generation'[i'[u]]
  <2>1. i'[u] \in Key!Keys BY <1>4, <1>6 DEF AtKey
  <2>2. seen'[u] \in Nat BY <1>t, KeyBounds DEF Key!TypeOK, Key!Bounds
  <2>3. CASE u = t BY <1>1, <1>2, <1>6, <2>1, <2>3
  <2>4. CASE u # t
    <3>1. seen[u] <= generation[i[u]] BY <1>t, <1>o, <1>6, <2>4 DEF Generations
    <3> QED BY <1>o, <1>1, <2>1, <2>2, <2>4, <3>1
  <2> QED BY <2>3, <2>4
<1>7. (\A k \in Key!Keys : generation[k] < UintMax)' BY <1>1
<1> QED BY <1>3, <1>4, <1>5, <1>6, <1>7 DEF Generations

(* No key is taken twice.                                                   *)
LEMMA KeysStayTaken ==
  ASSUME KeysInvariant, NEW t \in KeyThreads, Key!Step(t)
  PROVE  KeysTaken'
<1>t. Key!TypeOK /\ Generations /\ KeysTaken BY DEF KeysInvariant
<1>o. \A u \in KeyThreads \ {t} :
        /\ key_pc'[u] = key_pc[u] /\ i'[u] = i[u] /\ seen'[u] = seen[u]
        /\ key_callback'[u] = key_callback[u]
  BY <1>t, KeyLocals, KeyOthers
<1>i. \A u \in KeyThreads : Taking(u) => i[u] \in Key!Keys
  BY <1>t DEF Generations, AtKey, Taking
<1>k. \A k \in usable : k \in Key!Keys BY <1>t DEF Key!TypeOK
<1>1. CASE KeyQuiet(t) \/ KeyFound(t) \/ KeyRead(t) \/ DestructorRead(t)
  <2>1. /\ ~Taking(t)' /\ UNCHANGED <<generation, use, usable>>
    BY <1>1 DEF KeyQuiet, KeyFound, KeyRead, DestructorRead, Taking, AtKey
  <2>2. \A u \in KeyThreads : Taking(u)' => u # t /\ Taking(u) BY <1>o, <2>1 DEF Taking
  <2> QED BY <1>t, <1>o, <2>1, <2>2 DEF KeysTaken, Taking
<1>2. CASE KeyTaken(t)
  <2>1. PICK k : k = i[t] OBVIOUS
  <2>2. /\ k \in Key!Keys /\ i'[t] = k /\ usable' = usable
        /\ \A j \in Key!Keys : j # k => generation'[j] = generation[j] /\ use'[j] = use[j]
        /\ ~Key!KeyAllocated(generation[k]) /\ Key!KeyAllocated(generation'[k])
        /\ use'[k] = key_callback'[t] /\ use'[k] # 0
    BY <1>2, <2>1, KeyChanges
  <2>3. k \notin usable /\ \A u \in KeyThreads : Taking(u) => i[u] # k
    BY <1>t, <2>2 DEF KeysTaken
  <2>4. key_pc'[t] = "fill" BY <1>2 DEF KeyTaken
  <2> HIDE <2>1
  <2>5. \A u \in KeyThreads : Taking(u)' /\ u # t =>
          /\ Taking(u) /\ i'[u] = i[u] /\ i[u] \in Key!Keys /\ i[u] # k
          /\ seen'[u] = seen[u] /\ key_callback'[u] = key_callback[u]
    BY <1>o, <1>i, <2>3 DEF Taking
  <2>6. \A j \in usable' : Key!KeyAllocated(generation'[j]) /\ use'[j] # 0
    BY <1>t, <1>k, <2>2, <2>3 DEF KeysTaken
  <2>7. \A u \in KeyThreads : Taking(u)' =>
          i'[u] \notin usable' /\ Key!KeyAllocated(generation'[i'[u]]) /\ use'[i'[u]] # 0
    BY <1>t, <2>2, <2>3, <2>5 DEF KeysTaken
  <2>8. \A u, v \in KeyThreads : Taking(u)' /\ Taking(v)' /\ i'[u] = i'[v] => u = v
    BY <1>t, <2>2, <2>5 DEF KeysTaken
  <2>9. \A u \in KeyThreads : /\ key_pc'[u] = "fill" => use'[i'[u]] = key_callback'[u]
                              /\ key_pc'[u] = "unswap" => seen'[u] = generation'[i'[u]]
    BY <1>t, <1>o, <2>2, <2>4, <2>5 DEF KeysTaken, Taking
  <2> QED BY <2>6, <2>7, <2>8, <2>9 DEF KeysTaken, Taking
<1>3. CASE KeyGiven(t)
  <2>1. PICK k : k = i[t] OBVIOUS
  <2>2. Taking(t) /\ ~Taking(t)' BY <1>3 DEF KeyGiven, Taking, Key!Free
  <2>3. /\ usable' = usable \cup {k} /\ UNCHANGED <<generation, use>>
        /\ Key!KeyAllocated(generation[k]) /\ use[k] # 0
    BY <1>t, <1>3, <2>1, <2>2 DEF KeyGiven, KeysTaken
  <2>4. \A u \in KeyThreads : Taking(u)' => Taking(u) /\ u # t /\ i'[u] = i[u] /\ i[u] # k
    BY <1>t, <1>o, <2>1, <2>2 DEF KeysTaken, Taking
  <2>5. \A j \in usable' : Key!KeyAllocated(generation'[j]) /\ use'[j] # 0
    BY <1>t, <2>3 DEF KeysTaken
  <2>6. \A u \in KeyThreads : Taking(u)' =>
          i'[u] \notin usable' /\ Key!KeyAllocated(generation'[i'[u]]) /\ use'[i'[u]] # 0
    BY <1>t, <2>3, <2>4 DEF KeysTaken
  <2>7. \A u, v \in KeyThreads : Taking(u)' /\ Taking(v)' /\ i'[u] = i'[v] => u = v
    BY <1>t, <2>4 DEF KeysTaken
  <2>8. \A u \in KeyThreads : /\ key_pc'[u] = "fill" => use'[i'[u]] = key_callback'[u]
                              /\ key_pc'[u] = "unswap" => seen'[u] = generation'[i'[u]]
    BY <1>t, <1>o, <2>3, <2>4 DEF KeysTaken, Taking
  <2> QED BY <2>5, <2>6, <2>7, <2>8 DEF KeysTaken, Taking
<1>4. CASE KeyReturned(t)
  <2>1. PICK k : k = i'[t] OBVIOUS
  <2>2. /\ k \in usable /\ usable' = usable \ {k} /\ UNCHANGED <<generation, use>>
        /\ key_pc'[t] = "unswap" /\ seen'[t] = generation[k] /\ ~Taking(t)
    BY <1>4, <2>1 DEF KeyReturned, Taking, Key!Free
  <2>3. Key!KeyAllocated(generation[k]) /\ use[k] # 0 BY <1>t, <2>2 DEF KeysTaken
  <2>4. \A u \in KeyThreads : Taking(u)' /\ u # t => Taking(u) /\ i'[u] = i[u] /\ i[u] # k
    BY <1>t, <1>o, <2>2 DEF KeysTaken, Taking
  <2>5. \A j \in usable' : Key!KeyAllocated(generation'[j]) /\ use'[j] # 0
    BY <1>t, <2>2 DEF KeysTaken
  <2>6. \A u \in KeyThreads : Taking(u)' =>
          i'[u] \notin usable' /\ Key!KeyAllocated(generation'[i'[u]]) /\ use'[i'[u]] # 0
    BY <1>t, <2>1, <2>2, <2>3, <2>4 DEF KeysTaken
  <2>7. \A u, v \in KeyThreads : Taking(u)' /\ Taking(v)' /\ i'[u] = i'[v] => u = v
    BY <1>t, <2>1, <2>4 DEF KeysTaken
  <2>8. \A u \in KeyThreads : /\ key_pc'[u] = "fill" => use'[i'[u]] = key_callback'[u]
                              /\ key_pc'[u] = "unswap" => seen'[u] = generation'[i'[u]]
    BY <1>t, <1>o, <2>1, <2>2, <2>4 DEF KeysTaken, Taking
  <2> QED BY <2>5, <2>6, <2>7, <2>8 DEF KeysTaken, Taking
<1>5. CASE KeyFreed(t)
  <2>1. PICK k : k = i[t] OBVIOUS
  <2>2. /\ k \in Key!Keys /\ usable' = usable
        /\ \A j \in Key!Keys : j # k => generation'[j] = generation[j] /\ use'[j] = use[j]
    BY <1>5, <2>1, KeyChanges
  <2>3. Taking(t) /\ ~Taking(t)' BY <1>5 DEF KeyFreed, Taking
  <2>4. k \notin usable BY <1>t, <2>1, <2>3 DEF KeysTaken
  <2>5. \A u \in KeyThreads : Taking(u)' =>
          /\ Taking(u) /\ u # t /\ i'[u] = i[u] /\ i[u] \in Key!Keys /\ i[u] # k
          /\ seen'[u] = seen[u] /\ key_callback'[u] = key_callback[u]
    BY <1>t, <1>o, <1>i, <2>1, <2>3 DEF KeysTaken, Taking
  <2>6. \A j \in usable' : Key!KeyAllocated(generation'[j]) /\ use'[j] # 0
    BY <1>t, <1>k, <2>2, <2>4 DEF KeysTaken
  <2>7. \A u \in KeyThreads : Taking(u)' =>
          i'[u] \notin usable' /\ Key!KeyAllocated(generation'[i'[u]]) /\ use'[i'[u]] # 0
    BY <1>t, <2>2, <2>5 DEF KeysTaken
  <2>8. \A u, v \in KeyThreads : Taking(u)' /\ Taking(v)' /\ i'[u] = i'[v] => u = v
    BY <1>t, <2>5 DEF KeysTaken
  <2>9. \A u \in KeyThreads : /\ key_pc'[u] = "fill" => use'[i'[u]] = key_callback'[u]
                              /\ key_pc'[u] = "unswap" => seen'[u] = generation'[i'[u]]
    BY <1>t, <1>o, <2>2, <2>3, <2>5 DEF KeysTaken, Taking
  <2> QED BY <2>6, <2>7, <2>8, <2>9 DEF KeysTaken, Taking
<1> QED BY <1>1, <1>2, <1>3, <1>4, <1>5, KeyMoves, Zenon

(* Values stay with the use of the key they were stored under.              *)
LEMMA ValuesStayCurrent ==
  ASSUME KeysInvariant, NEW t \in KeyThreads, Key!Step(t)
  PROVE  ValuesCurrent'
<1>t. Key!TypeOK /\ Generations /\ KeysTaken /\ ValuesCurrent BY DEF KeysInvariant
<1>o. \A u \in KeyThreads \ {t} :
        /\ key_pc'[u] = key_pc[u] /\ i'[u] = i[u] /\ seen'[u] = seen[u]
        /\ key_callback'[u] = key_callback[u]
  BY <1>t, KeyLocals, KeyOthers
<1>g. \A k \in Key!Keys : generation[k] \in Nat
  BY <1>t, KeyBounds DEF Key!TypeOK, Key!Bounds
<1>d. key_pc[t] \notin {"store", "destroy"} => UNCHANGED thread_specific_data BY KeyData
<1>1. CASE KeyQuiet(t)
  <2>1. /\ key_pc'[t] \notin {"fill", "store", "destroy"} /\ key_pc[t] # "fill"
        /\ UNCHANGED <<generation, use>>
        /\ \A k \in Key!Keys : destruction_callback'[k] \in {destruction_callback[k], Key!Null}
    BY <1>1 DEF KeyQuiet, AtKey
  <2>2. \A k : Filled(k)' <=> Filled(k) BY <1>o, <2>1 DEF Filled
  <2>3. (\A k \in Key!Keys : Key!KeyAllocated(generation[k]) /\ Filled(k) =>
           destruction_callback[k] \in {Key!Null, use[k]})'
    BY <1>t, <2>1, <2>2 DEF ValuesCurrent
  <2>4. ASSUME NEW u \in KeyThreads, NEW k \in Key!Keys,
               thread_specific_data'[u][k].ptr # Key!Null,
               thread_specific_data'[u][k].generation = generation[k]
        PROVE  /\ Key!KeyAllocated(generation[k]) /\ Filled(k)
               /\ thread_specific_data'[u][k].ptr = use[k]
               /\ u # t /\ key_pc[u] = "destroy" /\ i[u] = k => key_callback[u] \in {Key!Null, use[k]}
    <3>1. CASE thread_specific_data'[u][k] = thread_specific_data[u][k]
      BY <1>t, <2>4, <3>1 DEF ValuesCurrent
    <3>2. CASE thread_specific_data'[u][k] # thread_specific_data[u][k]
      <4>1. u = t /\ k = i[t] /\ key_pc[t] = "store"
            /\ thread_specific_data'[u][k] = [generation |-> seen[t], ptr |-> key_callback[t]]
        <5>1. CASE key_pc[t] = "destroy"
          <6>1. i[t] \in Key!Keys BY <5>1, <1>t DEF Generations, AtKey
          <6>2. CASE thread_specific_data'[t][i[t]] =
                       [generation |-> thread_specific_data[t][i[t]].generation, ptr |-> Key!Null]
                /\ \A v \in KeyThreads, j \in Key!Keys :
                     v # t \/ j # i[t] => thread_specific_data'[v][j] = thread_specific_data[v][j]
            <7>1. thread_specific_data'[t][i[t]].ptr = Key!Null BY <6>2
            <7>2. u = t /\ k = i[t] BY <3>2, <6>2
            <7> QED BY <2>4, <7>1, <7>2
          <6> QED BY <3>2, <5>1, <6>2, KeyData
        <5>2. CASE key_pc[t] # "destroy" BY <3>2, <5>2, KeyData
        <5> QED BY <5>1, <5>2
      <4> QED BY <1>t, <2>4, <4>1 DEF ValuesCurrent
    <3> QED BY <3>1, <3>2
  <2>5. (\A u \in KeyThreads, k \in Key!Keys :
          thread_specific_data[u][k].ptr # Key!Null
            /\ thread_specific_data[u][k].generation = generation[k] =>
          /\ Key!KeyAllocated(generation[k]) /\ Filled(k)
          /\ thread_specific_data[u][k].ptr = use[k]
          /\ key_pc[u] = "destroy" /\ i[u] = k => key_callback[u] \in {Key!Null, use[k]})'
    BY <1>o, <2>1, <2>2, <2>4
  <2>6. (\A u \in KeyThreads : key_pc[u] = "store" =>
          /\ Key!KeyAllocated(seen[u])
          /\ seen[u] = generation[i[u]] => Filled(i[u]) /\ key_callback[u] = use[i[u]])'
    BY <1>t, <1>o, <2>1, <2>2 DEF ValuesCurrent
  <2> QED BY <2>3, <2>5, <2>6 DEF ValuesCurrent
<1>2. CASE KeyTaken(t) \/ KeyFreed(t)
  <2>1. PICK k : k = i[t] OBVIOUS
  <2>2. /\ k \in Key!Keys /\ i'[t] = k /\ UNCHANGED destruction_callback
        /\ generation'[k] = generation[k] + 1
        /\ \A j \in Key!Keys : j # k => generation'[j] = generation[j] /\ use'[j] = use[j]
        /\ key_pc'[t] = "fill" \/ ~Key!KeyAllocated(generation'[k])
        /\ key_pc[t] \notin {"store", "destroy", "fill"}
        /\ key_pc'[t] \notin {"store", "destroy"}
    BY <1>2, <2>1, KeyChanges DEF KeyTaken, KeyFreed
  <2>3. UNCHANGED thread_specific_data BY <1>d, <2>2
  <2> HIDE <2>1
  <2>4. /\ \A j : Filled(j)' => Filled(j)
        /\ \A j : j # k /\ Filled(j) => Filled(j)'
        /\ key_pc'[t] = "fill" => ~Filled(k)'
    BY <1>o, <2>2 DEF Filled
  <2>5. (\A j \in Key!Keys : Key!KeyAllocated(generation[j]) /\ Filled(j) =>
           destruction_callback[j] \in {Key!Null, use[j]})'
    BY <1>t, <2>2, <2>4 DEF ValuesCurrent
  <2>6. \A u \in KeyThreads : thread_specific_data[u][k].generation # generation'[k]
    <3> SUFFICES ASSUME NEW u \in KeyThreads
                 PROVE  thread_specific_data[u][k].generation # generation'[k]
      OBVIOUS
    <3>1. thread_specific_data[u][k].generation <= generation[k] BY <1>t, <2>2 DEF Generations
    <3>2. thread_specific_data[u][k].generation \in Nat
      BY <1>t, <2>2, KeyBounds DEF Key!TypeOK, Key!Bounds
    <3> QED BY <1>g, <2>2, <3>1, <3>2
  <2>7. (\A u \in KeyThreads, j \in Key!Keys :
          thread_specific_data[u][j].ptr # Key!Null
            /\ thread_specific_data[u][j].generation = generation[j] =>
          /\ Key!KeyAllocated(generation[j]) /\ Filled(j)
          /\ thread_specific_data[u][j].ptr = use[j]
          /\ key_pc[u] = "destroy" /\ i[u] = j => key_callback[u] \in {Key!Null, use[j]})'
    BY <1>t, <1>o, <2>2, <2>3, <2>4, <2>6 DEF ValuesCurrent
  <2>8. ASSUME NEW u \in KeyThreads, key_pc'[u] = "store"
        PROVE  /\ Key!KeyAllocated(seen'[u])
               /\ seen'[u] = generation'[i'[u]] =>
                    Filled(i[u])' /\ key_callback'[u] = use'[i'[u]] /\ i'[u] = i[u]
    <3>1. u # t /\ key_pc[u] = "store" /\ i'[u] = i[u] /\ seen'[u] = seen[u]
          /\ key_callback'[u] = key_callback[u]
      BY <1>o, <2>2, <2>8
    <3>2. i[u] \in Key!Keys /\ seen[u] <= generation[i[u]] /\ seen[u] \in Nat
      BY <1>t, <3>1, KeyBounds DEF Generations, AtKey, Key!TypeOK, Key!Bounds
    <3>3. CASE i[u] = k
      <4>1. seen[u] # generation'[k] BY <1>g, <2>2, <3>2, <3>3
      <4> QED BY <1>t, <3>1, <3>3, <4>1 DEF ValuesCurrent
    <3>4. CASE i[u] # k BY <1>t, <2>2, <2>4, <3>1, <3>2, <3>4 DEF ValuesCurrent
    <3> QED BY <3>3, <3>4
  <2> QED BY <2>5, <2>7, <2>8 DEF ValuesCurrent, Filled
<1>3. CASE KeyGiven(t)
  <2>1. PICK k : k = i[t] OBVIOUS
  <2>2. /\ k \in Key!Keys /\ key_pc[t] = "fill" /\ key_pc'[t] \notin {"fill", "store", "destroy"}
        /\ destruction_callback' = [destruction_callback EXCEPT ![k] = key_callback[t]]
        /\ UNCHANGED <<generation, use>> /\ key_callback[t] = use[k]
    BY <1>t, <1>3, <2>1 DEF KeyGiven, Key!Free, KeysTaken
  <2>3. UNCHANGED thread_specific_data BY <1>d, <2>2
  <2>4. /\ \A j : Filled(j) => Filled(j)'
        /\ \A j : j # k /\ Filled(j)' => Filled(j)
    BY <1>o, <2>1, <2>2 DEF Filled
  <2>5. (\A j \in Key!Keys : Key!KeyAllocated(generation[j]) /\ Filled(j) =>
           destruction_callback[j] \in {Key!Null, use[j]})'
    BY <1>t, <2>2, <2>4 DEF ValuesCurrent, Key!TypeOK
  <2>6. (\A u \in KeyThreads, j \in Key!Keys :
          thread_specific_data[u][j].ptr # Key!Null
            /\ thread_specific_data[u][j].generation = generation[j] =>
          /\ Key!KeyAllocated(generation[j]) /\ Filled(j)
          /\ thread_specific_data[u][j].ptr = use[j]
          /\ key_pc[u] = "destroy" /\ i[u] = j => key_callback[u] \in {Key!Null, use[j]})'
    BY <1>t, <1>o, <2>2, <2>3, <2>4 DEF ValuesCurrent
  <2>7. (\A u \in KeyThreads : key_pc[u] = "store" =>
          /\ Key!KeyAllocated(seen[u])
          /\ seen[u] = generation[i[u]] => Filled(i[u]) /\ key_callback[u] = use[i[u]])'
    <3> SUFFICES ASSUME NEW u \in KeyThreads, key_pc'[u] = "store"
                 PROVE  /\ Key!KeyAllocated(seen'[u])
                        /\ seen'[u] = generation'[i'[u]] =>
                             Filled(i[u])' /\ key_callback'[u] = use'[i'[u]]
      OBVIOUS
    <3>1. u # t /\ key_pc[u] = "store" /\ i'[u] = i[u] /\ seen'[u] = seen[u]
          /\ key_callback'[u] = key_callback[u]
      BY <1>o, <2>2
    <3> QED BY <1>t, <2>2, <2>4, <3>1 DEF ValuesCurrent
  <2> QED BY <2>5, <2>6, <2>7 DEF ValuesCurrent
<1>4. CASE KeyFound(t) \/ KeyReturned(t) \/ KeyRead(t) \/ DestructorRead(t)
  <2>1. /\ key_pc[t] \notin {"fill", "store", "destroy"} /\ key_pc'[t] # "fill"
        /\ UNCHANGED <<generation, use, destruction_callback>>
    BY <1>4 DEF KeyFound, KeyReturned, KeyRead, DestructorRead, Key!Free
  <2>2. UNCHANGED thread_specific_data BY <1>d, <2>1
  <2>3. \A k : Filled(k)' <=> Filled(k) BY <1>o, <2>1 DEF Filled
  <2>4. (\A k \in Key!Keys : Key!KeyAllocated(generation[k]) /\ Filled(k) =>
           destruction_callback[k] \in {Key!Null, use[k]})'
    BY <1>t, <2>1, <2>3 DEF ValuesCurrent
  <2>5. key_pc'[t] = "destroy" => key_callback'[t] = destruction_callback[i'[t]]
    BY <1>4 DEF KeyFound, KeyReturned, KeyRead, DestructorRead
  <2>6. (\A u \in KeyThreads, k \in Key!Keys :
          thread_specific_data[u][k].ptr # Key!Null
            /\ thread_specific_data[u][k].generation = generation[k] =>
          /\ Key!KeyAllocated(generation[k]) /\ Filled(k)
          /\ thread_specific_data[u][k].ptr = use[k]
          /\ key_pc[u] = "destroy" /\ i[u] = k => key_callback[u] \in {Key!Null, use[k]})'
    BY <1>t, <1>o, <2>1, <2>2, <2>3, <2>5 DEF ValuesCurrent
  <2>7. key_pc'[t] = "store" =>
          /\ seen'[t] = generation[i'[t]] /\ key_callback'[t] = use[i'[t]]
          /\ Key!KeyAllocated(generation[i'[t]]) /\ Filled(i[t])'
    <3> SUFFICES ASSUME key_pc'[t] = "store"
                 PROVE  /\ seen'[t] = generation[i'[t]] /\ key_callback'[t] = use[i'[t]]
                        /\ Key!KeyAllocated(generation[i'[t]]) /\ Filled(i[t])'
      OBVIOUS
    <3>1. i'[t] \in usable /\ seen'[t] = generation[i'[t]] /\ key_callback'[t] = use[i'[t]]
      BY <1>4 DEF KeyFound, KeyReturned, KeyRead, DestructorRead
    <3>2. PICK k : k = i'[t] OBVIOUS
    <3>3. Filled(k) BY <1>t, <3>1, <3>2 DEF KeysTaken, Taking, Filled
    <3>4. Filled(k)' BY <2>3, <3>3
    <3>5. Filled(i[t])' BY <3>2, <3>4 DEF Filled
    <3> QED BY <1>t, <3>1, <3>5 DEF KeysTaken
  <2>8. (\A u \in KeyThreads : key_pc[u] = "store" =>
          /\ Key!KeyAllocated(seen[u])
          /\ seen[u] = generation[i[u]] => Filled(i[u]) /\ key_callback[u] = use[i[u]])'
    <3> SUFFICES ASSUME NEW u \in KeyThreads, key_pc'[u] = "store"
                 PROVE  /\ Key!KeyAllocated(seen'[u])
                        /\ seen'[u] = generation'[i'[u]] =>
                             Filled(i[u])' /\ key_callback'[u] = use'[i'[u]]
      OBVIOUS
    <3>1. CASE u = t BY <2>1, <2>7, <3>1
    <3>2. CASE u # t
      <4>1. key_pc[u] = "store" /\ i'[u] = i[u] /\ seen'[u] = seen[u]
            /\ key_callback'[u] = key_callback[u]
        BY <1>o, <3>2
      <4> QED BY <1>t, <2>1, <2>3, <4>1 DEF ValuesCurrent
    <3> QED BY <3>1, <3>2
  <2> QED BY <2>4, <2>6, <2>8 DEF ValuesCurrent
<1> QED BY <1>1, <1>2, <1>3, <1>4, KeyMoves, Zenon

(* Initially no key is allocated.                                           *)
LEMMA KeysBegin ==
  ASSUME Key!Init
  PROVE  KeysInvariant
<1>b. /\ KeysMax \in Nat \ {0} /\ Iterations \in Nat \ {0} /\ MaxUses \in Nat
      /\ UintMax \in Nat /\ UintMax % 2 = 1
  BY KeyBounds DEF Key!Bounds
<1>z. UintMax > 0 /\ ~Key!KeyAllocated(0) BY <1>b DEF Key!KeyAllocated
<1>1. Key!TypeOK BY <1>b DEF Key!Init, Key!TypeOK, Key!Null
<1>2. /\ \A t \in KeyThreads : key_pc[t] = Key!Free
      /\ \A k \in Key!Keys : generation[k] = 0 /\ destruction_callback[k] = Key!Null
      /\ \A t \in KeyThreads, k \in Key!Keys :
           thread_specific_data[t][k] = [generation |-> 0, ptr |-> Key!Null]
      /\ usable = {}
  BY DEF Key!Init
<1>3. \A t \in KeyThreads, k \in Key!Keys : /\ thread_specific_data[t][k].generation = 0
                                            /\ thread_specific_data[t][k].ptr = Key!Null
  BY <1>2
<1>4. Generations BY <1>b, <1>z, <1>2, <1>3 DEF Generations, AtKey, Key!Free
<1>5. KeysTaken BY <1>2 DEF KeysTaken, Taking, Key!Free
<1>6. ValuesCurrent BY <1>z, <1>2, <1>3 DEF ValuesCurrent, Key!Free
<1> QED BY <1>1, <1>4, <1>5, <1>6 DEF KeysInvariant

(* The steps keep all of it.                                                *)
LEMMA KeysStep ==
  ASSUME KeysInvariant, [Key!Next]_(Key!vars)
  PROVE  KeysInvariant'
<1>1. CASE Key!Next
  <2>1. PICK t \in KeyThreads : Key!Step(t) BY <1>1 DEF Key!Next
  <2>2. Key!TypeOK' BY <2>1, KeyTypes
  <2>3. Generations' BY <2>1, KeyGenerations
  <2>4. KeysTaken' BY <2>1, KeysStayTaken
  <2>5. ValuesCurrent' BY <2>1, ValuesStayCurrent
  <2> QED BY <2>2, <2>3, <2>4, <2>5, Zenon DEF KeysInvariant
<1>2. CASE UNCHANGED Key!vars
  <2>1. UNCHANGED <<generation, destruction_callback, thread_specific_data, key_pc, i, seen,
                    key_callback, left, use, usable, uses>>
    BY <1>2 DEF Key!vars
  <2>2. Key!TypeOK' BY <2>1 DEF KeysInvariant, Key!TypeOK
  <2>3. Generations' BY <2>1 DEF KeysInvariant, Generations
  <2>4. KeysTaken' BY <2>1 DEF KeysInvariant, KeysTaken, Taking
  <2>5. ValuesCurrent' BY <2>1 DEF KeysInvariant, ValuesCurrent, Filled
  <2> QED BY <2>2, <2>3, <2>4, <2>5 DEF KeysInvariant
<1> QED BY <1>1, <1>2

(* A value with the key's generation, or none, is what the module gets.     *)
LEMMA KeysAgree ==
  ASSUME KeysInvariant
  PROVE  Key!ValuesOfThisKey
<1>1. Key!TypeOK /\ KeysTaken /\ ValuesCurrent BY DEF KeysInvariant
<1>2. \A k \in usable : k \in Key!Keys BY <1>1 DEF Key!TypeOK
<1>3. ASSUME NEW t \in KeyThreads, NEW k \in Key!Keys
      PROVE  /\ k \in usable => Key!GetSpecific(t, k) \in {Key!Null, use[k]}
             /\ key_pc[t] = "destroy" /\ i[t] = k /\ Key!ToDestroy(t, k) =>
                  key_callback[t] = thread_specific_data[t][k].ptr
  BY <1>1, <1>3 DEF ValuesCurrent, Key!GetSpecific, Key!ToDestroy
<1>4. \A t \in KeyThreads :
        key_pc[t] = "fill" => i[t] \notin usable /\ use[i[t]] = key_callback[t]
  BY <1>1 DEF KeysTaken, Taking
<1>5. \A k \in usable : Key!KeyAllocated(generation[k]) /\ use[k] # 0 BY <1>1 DEF KeysTaken
<1> QED BY <1>3, <1>4, <1>5 DEF Key!ValuesOfThisKey

(* The specification of thread-specific data: for any number of threads and *)
(* keys, and any length of a generation, pthread_getspecific gives a value  *)
(* of this use of the key or NULL, and a destructor gets its own key's      *)
(* values.                                                                  *)
THEOREM ValuesCurrentForever == Key!Spec => []Key!ValuesOfThisKey
<1>1. Key!Init => KeysInvariant BY KeysBegin
<1>2. KeysInvariant /\ [Key!Next]_(Key!vars) => KeysInvariant' BY KeysStep
<1>3. KeysInvariant => Key!ValuesOfThisKey BY KeysAgree
<1>4. QED BY <1>1, <1>2, <1>3, PTL DEF Key!Spec

(***************************************************************************)
(* SRPC: a call on a channel returns its own answer.                       *)
(***************************************************************************)

(* A request that the server may still read is the one the client waits     *)
(* for, and its method has not begun.                                       *)
RequestPending ==
  requests # <<>> /\ server # "gone" =>
    /\ client = "wait" /\ server = "loop" /\ responses = <<>>
    /\ Head(requests).call = srpc_calls /\ executed[srpc_calls] = 0

(* A method runs for the call the client waits for.                         *)
MethodRuns ==
  server = "method" =>
    /\ client = "wait" /\ serving = srpc_calls /\ srpc_calls # 0
    /\ responses = <<>> /\ requests = <<>>

(* A response is the one the client waits for.                              *)
ResponsePending ==
  responses # <<>> =>
    /\ client = "wait" /\ Head(responses).call = srpc_calls
    /\ server # "gone" => requests = <<>>

(* Of the calls to come none has run, and of the others none twice.         *)
RunsOnce ==
  /\ \A c \in 1 .. MaxCalls : executed[c] <= 1
  /\ \A c \in 1 .. MaxCalls : c > srpc_calls => executed[c] = 0

(* What the last call returned is its own answer or none, and it did not    *)
(* run if its request was not sent.                                         *)
ResultOwn ==
  client = "idle" =>
    /\ result.answers \in {Srpc!NoCall, srpc_calls}
    /\ srpc_calls > 0 /\ result = Srpc!Result("internal",
         Srpc!NoCall) => executed[srpc_calls] = 0

(* The inductive invariant.                                                 *)
ChannelInvariant ==
  Srpc!TypeOK /\ RequestPending /\ MethodRuns /\ ResponsePending /\ RunsOnce /\ ResultOwn

(* A message queue that holds one message is empty when it is taken.        *)
LEMMA Emptied ==
  ASSUME NEW S, NEW q \in Seq(S), q # <<>>, Len(q) <= 1
  PROVE  Tail(q) = <<>> /\ Head(q) \in S
<1>1. Head(q) \in S /\ Tail(q) \in Seq(S) /\ Len(Tail(q)) = Len(q) - 1
  BY HeadTailProperties
<1>2. Len(q) \in Nat BY LenProperties
<1>3. Len(Tail(q)) \in Nat BY <1>1, LenProperties
<1>4. Len(Tail(q)) = 0 BY <1>1, <1>2, <1>3
<1>5. QED BY <1>1, <1>4, EmptySeq

(* A message that is put in an empty queue is the only one there.           *)
LEMMA Appended ==
  ASSUME NEW S, NEW q \in Seq(S), q = <<>>, NEW m \in S
  PROVE  /\ Append(q, m) \in Seq(S) /\ Append(q, m) # <<>>
         /\ Len(Append(q, m)) <= 1 /\ Head(Append(q, m)) = m
<1>1. Len(q) = 0 BY EmptySeq
<1>2. QED BY <1>1, AppendProperties, HeadTailAppend

(* Nothing was called when the channel is made.                             *)
LEMMA ChannelBegins == ASSUME Srpc!Bounds, Srpc!Init PROVE ChannelInvariant
<1>1. /\ requests \in Seq(Srpc!Request) /\ Len(requests) <= 1
      /\ responses \in Seq(Srpc!Response) /\ Len(responses) <= 1
  BY EmptySeq DEF Srpc!Init
<1>2. /\ next_outgoing_request_id \in Nat /\ srpc_calls \in 0 .. MaxCalls
      /\ serving \in 0 .. MaxCalls /\ executed \in [1 .. MaxCalls -> Nat]
      /\ result \in [app_error : Srpc!Codes, answers : 0 .. MaxCalls]
  BY DEF Srpc!Init, Srpc!Bounds, Srpc!NoCall, Srpc!Result, Srpc!Codes
<1>3. Srpc!TypeOK BY ONLY <1>1, <1>2, Srpc!Init, Zenon DEF Srpc!Init, Srpc!TypeOK
<1>4. RequestPending /\ MethodRuns /\ ResponsePending /\ RunsOnce /\ ResultOwn
  BY DEF Srpc!Init, Srpc!Bounds, RequestPending, MethodRuns, ResponsePending, RunsOnce,
       ResultOwn,
         Srpc!Result, Srpc!NoCall
<1>5. QED BY <1>3, <1>4 DEF ChannelInvariant

(* The steps of the client and of the server keep the invariant.            *)
LEMMA ChannelStep ==
  ASSUME Srpc!Bounds, ChannelInvariant, [Srpc!Next]_(Srpc!vars)
  PROVE  ChannelInvariant'
<1>0. /\ Srpc!TypeOK /\ RequestPending /\ MethodRuns /\ ResponsePending /\ RunsOnce
      /\ ResultOwn /\ Srpc!Bounds
  BY DEF ChannelInvariant
<1>1. ASSUME Srpc!RequestWrite PROVE ChannelInvariant'
  <2> DEFINE m == [id |-> next_outgoing_request_id, call |-> srpc_calls + 1,
       torn |-> leftover]
     
  <2>a. m \in Srpc!Request BY <1>0, <1>1 DEF Srpc!RequestWrite, Srpc!MayCall,
       Srpc!Request, Srpc!TypeOK, Srpc!Bounds
  <2>b. requests = <<>> /\ responses = <<>>
    BY <1>0, <1>1 DEF Srpc!RequestWrite, Srpc!MayCall, Srpc!ServerUp, RequestPending,
         ResponsePending
  <2>c. /\ requests' \in Seq(Srpc!Request) /\ Len(requests') <= 1
        /\ requests' # <<>> /\ Head(requests') = m
    BY <1>0, <1>1, <2>a, <2>b, Appended DEF Srpc!RequestWrite, Srpc!TypeOK
  <2>d. srpc_calls' \in 0 .. MaxCalls
    BY ONLY <1>0, <1>1 DEF Srpc!RequestWrite, Srpc!MayCall, Srpc!Bounds, Srpc!TypeOK
  <2>1. Srpc!TypeOK'
    BY ONLY <1>0, <1>1, <2>c, <2>d, Zenon DEF Srpc!RequestWrite, Srpc!TypeOK
  <2>2. RequestPending'
    BY ONLY <1>0, <1>1, <2>a, <2>b, <2>c
       DEF Srpc!RequestWrite, Srpc!MayCall, Srpc!ServerUp, Srpc!Bounds, RequestPending,
            MethodRuns,
          ResponsePending, RunsOnce, Srpc!TypeOK
  <2>3. MethodRuns'
    BY ONLY <1>0, <1>1, <2>a, <2>b, <2>c
       DEF Srpc!RequestWrite, Srpc!MayCall, Srpc!ServerUp, Srpc!Bounds, MethodRuns,
            RequestPending,
          ResponsePending, Srpc!TypeOK
  <2>4. ResponsePending'
    BY ONLY <1>0, <1>1, <2>a, <2>b, <2>c
       DEF Srpc!RequestWrite, Srpc!MayCall, Srpc!ServerUp, Srpc!Bounds,
            ResponsePending, RequestPending,
          MethodRuns, Srpc!TypeOK
  <2>5. RunsOnce'
    BY ONLY <1>0, <1>1, <2>a, <2>b, <2>c
       DEF Srpc!RequestWrite, Srpc!MayCall, Srpc!ServerUp, Srpc!Bounds, RunsOnce,
            RequestPending, Srpc!TypeOK
  <2>6. ResultOwn'
    BY ONLY <1>0, <1>1, <2>a, <2>b, <2>c
       DEF Srpc!RequestWrite, Srpc!MayCall, Srpc!ServerUp, Srpc!Result, Srpc!NoCall,
            Srpc!Bounds, ResultOwn,
          RunsOnce, RequestPending, ResponsePending, Srpc!TypeOK
  <2>7. QED BY <2>1, <2>2, <2>3, <2>4, <2>5, <2>6 DEF ChannelInvariant
<1>2. ASSUME Srpc!RequestTooLarge PROVE ChannelInvariant'
  <2>1. Srpc!TypeOK'
    BY ONLY <1>0, <1>2
       DEF Srpc!RequestTooLarge, Srpc!MayCall, Srpc!Return, Srpc!Result, Srpc!Codes,
            Srpc!NoCall, Srpc!Bounds, Srpc!TypeOK
  <2>2. RequestPending'
    BY ONLY <1>0, <1>2
       DEF Srpc!RequestTooLarge, Srpc!MayCall, Srpc!Return, Srpc!Result, Srpc!Codes,
            Srpc!NoCall, Srpc!Bounds,
          RequestPending, MethodRuns, ResponsePending, RunsOnce, Srpc!TypeOK
  <2>3. MethodRuns'
    BY ONLY <1>0, <1>2
       DEF Srpc!RequestTooLarge, Srpc!MayCall, Srpc!Return, Srpc!Result, Srpc!Codes,
            Srpc!NoCall, Srpc!Bounds,
          MethodRuns, RequestPending, ResponsePending, Srpc!TypeOK
  <2>4. ResponsePending'
    BY ONLY <1>0, <1>2
       DEF Srpc!RequestTooLarge, Srpc!MayCall, Srpc!Return, Srpc!Result, Srpc!Codes,
            Srpc!NoCall, Srpc!Bounds,
          ResponsePending, RequestPending, MethodRuns, Srpc!TypeOK
  <2>5. RunsOnce'
    BY ONLY <1>0, <1>2
       DEF Srpc!RequestTooLarge, Srpc!MayCall, Srpc!Return, Srpc!Result, Srpc!Codes,
            Srpc!NoCall, Srpc!Bounds, RunsOnce,
          RequestPending, Srpc!TypeOK
  <2>6. ResultOwn'
    BY ONLY <1>0, <1>2
       DEF Srpc!RequestTooLarge, Srpc!MayCall, Srpc!Return, Srpc!Result, Srpc!Codes,
            Srpc!NoCall, Srpc!Bounds, ResultOwn,
          RunsOnce, RequestPending, ResponsePending, Srpc!TypeOK
  <2>7. QED BY <2>1, <2>2, <2>3, <2>4, <2>5, <2>6 DEF ChannelInvariant
<1>3. ASSUME Srpc!RequestRefused PROVE ChannelInvariant'
  <2>a. srpc_calls' \in 0 .. MaxCalls /\ result' \in [app_error : Srpc!Codes,
       answers : 0 .. MaxCalls]
     
    BY ONLY <1>0, <1>3
       DEF Srpc!RequestRefused, Srpc!MayCall, Srpc!Return, Srpc!Result, Srpc!Codes,
            Srpc!NoCall, Srpc!Bounds, Srpc!TypeOK
  <2>1. Srpc!TypeOK'
    BY ONLY <1>0, <1>3, <2>a, Zenon DEF Srpc!RequestRefused, Srpc!Return, Srpc!TypeOK
  <2>2. RequestPending'
    BY ONLY <1>0, <1>3
       DEF Srpc!RequestRefused, Srpc!MayCall, Srpc!Return, Srpc!Result, Srpc!Codes,
            Srpc!NoCall, Srpc!Bounds,
          RequestPending, MethodRuns, ResponsePending, RunsOnce, Srpc!TypeOK
  <2>3. MethodRuns'
    BY ONLY <1>0, <1>3
       DEF Srpc!RequestRefused, Srpc!MayCall, Srpc!Return, Srpc!Result, Srpc!Codes,
            Srpc!NoCall, Srpc!Bounds, MethodRuns,
          RequestPending, ResponsePending, Srpc!TypeOK
  <2>4. ResponsePending'
    BY ONLY <1>0, <1>3
       DEF Srpc!RequestRefused, Srpc!MayCall, Srpc!Return, Srpc!Result, Srpc!Codes,
            Srpc!NoCall, Srpc!Bounds,
          ResponsePending, RequestPending, MethodRuns, Srpc!TypeOK
  <2>5. RunsOnce'
    BY ONLY <1>0, <1>3
       DEF Srpc!RequestRefused, Srpc!MayCall, Srpc!Return, Srpc!Result, Srpc!Codes,
            Srpc!NoCall, Srpc!Bounds, RunsOnce,
          RequestPending, Srpc!TypeOK
  <2>6. ResultOwn'
    BY ONLY <1>0, <1>3
       DEF Srpc!RequestRefused, Srpc!MayCall, Srpc!Return, Srpc!Result, Srpc!Codes,
            Srpc!NoCall, Srpc!Bounds, ResultOwn,
          RunsOnce, RequestPending, ResponsePending, Srpc!TypeOK
  <2>7. QED BY <2>1, <2>2, <2>3, <2>4, <2>5, <2>6 DEF ChannelInvariant
<1>4. ASSUME Srpc!TakeResponse PROVE ChannelInvariant'
  <2>a. responses' = <<>> /\ Head(responses) \in Srpc!Response
    BY <1>0, <1>4, Emptied DEF Srpc!TakeResponse, Srpc!TypeOK
  <2>1. Srpc!TypeOK'
    BY ONLY <1>0, <1>4, <2>a
       DEF Srpc!TakeResponse, Srpc!Return, Srpc!Result, Srpc!Codes, Srpc!NoCall,
            Srpc!Bounds, Srpc!TypeOK, Srpc!Response
  <2>2. RequestPending'
    BY ONLY <1>0, <1>4, <2>a
       DEF Srpc!TakeResponse, Srpc!Return, Srpc!Result, Srpc!Codes, Srpc!NoCall,
            Srpc!Bounds, RequestPending,
          MethodRuns, ResponsePending, RunsOnce, Srpc!TypeOK
  <2>3. MethodRuns'
    BY ONLY <1>0, <1>4, <2>a
       DEF Srpc!TakeResponse, Srpc!Return, Srpc!Result, Srpc!Codes, Srpc!NoCall,
            Srpc!Bounds, MethodRuns,
          RequestPending, ResponsePending, Srpc!TypeOK
  <2>4. ResponsePending'
    BY ONLY <1>0, <1>4, <2>a
       DEF Srpc!TakeResponse, Srpc!Return, Srpc!Result, Srpc!Codes, Srpc!NoCall,
            Srpc!Bounds, ResponsePending,
          RequestPending, MethodRuns, Srpc!TypeOK
  <2>5. RunsOnce'
    BY ONLY <1>0, <1>4, <2>a
       DEF Srpc!TakeResponse, Srpc!Return, Srpc!Result, Srpc!Codes, Srpc!NoCall,
            Srpc!Bounds, RunsOnce,
          RequestPending, Srpc!TypeOK
  <2>6. ResultOwn'
    BY ONLY <1>0, <1>4, <2>a
       DEF Srpc!TakeResponse, Srpc!Return, Srpc!Result, Srpc!Codes, Srpc!NoCall,
            Srpc!Bounds, ResultOwn, RunsOnce,
          RequestPending, ResponsePending, Srpc!TypeOK, Srpc!Response
  <2>7. QED BY <2>1, <2>2, <2>3, <2>4, <2>5, <2>6 DEF ChannelInvariant
<1>5. ASSUME Srpc!TakeBadResponse PROVE ChannelInvariant'
  <2>a. responses' = <<>> /\ Head(responses) \in Srpc!Response
    BY <1>0, <1>5, Emptied DEF Srpc!TakeBadResponse, Srpc!TypeOK
  <2>1. Srpc!TypeOK'
    BY ONLY <1>0, <1>5, <2>a
       DEF Srpc!TakeBadResponse, Srpc!Return, Srpc!Result, Srpc!Codes, Srpc!NoCall,
            Srpc!Bounds, Srpc!TypeOK, Srpc!Response
  <2>2. RequestPending'
    BY ONLY <1>0, <1>5, <2>a
       DEF Srpc!TakeBadResponse, Srpc!Return, Srpc!Result, Srpc!Codes, Srpc!NoCall,
            Srpc!Bounds, RequestPending,
          MethodRuns, ResponsePending, RunsOnce, Srpc!TypeOK
  <2>3. MethodRuns'
    BY ONLY <1>0, <1>5, <2>a
       DEF Srpc!TakeBadResponse, Srpc!Return, Srpc!Result, Srpc!Codes, Srpc!NoCall,
            Srpc!Bounds, MethodRuns,
          RequestPending, ResponsePending, Srpc!TypeOK
  <2>4. ResponsePending'
    BY ONLY <1>0, <1>5, <2>a
       DEF Srpc!TakeBadResponse, Srpc!Return, Srpc!Result, Srpc!Codes, Srpc!NoCall,
            Srpc!Bounds, ResponsePending,
          RequestPending, MethodRuns, Srpc!TypeOK
  <2>5. RunsOnce'
    BY ONLY <1>0, <1>5, <2>a
       DEF Srpc!TakeBadResponse, Srpc!Return, Srpc!Result, Srpc!Codes, Srpc!NoCall,
            Srpc!Bounds, RunsOnce,
          RequestPending, Srpc!TypeOK
  <2>6. ResultOwn'
    BY ONLY <1>0, <1>5, <2>a
       DEF Srpc!TakeBadResponse, Srpc!Return, Srpc!Result, Srpc!Codes, Srpc!NoCall,
            Srpc!Bounds, ResultOwn,
          RunsOnce, RequestPending, ResponsePending, Srpc!TypeOK, Srpc!Response
  <2>7. QED BY <2>1, <2>2, <2>3, <2>4, <2>5, <2>6 DEF ChannelInvariant
<1>6. ASSUME Srpc!EndOfChannel PROVE ChannelInvariant'
  <2>1. Srpc!TypeOK'
    BY ONLY <1>0, <1>6 DEF Srpc!EndOfChannel, Srpc!Return, Srpc!Result, Srpc!Codes,
         Srpc!NoCall, Srpc!Bounds, Srpc!TypeOK
  <2>2. RequestPending'
    BY ONLY <1>0, <1>6
       DEF Srpc!EndOfChannel, Srpc!Return, Srpc!Result, Srpc!Codes, Srpc!NoCall,
            Srpc!Bounds, RequestPending,
          MethodRuns, ResponsePending, RunsOnce, Srpc!TypeOK
  <2>3. MethodRuns'
    BY ONLY <1>0, <1>6
       DEF Srpc!EndOfChannel, Srpc!Return, Srpc!Result, Srpc!Codes, Srpc!NoCall,
            Srpc!Bounds, MethodRuns,
          RequestPending, ResponsePending, Srpc!TypeOK
  <2>4. ResponsePending'
    BY ONLY <1>0, <1>6
       DEF Srpc!EndOfChannel, Srpc!Return, Srpc!Result, Srpc!Codes, Srpc!NoCall,
            Srpc!Bounds, ResponsePending,
          RequestPending, MethodRuns, Srpc!TypeOK
  <2>5. RunsOnce'
    BY ONLY <1>0, <1>6
       DEF Srpc!EndOfChannel, Srpc!Return, Srpc!Result, Srpc!Codes, Srpc!NoCall,
            Srpc!Bounds, RunsOnce,
          RequestPending, Srpc!TypeOK
  <2>6. ResultOwn'
    BY ONLY <1>0, <1>6
       DEF Srpc!EndOfChannel, Srpc!Return, Srpc!Result, Srpc!Codes, Srpc!NoCall,
            Srpc!Bounds, ResultOwn, RunsOnce,
          RequestPending, ResponsePending, Srpc!TypeOK
  <2>7. QED BY <2>1, <2>2, <2>3, <2>4, <2>5, <2>6 DEF ChannelInvariant
<1>7. ASSUME Srpc!Dispatch PROVE ChannelInvariant'
  <2>a. requests' = <<>> /\ Head(requests) \in Srpc!Request
    BY <1>0, <1>7, Emptied DEF Srpc!Dispatch, Srpc!TypeOK
  <2>1. Srpc!TypeOK'
    BY ONLY <1>0, <1>7, <2>a DEF Srpc!Dispatch, Srpc!Bounds, Srpc!TypeOK, Srpc!Request
  <2>2. RequestPending'
    BY ONLY <1>0, <1>7, <2>a
       DEF Srpc!Dispatch, Srpc!Bounds, RequestPending, MethodRuns, ResponsePending,
            RunsOnce,
          Srpc!TypeOK
  <2>3. MethodRuns'
    BY ONLY <1>0, <1>7, <2>a
       DEF Srpc!Dispatch, Srpc!Bounds, MethodRuns, RequestPending, ResponsePending,
            Srpc!TypeOK,
          Srpc!Request
  <2>4. ResponsePending'
    BY ONLY <1>0, <1>7, <2>a
       DEF Srpc!Dispatch, Srpc!Bounds, ResponsePending, RequestPending, MethodRuns,
            Srpc!TypeOK
  <2>5. RunsOnce'
    BY ONLY <1>0, <1>7, <2>a
       DEF Srpc!Dispatch, Srpc!Bounds, RunsOnce, RequestPending, Srpc!TypeOK,
            Srpc!Request
  <2>6. ResultOwn'
    BY ONLY <1>0, <1>7, <2>a
       DEF Srpc!Dispatch, Srpc!Result, Srpc!NoCall, Srpc!Bounds, ResultOwn, RunsOnce,
            RequestPending,
          ResponsePending, Srpc!TypeOK
  <2>7. QED BY <2>1, <2>2, <2>3, <2>4, <2>5, <2>6 DEF ChannelInvariant
<1>8. ASSUME Srpc!RequestGetFails PROVE ChannelInvariant'
  <2>a. requests' = <<>> /\ Head(requests) \in Srpc!Request
    BY <1>0, <1>8, Emptied DEF Srpc!RequestGetFails, Srpc!TypeOK
  <2>1. Srpc!TypeOK'
    BY ONLY <1>0, <1>8, <2>a DEF Srpc!RequestGetFails, Srpc!Bounds, Srpc!TypeOK
  <2>2. RequestPending'
    BY ONLY <1>0, <1>8, <2>a
       DEF Srpc!RequestGetFails, Srpc!Bounds, RequestPending, MethodRuns,
            ResponsePending,
          RunsOnce, Srpc!TypeOK
  <2>3. MethodRuns'
    BY ONLY <1>0, <1>8, <2>a
       DEF Srpc!RequestGetFails, Srpc!Bounds, MethodRuns, RequestPending,
            ResponsePending,
          Srpc!TypeOK
  <2>4. ResponsePending'
    BY ONLY <1>0, <1>8, <2>a
       DEF Srpc!RequestGetFails, Srpc!Bounds, ResponsePending, RequestPending,
            MethodRuns,
          Srpc!TypeOK
  <2>5. RunsOnce'
    BY ONLY <1>0, <1>8, <2>a
       DEF Srpc!RequestGetFails, Srpc!Bounds, RunsOnce, RequestPending, Srpc!TypeOK
  <2>6. ResultOwn'
    BY ONLY <1>0, <1>8, <2>a
       DEF Srpc!RequestGetFails, Srpc!Result, Srpc!NoCall, Srpc!Bounds, ResultOwn,
            RunsOnce,
          RequestPending, ResponsePending, Srpc!TypeOK
  <2>7. QED BY <2>1, <2>2, <2>3, <2>4, <2>5, <2>6 DEF ChannelInvariant
<1>9. ASSUME Srpc!ResponseTooLarge PROVE ChannelInvariant'
  <2>1. Srpc!TypeOK'
    BY ONLY <1>0, <1>9 DEF Srpc!ResponseTooLarge, Srpc!NoCall, Srpc!Bounds,
         Srpc!TypeOK, MethodRuns
  <2>2. RequestPending'
    BY ONLY <1>0, <1>9
       DEF Srpc!ResponseTooLarge, Srpc!NoCall, Srpc!Bounds, RequestPending, MethodRuns,
          ResponsePending, RunsOnce, Srpc!TypeOK
  <2>3. MethodRuns'
    BY ONLY <1>0, <1>9
       DEF Srpc!ResponseTooLarge, Srpc!NoCall, Srpc!Bounds, MethodRuns, RequestPending,
          ResponsePending, Srpc!TypeOK
  <2>4. ResponsePending'
    BY ONLY <1>0, <1>9
       DEF Srpc!ResponseTooLarge, Srpc!NoCall, Srpc!Bounds, ResponsePending,
            RequestPending,
          MethodRuns, Srpc!TypeOK
  <2>5. RunsOnce'
    BY ONLY <1>0, <1>9
       DEF Srpc!ResponseTooLarge, Srpc!NoCall, Srpc!Bounds, RunsOnce, RequestPending,
            Srpc!TypeOK
  <2>6. ResultOwn'
    BY ONLY <1>0, <1>9
       DEF Srpc!ResponseTooLarge, Srpc!NoCall, Srpc!Result, Srpc!Bounds, ResultOwn,
            RunsOnce,
          RequestPending, ResponsePending, Srpc!TypeOK
  <2>7. QED BY <2>1, <2>2, <2>3, <2>4, <2>5, <2>6 DEF ChannelInvariant
<1>10. ASSUME Srpc!Close PROVE ChannelInvariant'
  <2>1. Srpc!TypeOK'
    BY ONLY <1>0, <1>10 DEF Srpc!Close, Srpc!Bounds, Srpc!TypeOK
  <2>2. RequestPending'
    BY ONLY <1>0, <1>10
       DEF Srpc!Close, Srpc!Bounds, RequestPending, MethodRuns, ResponsePending,
            RunsOnce,
          Srpc!TypeOK
  <2>3. MethodRuns'
    BY ONLY <1>0, <1>10
       DEF Srpc!Close, Srpc!Bounds, MethodRuns, RequestPending, ResponsePending,
            Srpc!TypeOK
  <2>4. ResponsePending'
    BY ONLY <1>0, <1>10
       DEF Srpc!Close, Srpc!Bounds, ResponsePending, RequestPending, MethodRuns,
            Srpc!TypeOK
  <2>5. RunsOnce'
    BY ONLY <1>0, <1>10 DEF Srpc!Close, Srpc!Bounds, RunsOnce, RequestPending,
         Srpc!TypeOK
  <2>6. ResultOwn'
    BY ONLY <1>0, <1>10
       DEF Srpc!Close, Srpc!Result, Srpc!NoCall, Srpc!Bounds, ResultOwn, RunsOnce,
            RequestPending,
          ResponsePending, Srpc!TypeOK
  <2>7. QED BY <2>1, <2>2, <2>3, <2>4, <2>5, <2>6 DEF ChannelInvariant
<1>11. ASSUME NEW answer \in Srpc!Codes, NEW break \in BOOLEAN,
              Srpc!ResponseWrite(answer, break)
       PROVE  ChannelInvariant'
  <2> DEFINE m ==
        [id |-> next_outgoing_request_id, call |-> serving, app_error |-> answer]
     
  <2>a. m \in Srpc!Response
    BY <1>0, <1>11 DEF Srpc!ResponseWrite, MethodRuns, Srpc!Response, Srpc!TypeOK,
         Srpc!Bounds
  <2>b. responses = <<>> BY <1>0, <1>11 DEF Srpc!ResponseWrite, MethodRuns
  <2>c. /\ responses' \in Seq(Srpc!Response) /\ Len(responses') <= 1
        /\ responses' # <<>> /\ Head(responses') = m
    BY <1>0, <1>11, <2>a, <2>b, Appended DEF Srpc!ResponseWrite, Srpc!Respond, Srpc!TypeOK
  <2>1. Srpc!TypeOK'
    BY ONLY <1>0, <1>11, <2>a, <2>b, <2>c
       DEF Srpc!ResponseWrite, Srpc!Respond, Srpc!NoCall, Srpc!Bounds, Srpc!TypeOK
  <2>2. RequestPending'
    BY ONLY <1>0, <1>11, <2>a, <2>b, <2>c
       DEF Srpc!ResponseWrite, Srpc!Respond, Srpc!NoCall, Srpc!Bounds, RequestPending,
            MethodRuns,
          ResponsePending, RunsOnce, Srpc!TypeOK
  <2>3. MethodRuns'
    BY ONLY <1>0, <1>11, <2>a, <2>b, <2>c
       DEF Srpc!ResponseWrite, Srpc!Respond, Srpc!NoCall, Srpc!Bounds, MethodRuns,
            RequestPending,
          ResponsePending, Srpc!TypeOK
  <2>4. ResponsePending'
    BY ONLY <1>0, <1>11, <2>a, <2>b, <2>c
       DEF Srpc!ResponseWrite, Srpc!Respond, Srpc!NoCall, Srpc!Bounds, ResponsePending,
            RequestPending,
          MethodRuns, Srpc!TypeOK
  <2>5. RunsOnce'
    BY ONLY <1>0, <1>11, <2>a, <2>b, <2>c
       DEF Srpc!ResponseWrite, Srpc!Respond, Srpc!NoCall, Srpc!Bounds, RunsOnce,
            RequestPending, Srpc!TypeOK
  <2>6. ResultOwn'
    BY ONLY <1>0, <1>11, <2>a, <2>b, <2>c
       DEF Srpc!ResponseWrite, Srpc!Respond, Srpc!NoCall, Srpc!Result, Srpc!Bounds,
            ResultOwn, RunsOnce,
          RequestPending, ResponsePending, Srpc!TypeOK
  <2>7. QED BY <2>1, <2>2, <2>3, <2>4, <2>5, <2>6 DEF ChannelInvariant
<1>12. ASSUME Srpc!ModuleExits PROVE ChannelInvariant'
  <2>1. Srpc!TypeOK'
    BY ONLY <1>0, <1>12 DEF Srpc!ModuleExits, Srpc!ServerUp, Srpc!NoCall, Srpc!Bounds,
         Srpc!TypeOK
  <2>2. RequestPending'
    BY ONLY <1>0, <1>12
       DEF Srpc!ModuleExits, Srpc!ServerUp, Srpc!NoCall, Srpc!Bounds, RequestPending,
            MethodRuns,
          ResponsePending, RunsOnce, Srpc!TypeOK
  <2>3. MethodRuns'
    BY ONLY <1>0, <1>12
       DEF Srpc!ModuleExits, Srpc!ServerUp, Srpc!NoCall, Srpc!Bounds, MethodRuns,
            RequestPending,
          ResponsePending, Srpc!TypeOK
  <2>4. ResponsePending'
    BY ONLY <1>0, <1>12
       DEF Srpc!ModuleExits, Srpc!ServerUp, Srpc!NoCall, Srpc!Bounds, ResponsePending,
            RequestPending,
          MethodRuns, Srpc!TypeOK
  <2>5. RunsOnce'
    BY ONLY <1>0, <1>12
       DEF Srpc!ModuleExits, Srpc!ServerUp, Srpc!NoCall, Srpc!Bounds, RunsOnce,
            RequestPending, Srpc!TypeOK
  <2>6. ResultOwn'
    BY ONLY <1>0, <1>12
       DEF Srpc!ModuleExits, Srpc!ServerUp, Srpc!NoCall, Srpc!Result, Srpc!Bounds,
            ResultOwn, RunsOnce,
          RequestPending, ResponsePending, Srpc!TypeOK
  <2>7. QED BY <2>1, <2>2, <2>3, <2>4, <2>5, <2>6 DEF ChannelInvariant
<1>13. ASSUME UNCHANGED Srpc!vars PROVE ChannelInvariant'
  <2>1. Srpc!TypeOK'
    BY ONLY <1>0, <1>13 DEF Srpc!vars, Srpc!Bounds, Srpc!TypeOK
  <2>2. RequestPending'
    BY ONLY <1>0, <1>13
       DEF Srpc!vars, Srpc!Bounds, RequestPending, MethodRuns, ResponsePending,
            RunsOnce, Srpc!TypeOK
  <2>3. MethodRuns'
    BY ONLY <1>0, <1>13
       DEF Srpc!vars, Srpc!Bounds, MethodRuns, RequestPending, ResponsePending,
            Srpc!TypeOK
  <2>4. ResponsePending'
    BY ONLY <1>0, <1>13
       DEF Srpc!vars, Srpc!Bounds, ResponsePending, RequestPending, MethodRuns,
            Srpc!TypeOK
  <2>5. RunsOnce'
    BY ONLY <1>0, <1>13 DEF Srpc!vars, Srpc!Bounds, RunsOnce, RequestPending,
         Srpc!TypeOK
  <2>6. ResultOwn'
    BY ONLY <1>0, <1>13
       DEF Srpc!vars, Srpc!Result, Srpc!NoCall, Srpc!Bounds, ResultOwn, RunsOnce,
            RequestPending,
          ResponsePending, Srpc!TypeOK
  <2>7. QED BY <2>1, <2>2, <2>3, <2>4, <2>5, <2>6 DEF ChannelInvariant
<1>14. QED
  BY <1>1, <1>2, <1>3, <1>4, <1>5, <1>6, <1>7, <1>8, <1>9, <1>10, <1>11, <1>12,
     <1>13 DEF Srpc!Next, Srpc!Receive, Srpc!Serve

(* A call returns its own answer or none, no method runs twice for a call,  *)
(* and none for a call that the client was told could not be sent, although *)
(* every request of the channel has the same id.                            *)
LEMMA AnswersAreOwn == ASSUME ChannelInvariant PROVE Srpc!AnswersMatch
  BY DEF ChannelInvariant, ResultOwn, ResponsePending, RunsOnce, Srpc!AnswersMatch

(* So it is on a channel of any number of calls.                            *)
THEOREM OwnAnswers == ASSUME Srpc!Bounds PROVE Srpc!Spec => []Srpc!AnswersMatch
<1>1. Srpc!Init => ChannelInvariant BY ChannelBegins
<1>2. ChannelInvariant /\ [Srpc!Next]_(Srpc!vars) => ChannelInvariant' BY ChannelStep
<1>3. ChannelInvariant => Srpc!AnswersMatch BY AnswersAreOwn
<1>4. QED BY <1>1, <1>2, <1>3, PTL DEF Srpc!Spec

(***************************************************************************)
(* The composition.                                                       *)
(***************************************************************************)

(* A step of the composition is a step of a component or leaves it alone.   *)
LEMMA ComponentSteps ==
  ASSUME [PartsNext]_parts
  PROVE  /\ [Start!Next]_(Start!vars)
         /\ [Audio!Next]_(Audio!vars)
         /\ [Once!Next]_(Once!vars)
         /\ [Key!Next]_(Key!vars)
         /\ [Srpc!Next]_(Srpc!vars)
<1>1. ASSUME PartsNext
      PROVE  /\ Start!Next \/ UNCHANGED start
             /\ Audio!Next \/ UNCHANGED audio
             /\ Once!Next \/ UNCHANGED once
             /\ Key!Next \/ UNCHANGED keys
             /\ Srpc!Next \/ UNCHANGED srpc
  BY <1>1 DEF PartsNext, StepOf
<1>2. CASE UNCHANGED parts
  BY <1>2 DEF parts, start, audio, once, keys, srpc,
              Start!vars, Audio!vars, Once!vars, Key!vars, Srpc!vars
<1>3. QED
  BY <1>1, <1>2 DEF start, audio, once, keys, srpc,
                    Start!vars, Audio!vars, Once!vars, Key!vars, Srpc!vars

(* The same of the composition: main and the plugin agree whenever the      *)
(* start of a module is what runs.                                          *)
THEOREM StartAgreedInParts == PartsSpec => []StartAgreed
<1>1. PartsInit => StartInvariant BY StartInit DEF PartsInit
<1>2. StartInvariant /\ [PartsNext]_parts => StartInvariant' BY ComponentSteps, StartStep
<1>3. StartInvariant => StartAgreed BY DEF StartInvariant, StartAgreed, During
<1>4. QED BY <1>1, <1>2, <1>3, PTL DEF PartsSpec

(* ... what the callback gives back to SDL is filled, ...                   *)
THEOREM BlocksFilledInParts == PartsSpec => BlocksFilled
<1>1. PartsInit => AudioInvariant BY AudioBegins DEF PartsInit
<1>2. AudioInvariant /\ [PartsNext]_parts => AudioInvariant' BY ComponentSteps, AudioStep
<1>3. AudioInvariant /\ [PartsNext]_parts =>
        [audio_callback # "idle" /\ audio_callback' = "idle" /\ ~shutdown =>
           filled]_(Audio!vars)
  BY ComponentSteps, GivenBackFilled
<1>4. QED BY <1>1, <1>2, <1>3, PTL DEF PartsSpec, BlocksFilled, Audio!BlocksFilled

(* ... and no call of pthread_once returns before the routine has ended.    *)
THEOREM OnceBeforeReturnInParts == PartsSpec => []OnceBeforeReturn
<1>1. PartsInit => Once!OnceInvariant BY OnceInit DEF PartsInit
<1>2. Once!OnceInvariant /\ [PartsNext]_parts => Once!OnceInvariant'
  BY ComponentSteps, OnceStep
<1>3. Once!OnceInvariant => OnceBeforeReturn
  BY OnceReturns DEF OnceBeforeReturn, During
<1>4. QED BY <1>1, <1>2, <1>3, PTL DEF PartsSpec

(* ... and a value of thread-specific data is of this use of its key.       *)
THEOREM ValuesInParts == PartsSpec => []ValuesOfThisKey
<1>1. PartsInit => KeysInvariant BY KeysBegin DEF PartsInit
<1>2. KeysInvariant /\ [PartsNext]_parts => KeysInvariant' BY ComponentSteps, KeysStep
<1>3. KeysInvariant => ValuesOfThisKey BY KeysAgree DEF ValuesOfThisKey, During
<1>4. QED BY <1>1, <1>2, <1>3, PTL DEF PartsSpec

(* ... and a call on an SRPC channel returns its own answer.                *)
THEOREM AnswersMatchInParts == PartsSpec => []AnswersMatch
<1>1. PartsInit => ChannelInvariant BY ChannelBegins, SrpcBounds DEF PartsInit
<1>2. ChannelInvariant /\ [PartsNext]_parts => ChannelInvariant'
  BY ComponentSteps, ChannelStep, SrpcBounds
<1>3. ChannelInvariant => AnswersMatch BY AnswersAreOwn DEF AnswersMatch, During
<1>4. QED BY <1>1, <1>2, <1>3, PTL DEF PartsSpec
=============================================================================
