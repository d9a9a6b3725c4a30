----------------------------- MODULE AudioStream -----------------------------
(***************************************************************************)
(* Audio of the service runtime (nacl_bottom_half.c): the module's main    *)
(* thread runs audio_init and audio_shutdown, one thread of the module     *)
(* calls audio_stream for one block after another, and SDL's audio thread  *)
(* asks for a block with __NaCl_InternalAudioCallback.                     *)
(*                                                                         *)
(* The three share nacl_multimedia.audio.  audio_stream keeps the global   *)
(* nacl_multimedia_mutex while it waits for the callback; audio.mutex is   *)
(* only held between waits, so what is done under it is one step, but      *)
(* audio_shutdown sets audio.shutdown without any mutex.                   *)
(***************************************************************************)
EXTENDS Naturals

CONSTANT MaxSessions \* bound: the times the module opens the device

VARIABLES
  holder,     \* who has nacl_multimedia_mutex
  have_audio, \* nacl_multimedia.have_audio
  ready, size, first, shutdown, \* of nacl_multimedia.audio
  device,     \* SDL's device: closed, paused, playing, closing
  callback,   \* where SDL's audio thread is
  stream,     \* where the module's audio thread is
  main,       \* what the main thread does for the module
  filled,     \* ghost: the block last lent has been copied
  sessions    \* the sessions so far

vars == <<holder, have_audio, ready, size, first, shutdown, device, callback,
          stream, main, filled, sessions>>
audio == <<ready, size, first, shutdown>>

Nobody == "nobody"
Block == 1 \* the bytes SDL asks for; 0 for none

TypeOK ==
  /\ holder \in {Nobody, "main", "stream"}
  /\ have_audio \in BOOLEAN /\ ready \in BOOLEAN /\ first \in BOOLEAN
  /\ shutdown \in BOOLEAN /\ filled \in BOOLEAN
  /\ size \in {0, Block}
  /\ device \in {"closed", "paused", "playing", "closing"}
  /\ callback \in {"idle", "enter", "wait", "woken"}
  /\ stream \in {"left", "app", "lock", "copy", "sync", "wait", "woken", "done"}
  /\ main \in {"idle", "init", "shutdown", "lock", "tell", "close"}
  /\ sessions \in 0 .. MaxSessions

Init ==
  /\ holder = Nobody
  /\ have_audio = FALSE /\ ready = FALSE /\ first = FALSE /\ shutdown = FALSE
  /\ size = 0
  /\ device = "closed"
  /\ callback = "idle"
  /\ stream = "left"
  /\ main = "idle"
  /\ filled = FALSE
  /\ sessions = 0

(* What a signal or a broadcast on audio.condvar does to one who may wait: *)
(* the callback and audio_stream are the only ones, and never both.        *)
Tell(where) == IF where = "wait" THEN "woken" ELSE where

(* audio_stream has audio.mutex from the end of its wait to its return.    *)
AudioMutexFree == stream # "done"

-----------------------------------------------------------------------------
(* NaClBotSysAudio_Init, on the main thread.                               *)

AskForAudio ==
  /\ main = "idle" /\ ~have_audio /\ sessions < MaxSessions
  /\ main' = "init"
  /\ sessions' = sessions + 1
  /\ UNCHANGED <<holder, have_audio, audio, device, callback, stream, filled>>

AudioInit(opened) ==
  /\ main = "init" /\ holder = Nobody
  /\ ready' = FALSE /\ size' = 0 /\ first' = TRUE /\ shutdown' = FALSE
  /\ have_audio' = opened
  /\ device' = IF opened THEN "paused" ELSE "closed"
  /\ main' = "idle"
  /\ UNCHANGED <<holder, callback, stream, filled, sessions>>

(* The number of samples is out of range.                                  *)
AudioInitRefused ==
  /\ main = "init" /\ holder = Nobody
  /\ main' = "idle"
  /\ UNCHANGED <<holder, have_audio, audio, device, callback, stream, filled, sessions>>

-----------------------------------------------------------------------------
(* NaClBotSysAudio_Shutdown, on the main thread.                           *)

AskForShutdown ==
  /\ main = "idle" /\ have_audio
  /\ main' = "shutdown"
  /\ UNCHANGED <<holder, have_audio, audio, device, callback, stream, filled, sessions>>

ShutdownFlag ==
  /\ main = "shutdown"
  /\ shutdown' = TRUE
  /\ main' = "lock"
  /\ UNCHANGED <<holder, have_audio, ready, size, first, device, callback, stream,
                 filled, sessions>>

ShutdownLock ==
  /\ main = "lock" /\ holder = Nobody
  /\ holder' = "main"
  /\ main' = "tell"
  /\ UNCHANGED <<have_audio, audio, device, callback, stream, filled, sessions>>

(* The broadcast under audio.mutex.                                        *)
ShutdownTell ==
  /\ main = "tell"
  /\ callback' = Tell(callback)
  /\ stream' = Tell(stream)
  /\ main' = "close"
  /\ UNCHANGED <<holder, have_audio, audio, device, filled, sessions>>

(* SDL_CloseAudio begins no callback any more and waits for its thread.    *)
CloseBegins ==
  /\ main = "close" /\ device \in {"paused", "playing"}
  /\ device' = "closing"
  /\ UNCHANGED <<holder, have_audio, audio, callback, stream, main, filled, sessions>>

ShutdownEnds ==
  /\ main = "close" /\ device = "closing" /\ callback = "idle"
  /\ device' = "closed"
  /\ have_audio' = FALSE
  /\ holder' = Nobody
  /\ main' = "idle"
  /\ UNCHANGED <<audio, callback, stream, filled, sessions>>

-----------------------------------------------------------------------------
(* __NaCl_InternalAudioCallback, on SDL's thread.                          *)

CallbackBegins ==
  /\ device = "playing" /\ callback = "idle"
  /\ callback' = "enter"
  /\ UNCHANGED <<holder, have_audio, audio, device, stream, main, filled, sessions>>

(* Faulty variant: the callback waits, but for nobody to be shut down.     *)
MustWaitAlways == ready

(* Faulty variant: the callback returns at the first wake-up.              *)
MustNotWait == FALSE

(* Whether the callback goes on waiting.                                   *)
MustWait == ready /\ ~shutdown

(* The block is lent, audio_stream is told, and the callback waits for it. *)
CallbackLends ==
  /\ callback = "enter" /\ ~ready /\ AudioMutexFree
  /\ ready' = TRUE
  /\ size' = Block
  /\ filled' = FALSE
  /\ stream' = Tell(stream)
  /\ callback' = IF shutdown THEN "idle" ELSE "wait"
  /\ UNCHANGED <<holder, have_audio, first, shutdown, device, main, sessions>>

CallbackSkips ==
  /\ callback = "enter" /\ ready /\ AudioMutexFree
  /\ callback' = "idle"
  /\ UNCHANGED <<holder, have_audio, audio, device, stream, main, filled, sessions>>

(* It is woken: it waits on, or returns to SDL, which plays the block.     *)
CallbackWakes ==
  /\ callback = "woken" /\ AudioMutexFree
  /\ callback' = IF MustWait THEN "wait" ELSE "idle"
  /\ UNCHANGED <<holder, have_audio, audio, device, stream, main, filled, sessions>>

-----------------------------------------------------------------------------
(* NaClSliceSysAudio_Stream, on the module's audio thread.                 *)

(* The module starts its audio thread once it has the device, and the      *)
(* thread leaves when a call returns -1.                                   *)
StreamThreadStarts ==
  /\ stream = "left" /\ main = "idle" /\ have_audio
  /\ stream' = "app"
  /\ UNCHANGED <<holder, have_audio, audio, device, callback, main, filled, sessions>>

StreamCalled ==
  /\ stream = "app"
  /\ stream' = "lock"
  /\ UNCHANGED <<holder, have_audio, audio, device, callback, main, filled, sessions>>

StreamLocks ==
  /\ stream = "lock" /\ holder = Nobody
  /\ IF have_audio
     THEN /\ holder' = "stream"
          /\ stream' = IF first THEN "sync" ELSE "copy"
     ELSE /\ stream' = "left"
          /\ UNCHANGED holder
  /\ UNCHANGED <<have_audio, audio, device, callback, main, filled, sessions>>

(* The memcpy ends.                                                        *)
StreamCopies ==
  /\ stream = "copy"
  /\ filled' = (size = Block)
  /\ stream' = "sync"
  /\ UNCHANGED <<holder, have_audio, audio, device, callback, main, sessions>>

(* The device is started by the first call, the callback is told that its  *)
(* block is there, and the next one is waited for.                         *)
StreamSyncs ==
  /\ stream = "sync"
  /\ device' = IF first THEN "playing" ELSE device
  /\ first' = FALSE
  /\ ready' = FALSE
  /\ callback' = IF ready THEN Tell(callback) ELSE callback
  /\ size' = 0
  /\ stream' = IF shutdown THEN "done" ELSE "wait"
  /\ UNCHANGED <<holder, have_audio, shutdown, main, filled, sessions>>

StreamWakes ==
  /\ stream = "woken"
  /\ stream' = IF ~ready /\ ~shutdown THEN "wait" ELSE "done"
  /\ UNCHANGED <<holder, have_audio, audio, device, callback, main, filled, sessions>>

(* The size of the next block is returned, or -1 for the end.  The mutexes *)
(* are released.                                                           *)
StreamReturns ==
  /\ stream = "done"
  /\ size' = IF shutdown THEN 0 ELSE size
  /\ stream' = IF shutdown THEN "left" ELSE "app"
  /\ holder' = Nobody
  /\ UNCHANGED <<have_audio, ready, first, shutdown, device, callback, main, filled,
                 sessions>>

(* A wait may end without a signal.                                        *)
Spurious ==
  /\ \/ callback = "wait" /\ callback' = "woken" /\ UNCHANGED stream
     \/ stream = "wait" /\ stream' = "woken" /\ UNCHANGED callback
  /\ UNCHANGED <<holder, have_audio, audio, device, main, filled, sessions>>

-----------------------------------------------------------------------------
MainNext ==
  \/ \E opened \in BOOLEAN : AudioInit(opened)
  \/ AudioInitRefused
  \/ ShutdownFlag \/ ShutdownLock \/ ShutdownTell \/ CloseBegins \/ ShutdownEnds
CallbackNext == CallbackBegins \/ CallbackLends \/ CallbackSkips \/ CallbackWakes
StreamNext == StreamLocks \/ StreamCopies \/ StreamSyncs \/ StreamWakes \/ StreamReturns
ModuleNext == AskForAudio \/ AskForShutdown \/ StreamThreadStarts \/ StreamCalled

Next == MainNext \/ CallbackNext \/ StreamNext \/ ModuleNext \/ Spurious

Spec == Init /\ [][Next]_vars

(* The threads run, and a device that plays asks for blocks.  Nothing says *)
(* when the module asks for anything.                                      *)
Fairness == WF_vars(MainNext) /\ WF_vars(CallbackNext) /\ WF_vars(StreamNext)

FairSpec == Spec /\ Fairness

-----------------------------------------------------------------------------

(* audio_stream copies into a block that SDL has lent and has not taken    *)
(* back: the callback still waits, unless a shutdown was announced, and    *)
(* SDL has not closed the device, which frees the block.  The copy itself  *)
(* is made without audio.mutex.                                            *)
BlockLent ==
  stream = "copy" /\ size = Block =>
    /\ device = "playing"
    /\ shutdown \/ (callback \in {"wait", "woken"} /\ ready)

(* SDL gets a block back only when the module has filled it since it was   *)
(* lent, until a shutdown is announced: neither a wait that ends early nor *)
(* an old value of ready lets it go.                                       *)
BlocksFilled ==
  [][callback # "idle" /\ callback' = "idle" /\ ~shutdown => filled]_vars

(* A shutdown ends, whatever the callback and audio_stream wait for when   *)
(* the flag is set, and then nobody is left in a wait.                     *)
ShutdownEndsWaits ==
  main = "shutdown" ~>
    main = "idle" /\ callback = "idle" /\ stream \in {"left", "app", "lock"}

=============================================================================
