----------------------------- MODULE ModuleStart -----------------------------
(***************************************************************************)
(* How a module that the plugin launched from a file is started: main of   *)
(* sel_main.c, the secure channel's thread of sel_ldr.c, and the plugin's  *)
(* side, InitCommunication of service_runtime_interface.cc with the calls  *)
(* of srt_socket.cc.                                                       *)
(*                                                                         *)
(* The two threads of the service runtime share nap->module_load_status    *)
(* and nap->module_may_start; the plugin has one call outstanding at a     *)
(* time.  load_module, which only the launcher that passes a buffer calls, *)
(* is left out: the main it would meet is not part of the source.          *)
(***************************************************************************)
LoadOk == "LOAD_OK"
Unknown == "LOAD_STATUS_UNKNOWN"
(* Of a check of the platform, of the load and of the preparation.         *)
LoadErrors == {"unsupported platform", "bad file", "no memory"}
Codes == LoadErrors \cup {LoadOk}

VARIABLES
  load_status, \* nap->module_load_status
  may_start,   \* nap->module_may_start
  errcode,     \* main's errcode
  main,        \* where main is
  channel,     \* where the channel's thread is
  plugin,      \* where the plugin is
  request,     \* the call the plugin waits for
  status       \* the status start_module has read for its answer

vars == <<load_status, may_start, errcode, main, channel, plugin, request, status>>

Nothing == "nothing"
Calls == {"set_origin", "start_module", "hard_shutdown"}

MainPlaces == {"load", "accept", "report", "wait", "launch", "module", "gone"}
ChannelPlaces == {"none", "serve", "start", "reply"}
PluginStates == {"connect", "connected", "origin", "started", "refused", "closed"}

TypeOK ==
  /\ load_status \in Codes \cup {Unknown}
  /\ may_start \in BOOLEAN
  /\ errcode \in Codes
  /\ main \in MainPlaces
  /\ channel \in ChannelPlaces
  /\ plugin \in PluginStates
  /\ request \in Calls \cup {Nothing}
  /\ status \in Codes \cup {Unknown}

Init ==
  /\ load_status = Unknown
  /\ may_start = FALSE
  /\ errcode = LoadOk
  /\ main = "load"
  /\ channel = "none"
  /\ plugin = "connect"
  /\ request = Nothing
  /\ status = Unknown

Alive == main # "gone"

-----------------------------------------------------------------------------
(* main.                                                                   *)

(* The platform is checked, the file loaded, the launch prepared: the      *)
(* first that fails leaves its error and the ones after it are skipped.    *)
Load(code) ==
  /\ main = "load"
  /\ main' = "accept"
  /\ errcode' = code
  /\ load_status' = IF code = LoadOk THEN load_status ELSE code
  /\ UNCHANGED <<may_start, channel, plugin, request, status>>

(* NaClSecureCommandChannel: main takes the plugin's connection and starts *)
(* the channel's thread.                                                   *)
Accept ==
  /\ main = "accept"
  /\ plugin = "connect"
  /\ main' = "report"
  /\ channel' = "serve"
  /\ plugin' = "connected"
  /\ UNCHANGED <<load_status, may_start, errcode, request, status>>

(* Faulty variant: main does not say that the module is loaded.            *)
LoadedUnreported ==
  /\ main = "report"
  /\ main' = "wait"
  /\ UNCHANGED <<load_status, may_start, errcode, channel, plugin, request, status>>

(* The module is loaded, which those who wait for it are told.             *)
ReportLoaded ==
  /\ main = "report"
  /\ load_status' = LoadOk
  /\ main' = "wait"
  /\ UNCHANGED <<may_start, errcode, channel, plugin, request, status>>

(* The process that confines the module does not answer as it should.      *)
ChrootFails ==
  /\ main = "report"
  /\ main' = "gone"
  /\ UNCHANGED <<load_status, may_start, errcode, channel, plugin, request, status>>

(* Faulty variant: main does not wait for the call.                        *)
StartCallNotAwaited ==
  /\ main = "wait"
  /\ main' = IF errcode = LoadOk THEN "launch" ELSE "gone"
  /\ UNCHANGED <<load_status, may_start, errcode, channel, plugin, request, status>>

(* NaClWaitForModuleStartStatusCall returns.                               *)
StartCallSeen ==
  /\ main = "wait"
  /\ may_start
  /\ main' = IF errcode = LoadOk THEN "launch" ELSE "gone"
  /\ UNCHANGED <<load_status, may_start, errcode, channel, plugin, request, status>>

(* The environment is filtered and the main thread created; either can     *)
(* fail, and the process ends.                                             *)
Launch ==
  /\ main = "launch"
  /\ main' \in {"module", "gone"}
  /\ UNCHANGED <<load_status, may_start, errcode, channel, plugin, request, status>>

ModuleExits ==
  /\ main = "module"
  /\ main' = "gone"
  /\ UNCHANGED <<load_status, may_start, errcode, channel, plugin, request, status>>

-----------------------------------------------------------------------------
(* The secure channel's thread.  It takes one request at a time.           *)

Answer == request' = Nothing

SetOrigin ==
  /\ Alive /\ channel = "serve" /\ request = "set_origin"
  /\ Answer
  /\ plugin' = "origin"
  /\ UNCHANGED <<load_status, may_start, errcode, main, channel, status>>

(* start_module up to its wait.                                            *)
StartModuleCalled ==
  /\ Alive /\ channel = "serve" /\ request = "start_module"
  /\ channel' = "start"
  /\ UNCHANGED <<load_status, may_start, errcode, main, plugin, request, status>>

(* The wait ends: the status is read, and main may go on.                  *)
StartModule ==
  /\ Alive /\ channel = "start"
  /\ load_status # Unknown
  /\ may_start' = TRUE
  /\ status' = load_status
  /\ channel' = "reply"
  /\ UNCHANGED <<load_status, errcode, main, plugin, request>>

(* The status goes back, if main has not ended the process meanwhile.      *)
StartModuleReplies ==
  /\ Alive /\ channel = "reply"
  /\ channel' = "serve"
  /\ IF plugin = "closed"
     THEN UNCHANGED <<plugin, request>>
     ELSE /\ plugin' = IF status = LoadOk THEN "started" ELSE "refused"
          /\ Answer
  /\ UNCHANGED <<load_status, may_start, errcode, main, status>>

(* hard_shutdown, or the channel is closed: _exit ends the process.        *)
ChannelEnds ==
  /\ Alive /\ channel = "serve"
  /\ request = "hard_shutdown" \/ plugin = "closed"
  /\ main' = "gone"
  /\ Answer
  /\ plugin' = "closed"
  /\ UNCHANGED <<load_status, may_start, errcode, channel, status>>

-----------------------------------------------------------------------------
(* The plugin.                                                             *)

Call(c) ==
  /\ request = Nothing
  /\ \/ c = "set_origin" /\ plugin = "connected"
     \/ c = "start_module" /\ plugin = "origin"
     \/ c = "hard_shutdown" /\ plugin \in {"origin", "started", "refused"}
  /\ request' = c
  /\ UNCHANGED <<load_status, may_start, errcode, main, channel, plugin, status>>

(* The process is gone: the call that waits fails.                         *)
CallFails ==
  /\ ~Alive /\ request # Nothing
  /\ Answer
  /\ plugin' = "closed"
  /\ UNCHANGED <<load_status, may_start, errcode, main, channel, status>>

(* The browser goes away, even in the middle of a call.                    *)
PluginCloses ==
  /\ plugin \in {"connected", "origin", "started", "refused"}
  /\ plugin' = "closed"
  /\ Answer
  /\ UNCHANGED <<load_status, may_start, errcode, main, channel, status>>

RuntimeNext ==
  \/ \E code \in Codes : Load(code)
  \/ Accept \/ ReportLoaded \/ StartCallSeen \/ Launch
  \/ SetOrigin \/ StartModuleCalled \/ StartModule \/ StartModuleReplies
  \/ ChannelEnds \/ CallFails

Next == RuntimeNext \/ ChrootFails \/ ModuleExits \/ (\E c \in Calls : Call(c)) \/ PluginCloses

Spec == Init /\ [][Next]_vars

(* The threads of the service runtime run, and a connection to a process   *)
(* that is gone is found closed.                                           *)
Fairness == WF_vars(RuntimeNext)

FairSpec == Spec /\ Fairness

-----------------------------------------------------------------------------

(* A module runs only after start_module was called on the secure channel  *)
(* and only if it was checked, loaded and prepared without an error; and a *)
(* plugin is refused for no other error than the one that occurred: main   *)
(* and the channel's thread agree through module_load_status and           *)
(* module_may_start alone.                                                 *)
StartAgreed ==
  /\ main \in {"launch", "module"} =>
       may_start /\ errcode = LoadOk /\ status = LoadOk
  /\ plugin = "refused" => status = errcode

(* A call of start_module ends: it is answered, also when the load had     *)
(* failed, or the process is gone and the call fails.                      *)
StartAnswered == request = "start_module" ~> request = Nothing

(* What the comments of start_module and main say: a plugin whose module   *)
(* has an error is not told that it is loaded.                             *)
ErrorReported == plugin = "started" => errcode = LoadOk

=============================================================================
