----------------------------- MODULE SrpcChannel -----------------------------
(***************************************************************************)
(* A channel of the simple RPC layer (src/shared/srpc): a client that      *)
(* calls NaClSrpcInvokeV, one call at a time, and a server in              *)
(* NaClSrpcServerLoop.  Both wait in NaClSrpcRpcWait.                      *)
(*                                                                         *)
(* A message is its header, the call it belongs to, and whether it can be  *)
(* read: the send buffer is emptied by a flush only, so what a message     *)
(* that did not fit left there is sent in front of the next one, whose     *)
(* arguments then do not parse.  The server calls nothing on the channel:  *)
(* its channel has no client interface.                                    *)
(***************************************************************************)
EXTENDS Naturals, Sequences

CONSTANT MaxCalls \* bound: the calls made

(* What is assumed of it.                                                  *)
Bounds == MaxCalls \in Nat

VARIABLES
  requests, responses, \* the messages under way in each direction
  leftover,   \* bytes of a request that did not fit are in the send buffer
  client,     \* the client: "idle", or "wait" in NaClSrpcRpcWait
  server,     \* the server: "loop", "method", "end" after its loop, "gone"
  next_outgoing_request_id,
  calls,      \* ghost: the calls so far; the client's last one
  serving,    \* ghost: the call whose method runs
  executed,   \* ghost: for each call, the times its method began
  unanswered, \* ghost: the calls the server dropped the answer of
  result      \* what the last call returned, and ghost: whose answer it is

vars == <<requests, responses, leftover, client, server, next_outgoing_request_id,
          calls, serving, executed, unanswered, result>>

NoCall == 0
Codes == {"ok", "app_error", "internal"}
Request == [id : Nat, call : 1 .. MaxCalls, torn : BOOLEAN]
Response == [id : Nat, call : 1 .. MaxCalls, app_error : Codes]
Result(code, answers) == [app_error |-> code, answers |-> answers]

TypeOK ==
  /\ requests \in Seq(Request) /\ Len(requests) <= 1
  /\ responses \in Seq(Response) /\ Len(responses) <= 1
  /\ leftover \in BOOLEAN
  /\ client \in {"idle", "wait"}
  /\ server \in {"loop", "method", "end", "gone"}
  /\ next_outgoing_request_id \in Nat
  /\ calls \in 0 .. MaxCalls
  /\ serving \in 0 .. MaxCalls
  /\ executed \in [1 .. MaxCalls -> Nat]
  /\ unanswered \subseteq 1 .. MaxCalls
  /\ result \in [app_error : Codes, answers : 0 .. MaxCalls]

Init ==
  /\ requests = <<>> /\ responses = <<>>
  /\ leftover = FALSE
  /\ client = "idle"
  /\ server = "loop"
  /\ next_outgoing_request_id = 0
  /\ calls = 0
  /\ serving = NoCall
  /\ executed = [c \in 1 .. MaxCalls |-> 0]
  /\ unanswered = {}
  /\ result = Result("ok", NoCall)

ServerUp == server \in {"loop", "method"}

-----------------------------------------------------------------------------
(* The client.                                                             *)

MayCall == client = "idle" /\ calls < MaxCalls

Return(code, answers) ==
  client' = "idle" /\ result' = Result(code, answers)

(* The request is sent.                                                    *)
RequestWrite ==
  /\ MayCall /\ ServerUp
  /\ calls' = calls + 1
  /\ requests' = Append(requests, [id |-> next_outgoing_request_id, call |-> calls + 1,
                                   torn |-> leftover])
  /\ leftover' = FALSE
  /\ client' = "wait"
  /\ UNCHANGED <<responses, server, next_outgoing_request_id, serving, executed,
                 unanswered, result>>

(* The arguments do not fit: what was written stays in the buffer.         *)
RequestTooLarge ==
  /\ MayCall
  /\ calls' = calls + 1
  /\ leftover' = TRUE
  /\ Return("internal", NoCall)
  /\ UNCHANGED <<requests, responses, server, next_outgoing_request_id, serving,
                 executed, unanswered>>

(* The transport refuses the message, for a bad handle or because the      *)
(* server is gone.                                                         *)
RequestRefused ==
  /\ MayCall
  /\ calls' = calls + 1
  /\ leftover' = FALSE
  /\ Return("internal", NoCall)
  /\ UNCHANGED <<requests, responses, server, next_outgoing_request_id, serving,
                 executed, unanswered>>

(* A response to the request that waits: its code, if the return values    *)
(* can be read.                                                            *)
TakeResponse ==
  /\ client = "wait" /\ responses # <<>>
  /\ LET m == Head(responses)
     IN IF m.id = next_outgoing_request_id
        THEN Return(m.app_error, m.call)
        ELSE Return("ok", NoCall) \* out of order: dropped, and the wait ends
  /\ responses' = Tail(responses)
  /\ UNCHANGED <<requests, leftover, server, next_outgoing_request_id, calls, serving,
                 executed, unanswered>>

(* Faulty variant: what cannot be parsed stays in the channel.             *)
LeaveBadResponse ==
  /\ client = "wait" /\ responses # <<>>
  /\ Return("internal", Head(responses).call)
  /\ UNCHANGED <<requests, responses, leftover, server, next_outgoing_request_id, calls,
                 serving, executed, unanswered>>

(* The response arrives but its return values do not parse.                *)
TakeBadResponse ==
  /\ client = "wait" /\ responses # <<>>
  /\ Return("internal", Head(responses).call)
  /\ responses' = Tail(responses)
  /\ UNCHANGED <<requests, leftover, server, next_outgoing_request_id, calls, serving,
                 executed, unanswered>>

(* The end of the channel ends the wait with the code the request was      *)
(* prepared with.                                                          *)
EndOfChannel ==
  /\ client = "wait" /\ responses = <<>> /\ server = "gone"
  /\ Return("ok", NoCall)
  /\ UNCHANGED <<requests, responses, leftover, server, next_outgoing_request_id,
                 calls, serving, executed, unanswered>>

-----------------------------------------------------------------------------
(* The server.                                                             *)

(* A request is read and its method called.                                *)
Dispatch ==
  /\ server = "loop" /\ requests # <<>> /\ ~Head(requests).torn
  /\ LET c == Head(requests).call
     IN /\ serving' = c
        /\ executed' = [executed EXCEPT ![c] = @ + 1]
  /\ requests' = Tail(requests)
  /\ server' = "method"
  /\ UNCHANGED <<responses, leftover, client, next_outgoing_request_id, calls,
                 unanswered, result>>

(* Faulty variant: the loop goes on to the next request.                   *)
RequestSkipped ==
  /\ server = "loop" /\ requests # <<>> /\ Head(requests).torn
  /\ requests' = Tail(requests)
  /\ UNCHANGED <<responses, leftover, client, server, next_outgoing_request_id, calls,
                 serving, executed, unanswered, result>>

(* The arguments of a request do not parse: that ends the loop.            *)
RequestGetFails ==
  /\ server = "loop" /\ requests # <<>> /\ Head(requests).torn
  /\ requests' = Tail(requests)
  /\ server' = "end"
  /\ UNCHANGED <<responses, leftover, client, next_outgoing_request_id, calls, serving,
                 executed, unanswered, result>>

Respond(code) ==
  responses' = Append(responses, [id |-> next_outgoing_request_id, call |-> serving,
                                  app_error |-> code])

(* The method returns and its response is sent; NACL_SRPC_RESULT_BREAK is  *)
(* sent as OK and ends the loop; a response that the transport refuses is  *)
(* sent again as an error, without the return values.                      *)
ResponseWrite(code, break) ==
  /\ server = "method"
  /\ break => code # "app_error"
  /\ Respond(code)
  /\ server' = IF break THEN "end" ELSE "loop"
  /\ serving' = NoCall
  /\ UNCHANGED <<requests, leftover, client, next_outgoing_request_id, calls, executed,
                 unanswered, result>>

(* The return values do not fit: the request is dropped.                   *)
ResponseTooLarge ==
  /\ server = "method"
  /\ server' = "loop"
  /\ unanswered' = unanswered \cup {serving}
  /\ serving' = NoCall
  /\ UNCHANGED <<requests, responses, leftover, client, next_outgoing_request_id, calls,
                 executed, result>>

(* The loop has ended, or the module exits: the channel is closed.         *)
Close ==
  /\ server = "end"
  /\ server' = "gone"
  /\ UNCHANGED <<requests, responses, leftover, client, next_outgoing_request_id, calls,
                 serving, executed, unanswered, result>>

ModuleExits ==
  /\ ServerUp
  /\ server' = "gone"
  /\ serving' = NoCall
  /\ UNCHANGED <<requests, responses, leftover, client, next_outgoing_request_id, calls,
                 executed, unanswered, result>>

-----------------------------------------------------------------------------
Receive == TakeResponse \/ TakeBadResponse \/ EndOfChannel
Serve ==
  \/ Dispatch \/ RequestGetFails \/ ResponseTooLarge \/ Close
  \/ \E code \in Codes, break \in BOOLEAN : ResponseWrite(code, break)

Next ==
  \/ RequestWrite \/ RequestTooLarge \/ RequestRefused \/ Receive
  \/ Serve \/ ModuleExits

Spec == Init /\ [][Next]_vars

(* Both sides run, and methods return.                                     *)
Fairness == WF_vars(Receive) /\ WF_vars(Serve)

FairSpec == Spec /\ Fairness

-----------------------------------------------------------------------------

(* The answer a call returns is its own, although every request has the    *)
(* same id: a response is never left for the next call.  A method runs at  *)
(* most once for a call, and never for one that the client was told could  *)
(* not be sent.                                                            *)
AnswersMatch ==
  /\ client = "idle" => result.answers \in {NoCall, calls}
  /\ responses # <<>> => client = "wait" /\ Head(responses).call = calls
  /\ \A c \in 1 .. MaxCalls : executed[c] <= 1
  /\ client = "idle" /\ calls > 0 /\ result = Result("internal", NoCall) =>
       executed[calls] = 0

(* A call returns, with an answer, or because the channel was closed, also *)
(* when the request before it left its bytes in the buffer; unless the     *)
(* server dropped an answer that did not fit.                              *)
CallReturns ==
  client = "wait" ~> client = "idle" \/ calls \in unanswered

=============================================================================
