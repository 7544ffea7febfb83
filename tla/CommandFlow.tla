----------------------------- MODULE CommandFlow -----------------------------
(***************************************************************************)
(* Commands from the threads that send them to the handler that runs them  *)
(* and back.                                                               *)
(*                                                                         *)
(* A caller is a thread in PlumberCommandBus::Send (or Start); it goes     *)
(* through ProtoReqRspClientHandler::OnSend and NngReqRspClientSocket one  *)
(* access to shared state at a time.  Callers may share a client: nothing  *)
(* in the code keeps them from it.  The server is the one receive thread   *)
(* of NngReqRspSrvSocket inside ProtoReqRspSrvHandler.  Between them is    *)
(* NNG (external): a REQ socket has one outstanding request, a new send    *)
(* replaces it, a reply is matched by request id, and an unanswered        *)
(* request is sent again when its timer expires or the server comes back.  *)
(***************************************************************************)
EXTENDS Naturals

CONSTANTS Callers,     \* the threads that send commands
          Clients,     \* the client handlers, each with its socket
          ClientOf,    \* the client a caller uses
          Commands,    \* the commands that are sent
          Unreadable,  \* the commands that make ProtoFrameBufferView::Read or
                       \* MessageDispatcher::Handle throw on the server: no
                       \* bytes of payload, an unknown id, no handler
          Unsendable,  \* the commands OnSend cannot write: not registered at
                       \* the client, or too large for the frame
          Outcomes,    \* what a command handler may do
          MaxRequests, \* bound: requests per client
          MaxTx,       \* bound: transmissions of a request per server life
          MaxStarts,   \* bound: server lives
          None

(* How a handler ends: it returns, it throws FaultException(code) or       *)
(* TypedFaultException(code), or it throws anything else.  No handler      *)
(* returns a message: that overload of RegisterHandler calls Write with a  *)
(* pointer, which selects a template that does not compile.                *)
Outcome == [kind : {"ok", "fault", "typed", "throw"}, code : Nat]

ASSUME CallersAssumption == ClientOf \in [Callers -> Clients]
ASSUME CommandsAssumption ==
  Unreadable \subseteq Commands /\ Unsendable \subseteq Commands
ASSUME OutcomesAssumption == Outcomes \subseteq Outcome
ASSUME BoundsAssumption ==
  MaxRequests \in Nat /\ MaxTx \in Nat \ {0} /\ MaxStarts \in Nat

VARIABLES
  pc,       \* pc[c]: the next step of caller c
  op,       \* op[c]: the call c is in, "send" or "start"
  cmd,      \* cmd[c]: the command c sends or has sent last
  mine,     \* mine[c]: the request id c's command went out under (history)
  result,   \* result[c]: how c's last call ended
  handlerConnected, \* ProtoReqRspClientHandler::_connected
  socketConnected,  \* NngReqRspClientSocket::_connected
  out,      \* out[k]: the outstanding request of k's REQ socket (external)
  nextId,   \* nextId[k]: the requests k's REQ socket has made (external)
  toServer, \* requests under way (external)
  toClient, \* replies under way (external)
  srv,      \* the server process
  cur,      \* what ProtoReqRspSrvHandler::_inBuffer holds
  outRsp,   \* what ProtoReqRspSrvHandler::_outBuffer holds
  starts,   \* which life of the server this is
  sent,     \* history: every transmission of a request
  ran       \* history: every execution of a handler

callerVars == <<pc, op, cmd, mine, result>>
flagVars == <<handlerConnected, socketConnected>>
netVars == <<out, nextId, toServer, toClient, sent>>
srvVars == <<srv, cur, outRsp, starts, ran>>
vars == <<callerVars, flagVars, netVars, srvVars>>

Up == srv \in {"recv", "handle", "reply"}

-----------------------------------------------------------------------------
(***************************************************************************)
(* Responses.  Reply is the frame HandleRequest writes for the end of a    *)
(* handler: status 200 and no type, or ErrorCode() and MessageTypeId() of  *)
(* the fault, and never a payload: TypedFaultException has a message type  *)
(* (1 stands for it) but inherits Get(), which returns null.               *)
(* ProcessResponse is what the client makes of it: Read throws when a      *)
(* frame has a type and no payload; a status outside 200..299 becomes a    *)
(* FaultException, anything else returns.  As no frame has a payload, none *)
(* is ever cast and no exception factory is ever called.                   *)
(***************************************************************************)
StatusOf(o) == IF o.kind = "ok" THEN 200 ELSE o.code

(* Fault: the response has no type field.                                  *)
ReplyWithoutType(o) == [status |-> StatusOf(o)]

Reply(o) == [status |-> StatusOf(o),
             type   |-> IF o.kind = "typed" THEN 1 ELSE 0]

ProcessResponse(r) ==
  IF r.type # 0 THEN [kind |-> "unreadable", code |-> 0]
  ELSE IF r.status < 200 \/ r.status >= 300
         THEN [kind |-> "fault", code |-> r.status]
  ELSE [kind |-> "returned", code |-> 0]

(* The ends of a call that a response decides.                             *)
Answered(r) == r.kind \in {"unreadable", "fault", "returned"}

Failed(why) == [kind |-> why, code |-> 0]

Response == [status : Nat, type : {0, 1}]
Transmission == [client : Clients, id : Nat, cmd : Commands,
                 life : Nat, tx : Nat]
ReplyMessage == [client : Clients, id : Nat, rsp : Response]
Result == [kind : {"none", "unreadable", "fault", "returned", "started",
                   "already connected", "not connected", "dial failed",
                   "not written", "socket error"},
           code : Nat]

PcValues == {"idle", "connect", "start", "dial", "mark", "connected",
             "send", "recv", "wait"}

CallerTypes ==
  /\ pc \in [Callers -> PcValues]
  /\ op \in [Callers -> {"send", "start"}]
  /\ cmd \in [Callers -> Commands \cup {None}]
  /\ mine \in [Callers -> Nat]
  /\ result \in [Callers -> Result]

FlagTypes ==
  /\ handlerConnected \in [Clients -> BOOLEAN]
  /\ socketConnected \in [Clients -> BOOLEAN]

NetTypes ==
  /\ out \in [Clients -> [id : Nat, reply : Response \cup {None}]]
  /\ nextId \in [Clients -> Nat]
  /\ toServer \subseteq Transmission
  /\ toClient \subseteq ReplyMessage
  /\ sent \subseteq Transmission

ServerTypes ==
  /\ srv \in {"off", "recv", "handle", "reply", "dead"}
  /\ cur \in Transmission \cup {None}
  /\ outRsp \in Response \cup {None}
  /\ starts \in Nat
  /\ ran \subseteq [req : Transmission, out : Outcome]

TypeOK == CallerTypes /\ FlagTypes /\ NetTypes /\ ServerTypes

Init ==
  /\ pc = [c \in Callers |-> "idle"]
  /\ op = [c \in Callers |-> "send"]
  /\ cmd = [c \in Callers |-> None]
  /\ mine = [c \in Callers |-> 0]
  /\ result = [c \in Callers |-> Failed("none")]
  /\ handlerConnected = [k \in Clients |-> FALSE]
  /\ socketConnected = [k \in Clients |-> FALSE]
  /\ out = [k \in Clients |-> [id |-> 0, reply |-> None]]
  /\ nextId = [k \in Clients |-> 0]
  /\ toServer = {} /\ toClient = {} /\ sent = {}
  /\ srv = "off" /\ cur = None /\ outRsp = None /\ starts = 0
  /\ ran = {}

-----------------------------------------------------------------------------
(***************************************************************************)
(* The client.                                                             *)
(***************************************************************************)
Goto(c, l) == pc' = [pc EXCEPT ![c] = l]

(* The call ends: it returns to the caller or throws.                      *)
End(c, r) == /\ pc' = [pc EXCEPT ![c] = "idle"]
             /\ result' = [result EXCEPT ![c] = r]

(* PlumberCommandBus::Send, ProtoReqRspClientHandler::Send and OnSend.     *)
Send(c, m) ==
  /\ pc[c] = "idle"
  /\ nextId[ClientOf[c]] < MaxRequests
  /\ Goto(c, "connect")
  /\ op' = [op EXCEPT ![c] = "send"]
  /\ cmd' = [cmd EXCEPT ![c] = m]
  /\ result' = [result EXCEPT ![c] = Failed("none")]
  /\ UNCHANGED <<mine, flagVars, netVars, srvVars>>

(* PlumberClient::Start, PlumberCommandBus::Start and                      *)
(* ProtoReqRspClientHandler::Start: only the connection.                   *)
Start(c) ==
  /\ pc[c] = "idle"
  /\ nextId[ClientOf[c]] < MaxRequests
  /\ Goto(c, "connect")
  /\ op' = [op EXCEPT ![c] = "start"]
  /\ result' = [result EXCEPT ![c] = Failed("none")]
  /\ UNCHANGED <<cmd, mine, flagVars, netVars, srvVars>>

(* Connected: Start is done, Send goes on.                                 *)
Proceed(c) ==
  IF op[c] = "start" THEN End(c, Failed("started"))
                     ELSE Goto(c, "send") /\ UNCHANGED result

(* if (!_connected) in OnSend and in Start, of the handler.                *)
CheckConnected(c) ==
  /\ pc[c] = "connect"
  /\ IF handlerConnected[ClientOf[c]]
       THEN Proceed(c)
       ELSE Goto(c, "start") /\ UNCHANGED result
  /\ UNCHANGED <<op, cmd, mine, flagVars, netVars, srvVars>>

(* if (_connected) throw in NngReqRspClientSocket::Start.                  *)
SocketStart(c) ==
  /\ pc[c] = "start"
  /\ IF socketConnected[ClientOf[c]]
       THEN End(c, Failed("already connected"))
       ELSE Goto(c, "dial") /\ UNCHANGED result
  /\ UNCHANGED <<op, cmd, mine, flagVars, netVars, srvVars>>

(* _socket.dial: throws when nobody listens at the address.                *)
Dial(c) ==
  /\ pc[c] = "dial"
  /\ IF Up THEN Goto(c, "mark") /\ UNCHANGED result
           ELSE End(c, Failed("dial failed"))
  /\ UNCHANGED <<op, cmd, mine, flagVars, netVars, srvVars>>

(* _connected = true in NngReqRspClientSocket::Start.                      *)
MarkSocket(c) ==
  /\ pc[c] = "mark"
  /\ socketConnected' = [socketConnected EXCEPT ![ClientOf[c]] = TRUE]
  /\ Goto(c, "connected")
  /\ UNCHANGED <<op, cmd, mine, result, handlerConnected, netVars, srvVars>>

(* Fault: the handler's flag is never set.                                 *)
MarkHandlerForgotten(c) ==
  /\ pc[c] = "connected"
  /\ Proceed(c)
  /\ UNCHANGED <<op, cmd, mine, flagVars, netVars, srvVars>>

(* _connected = true in ProtoReqRspClientHandler.                          *)
MarkHandler(c) ==
  /\ pc[c] = "connected"
  /\ handlerConnected' = [handlerConnected EXCEPT ![ClientOf[c]] = TRUE]
  /\ Proceed(c)
  /\ UNCHANGED <<op, cmd, mine, socketConnected, netVars, srvVars>>

(* OnSend when GetMessageId or Write throws: the client is connected by    *)
(* then and nothing is sent.                                               *)
WriteFails(c) ==
  /\ pc[c] = "send"
  /\ cmd[c] \in Unsendable
  /\ End(c, Failed("not written"))
  /\ UNCHANGED <<op, cmd, mine, flagVars, netVars, srvVars>>

Waiters(k) == {c \in Callers : ClientOf[c] = k /\ pc[c] = "wait"}

(***************************************************************************)
(* NngReqRspClientSocket::Send up to the return of _socket.send.  NNG      *)
(* blocks while there is no server to send to; then the request replaces   *)
(* the outstanding one, and whoever waits for that one's reply gets        *)
(* ECANCELED.                                                              *)
(***************************************************************************)
SocketSend(c) ==
  LET k  == ClientOf[c]
      id == nextId[k] + 1
      m  == [client |-> k, id |-> id, cmd |-> cmd[c], life |-> starts,
             tx |-> 1]
  IN  /\ pc[c] = "send"
      /\ cmd[c] \notin Unsendable
      /\ \/ /\ ~socketConnected[k]
            /\ End(c, Failed("not connected"))
            /\ UNCHANGED <<mine, netVars>>
         \/ /\ socketConnected[k] /\ Up
            /\ pc' = [d \in Callers |-> IF d = c THEN "recv"
                                        ELSE IF d \in Waiters(k) THEN "idle"
                                        ELSE pc[d]]
            /\ result' = [d \in Callers |-> IF d \in Waiters(k)
                                              THEN Failed("socket error")
                                              ELSE result[d]]
            /\ mine' = [mine EXCEPT ![c] = id]
            /\ nextId' = [nextId EXCEPT ![k] = id]
            /\ out' = [out EXCEPT ![k] = [id |-> id, reply |-> None]]
            /\ sent' = sent \cup {m}
            /\ toServer' = toServer \cup {m}
            /\ UNCHANGED toClient
      /\ UNCHANGED <<op, cmd, flagVars, srvVars>>

(* _socket.recv: ESTATE when nothing is outstanding or another thread      *)
(* already waits; otherwise it blocks, without a timeout.                  *)
SocketRecv(c) ==
  /\ pc[c] = "recv"
  /\ IF out[ClientOf[c]].id = 0 \/ Waiters(ClientOf[c]) # {}
       THEN End(c, Failed("socket error"))
       ELSE Goto(c, "wait") /\ UNCHANGED result
  /\ UNCHANGED <<op, cmd, mine, flagVars, netVars, srvVars>>

(* recv returns the reply; AckWritten, OnResponse and ProcessResponse.     *)
Return(c) ==
  LET k == ClientOf[c]
  IN  /\ pc[c] = "wait"
      /\ out[k].reply # None
      /\ End(c, ProcessResponse(out[k].reply))
      /\ out' = [out EXCEPT ![k] = [id |-> 0, reply |-> None]]
      /\ UNCHANGED <<op, cmd, mine, flagVars, nextId, toServer, toClient,
                     sent, srvVars>>

-----------------------------------------------------------------------------
(***************************************************************************)
(* NNG.                                                                    *)
(***************************************************************************)

(* A reply reaches the REQ socket of its client: it is kept if it is for   *)
(* the outstanding request and discarded otherwise.                        *)
DeliverReply(m) ==
  /\ m \in toClient
  /\ toClient' = toClient \ {m}
  /\ out' = IF out[m.client].id = m.id /\ out[m.client].reply = None
              THEN [out EXCEPT ![m.client].reply = m.rsp] ELSE out
  /\ UNCHANGED <<callerVars, flagVars, nextId, toServer, sent, srvVars>>

(* The outstanding request goes out again.  n = 1: the pipe it was sent    *)
(* over is gone and the server is back.  n > 1: the resend timer expired.  *)
Resend(k, n) ==
  LET again(i) == {m \in sent : /\ m.client = k /\ m.id = out[k].id
                                /\ m.life = starts /\ m.tx = i}
  IN  /\ Up
      /\ out[k].id # 0 /\ out[k].reply = None
      /\ again(n) = {} /\ (n > 1 => again(n - 1) # {})
      /\ \E m \in {[p EXCEPT !.life = starts, !.tx = n] :
                     p \in {q \in sent : q.client = k /\ q.id = out[k].id}} :
           /\ sent' = sent \cup {m}
           /\ toServer' = toServer \cup {m}
      /\ UNCHANGED <<callerVars, flagVars, out, nextId, toClient, srvVars>>

-----------------------------------------------------------------------------
(***************************************************************************)
(* The server.                                                             *)
(***************************************************************************)

(* Plumber::Start, CommandServiceHandler::Start,                           *)
(* ProtoReqRspSrvHandler::Start and NngReqRspSrvSocket::Start in a process *)
(* that was just launched: new buffers, listen, receive thread.            *)
StartServer ==
  /\ srv \in {"off", "dead"}
  /\ starts < MaxStarts
  /\ srv' = "recv" /\ starts' = starts + 1
  /\ cur' = None /\ outRsp' = None
  /\ UNCHANGED <<callerVars, flagVars, netVars, ran>>

(* The process is gone: what it had not read is lost, and of what it had   *)
(* sent some may still arrive.                                             *)
Terminate ==
  /\ srv' = "dead"
  /\ toServer' = {}
  /\ toClient' \in SUBSET toClient
  /\ UNCHANGED <<callerVars, flagVars, out, nextId, sent, starts>>

(* The process ends for a reason of its own between two steps.             *)
Crash == Up /\ Terminate /\ UNCHANGED <<cur, outRsp, ran>>

(* ReceiveLoop: recv returns request m, which is then in _inBuffer.        *)
Receive(m) ==
  /\ srv = "recv"
  /\ m \in toServer
  /\ cur' = m
  /\ srv' = "handle"
  /\ toServer' = toServer \ {m}
  /\ UNCHANGED <<callerVars, flagVars, out, nextId, toClient, sent, outRsp,
                 starts, ran>>

(* Fault: after the timeout the loop goes on with the buffer as it is.     *)
TimeoutFallsThrough ==
  /\ srv = "recv"
  /\ toServer = {}
  /\ srv' = IF cur # None THEN "handle" ELSE "recv"
  /\ UNCHANGED <<callerVars, flagVars, netVars, cur, outRsp, starts, ran>>

(* ReceiveLoop: recv times out after 1000 ms and the loop goes on.         *)
ReceiveTimeout ==
  /\ srv = "recv"
  /\ toServer = {}
  /\ UNCHANGED vars

(* HandleRequest when Read, or the lookup of the handler, throws: nothing  *)
(* in ReceiveLoop catches it, the thread's exception ends the process.     *)
RejectRequest ==
  /\ srv = "handle"
  /\ cur.cmd \in Unreadable
  /\ Terminate
  /\ UNCHANGED <<cur, outRsp, ran>>

(* Fault: the catch clause for FaultException returns without writing, and *)
(* what the buffer still holds goes out.                                   *)
HandleRequestKeepsOldResponse(o) ==
  /\ srv = "handle" /\ cur.cmd \notin Unreadable /\ o.kind # "throw"
  /\ ran' = ran \cup {[req |-> cur, out |-> o]}
  /\ outRsp' = IF o.kind = "ok" \/ outRsp = None THEN Reply(o) ELSE outRsp
  /\ srv' = "reply"
  /\ UNCHANGED <<callerVars, flagVars, netVars, cur, starts>>

(* HandleRequest: the handler runs and returns or throws a fault; the      *)
(* response is in _outBuffer.                                              *)
HandleRequest(o) ==
  /\ srv = "handle"
  /\ cur.cmd \notin Unreadable
  /\ o.kind # "throw"
  /\ ran' = ran \cup {[req |-> cur, out |-> o]}
  /\ outRsp' = Reply(o)
  /\ srv' = "reply"
  /\ UNCHANGED <<callerVars, flagVars, netVars, cur, starts>>

(* HandleRequest: the handler throws something that is not a               *)
(* FaultException; it is rethrown and ends the process.                    *)
HandlerThrows(o) ==
  /\ srv = "handle"
  /\ cur.cmd \notin Unreadable
  /\ o.kind = "throw"
  /\ ran' = ran \cup {[req |-> cur, out |-> o]}
  /\ Terminate
  /\ UNCHANGED <<cur, outRsp>>

(* Fault: only success is answered.                                        *)
SendResponseOnSuccess ==
  /\ srv = "reply"
  /\ toClient' = IF outRsp.status # 200 THEN toClient
                 ELSE toClient \cup {[client |-> cur.client, id |-> cur.id,
                                      rsp |-> outRsp]}
  /\ srv' = "recv"
  /\ UNCHANGED <<callerVars, flagVars, out, nextId, toServer, sent, cur,
                 outRsp, starts, ran>>

(* ReceiveLoop: _socket.send of the response to whoever sent the request.  *)
SendResponse ==
  /\ srv = "reply"
  /\ toClient' = toClient \cup {[client |-> cur.client, id |-> cur.id,
                                 rsp |-> outRsp]}
  /\ srv' = "recv"
  /\ UNCHANGED <<callerVars, flagVars, out, nextId, toServer, sent, cur,
                 outRsp, starts, ran>>

-----------------------------------------------------------------------------
CallerNext(c) ==
  \/ CheckConnected(c) \/ SocketStart(c) \/ Dial(c) \/ MarkSocket(c)
  \/ MarkHandler(c) \/ WriteFails(c) \/ SocketSend(c) \/ SocketRecv(c)
  \/ Return(c)

ServerNext ==
  \/ \E m \in toServer : Receive(m)
  \/ RejectRequest
  \/ \E o \in Outcomes : HandleRequest(o) \/ HandlerThrows(o)
  \/ SendResponse

Next ==
  \/ \E c \in Callers : Start(c) \/ (\E m \in Commands : Send(c, m))
                        \/ CallerNext(c)
  \/ \E m \in toClient : DeliverReply(m)
  \/ \E k \in Clients, n \in 1 .. MaxTx : Resend(k, n)
  \/ ServerNext
  \/ ReceiveTimeout
  \/ StartServer
  \/ Crash

Spec == Init /\ [][Next]_vars

(***************************************************************************)
(* Fairness: a caller's thread and the receive thread run on, a handler    *)
(* ends, NNG delivers what it holds and sends an unanswered request to a   *)
(* server that came back (the reconnecting dialer of a REQ socket).        *)
(* Nothing makes a caller send, a timer expire, a server die or start.     *)
(***************************************************************************)
Fairness ==
  /\ \A c \in Callers : WF_vars(CallerNext(c))
  /\ WF_vars(\E m \in toClient : DeliverReply(m))
  /\ \A k \in Clients : WF_vars(Resend(k, 1))
  /\ WF_vars(ServerNext)

FairSpec == Spec /\ Fairness

-----------------------------------------------------------------------------
(***************************************************************************)
(* Properties.                                                             *)
(***************************************************************************)

(* Every caller has a client of its own.                                   *)
OneThreadPerClient ==
  \A c, d \in Callers : ClientOf[c] = ClientOf[d] => c = d

(* The executions of the request caller c has sent last.                   *)
RunsOf(c) == {e \in ran : e.req.client = ClientOf[c] /\ e.req.id = mine[c]}

(* What Send returns or throws on account of a response is what the        *)
(* handler did with that very command: it ran, and its end, through        *)
(* HandleRequest and ProcessResponse, is what the caller sees.  It is      *)
(* never the answer to another caller's or to an earlier command, whatever *)
(* is sent twice, answered late or cut off by a restart.                   *)
ReplyMatchesRequest ==
  \A c \in Callers : Answered(result[c]) =>
    \E e \in RunsOf(c) : /\ e.req.cmd = cmd[c]
                         /\ ProcessResponse(Reply(e.out)) = result[c]

(* The receive loop runs a handler once per request it receives: a command *)
(* runs again only when NNG transmitted it again.  (So a command may run   *)
(* more than once, but never because of a timeout of the loop or of what a *)
(* buffer still holds.)                                                    *)
OneRunPerTransmission ==
  \A d, e \in ran : d.req = e.req => d = e

(* The two _connected flags and the REQ socket's state never get in the    *)
(* caller's way: Send and Start do not throw "Socket already connected" or *)
(* "Socket not connected" and NNG never refuses a recv, through failed     *)
(* dials, repeated calls of Start and restarts of the server.  True of a   *)
(* client that one thread uses.                                            *)
NoSocketMisuse ==
  \A c \in Callers : result[c].kind \notin
    {"already connected", "not connected", "socket error"}

(* The service that a caller sees: a call of Start is no call of it, the   *)
(* call is submitted when the request has gone out, and a handler that     *)
(* throws something else than a fault ends without an answer.              *)
NoAnswer == Failed("none")
EndOf(o) == IF o.kind = "throw" THEN NoAnswer ELSE ProcessResponse(Reply(o))

PhaseOf(c) == IF pc[c] = "idle" \/ op[c] = "start" THEN "idle"
              ELSE IF pc[c] \in {"recv", "wait"} THEN "submitted"
              ELSE "calling"
AnswerOf(c) == IF Answered(result[c]) THEN result[c] ELSE NoAnswer
CallOf(m) == [client |-> m.client, id |-> m.id, cmd |-> m.cmd]

Service == INSTANCE CommandService WITH
  Ends <- {EndOf(o) : o \in Outcomes},
  phase <- [c \in Callers |-> PhaseOf(c)],
  ticket <- mine,
  answer <- [c \in Callers |-> AnswerOf(c)],
  submitted <- {CallOf(m) : m \in sent},
  executed <- {[call |-> CallOf(e.req), end |-> EndOf(e.out)] : e \in ran}

(* Callers with a client each get the service of CommandService: whatever  *)
(* the flags, the REQ sockets, resends, crashes and restarts do, a call is *)
(* submitted once, only submitted calls are executed, and an answer is the *)
(* end of an execution of the caller's own call.                           *)
ImplementsService == Service!Spec

(* The way a handler ended is the way Send ends: it returns if the handler *)
(* returned, and throws a fault if the handler threw FaultException or     *)
(* TypedFaultException.  False for TypedFaultException, whose frame has a  *)
(* type and no payload and cannot be read.                                 *)
EndReachesCaller ==
  \A c \in Callers : Answered(result[c]) =>
    \E e \in RunsOf(c) :
      result[c].kind = IF e.out.kind = "ok" THEN "returned" ELSE "fault"

(* If the server stays up from some time on, every call ends, although the *)
(* socket's recv has no timeout and the request or its reply may have been *)
(* lost with an earlier life of the server.                                *)
CallsEnd ==
  <>[]Up => \A c \in Callers : (pc[c] # "idle") ~> (pc[c] = "idle")
=============================================================================
