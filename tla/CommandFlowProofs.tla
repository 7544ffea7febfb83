-------------------------- MODULE CommandFlowProofs --------------------------
(***************************************************************************)
(* Theorems about CommandFlow, for any number of callers, clients,         *)
(* commands, retransmissions and server lives.                             *)
(***************************************************************************)
EXTENDS CommandFlow, TLAPS

USE CallersAssumption, CommandsAssumption, OutcomesAssumption

(* Where a caller is past the connection it is in Send, and a caller in    *)
(* Send has a command.                                                     *)
CommandChosen ==
  \A c \in Callers :
    /\ pc[c] \in {"send", "recv", "wait"} => op[c] = "send"
    /\ pc[c] # "idle" /\ op[c] = "send" => cmd[c] \in Commands

(* A server that handles a request has one, and one that replies has a     *)
(* response.                                                               *)
BuffersFilled ==
  /\ srv \in {"handle", "reply"} => cur \in Transmission
  /\ srv = "reply" => outRsp \in Response

TypeInv == TypeOK /\ CommandChosen /\ BuffersFilled

LEMMA ReplyType == \A o \in Outcome : Reply(o) \in Response
  BY DEF Outcome, Reply, StatusOf, Response

LEMMA ProcessResponseType ==
  \A r \in Response : ProcessResponse(r) \in Result
  BY DEF Response, ProcessResponse, Result

LEMMA FailedType ==
  \A why \in {"none", "started", "already connected", "not connected",
              "dial failed", "not written", "socket error"} :
    Failed(why) \in Result
  BY DEF Failed, Result

LEMMA TypeInit == Init => TypeInv
<1> SUFFICES ASSUME Init PROVE TypeInv
  OBVIOUS
<1>1. CallerTypes
  BY FailedType DEF Init, CallerTypes, PcValues
<1>2. FlagTypes /\ NetTypes
  BY DEF Init, FlagTypes, NetTypes
<1>3. ServerTypes /\ CommandChosen /\ BuffersFilled
  BY DEF Init, ServerTypes, CommandChosen, BuffersFilled
<1> QED
  BY <1>1, <1>2, <1>3 DEF TypeInv, TypeOK

(* A step that leaves a group of variables alone leaves their types alone. *)
LEMMA TypeUnchanged ==
  /\ UNCHANGED callerVars /\ CallerTypes => CallerTypes'
  /\ UNCHANGED callerVars /\ CommandChosen => CommandChosen'
  /\ UNCHANGED flagVars /\ FlagTypes => FlagTypes'
  /\ UNCHANGED netVars /\ NetTypes => NetTypes'
  /\ UNCHANGED srvVars /\ ServerTypes => ServerTypes'
  /\ UNCHANGED srvVars /\ BuffersFilled => BuffersFilled'
  BY DEF callerVars, flagVars, netVars, srvVars, CallerTypes, FlagTypes,
         NetTypes, ServerTypes, CommandChosen, BuffersFilled

(* A caller's step that only moves it on, or ends its call.                *)
LEMMA CallerMoves ==
  ASSUME CallerTypes, CommandChosen, NEW c \in Callers,
         NEW l \in PcValues, NEW r \in Result,
         pc' = [pc EXCEPT ![c] = l],
         result' = result \/ result' = [result EXCEPT ![c] = r],
         UNCHANGED <<op, cmd, mine>>,
         pc[c] # "idle",
         l \in {"send", "recv", "wait"} => op[c] = "send"
  PROVE  CallerTypes' /\ CommandChosen'
<1>1. CallerTypes'
  BY DEF CallerTypes
<1>2. CommandChosen'
  BY DEF CallerTypes, CommandChosen
<1> QED
  BY <1>1, <1>2

LEMMA TypeNext == TypeInv /\ [Next]_vars => TypeInv'
<1> SUFFICES ASSUME TypeInv, [Next]_vars PROVE TypeInv'
  OBVIOUS
<1>0. /\ CallerTypes /\ FlagTypes /\ NetTypes /\ ServerTypes
      /\ CommandChosen /\ BuffersFilled
  BY DEF TypeInv, TypeOK
<1>t. ASSUME CallerTypes', FlagTypes', NetTypes', ServerTypes',
             CommandChosen', BuffersFilled'
      PROVE  TypeInv'
  BY <1>t DEF TypeInv, TypeOK
<1>1. ASSUME NEW c \in Callers, NEW m \in Commands, Send(c, m) PROVE TypeInv'
  <2>1. CallerTypes'
    BY <1>0, <1>1, FailedType DEF Send, Goto, CallerTypes, PcValues
  <2>2. CommandChosen'
    BY <1>0, <1>1 DEF Send, Goto, CallerTypes, CommandChosen
  <2> QED
    BY <1>0, <1>1, <1>t, <2>1, <2>2, TypeUnchanged DEF Send
<1>2. ASSUME NEW c \in Callers, Start(c) PROVE TypeInv'
  <2>1. CallerTypes'
    BY <1>0, <1>2, FailedType DEF Start, Goto, CallerTypes, PcValues
  <2>2. CommandChosen'
    BY <1>0, <1>2 DEF Start, Goto, CallerTypes, CommandChosen
  <2> QED
    BY <1>0, <1>2, <1>t, <2>1, <2>2, TypeUnchanged DEF Start
<1>3. ASSUME NEW c \in Callers, CheckConnected(c) PROVE TypeInv'
  <2>1. CallerTypes' /\ CommandChosen'
    <3>1. op[c] \in {"send", "start"}
      BY <1>0 DEF CallerTypes
    <3> QED
      BY <1>0, <1>3, <3>1, CallerMoves, FailedType
         DEF CheckConnected, Proceed, End, Goto, PcValues
  <2> QED
    BY <1>0, <1>3, <1>t, <2>1, TypeUnchanged DEF CheckConnected
<1>4. ASSUME NEW c \in Callers, SocketStart(c) PROVE TypeInv'
  <2>1. CallerTypes' /\ CommandChosen'
    BY <1>0, <1>4, CallerMoves, FailedType
       DEF SocketStart, End, Goto, PcValues
  <2> QED
    BY <1>0, <1>4, <1>t, <2>1, TypeUnchanged DEF SocketStart
<1>5. ASSUME NEW c \in Callers, Dial(c) PROVE TypeInv'
  <2>1. CallerTypes' /\ CommandChosen'
    BY <1>0, <1>5, CallerMoves, FailedType DEF Dial, End, Goto, PcValues
  <2> QED
    BY <1>0, <1>5, <1>t, <2>1, TypeUnchanged DEF Dial
<1>6. ASSUME NEW c \in Callers, MarkSocket(c) PROVE TypeInv'
  <2>1. CallerTypes' /\ CommandChosen'
    BY <1>0, <1>6, CallerMoves, FailedType DEF MarkSocket, Goto, PcValues
  <2>2. FlagTypes'
    BY <1>0, <1>6 DEF MarkSocket, FlagTypes
  <2> QED
    BY <1>0, <1>6, <1>t, <2>1, <2>2, TypeUnchanged DEF MarkSocket
<1>7. ASSUME NEW c \in Callers, MarkHandler(c) PROVE TypeInv'
  <2>1. CallerTypes' /\ CommandChosen'
    <3>1. op[c] \in {"send", "start"}
      BY <1>0 DEF CallerTypes
    <3> QED
      BY <1>0, <1>7, <3>1, CallerMoves, FailedType
         DEF MarkHandler, Proceed, End, Goto, PcValues
  <2>2. FlagTypes'
    BY <1>0, <1>7 DEF MarkHandler, FlagTypes
  <2> QED
    BY <1>0, <1>7, <1>t, <2>1, <2>2, TypeUnchanged DEF MarkHandler
<1>8. ASSUME NEW c \in Callers, SocketSend(c) PROVE TypeInv'
  <2> DEFINE k  == ClientOf[c]
             id == nextId[k] + 1
             m  == [client |-> k, id |-> id, cmd |-> cmd[c], life |-> starts,
                    tx |-> 1]
  <2>1. CASE ~socketConnected[k] /\ End(c, Failed("not connected"))
             /\ UNCHANGED <<mine, netVars>>
    <3>1. CallerTypes' /\ CommandChosen'
      BY <1>0, <1>8, <2>1, CallerMoves, FailedType
         DEF SocketSend, End, PcValues
    <3> QED
      BY <1>0, <1>8, <1>t, <2>1, <3>1, TypeUnchanged DEF SocketSend
  <2>2. CASE /\ pc' = [d \in Callers |-> IF d = c THEN "recv"
                                         ELSE IF d \in Waiters(k) THEN "idle"
                                         ELSE pc[d]]
             /\ result' = [d \in Callers |-> IF d \in Waiters(k)
                                               THEN Failed("socket error")
                                               ELSE result[d]]
             /\ mine' = [mine EXCEPT ![c] = id]
             /\ nextId' = [nextId EXCEPT ![k] = id]
             /\ out' = [out EXCEPT ![k] = [id |-> id, reply |-> None]]
             /\ sent' = sent \cup {m}
             /\ toServer' = toServer \cup {m}
             /\ UNCHANGED toClient
    <3>1. k \in Clients /\ id \in Nat /\ starts \in Nat /\ cmd[c] \in Commands
      <4>1. pc[c] = "send"
        BY <1>8 DEF SocketSend
      <4>2. cmd[c] \in Commands
        BY <1>0, <4>1 DEF CommandChosen
      <4>3. starts \in Nat
        BY <1>0 DEF ServerTypes
      <4>4. k \in Clients /\ id \in Nat
        BY <1>0 DEF NetTypes
      <4> QED
        BY <4>2, <4>3, <4>4
    <3>2. m \in Transmission
      BY <3>1 DEF Transmission
    <3>3. UNCHANGED <<op, cmd>> /\ pc[c] = "send"
      BY <1>8 DEF SocketSend
    <3> HIDE DEF k, id, m
    <3>4. pc' \in [Callers -> PcValues]
      BY <1>0, <2>2 DEF CallerTypes, PcValues
    <3>5. result' \in [Callers -> Result] /\ mine' \in [Callers -> Nat]
      BY <1>0, <2>2, <3>1, FailedType DEF CallerTypes
    <3>6. CallerTypes'
      BY <1>0, <3>3, <3>4, <3>5 DEF CallerTypes
    <3>7. CommandChosen'
      BY <1>0, <2>2, <3>1, <3>3 DEF CallerTypes, CommandChosen
    <3>8. NetTypes'
      BY <1>0, <2>2, <3>1, <3>2 DEF NetTypes
    <3> QED
      BY <1>0, <1>8, <1>t, <3>6, <3>7, <3>8, TypeUnchanged DEF SocketSend
  <2> QED
    BY <1>8, <2>1, <2>2 DEF SocketSend
<1>9. ASSUME NEW c \in Callers, SocketRecv(c) PROVE TypeInv'
  <2>1. CallerTypes' /\ CommandChosen'
    <3>1. op[c] = "send"
      BY <1>0, <1>9 DEF SocketRecv, CommandChosen
    <3> QED
      BY <1>0, <1>9, <3>1, CallerMoves, FailedType
         DEF SocketRecv, End, Goto, PcValues
  <2> QED
    BY <1>0, <1>9, <1>t, <2>1, TypeUnchanged DEF SocketRecv
<1>10. ASSUME NEW c \in Callers, Return(c) PROVE TypeInv'
  <2>1. out[ClientOf[c]].reply \in Response
    BY <1>0, <1>10 DEF Return, NetTypes
  <2>2. CallerTypes' /\ CommandChosen'
    BY <1>0, <1>10, <2>1, CallerMoves, ProcessResponseType
       DEF Return, End, PcValues
  <2>3. NetTypes'
    BY <1>0, <1>10 DEF Return, NetTypes
  <2> QED
    BY <1>0, <1>10, <1>t, <2>2, <2>3, TypeUnchanged DEF Return
<1>11. ASSUME NEW m \in toClient, DeliverReply(m) PROVE TypeInv'
  <2>1. NetTypes'
    BY <1>0, <1>11 DEF DeliverReply, NetTypes, ReplyMessage
  <2> QED
    BY <1>0, <1>11, <1>t, <2>1, TypeUnchanged DEF DeliverReply
<1>12. ASSUME NEW k \in Clients, NEW n \in 1 .. MaxTx, Resend(k, n)
       PROVE  TypeInv'
  <2>1. PICK p \in sent :
          /\ sent' = sent \cup {[p EXCEPT !.life = starts, !.tx = n]}
          /\ toServer' = toServer \cup {[p EXCEPT !.life = starts, !.tx = n]}
    BY <1>12 DEF Resend
  <2>2. p \in Transmission /\ starts \in Nat /\ n \in Nat
    BY <1>0, BoundsAssumption DEF NetTypes, ServerTypes
  <2>3. [p EXCEPT !.life = starts, !.tx = n] \in Transmission
    BY <2>2 DEF Transmission
  <2>4. NetTypes'
    BY <1>0, <1>12, <2>1, <2>3 DEF Resend, NetTypes
  <2> QED
    BY <1>0, <1>12, <1>t, <2>4, TypeUnchanged DEF Resend
<1>13. ASSUME NEW m \in toServer, Receive(m) PROVE TypeInv'
  <2>1. NetTypes' /\ ServerTypes' /\ BuffersFilled'
    BY <1>0, <1>13 DEF Receive, NetTypes, ServerTypes, BuffersFilled
  <2> QED
    BY <1>0, <1>13, <1>t, <2>1, TypeUnchanged DEF Receive
<1>14. ASSUME RejectRequest PROVE TypeInv'
  <2>1. NetTypes' /\ ServerTypes' /\ BuffersFilled'
    BY <1>0, <1>14
       DEF RejectRequest, Terminate, NetTypes, ServerTypes, BuffersFilled
  <2> QED
    BY <1>0, <1>14, <1>t, <2>1, TypeUnchanged DEF RejectRequest, Terminate
<1>15. ASSUME NEW o \in Outcomes, HandleRequest(o) PROVE TypeInv'
  <2>1. ServerTypes' /\ BuffersFilled'
    BY <1>0, <1>15, ReplyType DEF HandleRequest, ServerTypes, BuffersFilled
  <2> QED
    BY <1>0, <1>15, <1>t, <2>1, TypeUnchanged DEF HandleRequest
<1>16. ASSUME NEW o \in Outcomes, HandlerThrows(o) PROVE TypeInv'
  <2>1. NetTypes' /\ ServerTypes' /\ BuffersFilled'
    BY <1>0, <1>16
       DEF HandlerThrows, Terminate, NetTypes, ServerTypes, BuffersFilled
  <2> QED
    BY <1>0, <1>16, <1>t, <2>1, TypeUnchanged DEF HandlerThrows, Terminate
<1>17. ASSUME SendResponse PROVE TypeInv'
  <2>1. NetTypes'
    BY <1>0, <1>17
       DEF SendResponse, NetTypes, BuffersFilled, Transmission, ReplyMessage
  <2>2. ServerTypes' /\ BuffersFilled'
    BY <1>0, <1>17 DEF SendResponse, ServerTypes, BuffersFilled
  <2> QED
    BY <1>0, <1>17, <1>t, <2>1, <2>2, TypeUnchanged DEF SendResponse
<1>18. ASSUME UNCHANGED vars PROVE TypeInv'
  BY <1>0, <1>18, <1>t, TypeUnchanged DEF vars
<1>19. ASSUME StartServer PROVE TypeInv'
  <2>1. ServerTypes' /\ BuffersFilled'
    BY <1>0, <1>19 DEF StartServer, ServerTypes, BuffersFilled
  <2> QED
    BY <1>0, <1>19, <1>t, <2>1, TypeUnchanged DEF StartServer
<1>20. ASSUME Crash PROVE TypeInv'
  <2>1. NetTypes' /\ ServerTypes' /\ BuffersFilled'
    BY <1>0, <1>20 DEF Crash, Terminate, NetTypes, ServerTypes, BuffersFilled
  <2> QED
    BY <1>0, <1>20, <1>t, <2>1, TypeUnchanged DEF Crash, Terminate
<1>21. ASSUME NEW c \in Callers, WriteFails(c) PROVE TypeInv'
  <2>1. CallerTypes' /\ CommandChosen'
    BY <1>0, <1>21, CallerMoves, FailedType DEF WriteFails, End, PcValues
  <2> QED
    BY <1>0, <1>21, <1>t, <2>1, TypeUnchanged DEF WriteFails
<1> QED
  BY <1>1, <1>2, <1>3, <1>4, <1>5, <1>6, <1>7, <1>8, <1>9, <1>10, <1>11,
     <1>12, <1>13, <1>14, <1>15, <1>16, <1>17, <1>18, <1>19, <1>20, <1>21
     DEF Next, CallerNext, ServerNext, ReceiveTimeout

(* The variables keep their types, and a caller that sends has a command.  *)
THEOREM TypeCorrect == Spec => []TypeOK
<1>1. TypeInv => TypeOK
  BY DEF TypeInv
<1> QED
  BY TypeInit, TypeNext, <1>1, PTL DEF Spec

-----------------------------------------------------------------------------
(***************************************************************************)
(* One execution per transmission.  What is under way or in the server's   *)
(* hands was transmitted and has not run; a new transmission is different  *)
(* from all earlier ones, by its id or by its number.                      *)
(***************************************************************************)
HistInv ==
  /\ \A m \in sent : m.id <= nextId[m.client]
  /\ toServer \subseteq sent
  /\ \A e \in ran : e.req \in sent /\ e.req \notin toServer
  /\ srv \in {"handle", "reply"} => cur \in sent
  /\ srv = "handle" => cur \notin toServer /\ \A e \in ran : e.req # cur
  /\ OneRunPerTransmission

LEMMA HistInit == Init => HistInv
  BY DEF Init, HistInv, OneRunPerTransmission

LEMMA HistUnchanged ==
  HistInv /\ UNCHANGED <<nextId, sent, toServer, srv, cur, ran>> => HistInv'
  BY DEF HistInv, OneRunPerTransmission

(* The end of the server process, possibly in the middle of a request.     *)
LEMMA HistTerminate ==
  HistInv /\ UNCHANGED ran /\ Terminate => HistInv'
  BY DEF HistInv, OneRunPerTransmission, Terminate

LEMMA HistNext == TypeInv /\ HistInv /\ [Next]_vars => HistInv'
<1> SUFFICES ASSUME TypeInv, HistInv, [Next]_vars PROVE HistInv'
  OBVIOUS
<1>0. NetTypes /\ ServerTypes /\ BuffersFilled
  BY DEF TypeInv, TypeOK
<1>1. ASSUME NEW c \in Callers, NEW m \in Commands, Send(c, m) PROVE HistInv'
  BY <1>1, HistUnchanged DEF Send, netVars, srvVars
<1>2. ASSUME NEW c \in Callers,
             \/ Start(c) \/ CheckConnected(c) \/ SocketStart(c) \/ Dial(c)
             \/ MarkSocket(c) \/ MarkHandler(c) \/ WriteFails(c)
             \/ SocketRecv(c)
      PROVE  HistInv'
  BY <1>2, HistUnchanged
     DEF Start, CheckConnected, SocketStart, Dial, MarkSocket, MarkHandler,
         WriteFails, SocketRecv, netVars, srvVars
<1>3. ASSUME NEW c \in Callers, SocketSend(c) PROVE HistInv'
  <2> DEFINE k == ClientOf[c]
             m == [client |-> k, id |-> nextId[k] + 1, cmd |-> cmd[c],
                   life |-> starts, tx |-> 1]
  <2>1. CASE UNCHANGED netVars
    BY <1>3, <2>1, HistUnchanged DEF SocketSend, netVars, srvVars
  <2>2. CASE /\ nextId' = [nextId EXCEPT ![k] = nextId[k] + 1]
             /\ sent' = sent \cup {m}
             /\ toServer' = toServer \cup {m}
    <3>1. UNCHANGED <<srv, cur, ran>>
      BY <1>3 DEF SocketSend, srvVars
    <3>2. k \in Clients /\ nextId \in [Clients -> Nat] /\ m.client = k
          /\ m.id = nextId[k] + 1 /\ \A q \in sent : q.client \in Clients
                                                     /\ q.id \in Nat
      BY <1>0 DEF NetTypes, Transmission
    <3> HIDE DEF k, m
    <3>3. m \notin sent
      BY <3>2 DEF HistInv
    <3>4. \A q \in sent' : q.id <= nextId'[q.client]
      BY <2>2, <3>2 DEF HistInv
    <3> QED
      BY <2>2, <3>1, <3>3, <3>4 DEF HistInv, OneRunPerTransmission
  <2> QED
    BY <1>3, <2>1, <2>2 DEF SocketSend
<1>4. ASSUME NEW c \in Callers, Return(c) PROVE HistInv'
  BY <1>4, HistUnchanged DEF Return, srvVars
<1>5. ASSUME NEW m \in toClient, DeliverReply(m) PROVE HistInv'
  BY <1>5, HistUnchanged DEF DeliverReply, srvVars
<1>6. ASSUME NEW k \in Clients, NEW n \in 1 .. MaxTx, Resend(k, n)
      PROVE  HistInv'
  <2>1. PICK p \in sent :
          /\ p.client = k /\ p.id = out[k].id
          /\ sent' = sent \cup {[p EXCEPT !.life = starts, !.tx = n]}
          /\ toServer' = toServer \cup {[p EXCEPT !.life = starts, !.tx = n]}
    BY <1>6 DEF Resend
  <2> DEFINE m == [p EXCEPT !.life = starts, !.tx = n]
  <2>2. p \in Transmission
    BY <1>0 DEF NetTypes
  <2>3. /\ m.client = k /\ m.id = out[k].id
        /\ m.life = starts /\ m.tx = n
    BY <2>1, <2>2 DEF Transmission
  <2>4. UNCHANGED <<nextId, srv, cur, ran>>
    BY <1>6 DEF Resend, srvVars
  <2>5. \A q \in sent : ~(/\ q.client = k /\ q.id = out[k].id
                          /\ q.life = starts /\ q.tx = n)
    BY <1>6 DEF Resend
  <2> HIDE DEF m
  <2>6. m \notin sent
    BY <2>3, <2>5
  <2>7. m.id <= nextId[m.client]
    BY <2>1, <2>3 DEF HistInv
  <2>8. sent' = sent \cup {m} /\ toServer' = toServer \cup {m}
    BY <2>1 DEF m
  <2> QED
    BY <2>4, <2>6, <2>7, <2>8 DEF HistInv, OneRunPerTransmission
<1>7. ASSUME NEW m \in toServer, Receive(m) PROVE HistInv'
  BY <1>7 DEF Receive, HistInv, OneRunPerTransmission
<1>8. ASSUME RejectRequest \/ Crash PROVE HistInv'
  BY <1>8, HistTerminate DEF RejectRequest, Crash
<1>9. ASSUME NEW o \in Outcomes, HandleRequest(o) PROVE HistInv'
  BY <1>9 DEF HandleRequest, netVars, HistInv, OneRunPerTransmission
<1>10. ASSUME NEW o \in Outcomes, HandlerThrows(o) PROVE HistInv'
  BY <1>10 DEF HandlerThrows, Terminate, HistInv, OneRunPerTransmission
<1>11. ASSUME SendResponse PROVE HistInv'
  BY <1>11 DEF SendResponse, HistInv, OneRunPerTransmission
<1>12. ASSUME StartServer PROVE HistInv'
  BY <1>12 DEF StartServer, netVars, HistInv, OneRunPerTransmission
<1>13. ASSUME UNCHANGED vars PROVE HistInv'
  BY <1>13, HistUnchanged DEF vars, netVars, srvVars
<1> QED
  BY <1>1, <1>2, <1>3, <1>4, <1>5, <1>6, <1>7, <1>8, <1>9, <1>10, <1>11,
     <1>12, <1>13
     DEF Next, CallerNext, ServerNext, ReceiveTimeout

(* A handler runs at most once for each time its command was transmitted,  *)
(* whoever shares a client and however often the server is restarted.      *)
THEOREM RunsBounded == Spec => []OneRunPerTransmission
<1>1. Init => TypeInv /\ HistInv
  BY TypeInit, HistInit
<1>2. TypeInv /\ HistInv /\ [Next]_vars => TypeInv' /\ HistInv'
  BY TypeNext, HistNext
<1>3. HistInv => OneRunPerTransmission
  BY DEF HistInv
<1> QED
  BY <1>1, <1>2, <1>3, PTL DEF Spec

-----------------------------------------------------------------------------
(***************************************************************************)
(* The reply belongs to the request.  First, about the network and the     *)
(* server alone and with any sharing of clients: every response that       *)
(* exists anywhere is that of an execution of the request it is for.       *)
(***************************************************************************)
Evidence(k, id, rsp) ==
  \E e \in ran : /\ e.req.client = k /\ e.req.id = id
                 /\ e.out.kind # "throw" /\ Reply(e.out) = rsp

EvidenceInv ==
  /\ \A m \in toClient : Evidence(m.client, m.id, m.rsp)
  /\ srv = "reply" => Evidence(cur.client, cur.id, outRsp)
  /\ \A k \in Clients : out[k].reply # None =>
                           Evidence(k, out[k].id, out[k].reply)

LEMMA EvidenceInit == Init => EvidenceInv
  BY DEF Init, EvidenceInv

LEMMA EvidenceUnchanged ==
  EvidenceInv /\ UNCHANGED <<toClient, srv, cur, outRsp, out, ran>>
    => EvidenceInv'
  BY DEF EvidenceInv, Evidence

(* Fewer replies, more executions, and a server that is not replying.      *)
LEMMA EvidenceKept ==
  ASSUME EvidenceInv, toClient' \subseteq toClient, UNCHANGED out,
         ran \subseteq ran', srv' # "reply"
  PROVE  EvidenceInv'
  BY DEF EvidenceInv, Evidence

LEMMA EvidenceNext == TypeInv /\ EvidenceInv /\ [Next]_vars => EvidenceInv'
<1> SUFFICES ASSUME TypeInv, EvidenceInv, [Next]_vars PROVE EvidenceInv'
  OBVIOUS
<1>0. NetTypes /\ ServerTypes /\ BuffersFilled
  BY DEF TypeInv, TypeOK
<1>1. ASSUME NEW c \in Callers, NEW m \in Commands, Send(c, m)
      PROVE  EvidenceInv'
  BY <1>1, EvidenceUnchanged DEF Send, netVars, srvVars
<1>2. ASSUME NEW c \in Callers,
             \/ Start(c) \/ CheckConnected(c) \/ SocketStart(c) \/ Dial(c)
             \/ MarkSocket(c) \/ MarkHandler(c) \/ WriteFails(c)
             \/ SocketRecv(c)
      PROVE  EvidenceInv'
  BY <1>2, EvidenceUnchanged
     DEF Start, CheckConnected, SocketStart, Dial, MarkSocket, MarkHandler,
         WriteFails, SocketRecv, netVars, srvVars
<1>3. ASSUME NEW c \in Callers, NEW id \in Nat,
             out' = [out EXCEPT ![ClientOf[c]] = [id |-> id, reply |-> None]],
             UNCHANGED <<toClient, srvVars>>
      PROVE  EvidenceInv'
  <2>1. UNCHANGED <<toClient, srv, cur, outRsp, ran>>
    BY <1>3 DEF srvVars
  <2>2. \A k \in Clients : out'[k].reply # None => out'[k] = out[k]
    BY <1>0, <1>3 DEF NetTypes
  <2> QED
    BY <2>1, <2>2 DEF EvidenceInv, Evidence
<1>4. ASSUME NEW c \in Callers, SocketSend(c) PROVE EvidenceInv'
  <2>1. CASE UNCHANGED netVars
    BY <1>4, <2>1, EvidenceUnchanged DEF SocketSend, netVars, srvVars
  <2>2. CASE ~UNCHANGED netVars
    <3>1. /\ out' = [out EXCEPT ![ClientOf[c]] =
                       [id |-> nextId[ClientOf[c]] + 1, reply |-> None]]
          /\ UNCHANGED <<toClient, srvVars>>
      BY <1>4, <2>2 DEF SocketSend
    <3>2. nextId[ClientOf[c]] + 1 \in Nat
      BY <1>0 DEF NetTypes
    <3> QED
      BY <1>3, <3>1, <3>2
  <2> QED
    BY <2>1, <2>2
<1>5. ASSUME NEW c \in Callers, Return(c) PROVE EvidenceInv'
  BY <1>3, <1>5 DEF Return
<1>6. ASSUME NEW m \in toClient, DeliverReply(m) PROVE EvidenceInv'
  <2>1. UNCHANGED <<srv, cur, outRsp, ran>>
    BY <1>6 DEF DeliverReply, srvVars
  <2>2. CASE out' = out
    BY <1>6, <2>1, <2>2 DEF DeliverReply, EvidenceInv, Evidence
  <2>3. CASE out' # out
    <3>1. /\ out[m.client].id = m.id
          /\ out' = [out EXCEPT ![m.client].reply = m.rsp]
      BY <1>6, <2>3 DEF DeliverReply
    <3>2. m.client \in Clients
      BY <1>0 DEF NetTypes, ReplyMessage
    <3>3. /\ out'[m.client].id = m.id /\ out'[m.client].reply = m.rsp
          /\ \A k \in Clients \ {m.client} : out'[k] = out[k]
      BY <1>0, <3>1, <3>2 DEF NetTypes
    <3>4. \A k \in Clients : out'[k].reply # None =>
                               Evidence(k, out'[k].id, out'[k].reply)
      BY <3>3 DEF EvidenceInv
    <3>5. toClient' \subseteq toClient
      BY <1>6 DEF DeliverReply
    <3> QED
      BY <2>1, <3>4, <3>5 DEF EvidenceInv, Evidence
  <2> QED
    BY <2>2, <2>3
<1>7. ASSUME NEW k \in Clients, NEW n \in 1 .. MaxTx, Resend(k, n)
      PROVE  EvidenceInv'
  BY <1>7, EvidenceUnchanged DEF Resend, srvVars
<1>8. ASSUME NEW m \in toServer, Receive(m) PROVE EvidenceInv'
  BY <1>8, EvidenceKept DEF Receive
<1>9. ASSUME RejectRequest \/ Crash PROVE EvidenceInv'
  BY <1>9, EvidenceKept DEF RejectRequest, Crash, Terminate
<1>10. ASSUME NEW o \in Outcomes, HandleRequest(o) PROVE EvidenceInv'
  <2>1. /\ UNCHANGED <<toClient, out, cur>>
        /\ ran' = ran \cup {[req |-> cur, out |-> o]} /\ outRsp' = Reply(o)
        /\ o.kind # "throw"
    BY <1>10 DEF HandleRequest, netVars
  <2>2. \E e \in ran' : /\ e.req.client = cur.client /\ e.req.id = cur.id
                        /\ e.out.kind # "throw" /\ Reply(e.out) = outRsp'
    <3> DEFINE e0 == [req |-> cur, out |-> o]
    <3>1. e0 \in ran' /\ e0.req = cur /\ e0.out = o
      BY <2>1
    <3> HIDE DEF e0
    <3> QED
      BY <2>1, <3>1
  <2> QED
    <3>1. \A m \in toClient' :
             \E e \in ran' : /\ e.req.client = m.client /\ e.req.id = m.id
                            /\ e.out.kind # "throw" /\ Reply(e.out) = m.rsp
      BY <2>1 DEF EvidenceInv, Evidence
    <3>2. \A k \in Clients : out'[k].reply # None =>
             \E e \in ran' : /\ e.req.client = k /\ e.req.id = out'[k].id
                            /\ e.out.kind # "throw"
                            /\ Reply(e.out) = out'[k].reply
      BY <2>1 DEF EvidenceInv, Evidence
    <3> QED
      BY <2>1, <2>2, <3>1, <3>2 DEF EvidenceInv, Evidence
<1>11. ASSUME NEW o \in Outcomes, HandlerThrows(o) PROVE EvidenceInv'
  BY <1>11, EvidenceKept DEF HandlerThrows, Terminate
<1>12. ASSUME SendResponse PROVE EvidenceInv'
  BY <1>12 DEF SendResponse, EvidenceInv, Evidence
<1>13. ASSUME StartServer PROVE EvidenceInv'
  BY <1>13, EvidenceKept DEF StartServer, netVars
<1>14. ASSUME UNCHANGED vars PROVE EvidenceInv'
  BY <1>14, EvidenceUnchanged DEF vars, netVars, srvVars
<1> QED
  BY <1>1, <1>2, <1>4, <1>5, <1>6, <1>7, <1>8, <1>9, <1>10, <1>11, <1>12,
     <1>13, <1>14
     DEF Next, CallerNext, ServerNext, ReceiveTimeout

-----------------------------------------------------------------------------
(***************************************************************************)
(* Then, about a caller that has its client for itself: the outstanding    *)
(* request of its REQ socket is its own, the two flags move in step, and a *)
(* call that is not over has no result yet.                                *)
(***************************************************************************)
OwnRequest(c) ==
  pc[c] \in {"recv", "wait"} =>
    /\ mine[c] # 0
    /\ out[ClientOf[c]].id = mine[c]
    /\ \A m \in sent : m.client = ClientOf[c] /\ m.id = mine[c]
                          => m.cmd = cmd[c]

OwnFlags(c) ==
  LET h == handlerConnected[ClientOf[c]]
      s == socketConnected[ClientOf[c]]
  IN  /\ pc[c] \in {"idle", "connect", "send", "recv", "wait"} => (h <=> s)
      /\ pc[c] \in {"connected", "send", "recv", "wait"} => s
      /\ pc[c] \in {"start", "dial", "mark"} => ~s /\ ~h

OwnResult(c) ==
  /\ pc[c] # "idle" => result[c].kind = "none"
  /\ result[c].kind \notin
       {"already connected", "not connected", "socket error"}
  /\ Answered(result[c]) =>
       \E e \in RunsOf(c) : /\ e.req.cmd = cmd[c]
                            /\ ProcessResponse(Reply(e.out)) = result[c]

CallerOK(c) == OwnRequest(c) /\ OwnFlags(c) /\ OwnResult(c)

CallerInv == \A c \in Callers : CallerOK(c)

LEMMA CallerInit == Init => CallerInv
<1> SUFFICES ASSUME Init, NEW c \in Callers PROVE CallerOK(c)
  BY DEF CallerInv
<1>1. pc[c] = "idle" /\ result[c].kind = "none"
  BY DEF Init, Failed
<1>2. OwnFlags(c)
  BY <1>1 DEF Init, OwnFlags
<1>3. OwnRequest(c) /\ OwnResult(c)
  BY <1>1 DEF OwnRequest, OwnResult, Answered
<1> QED
  BY <1>2, <1>3 DEF CallerOK

(* What does not touch a caller, its client's flags and its outstanding    *)
(* request leaves the caller's invariant alone; executions and further     *)
(* transmissions of the same request may be added.                         *)
LEMMA Bystander ==
  ASSUME NEW c \in Callers, CallerOK(c),
         pc'[c] = pc[c], cmd'[c] = cmd[c], mine'[c] = mine[c],
         result'[c] = result[c],
         out'[ClientOf[c]].id = out[ClientOf[c]].id,
         handlerConnected'[ClientOf[c]] = handlerConnected[ClientOf[c]],
         socketConnected'[ClientOf[c]] = socketConnected[ClientOf[c]],
         ran \subseteq ran',
         \A m \in sent' : m \notin sent /\ m.client = ClientOf[c] =>
           \E p \in sent : p.client = m.client /\ p.id = m.id
                           /\ p.cmd = m.cmd
  PROVE  CallerOK(c)'
<1>1. OwnRequest(c)'
  BY DEF CallerOK, OwnRequest
<1>2. OwnFlags(c)'
  BY DEF CallerOK, OwnFlags
<1>3. OwnResult(c)'
  BY DEF CallerOK, OwnResult, RunsOf
<1> QED
  BY <1>1, <1>2, <1>3 DEF CallerOK

(* A step of caller d, for the callers whose client is another one.        *)
LEMMA OtherCallers ==
  ASSUME CallerInv, TypeInv, OneThreadPerClient, NEW d \in Callers,
         Start(d) \/ (\E m \in Commands : Send(d, m)) \/ CallerNext(d),
         NEW c \in Callers, c # d
  PROVE  CallerOK(c)'
<1>0. /\ CallerOK(c) /\ CallerTypes /\ FlagTypes /\ NetTypes
      /\ ClientOf[c] # ClientOf[d]
      /\ ClientOf[c] \in Clients /\ ClientOf[d] \in Clients
  BY DEF CallerInv, TypeInv, TypeOK, OneThreadPerClient
<1> DEFINE Same == /\ pc'[c] = pc[c] /\ result'[c] = result[c]
                   /\ cmd'[c] = cmd[c] /\ mine'[c] = mine[c]
<1>1. Same
  <2>1. CASE Start(d) \/ \E m \in Commands : Send(d, m)
    BY <1>0, <2>1 DEF Start, Send, Goto, CallerTypes
  <2>2. CASE CheckConnected(d) \/ MarkHandler(d)
    BY <1>0, <2>2
       DEF CheckConnected, MarkHandler, Proceed, End, Goto, CallerTypes
  <2>3. CASE SocketStart(d) \/ Dial(d) \/ MarkSocket(d)
    BY <1>0, <2>3 DEF SocketStart, Dial, MarkSocket, End, Goto, CallerTypes
  <2>4. CASE SocketSend(d)
    BY <1>0, <2>4 DEF SocketSend, End, Waiters, CallerTypes
  <2>5. CASE WriteFails(d) \/ SocketRecv(d) \/ Return(d)
    BY <1>0, <2>5
       DEF WriteFails, SocketRecv, Return, End, Goto, CallerTypes
  <2> QED
    BY <2>1, <2>2, <2>3, <2>4, <2>5 DEF CallerNext
<1>2. /\ out'[ClientOf[c]].id = out[ClientOf[c]].id
      /\ handlerConnected'[ClientOf[c]] = handlerConnected[ClientOf[c]]
      /\ socketConnected'[ClientOf[c]] = socketConnected[ClientOf[c]]
  BY <1>0 DEF CallerNext, Start, Send, CheckConnected, SocketStart, Dial,
              MarkSocket, MarkHandler, WriteFails, SocketSend,
              SocketRecv, Return,
              flagVars, netVars, FlagTypes, NetTypes
<1>3. ran' = ran
  BY DEF CallerNext, Start, Send, CheckConnected, SocketStart, Dial,
         MarkSocket, MarkHandler, WriteFails, SocketSend, SocketRecv,
         Return, srvVars
<1>4. \A m \in sent' : m \in sent \/ m.client = ClientOf[d]
  <2>1. CASE SocketSend(d)
    <3> DEFINE m0 == [client |-> ClientOf[d], id |-> nextId[ClientOf[d]] + 1,
                      cmd |-> cmd[d], life |-> starts, tx |-> 1]
    <3>1. sent' = sent \/ sent' = sent \cup {m0}
      BY <2>1 DEF SocketSend, netVars
    <3>2. m0.client = ClientOf[d]
      OBVIOUS
    <3> HIDE DEF m0
    <3> QED
      BY <3>1, <3>2
  <2>2. CASE ~SocketSend(d)
    BY <2>2 DEF CallerNext, Start, Send, CheckConnected, SocketStart, Dial,
                MarkSocket, MarkHandler, WriteFails, SocketRecv, Return,
                netVars
  <2> QED
    BY <2>1, <2>2
<1> QED
  BY <1>0, <1>1, <1>2, <1>3, <1>4, Bystander

(* A step of caller c, for c itself.                                       *)
LEMMA ActingCaller ==
  ASSUME CallerInv, TypeInv, HistInv, EvidenceInv, OneThreadPerClient,
         NEW c \in Callers,
         Start(c) \/ (\E m \in Commands : Send(c, m)) \/ CallerNext(c)
  PROVE  CallerOK(c)'
<1> DEFINE k == ClientOf[c]
<1>0. /\ OwnRequest(c) /\ OwnFlags(c) /\ OwnResult(c)
      /\ CallerTypes /\ FlagTypes /\ NetTypes /\ k \in Clients
  BY DEF CallerInv, CallerOK, TypeInv, TypeOK
\* A step that leaves c outside recv and wait, with a result that no
\* response decided.
<1>q. ASSUME pc'[c] \notin {"recv", "wait"}, OwnFlags(c)',
             result'[c].kind \in {"none", "started", "dial failed",
                                 "not written"},
             pc'[c] # "idle" => result'[c].kind = "none"
      PROVE  CallerOK(c)'
  BY <1>q DEF CallerOK, OwnRequest, OwnResult, Answered
<1>1. CASE Start(c) \/ \E m \in Commands : Send(c, m)
  <2>1. pc[c] = "idle" /\ pc'[c] = "connect" /\ result'[c].kind = "none"
    BY <1>0, <1>1 DEF Start, Send, Goto, CallerTypes, Failed
  <2>2. OwnFlags(c)'
    BY <1>0, <1>1, <2>1 DEF Start, Send, flagVars, OwnFlags
  <2> QED
    BY <1>q, <2>1, <2>2
<1>2. CASE CheckConnected(c)
  <2>1. pc[c] = "connect" /\ UNCHANGED flagVars /\ result[c].kind = "none"
    BY <1>0, <1>2 DEF CheckConnected, OwnResult
  <2>2. CASE handlerConnected[k] /\ op[c] = "start"
    <3>1. pc'[c] = "idle" /\ result'[c].kind = "started"
      BY <1>0, <1>2, <2>2
         DEF CheckConnected, Proceed, End, CallerTypes, Failed
    <3>2. OwnFlags(c)'
      BY <1>0, <2>1, <3>1 DEF OwnFlags, flagVars
    <3> QED
      BY <1>q, <3>1, <3>2
  <2>3. CASE handlerConnected[k] /\ op[c] # "start"
    <3>1. pc'[c] = "send" /\ result'[c].kind = "none"
      BY <1>0, <1>2, <2>1, <2>3
         DEF CheckConnected, Proceed, Goto, CallerTypes
    <3>2. OwnFlags(c)'
      BY <1>0, <2>1, <2>3, <3>1 DEF OwnFlags, flagVars
    <3> QED
      BY <1>q, <3>1, <3>2
  <2>4. CASE ~handlerConnected[k]
    <3>1. pc'[c] = "start" /\ result'[c].kind = "none"
      BY <1>0, <1>2, <2>1, <2>4 DEF CheckConnected, Goto, CallerTypes
    <3>2. OwnFlags(c)'
      BY <1>0, <2>1, <2>4, <3>1 DEF OwnFlags, flagVars
    <3> QED
      BY <1>q, <3>1, <3>2
  <2> QED
    BY <2>2, <2>3, <2>4
<1>3. CASE SocketStart(c)
  <2>1. pc[c] = "start" /\ ~socketConnected[k] /\ UNCHANGED flagVars
    BY <1>0, <1>3 DEF SocketStart, OwnFlags
  <2>2. pc'[c] = "dial" /\ result'[c].kind = "none"
    BY <1>0, <1>3, <2>1 DEF SocketStart, Goto, CallerTypes, OwnResult
  <2>3. OwnFlags(c)'
    BY <1>0, <2>1, <2>2 DEF OwnFlags, flagVars
  <2> QED
    BY <1>q, <2>2, <2>3
<1>4. CASE Dial(c)
  <2>1. pc[c] = "dial" /\ UNCHANGED flagVars
    BY <1>4 DEF Dial
  <2>2. \/ pc'[c] = "mark" /\ result'[c].kind = "none"
        \/ pc'[c] = "idle" /\ result'[c].kind = "dial failed"
    <3>1. result[c].kind = "none"
      BY <1>0, <2>1 DEF OwnResult
    <3>2. CASE Up
      BY <1>0, <1>4, <3>1, <3>2 DEF Dial, Goto, CallerTypes
    <3>3. CASE ~Up
      <4>1. /\ pc' = [pc EXCEPT ![c] = "idle"]
            /\ result' = [result EXCEPT ![c] = Failed("dial failed")]
        BY <1>4, <3>3 DEF Dial, End
      <4>2. Failed("dial failed").kind = "dial failed"
        BY DEF Failed
      <4> QED
        BY <1>0, <4>1, <4>2 DEF CallerTypes
    <3> QED
      BY <3>2, <3>3
  <2>3. OwnFlags(c)'
    BY <1>0, <2>1, <2>2 DEF OwnFlags, flagVars
  <2> QED
    BY <1>q, <2>2, <2>3
<1>5. CASE MarkSocket(c)
  <2>1. pc[c] = "mark" /\ pc'[c] = "connected" /\ result'[c].kind = "none"
    BY <1>0, <1>5 DEF MarkSocket, Goto, CallerTypes, OwnResult
  <2>2. OwnFlags(c)'
    BY <1>0, <1>5, <2>1 DEF MarkSocket, OwnFlags, FlagTypes
  <2> QED
    BY <1>q, <2>1, <2>2
<1>6. CASE MarkHandler(c)
  <2>1. /\ pc[c] = "connected"
        /\ \/ pc'[c] = "send" /\ result'[c].kind = "none"
           \/ pc'[c] = "idle" /\ result'[c].kind = "started"
    <3>1. pc[c] = "connected" /\ result[c].kind = "none"
      BY <1>0, <1>6 DEF MarkHandler, OwnResult
    <3>2. CASE op[c] = "start"
      BY <1>0, <1>6, <3>1, <3>2
         DEF MarkHandler, Proceed, End, CallerTypes, Failed
    <3>3. CASE op[c] # "start"
      BY <1>0, <1>6, <3>1, <3>3 DEF MarkHandler, Proceed, Goto, CallerTypes
    <3> QED
      BY <3>2, <3>3
  <2>2. OwnFlags(c)'
    BY <1>0, <1>6, <2>1 DEF MarkHandler, OwnFlags, FlagTypes
  <2> QED
    BY <1>q, <2>1, <2>2
<1>7. CASE SocketSend(c)
  <2> DEFINE id == nextId[k] + 1
             m  == [client |-> k, id |-> id, cmd |-> cmd[c], life |-> starts,
                    tx |-> 1]
  <2>1. pc[c] = "send" /\ socketConnected[k] /\ UNCHANGED <<cmd, flagVars>>
    BY <1>0, <1>7 DEF SocketSend, OwnFlags
  <2>2. /\ pc'[c] = "recv" /\ result'[c] = result[c]
        /\ mine'[c] = id /\ out'[k].id = id /\ sent' = sent \cup {m}
    <3>1. /\ pc' = [d \in Callers |-> IF d = c THEN "recv"
                                      ELSE IF d \in Waiters(k) THEN "idle"
                                      ELSE pc[d]]
          /\ result' = [d \in Callers |-> IF d \in Waiters(k)
                                            THEN Failed("socket error")
                                            ELSE result[d]]
          /\ mine' = [mine EXCEPT ![c] = id]
          /\ out' = [out EXCEPT ![k] = [id |-> id, reply |-> None]]
          /\ sent' = sent \cup {m}
      BY <1>7, <2>1 DEF SocketSend
    <3>2. c \notin Waiters(k)
      BY <2>1 DEF Waiters
    <3> HIDE DEF m, id, k
    <3> QED
      BY <1>0, <3>1, <3>2 DEF CallerTypes, NetTypes
  <2>3. nextId[k] \in Nat /\ id # 0 /\ ~(id <= nextId[k])
    BY <1>0 DEF NetTypes
  <2>4. \A q \in sent' : q.client = k /\ q.id = id => q.cmd = cmd[c]
    <3>1. \A q \in sent : q.client = k => q.id # id
      BY <2>3 DEF HistInv
    <3>2. m.cmd = cmd[c]
      OBVIOUS
    <3> HIDE DEF m
    <3> QED
      BY <2>2, <3>1, <3>2
  <2>5. OwnRequest(c)'
    BY <2>1, <2>2, <2>3, <2>4 DEF OwnRequest
  <2>6. OwnFlags(c)'
    BY <1>0, <2>1, <2>2 DEF OwnFlags, flagVars
  <2>7. OwnResult(c)'
    BY <1>0, <2>1, <2>2 DEF OwnResult, Answered
  <2> QED
    BY <2>5, <2>6, <2>7 DEF CallerOK
<1>8. CASE SocketRecv(c)
  <2>1. pc[c] = "recv" /\ out[k].id # 0
    BY <1>0, <1>8 DEF SocketRecv, OwnRequest
  <2>2. Waiters(k) = {}
    BY <2>1 DEF Waiters, OneThreadPerClient
  <2>3. /\ pc'[c] = "wait"
        /\ UNCHANGED <<cmd, mine, result, out, sent, ran, flagVars>>
    BY <1>0, <1>8, <2>1, <2>2
       DEF SocketRecv, Goto, CallerTypes, netVars, srvVars
  <2>4. OwnRequest(c)'
    BY <1>0, <2>1, <2>3 DEF OwnRequest
  <2>5. OwnFlags(c)'
    BY <1>0, <2>1, <2>3 DEF OwnFlags, flagVars
  <2>6. OwnResult(c)'
    BY <1>0, <2>1, <2>3 DEF OwnResult, Answered
  <2> QED
    BY <2>4, <2>5, <2>6 DEF CallerOK
<1>9. CASE Return(c)
  <2>1. /\ pc[c] = "wait" /\ out[k].reply # None
        /\ pc'[c] = "idle"
        /\ result'[c] = ProcessResponse(out[k].reply)
        /\ UNCHANGED <<cmd, mine, ran, flagVars>>
    BY <1>0, <1>9 DEF Return, End, CallerTypes, srvVars
  <2>2. PICK e \in ran : /\ e.req.client = k /\ e.req.id = mine[c]
                         /\ Reply(e.out) = out[k].reply
    BY <1>0, <2>1 DEF EvidenceInv, Evidence, OwnRequest
  <2>3. e.req.cmd = cmd[c]
    BY <1>0, <2>1, <2>2 DEF HistInv, OwnRequest
  <2>4. \E d \in RunsOf(c)' : /\ d.req.cmd = cmd'[c]
                              /\ ProcessResponse(Reply(d.out)) = result'[c]
    BY <2>1, <2>2, <2>3 DEF RunsOf
  <2>5. result'[c].kind \in {"unreadable", "fault", "returned"}
    BY <2>1 DEF ProcessResponse
  <2>6. OwnResult(c)'
    BY <2>1, <2>4, <2>5 DEF OwnResult
  <2>7. OwnRequest(c)' /\ OwnFlags(c)'
    BY <1>0, <2>1 DEF OwnRequest, OwnFlags, flagVars
  <2> QED
    BY <2>6, <2>7 DEF CallerOK
<1>10. CASE WriteFails(c)
  <2>1. /\ pc[c] = "send" /\ pc'[c] = "idle" /\ UNCHANGED flagVars
        /\ result'[c].kind = "not written"
    BY <1>0, <1>10 DEF WriteFails, End, CallerTypes, Failed
  <2>2. OwnFlags(c)'
    BY <1>0, <2>1 DEF OwnFlags, flagVars
  <2> QED
    BY <1>q, <2>1, <2>2
<1> QED
  BY <1>1, <1>2, <1>3, <1>4, <1>5, <1>6, <1>7, <1>8, <1>9, <1>10
     DEF CallerNext

LEMMA CallerInvNext ==
  ASSUME OneThreadPerClient
  PROVE  TypeInv /\ HistInv /\ EvidenceInv /\ CallerInv /\ [Next]_vars
           => CallerInv'
<1> SUFFICES ASSUME TypeInv, HistInv, EvidenceInv, CallerInv, [Next]_vars,
                    NEW c \in Callers
             PROVE  CallerOK(c)'
  BY DEF CallerInv
<1>0. CallerOK(c) /\ NetTypes /\ ClientOf[c] \in Clients
  BY DEF CallerInv, TypeInv, TypeOK
<1>1. ASSUME NEW d \in Callers,
             Start(d) \/ (\E m \in Commands : Send(d, m)) \/ CallerNext(d)
      PROVE  CallerOK(c)'
  <2>1. CASE c = d
    BY <1>1, <2>1, ActingCaller
  <2>2. CASE c # d
    BY <1>1, <2>2, OtherCallers
  <2> QED
    BY <2>1, <2>2
<1>2. ASSUME NEW m \in toClient, DeliverReply(m) PROVE CallerOK(c)'
  <2>1. out'[ClientOf[c]].id = out[ClientOf[c]].id
    BY <1>0, <1>2 DEF DeliverReply, NetTypes, ReplyMessage
  <2> QED
    BY <1>0, <1>2, <2>1, Bystander
       DEF DeliverReply, callerVars, flagVars, srvVars
<1>3. ASSUME NEW k \in Clients, NEW n \in 1 .. MaxTx, Resend(k, n)
      PROVE  CallerOK(c)'
  <2>1. PICK p \in sent :
          sent' = sent \cup {[p EXCEPT !.life = starts, !.tx = n]}
    BY <1>3 DEF Resend
  <2> DEFINE m == [p EXCEPT !.life = starts, !.tx = n]
  <2>2. p.client = m.client /\ p.id = m.id /\ p.cmd = m.cmd
    BY <1>0 DEF NetTypes, Transmission
  <2> HIDE DEF m
  <2>3. sent' = sent \cup {m}
    BY <2>1 DEF m
  <2>4. \A q \in sent' : q \notin sent /\ q.client = ClientOf[c] =>
          \E r \in sent : r.client = q.client /\ r.id = q.id /\ r.cmd = q.cmd
    BY <2>2, <2>3
  <2> QED
    BY <1>0, <1>3, <2>4, Bystander DEF Resend, callerVars, flagVars, srvVars
<1>4. ASSUME ServerNext \/ StartServer \/ Crash \/ UNCHANGED vars
      PROVE  CallerOK(c)'
  <2>1. UNCHANGED <<callerVars, flagVars, out, sent>> /\ ran \subseteq ran'
    BY <1>4 DEF ServerNext, Receive, RejectRequest, HandleRequest,
                HandlerThrows, SendResponse, StartServer, Crash, Terminate,
                vars, netVars, srvVars
  <2> QED
    BY <1>0, <2>1, Bystander DEF callerVars, flagVars
<1> QED
  BY <1>1, <1>2, <1>3, <1>4 DEF Next, ReceiveTimeout

(* Together: the invariant that is inductive when no two callers share a   *)
(* client.                                                                 *)
IInv == TypeInv /\ HistInv /\ EvidenceInv /\ CallerInv

LEMMA SingleThreaded == ASSUME OneThreadPerClient PROVE Spec => []IInv
<1>1. Init => IInv
  BY TypeInit, HistInit, EvidenceInit, CallerInit DEF IInv
<1>2. IInv /\ [Next]_vars => IInv'
  BY TypeNext, HistNext, EvidenceNext, CallerInvNext DEF IInv
<1> QED
  BY <1>1, <1>2, PTL DEF Spec

(* A caller that has its client for itself gets the answer to its own      *)
(* command, through resends, late replies and restarts.                    *)
THEOREM AnswersAreOwn ==
  ASSUME OneThreadPerClient PROVE Spec => []ReplyMatchesRequest
<1>1. IInv => ReplyMatchesRequest
  BY DEF IInv, CallerInv, CallerOK, OwnResult, ReplyMatchesRequest
<1> QED
  BY SingleThreaded, <1>1, PTL

(* A caller that has its client for itself never meets the sockets in the  *)
(* wrong state.                                                            *)
THEOREM SocketsInStep ==
  ASSUME OneThreadPerClient PROVE Spec => []NoSocketMisuse
<1>1. IInv => NoSocketMisuse
  BY DEF IInv, CallerInv, CallerOK, OwnResult, NoSocketMisuse
<1> QED
  BY SingleThreaded, <1>1, PTL

-----------------------------------------------------------------------------
(***************************************************************************)
(* CommandFlow implements CommandService when no two callers share a       *)
(* client.  The mapping is in CommandFlow (Service); here are the facts    *)
(* about it that IInv does not have, and one step of the service, or none, *)
(* for every step of CommandFlow.                                          *)
(***************************************************************************)

(* A caller's last request is the last one of its client, and what ran     *)
(* ended in one of the Outcomes.                                           *)
TicketInv ==
  /\ \A c \in Callers : mine[c] = nextId[ClientOf[c]]
  /\ \A e \in ran : e.out \in Outcomes

LEMMA TicketInit == Init => TicketInv
  BY DEF Init, TicketInv

(* With a client of its own a caller cancels nobody's receive.             *)
LEMMA NobodyWaits ==
  ASSUME OneThreadPerClient, NEW c \in Callers, pc[c] = "send"
  PROVE  Waiters(ClientOf[c]) = {}
  BY DEF Waiters, OneThreadPerClient

(* SocketSend without a caller to cancel.                                  *)
LEMMA SocketSendEffect ==
  ASSUME OneThreadPerClient, CallerTypes, NEW c \in Callers, SocketSend(c)
  PROVE  /\ pc[c] = "send"
         /\ UNCHANGED <<op, cmd, ran>>
         /\ \/ /\ pc' = [pc EXCEPT ![c] = "idle"]
               /\ result' = [result EXCEPT ![c] = Failed("not connected")]
               /\ UNCHANGED <<mine, nextId, sent>>
            \/ /\ pc' = [pc EXCEPT ![c] = "recv"]
               /\ result' = result
               /\ mine' = [mine EXCEPT ![c] = nextId[ClientOf[c]] + 1]
               /\ nextId' = [nextId EXCEPT ![ClientOf[c]] = @ + 1]
               /\ sent' = sent \cup {[client |-> ClientOf[c],
                                      id |-> nextId[ClientOf[c]] + 1,
                                      cmd |-> cmd[c], life |-> starts,
                                      tx |-> 1]}
<1>1. pc[c] = "send" /\ UNCHANGED <<op, cmd, ran>>
  BY DEF SocketSend, srvVars
<1>2. Waiters(ClientOf[c]) = {}
  BY <1>1, NobodyWaits
<1>3. CASE ~socketConnected[ClientOf[c]]
  BY <1>1, <1>3 DEF SocketSend, End, netVars
<1>4. CASE socketConnected[ClientOf[c]]
  <2>1. /\ pc' = [d \in Callers |-> IF d = c THEN "recv"
                                    ELSE IF d \in {} THEN "idle" ELSE pc[d]]
        /\ result' = [d \in Callers |-> IF d \in {}
                                          THEN Failed("socket error")
                                          ELSE result[d]]
        /\ mine' = [mine EXCEPT ![c] = nextId[ClientOf[c]] + 1]
        /\ nextId' = [nextId EXCEPT ![ClientOf[c]] = nextId[ClientOf[c]] + 1]
        /\ sent' = sent \cup {[client |-> ClientOf[c],
                               id |-> nextId[ClientOf[c]] + 1,
                               cmd |-> cmd[c], life |-> starts, tx |-> 1]}
    BY <1>2, <1>4 DEF SocketSend
  <2>2. pc' = [pc EXCEPT ![c] = "recv"] /\ result' = result
    BY <2>1 DEF CallerTypes
  <2> QED
    BY <1>1, <2>1, <2>2
<1> QED
  BY <1>3, <1>4

LEMMA TicketNext ==
  ASSUME OneThreadPerClient
  PROVE  TypeInv /\ TicketInv /\ [Next]_vars => TicketInv'
<1> SUFFICES ASSUME TypeInv, TicketInv, [Next]_vars PROVE TicketInv'
  OBVIOUS
<1>0. CallerTypes /\ NetTypes
  BY DEF TypeInv, TypeOK
<1>1. ASSUME UNCHANGED <<mine, nextId, ran>> PROVE TicketInv'
  BY <1>1 DEF TicketInv
<1>2. ASSUME NEW c \in Callers, SocketSend(c) PROVE TicketInv'
  <2>1. CASE UNCHANGED <<mine, nextId>>
    BY <1>0, <1>1, <1>2, <2>1, SocketSendEffect
  <2>2. CASE /\ mine' = [mine EXCEPT ![c] = nextId[ClientOf[c]] + 1]
             /\ nextId' = [nextId EXCEPT ![ClientOf[c]] = @ + 1]
    <3>1. \A d \in Callers : mine'[d] = nextId'[ClientOf[d]]
      BY <1>0, <2>2
         DEF TicketInv, CallerTypes, NetTypes, OneThreadPerClient
    <3> QED
      BY <1>0, <1>2, <3>1, SocketSendEffect DEF TicketInv
  <2> QED
    BY <1>0, <1>2, <2>1, <2>2, SocketSendEffect
<1>3. ASSUME NEW o \in Outcomes, HandleRequest(o) \/ HandlerThrows(o)
      PROVE  TicketInv'
  <2>1. /\ UNCHANGED <<mine, nextId>>
        /\ ran' = ran \cup {[req |-> cur, out |-> o]}
    BY <1>3 DEF HandleRequest, HandlerThrows, Terminate, callerVars, netVars
  <2> QED
    BY <2>1 DEF TicketInv
<1>4. CASE UNCHANGED vars
  BY <1>1, <1>4 DEF vars, callerVars, netVars, srvVars
<1>5. ASSUME NEW c \in Callers,
             \/ Start(c) \/ (\E m \in Commands : Send(c, m))
             \/ CheckConnected(c) \/ SocketStart(c) \/ Dial(c)
             \/ MarkSocket(c) \/ MarkHandler(c) \/ WriteFails(c)
             \/ SocketRecv(c) \/ Return(c)
      PROVE  TicketInv'
  BY <1>1, <1>5
     DEF Start, Send, CheckConnected, SocketStart, Dial, MarkSocket,
         MarkHandler, WriteFails, SocketRecv, Return, netVars, srvVars
<1>6. ASSUME \/ \E m \in toClient : DeliverReply(m)
             \/ \E k \in Clients, n \in 1 .. MaxTx : Resend(k, n)
             \/ \E m \in toServer : Receive(m)
             \/ RejectRequest \/ SendResponse \/ ReceiveTimeout
             \/ StartServer \/ Crash
      PROVE  TicketInv'
  BY <1>1, <1>6
     DEF DeliverReply, Resend, Receive, RejectRequest, SendResponse,
         ReceiveTimeout, StartServer, Crash, Terminate, vars, callerVars,
         netVars, srvVars
<1> QED
  BY <1>2, <1>3, <1>4, <1>5, <1>6 DEF Next, CallerNext, ServerNext

-----------------------------------------------------------------------------
(***************************************************************************)
(* The mapping.                                                            *)
(***************************************************************************)
Submitted == {CallOf(m) : m \in sent}
Executed == {[call |-> CallOf(e.req), end |-> EndOf(e.out)] : e \in ran}
Phases == [c \in Callers |-> PhaseOf(c)]
Answers == [c \in Callers |-> AnswerOf(c)]

LEMMA NotAnswered ==
  \A why \in {"none", "started", "already connected", "not connected",
              "dial failed", "not written", "socket error"} :
    ~Answered(Failed(why))
  BY DEF Answered, Failed

(* A step of one caller that changes its phase to p and its answer to a.   *)
LEMMA OneCallerMaps ==
  ASSUME CallerTypes, NEW c \in Callers, NEW l, NEW o,
         pc' = [pc EXCEPT ![c] = l], op' = [op EXCEPT ![c] = o],
         result' = result \/ \E r : result' = [result EXCEPT ![c] = r]
  PROVE  /\ Phases' = [Phases EXCEPT ![c] = PhaseOf(c)']
         /\ Answers' = [Answers EXCEPT ![c] = AnswerOf(c)']
<1>1. \A d \in Callers \ {c} : /\ pc'[d] = pc[d] /\ op'[d] = op[d]
                               /\ result'[d] = result[d]
  BY DEF CallerTypes
<1>2. \A d \in Callers \ {c} : /\ PhaseOf(d)' = PhaseOf(d)
                               /\ AnswerOf(d)' = AnswerOf(d)
  BY <1>1 DEF PhaseOf, AnswerOf
<1> QED
  BY <1>2 DEF Phases, Answers

(* What ends, or moves on, a call that is not answered by it.              *)
LEMMA UnansweredMaps ==
  ASSUME CallerTypes, CallerInv, NEW c \in Callers,
         pc[c] # "idle", UNCHANGED <<op, cmd, mine, sent, ran>>,
         \/ /\ pc' = [pc EXCEPT ![c] = "idle"]
            /\ \E why \in {"started", "already connected", "not connected",
                           "dial failed", "not written", "socket error"} :
                 result' = [result EXCEPT ![c] = Failed(why)]
         \/ /\ \E l \in PcValues :
                 /\ pc' = [pc EXCEPT ![c] = l]
                 /\ l # "idle"
                 /\ l \in {"recv", "wait"} <=> pc[c] \in {"recv", "wait"}
            /\ result' = result
  PROVE  \/ UNCHANGED Service!vars
         \/ Service!Fail(c)
<1>1. result[c].kind = "none"
  BY DEF CallerInv, CallerOK, OwnResult
<1>2. AnswerOf(c) = NoAnswer
  BY <1>1 DEF AnswerOf, Answered
<1>3. op' = [op EXCEPT ![c] = op[c]]
  BY DEF CallerTypes
<1>4. AnswerOf(c)' = NoAnswer
  <2>1. result'[c] = result[c] \/
        \E why \in {"started", "already connected", "not connected",
                    "dial failed", "not written", "socket error"} :
          result'[c] = Failed(why)
    BY DEF CallerTypes
  <2> QED
    BY <1>1, <2>1, NotAnswered DEF AnswerOf, Answered
<1>5. /\ Phases' = [Phases EXCEPT ![c] = PhaseOf(c)']
      /\ Answers' = [Answers EXCEPT ![c] = AnswerOf(c)']
  <2>1. PICK l \in PcValues : pc' = [pc EXCEPT ![c] = l]
    BY DEF PcValues
  <2>2. result' = result \/ \E r : result' = [result EXCEPT ![c] = r]
    OBVIOUS
  <2> QED
    BY <1>3, <2>1, <2>2, OneCallerMaps
<1>6. Answers' = Answers
  BY <1>2, <1>4, <1>5 DEF Answers
<1>7. Submitted' = Submitted /\ Executed' = Executed
  BY DEF Submitted, Executed, CallOf, EndOf, NoAnswer
<1>8. PhaseOf(c)' = PhaseOf(c) \/ (PhaseOf(c)' = "idle" /\ PhaseOf(c) # "idle")
  BY <1>3 DEF CallerTypes, PhaseOf, PcValues
<1>9. CASE PhaseOf(c)' = PhaseOf(c)
  <2>1. Phases' = Phases
    BY <1>5, <1>9 DEF Phases
  <2> QED
    BY <1>6, <1>7, <2>1
       DEF Service!vars, Phases, Answers, Submitted, Executed
<1>10. CASE PhaseOf(c)' = "idle" /\ PhaseOf(c) # "idle"
  <2>1. Phases[c] # "idle" /\ Phases' = [Phases EXCEPT ![c] = "idle"]
    BY <1>5, <1>10 DEF Phases
  <2> QED
    BY <1>6, <1>7, <2>1
       DEF Service!Fail, Phases, Answers, Submitted, Executed
<1> QED
  BY <1>8, <1>9, <1>10

(* What touches neither callers nor histories is no step of the service.   *)
LEMMA QuietMaps ==
  UNCHANGED <<callerVars, sent, ran>> => UNCHANGED Service!vars
  BY DEF Service!vars, callerVars, PhaseOf, AnswerOf, Answered, CallOf,
         EndOf, NoAnswer

(* Send is a call, and Start the step that only forgets the last answer.   *)
LEMMA CallMaps ==
  ASSUME CallerTypes, NEW c \in Callers
  PROVE  /\ \A m \in Commands : Send(c, m) => Service!Call(c, m)
         /\ Start(c) => Service!Connect(c)
<1>1. ASSUME NEW o, pc[c] = "idle", pc' = [pc EXCEPT ![c] = "connect"],
             op' = [op EXCEPT ![c] = o],
             result' = [result EXCEPT ![c] = Failed("none")]
      PROVE  /\ Phases[c] = "idle"
             /\ Phases' = [Phases EXCEPT ![c] = PhaseOf(c)']
             /\ Answers' = [Answers EXCEPT ![c] = NoAnswer]
             /\ pc'[c] = "connect" /\ op'[c] = o
  <2>1. pc'[c] = "connect" /\ op'[c] = o /\ result'[c] = Failed("none")
    BY <1>1 DEF CallerTypes
  <2>2. AnswerOf(c)' = NoAnswer
    BY <2>1, NotAnswered DEF AnswerOf, NoAnswer, Answered
  <2>3. Phases[c] = "idle"
    BY <1>1 DEF Phases, PhaseOf
  <2> QED
    BY <1>1, <2>1, <2>2, <2>3, OneCallerMaps
<1>2. ASSUME NEW m \in Commands, Send(c, m) PROVE Service!Call(c, m)
  <2>1. /\ Phases[c] = "idle"
        /\ Phases' = [Phases EXCEPT ![c] = PhaseOf(c)']
        /\ Answers' = [Answers EXCEPT ![c] = NoAnswer]
        /\ pc'[c] = "connect" /\ op'[c] = "send"
    BY <1>1, <1>2 DEF Send, Goto
  <2>2. PhaseOf(c)' = "calling"
    BY <2>1 DEF PhaseOf
  <2>3. /\ cmd' = [cmd EXCEPT ![c] = m] /\ mine' = mine
        /\ Submitted' = Submitted /\ Executed' = Executed
    BY <1>2 DEF Send, netVars, srvVars, Submitted, Executed, CallOf, EndOf,
                NoAnswer
  <2> QED
    BY <2>1, <2>2, <2>3
       DEF Service!Call, Phases, Answers, Submitted, Executed
<1>3. ASSUME Start(c) PROVE Service!Connect(c)
  <2>1. /\ Phases[c] = "idle"
        /\ Phases' = [Phases EXCEPT ![c] = PhaseOf(c)']
        /\ Answers' = [Answers EXCEPT ![c] = NoAnswer]
        /\ pc'[c] = "connect" /\ op'[c] = "start"
    BY <1>1, <1>3 DEF Start, Goto
  <2>2. PhaseOf(c)' = "idle"
    BY <2>1 DEF PhaseOf
  <2>3. Phases' = Phases
    BY <2>1, <2>2 DEF Phases
  <2>4. /\ cmd' = cmd /\ mine' = mine
        /\ Submitted' = Submitted /\ Executed' = Executed
    BY <1>3 DEF Start, netVars, srvVars, Submitted, Executed, CallOf, EndOf,
                NoAnswer
  <2> QED
    BY <2>1, <2>3, <2>4
       DEF Service!Connect, Phases, Answers, Submitted, Executed
<1> QED
  BY <1>2, <1>3

(* The steps of a call between its beginning and the send of its request,  *)
(* and the one from recv to wait.                                          *)
LEMMA ProgressMaps ==
  ASSUME CallerTypes, CommandChosen, CallerInv, NEW c \in Callers,
         \/ CheckConnected(c) \/ SocketStart(c) \/ Dial(c) \/ MarkSocket(c)
         \/ MarkHandler(c) \/ WriteFails(c) \/ SocketRecv(c)
  PROVE  UNCHANGED Service!vars \/ Service!Fail(c)
<1>1. pc[c] # "idle" /\ UNCHANGED <<op, cmd, mine, sent, ran>>
  BY DEF CheckConnected, SocketStart, Dial, MarkSocket, MarkHandler,
         WriteFails, SocketRecv, netVars, srvVars
<1>2. \/ /\ pc' = [pc EXCEPT ![c] = "idle"]
         /\ \E why \in {"started", "already connected", "not connected",
                        "dial failed", "not written", "socket error"} :
              result' = [result EXCEPT ![c] = Failed(why)]
      \/ /\ \E l \in PcValues :
              /\ pc' = [pc EXCEPT ![c] = l]
              /\ l # "idle"
              /\ l \in {"recv", "wait"} <=> pc[c] \in {"recv", "wait"}
         /\ result' = result
  <2>1. CASE CheckConnected(c)
    BY <2>1 DEF CheckConnected, Proceed, End, Goto, PcValues
  <2>2. CASE SocketStart(c)
    BY <2>2 DEF SocketStart, End, Goto, PcValues
  <2>3. CASE Dial(c)
    BY <2>3 DEF Dial, End, Goto, PcValues
  <2>4. CASE MarkSocket(c)
    BY <2>4 DEF MarkSocket, Goto, PcValues
  <2>5. CASE MarkHandler(c)
    BY <2>5 DEF MarkHandler, Proceed, End, Goto, PcValues
  <2>6. CASE WriteFails(c)
    BY <2>6 DEF WriteFails, End
  <2>7. CASE SocketRecv(c)
    BY <2>7 DEF SocketRecv, End, Goto, PcValues
  <2> QED
    BY <2>1, <2>2, <2>3, <2>4, <2>5, <2>6, <2>7
<1> QED
  BY <1>1, <1>2, UnansweredMaps

(* The request goes out, and with it the call.                             *)
LEMMA SubmitMaps ==
  ASSUME OneThreadPerClient, TypeInv, CallerInv, TicketInv,
         NEW c \in Callers, SocketSend(c)
  PROVE  Service!Submit(c) \/ UNCHANGED Service!vars \/ Service!Fail(c)
<1> DEFINE m == [client |-> ClientOf[c], id |-> nextId[ClientOf[c]] + 1,
                 cmd |-> cmd[c], life |-> starts, tx |-> 1]
<1>0. CallerTypes /\ CommandChosen /\ pc[c] = "send" /\ op[c] = "send"
  BY DEF TypeInv, TypeOK, CommandChosen, SocketSend
<1>1. CASE /\ pc' = [pc EXCEPT ![c] = "idle"]
           /\ result' = [result EXCEPT ![c] = Failed("not connected")]
           /\ UNCHANGED <<mine, nextId, sent>>
  BY <1>0, <1>1, SocketSendEffect, UnansweredMaps
<1>2. CASE /\ pc' = [pc EXCEPT ![c] = "recv"]
           /\ result' = result
           /\ mine' = [mine EXCEPT ![c] = nextId[ClientOf[c]] + 1]
           /\ sent' = sent \cup {m}
  <2>1. UNCHANGED <<op, cmd, ran>>
    BY <1>0, SocketSendEffect
  <2>2. op' = [op EXCEPT ![c] = op[c]]
    BY <1>0, <2>1 DEF CallerTypes
  <2>3. /\ Phases' = [Phases EXCEPT ![c] = PhaseOf(c)']
        /\ Answers' = [Answers EXCEPT ![c] = AnswerOf(c)']
    BY <1>0, <1>2, <2>2, OneCallerMaps
  <2>4. pc'[c] = "recv" /\ op'[c] = "send" /\ result'[c] = result[c]
    BY <1>0, <1>2, <2>1 DEF CallerTypes
  <2>5. Phases[c] = "calling" /\ PhaseOf(c)' = "submitted"
    BY <1>0, <2>4 DEF Phases, PhaseOf
  <2>6. Answers' = Answers
    <3>1. AnswerOf(c)' = AnswerOf(c)
      BY <2>4 DEF AnswerOf
    <3> QED
      BY <2>3, <3>1 DEF Answers
  <2>7. mine' = [mine EXCEPT ![c] = mine[c] + 1]
    BY <1>2 DEF TicketInv
  <2>8. CallOf(m) = [Service!TheCall(c) EXCEPT !.id = mine[c] + 1]
    BY DEF CallOf, Service!TheCall, TicketInv
  <2>9. Submitted' = Submitted \cup {CallOf(m)} /\ Executed' = Executed
    <3> HIDE DEF m
    <3> QED
      BY <1>2, <2>1 DEF Submitted, Executed, CallOf, EndOf, NoAnswer
  <2>10. Service!TheCall(c).id = mine[c]
    BY DEF Service!TheCall
  <2>11. Submitted' = Submitted \cup
                        {[Service!TheCall(c) EXCEPT !.id = @ + 1]}
    BY <2>8, <2>9, <2>10
  <2> HIDE DEF m
  <2> QED
    BY <2>1, <2>3, <2>5, <2>6, <2>7, <2>9, <2>11
       DEF Service!Submit, Phases, Answers, Submitted, Executed
<1> QED
  BY <1>0, <1>1, <1>2, SocketSendEffect

(* A caller that is answered is told the end of an execution of its call.  *)
LEMMA AnswerMaps ==
  ASSUME IInv, TicketInv, NEW c \in Callers, Return(c)
  PROVE  \E end \in {EndOf(o) : o \in Outcomes} : Service!Answer(c, end)
<1> DEFINE k   == ClientOf[c]
           end == ProcessResponse(out[k].reply)
<1>0. /\ TypeInv /\ HistInv /\ EvidenceInv /\ CallerInv
      /\ CallerTypes /\ CommandChosen /\ k \in Clients
  BY DEF IInv, TypeInv, TypeOK
<1>1. /\ pc[c] = "wait" /\ op[c] = "send" /\ out[k].reply # None
      /\ pc' = [pc EXCEPT ![c] = "idle"]
      /\ result' = [result EXCEPT ![c] = end]
      /\ UNCHANGED <<op, cmd, mine, sent, ran>>
  BY <1>0 DEF Return, End, srvVars, CommandChosen
<1>2. PICK e \in ran : /\ e.req.client = k /\ e.req.id = mine[c]
                       /\ e.out.kind # "throw"
                       /\ Reply(e.out) = out[k].reply
  BY <1>0, <1>1
     DEF EvidenceInv, Evidence, CallerInv, CallerOK, OwnRequest
<1>3. e.req.cmd = cmd[c]
  BY <1>0, <1>1, <1>2 DEF HistInv, CallerInv, CallerOK, OwnRequest
<1>4. e.out \in Outcomes /\ EndOf(e.out) = end
  BY <1>2 DEF TicketInv, EndOf
<1>5. CallOf(e.req) = Service!TheCall(c)
  BY <1>2, <1>3 DEF CallOf, Service!TheCall
<1>6. [call |-> Service!TheCall(c), end |-> end] \in Executed
  BY <1>4, <1>5 DEF Executed
<1>7. Answered(end) /\ end # NoAnswer
  BY DEF ProcessResponse, Answered, NoAnswer, Failed
<1> HIDE DEF k, end
<1>8. op' = [op EXCEPT ![c] = op[c]]
  BY <1>0, <1>1 DEF CallerTypes
<1>9. /\ Phases' = [Phases EXCEPT ![c] = PhaseOf(c)']
      /\ Answers' = [Answers EXCEPT ![c] = AnswerOf(c)']
  BY <1>0, <1>1, <1>8, OneCallerMaps
<1>10. Phases[c] = "submitted"
  BY <1>1 DEF Phases, PhaseOf
<1>11. PhaseOf(c)' = "idle" /\ AnswerOf(c)' = end
  <2>1. pc'[c] = "idle" /\ result'[c] = end
    BY <1>0, <1>1 DEF CallerTypes
  <2> QED
    BY <1>7, <2>1 DEF PhaseOf, AnswerOf
<1>12. Submitted' = Submitted /\ Executed' = Executed
  BY <1>1 DEF Submitted, Executed, CallOf, EndOf, NoAnswer
<1>13. Service!Answer(c, end)
  BY <1>1, <1>6, <1>7, <1>9, <1>10, <1>11, <1>12
     DEF Service!Answer, Phases, Answers, Submitted, Executed
<1> QED
  BY <1>4, <1>13

(* An execution is of a submitted call, and ends in one of the Ends.       *)
LEMMA ExecuteMaps ==
  ASSUME HistInv, NEW o \in Outcomes, HandleRequest(o) \/ HandlerThrows(o)
  PROVE  \E call \in Submitted, end \in {EndOf(p) : p \in Outcomes} :
           Service!Execute(call, end)
<1> DEFINE e == [req |-> cur, out |-> o]
<1>1. /\ cur \in sent /\ ran' = ran \cup {e}
      /\ UNCHANGED <<pc, op, cmd, mine, result, sent>>
  BY DEF HandleRequest, HandlerThrows, Terminate, HistInv, callerVars,
         netVars
<1>2. CallOf(cur) \in Submitted
  BY <1>1 DEF Submitted
<1>3. e.req = cur /\ e.out = o
  OBVIOUS
<1> HIDE DEF e
<1>4. Executed' = Executed \cup {[call |-> CallOf(cur), end |-> EndOf(o)]}
  BY <1>1, <1>3 DEF Executed, CallOf, EndOf, NoAnswer
<1>5. Phases' = Phases /\ Answers' = Answers /\ Submitted' = Submitted
  BY <1>1 DEF Phases, Answers, Submitted, PhaseOf, AnswerOf, Answered,
              NoAnswer, CallOf
<1>6. Service!Execute(CallOf(cur), EndOf(o))
  BY <1>1, <1>2, <1>4, <1>5
     DEF Service!Execute, Phases, Answers, Submitted, Executed
<1> QED
  BY <1>2, <1>6

(* A retransmission submits nothing new.                                   *)
LEMMA ResendMaps ==
  ASSUME NetTypes, NEW k \in Clients, NEW n \in 1 .. MaxTx, Resend(k, n)
  PROVE  UNCHANGED Service!vars
<1>1. PICK p \in sent :
        sent' = sent \cup {[p EXCEPT !.life = starts, !.tx = n]}
  BY DEF Resend
<1> DEFINE m == [p EXCEPT !.life = starts, !.tx = n]
<1>2. CallOf(m) = CallOf(p)
  BY DEF CallOf, NetTypes, Transmission
<1>3. sent' = sent \cup {m}
  BY <1>1
<1> HIDE DEF m
<1>4. Submitted' = Submitted
  BY <1>2, <1>3 DEF Submitted, CallOf
<1>5. UNCHANGED <<pc, op, cmd, mine, result, ran>>
  BY DEF Resend, callerVars, srvVars
<1>6. Phases' = Phases /\ Answers' = Answers /\ Executed' = Executed
  BY <1>5 DEF Phases, Answers, Executed, PhaseOf, AnswerOf, Answered,
              NoAnswer, CallOf, EndOf
<1> QED
  BY <1>4, <1>5, <1>6 DEF Service!vars, Phases, Answers, Submitted, Executed

LEMMA ServiceInit == Init => Service!Init
<1> SUFFICES ASSUME Init PROVE Service!Init
  OBVIOUS
<1>1. Phases = [c \in Callers |-> "idle"]
  BY DEF Init, Phases, PhaseOf
<1>2. Answers = [c \in Callers |-> NoAnswer]
  BY NotAnswered DEF Init, Answers, AnswerOf, NoAnswer
<1>3. Submitted = {} /\ Executed = {}
  BY DEF Init, Submitted, Executed
<1> QED
  BY <1>1, <1>2, <1>3
     DEF Init, Service!Init, Phases, Answers, Submitted, Executed

(* Every step of CommandFlow is a step of the service or none.             *)
LEMMA ServiceStep ==
  ASSUME OneThreadPerClient, IInv, TicketInv, [Next]_vars
  PROVE  [Service!Next]_(Service!vars)
<1>0. /\ TypeInv /\ HistInv /\ CallerInv
      /\ CallerTypes /\ CommandChosen /\ NetTypes
  BY DEF IInv, TypeInv, TypeOK
<1>1. ASSUME NEW c \in Callers, Start(c) \/ \E m \in Commands : Send(c, m)
      PROVE  Service!Next
  BY <1>0, <1>1, CallMaps DEF Service!Next
<1>2. ASSUME NEW c \in Callers,
             \/ CheckConnected(c) \/ SocketStart(c) \/ Dial(c)
             \/ MarkSocket(c) \/ MarkHandler(c) \/ WriteFails(c)
             \/ SocketRecv(c)
      PROVE  Service!Next \/ UNCHANGED Service!vars
  <2>1. UNCHANGED Service!vars \/ Service!Fail(c)
    BY <1>0, <1>2, ProgressMaps
  <2> QED
    BY <2>1 DEF Service!Next
<1>3. ASSUME NEW c \in Callers, SocketSend(c)
      PROVE  Service!Next \/ UNCHANGED Service!vars
  <2>1. Service!Submit(c) \/ UNCHANGED Service!vars \/ Service!Fail(c)
    BY <1>0, <1>3, SubmitMaps
  <2> QED
    BY <2>1 DEF Service!Next
<1>4. ASSUME NEW c \in Callers, Return(c) PROVE Service!Next
  <2>1. \E end \in {EndOf(o) : o \in Outcomes} : Service!Answer(c, end)
    BY <1>4, AnswerMaps
  <2> QED
    BY <2>1 DEF Service!Next
<1>5. ASSUME NEW o \in Outcomes, HandleRequest(o) \/ HandlerThrows(o)
      PROVE  Service!Next
  <2>1. \E call \in {CallOf(m) : m \in sent},
           end \in {EndOf(p) : p \in Outcomes} : Service!Execute(call, end)
    BY <1>0, <1>5, ExecuteMaps DEF Submitted
  <2> QED
    BY <2>1 DEF Service!Next
<1>6. ASSUME NEW k \in Clients, NEW n \in 1 .. MaxTx, Resend(k, n)
      PROVE  UNCHANGED Service!vars
  BY <1>0, <1>6, ResendMaps
<1>7. ASSUME \/ \E m \in toClient : DeliverReply(m)
             \/ \E m \in toServer : Receive(m)
             \/ RejectRequest \/ SendResponse \/ ReceiveTimeout
             \/ StartServer \/ Crash \/ UNCHANGED vars
      PROVE  UNCHANGED Service!vars
  <2>1. UNCHANGED <<callerVars, sent, ran>>
    BY <1>7 DEF DeliverReply, Receive, RejectRequest, SendResponse,
                ReceiveTimeout, StartServer, Crash, Terminate, vars,
                netVars, srvVars
  <2> QED
    BY <2>1, QuietMaps
<1> QED
  BY <1>1, <1>2, <1>3, <1>4, <1>5, <1>6, <1>7
     DEF Next, CallerNext, ServerNext

(* Callers with a client of their own get the service of CommandService,   *)
(* through PlumberCommandBus, the REQ socket's resends and every life and  *)
(* death of the server: a call is submitted once, only submitted calls are *)
(* executed, an answer is the end of an execution of the caller's call.    *)
THEOREM CommandFlowImplementsService ==
  ASSUME OneThreadPerClient PROVE Spec => ImplementsService
<1>1. Spec => []IInv
  BY SingleThreaded
<1>2. IInv /\ TicketInv /\ [Next]_vars => TicketInv'
  BY TicketNext DEF IInv
<1>3. IInv /\ TicketInv /\ [Next]_vars => [Service!Next]_(Service!vars)
  BY ServiceStep
<1> QED
  BY <1>1, <1>2, <1>3, TicketInit, ServiceInit, PTL
     DEF Spec, ImplementsService, Service!Spec
=============================================================================
