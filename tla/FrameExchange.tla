---------------------------- MODULE FrameExchange ----------------------------
(***************************************************************************)
(* Commands and responses as frames: one caller sends command after        *)
(* command, the server reads each one from the buffer it uses for all      *)
(* requests and answers from the buffer it uses for all responses          *)
(* (ProtoReqRspSrvHandler::HandleRequest inside                            *)
(* NngReqRspSrvSocket::ReceiveLoop, ProtoReqRspClientHandler::Send).       *)
(* Neither buffer is ever cleared; _outBuffer is Reset for every request.  *)
(* CommandFlow has the interleavings and the losses; here one frame is     *)
(* under way at a time and the subject is what the buffers hold.           *)
(***************************************************************************)
EXTENDS Frame

CONSTANTS Requests,  \* <<header, payload>>: the commands that are sent
          Responses, \* <<header, payload>>: the responses handlers cause
          ServerIds, \* the message ids registered at the server
          ClientIds  \* the message ids registered at the client

ASSUME ExchangeAssumption ==
  /\ Requests \subseteq Headers \X Payloads
  /\ Responses \subseteq Headers \X (Payloads \cup {Null})
  /\ \A r \in Requests : TypeOf[r[1]] > 0

VARIABLES pc,        \* where the command under way is
          inBuffer,  \* ProtoReqRspSrvHandler::_inBuffer
          outBuffer, \* ProtoReqRspSrvHandler::_outBuffer
          wire,      \* the frame that travels
          asked,     \* the request the caller wrote last
          answered,  \* the response the server wrote last
          got        \* what the last Read returned

vars == <<pc, inBuffer, outBuffer, wire, asked, answered, got>>

TypeOK ==
  /\ pc \in {"idle", "requested", "handling", "responded", "dead"}
  /\ inBuffer \in Buffer /\ outBuffer \in Buffer /\ wire \in Buffer
  /\ asked \in Requests \cup {<<Null, Null>>}
  /\ answered \in Responses \cup {<<Null, Null>>}
  /\ got \in [status  : Faults \cup {"ok"},
              header  : Headers \cup {Null},
              payload : Headers \cup Payloads \cup {Null}]

NothingRead == Returned(Null, Null)

Init ==
  /\ pc = "idle"
  /\ inBuffer = EmptyBuffer /\ outBuffer = EmptyBuffer /\ wire = EmptyBuffer
  /\ asked = <<Null, Null>> /\ answered = <<Null, Null>>
  /\ got = NothingRead

-----------------------------------------------------------------------------
(* ProtoReqRspClientHandler::OnSend up to _socket->Send: the request is    *)
(* written to a buffer of its own.  A command that does not fit throws in  *)
(* the caller and nothing is sent.                                         *)
Send(r) ==
  LET b == EmptyBuffer
  IN  /\ pc = "idle"
      /\ IF WriteThrows(b, r[1], r[2])
           THEN UNCHANGED <<pc, wire, asked>>
           ELSE /\ wire' = Write(b, r[1], r[2])
                /\ asked' = r
                /\ pc' = "requested"
      /\ UNCHANGED <<inBuffer, outBuffer, answered, got>>

(* Fault: the response buffer is not reset between two requests.           *)
ReceiveWithoutReset ==
  LET b == AckWritten(Received(inBuffer, wire), wire.written)
  IN  /\ pc = "requested"
      /\ inBuffer' = b /\ got' = Read(b, ServerIds)
      /\ pc' = IF Read(b, ServerIds).status = "ok" THEN "handling" ELSE "dead"
      /\ UNCHANGED <<outBuffer, wire, asked, answered>>

(* ReceiveLoop's recv and HandleRequest up to and including Read.  Read is *)
(* outside HandleRequest's try block and ReceiveLoop catches only          *)
(* nng::exception: whatever Read throws ends the server process.           *)
Receive ==
  LET b == AckWritten(Received(inBuffer, wire), wire.written)
  IN  /\ pc = "requested"
      /\ inBuffer' = b
      /\ outBuffer' = Reset(outBuffer)
      /\ got' = Read(b, ServerIds)
      /\ pc' = IF Read(b, ServerIds).status = "ok" THEN "handling" ELSE "dead"
      /\ UNCHANGED <<wire, asked, answered>>

(* The handler ran; the response, or the fault it threw, is written and    *)
(* sent.  A Write that throws does so outside every catch clause that      *)
(* could answer, so it ends the server process.                            *)
Respond(r) ==
  /\ pc = "handling"
  /\ outBuffer' = Write(outBuffer, r[1], r[2])
  /\ answered' = r
  /\ IF WriteThrows(outBuffer, r[1], r[2])
       THEN pc' = "dead" /\ UNCHANGED wire
       ELSE pc' = "responded" /\ wire' = outBuffer'
  /\ UNCHANGED <<inBuffer, asked, got>>

(* The rest of OnSend and OnResponse: the reply is received into a new     *)
(* buffer and read; when Read throws the exception goes to the caller.     *)
Return ==
  /\ pc = "responded"
  /\ got' = Read(AckWritten(Received(EmptyBuffer, wire), wire.written),
                 ClientIds)
  /\ pc' = "idle"
  /\ UNCHANGED <<inBuffer, outBuffer, wire, asked, answered>>

Next ==
  \/ \E r \in Requests : Send(r)
  \/ Receive
  \/ \E r \in Responses : Respond(r)
  \/ Return

Spec == Init /\ [][Next]_vars

-----------------------------------------------------------------------------
(* What a reader gets of a frame: a payload without bytes is none to Read. *)
Delivered(r) == <<r[1], IF PayloadBytes(r[2]) = 0 THEN Null ELSE r[2]>>

(* A Read that succeeds returns exactly what one Write put there: the      *)
(* server acts on the request that was just sent and the caller sees the   *)
(* response to it, never a header of one frame with the payload of an      *)
(* older, longer one, although the server's buffers are reused without     *)
(* being cleared and HandleRequest only resets _written.                   *)
NoTornFrame ==
  /\ got.status \notin {"too small", "garbled"}
  /\ pc = "handling" => <<got.header, got.payload>> = asked
  /\ (pc = "idle" /\ got.status = "ok" /\ answered[1] # Null)
       => <<got.header, got.payload>> = Delivered(answered)

(* What a process is willing to write, the other is able to hold: no Write *)
(* leaves more than Capacity bytes, so the check after the fact at the end *)
(* of Write never fires and recv's buffer is never too small.              *)
FitsCapacity ==
  /\ wire.written <= Capacity /\ inBuffer.written <= Capacity
  /\ outBuffer.written <= Capacity

(* Why a message as such cannot be read by a process that knows certain   *)
(* ids: a string of the header is not UTF-8; header and payload disagree   *)
(* on whether there is a payload, which has no bytes when all the fields   *)
(* of the message have default values; the id is not registered there; or  *)
(* a string of the payload is not UTF-8.                                   *)
Refusable(r, known) ==
  \/ r[1] \notin Parsable
  \/ (PayloadBytes(r[2]) = 0) # (TypeOf[r[1]] = 0)
  \/ /\ PayloadBytes(r[2]) > 0
     /\ TypeOf[r[1]] \notin known \/ r[2] \notin Parsable

(* Whether Read throws depends on the message alone, never on how large it *)
(* is, on where it lies or on what the buffer held before: a request that  *)
(* was written ends the server's process just if it is Refusable, and a    *)
(* response turns into a frame error at the caller just if it is.          *)
RefusedForItself ==
  /\ pc = "handling" => ~Refusable(asked, ServerIds)
  /\ (pc = "dead" /\ got.status # "ok") => Refusable(asked, ServerIds)
  /\ (pc = "idle" /\ answered[1] # Null) =>
       (got.status # "ok" <=> Refusable(answered, ClientIds))
=============================================================================
