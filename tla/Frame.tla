-------------------------------- MODULE Frame --------------------------------
(***************************************************************************)
(* ProtoFrameBufferView (proto_frame_buffer.hpp): a byte buffer of fixed   *)
(* capacity that holds one frame, two 32 bit size words followed by the    *)
(* serialized header and the serialized payload.  The bytes are abstracted *)
(* to the size words at the start of the buffer and to where the last      *)
(* header and the last payload were serialized.                            *)
(***************************************************************************)
EXTENDS Naturals

CONSTANTS Capacity,  \* the template argument of ProtoFrameBuffer, 64 * 1024
          WordMod,   \* 2^32, the modulus of the two uint32_t size words
          Headers,   \* the headers that are written
          Payloads,  \* the payloads that are written
          SizeOf,    \* ByteSizeLong() of a header or of a payload
          TypeOf,    \* the payload type a header announces, 0 for none
          Parsable,  \* those whose bytes ParseFromArray accepts: not the ones
                     \* with a string that is not UTF-8
          Null       \* the null MessagePtr

WordBytes == 8

ASSUME CapacityAssumption ==
  Capacity \in Nat /\ WordMod \in Nat /\ WordBytes <= Capacity
  /\ Capacity < WordMod

ASSUME MessagesAssumption ==
  /\ Null \notin Headers \cup Payloads
  /\ SizeOf \in [Headers \cup Payloads -> Nat]
  /\ TypeOf \in [Headers -> Nat]
  /\ Parsable \subseteq Headers \cup Payloads

(* What is at one place of the buffer.                                     *)
Segment == [at : Nat, msg : Headers \cup Payloads \cup {Null}]

Buffer == [written     : Nat,
           headerSize  : 0 .. WordMod - 1,
           payloadSize : 0 .. WordMod - 1,
           header      : Segment,
           payload     : Segment]

Nothing == [at |-> 0, msg |-> Null]

(* A new buffer, or one after Reset and Clear.                             *)
EmptyBuffer == [written |-> 0, headerSize |-> 0, payloadSize |-> 0,
                header |-> Nothing, payload |-> Nothing]

(* Fault: _written is left without a value.                                *)
ResetToNothing(b) == [b EXCEPT !.written = Null]

(* Reset: only _written; the bytes stay.                                   *)
Reset(b) == [b EXCEPT !.written = 0]

(* recv puts the bytes of frame f at the start of the buffer; what lies    *)
(* behind them stays, and so does _written.                                *)
Received(b, f) ==
  [f EXCEPT !.written = b.written,
            !.payload = IF f.payloadSize = 0 THEN b.payload ELSE @]

(* AckWritten: the bytes were put there by recv, this says how many.       *)
AckWritten(b, n) == [b EXCEPT !.written = n]

(***************************************************************************)
(* Write(header, payload), Write(header) and Write(header, MessagePtr);    *)
(* p = Null is the null pointer.  The parts go behind what the buffer      *)
(* already holds, the sizes always to the start of the buffer.             *)
(* SerializeToArray writes nothing when the room is too small.  A payload  *)
(* that does not fit leaves the new header and its size word behind.       *)
(***************************************************************************)
PayloadBytes(p) == IF p = Null THEN 0 ELSE SizeOf[p]

HeaderFits(b, h) == b.written + WordBytes + SizeOf[h] <= Capacity

(* Fault: the room the header took is forgotten.                           *)
PayloadFitsAlone(b, h, p) ==
  p = Null \/ b.written + WordBytes + SizeOf[p] <= Capacity

PayloadFits(b, h, p) ==
  p = Null \/ b.written + WordBytes + SizeOf[h] + SizeOf[p] <= Capacity

WriteThrows(b, h, p) == ~HeaderFits(b, h) \/ ~PayloadFits(b, h, p)

HeaderWritten(b, h) ==
  [b EXCEPT !.headerSize = SizeOf[h] % WordMod,
            !.header = [at |-> b.written + WordBytes, msg |-> h]]

Write(b, h, p) ==
  IF ~HeaderFits(b, h) THEN b
  ELSE IF ~PayloadFits(b, h, p) THEN HeaderWritten(b, h)
  ELSE [HeaderWritten(b, h) EXCEPT
          !.payloadSize = PayloadBytes(p) % WordMod,
          !.payload = IF p = Null THEN @
                      ELSE [at  |-> b.written + WordBytes + SizeOf[h],
                            msg |-> p],
          !.written = b.written + WordBytes + SizeOf[h] + PayloadBytes(p)]

(***************************************************************************)
(* Read, with offset 0, by a process whose serializer knows the message    *)
(* ids of a set.  The expected size is computed in uint32_t.  Header and   *)
(* payload are parsed from the bytes where the size words say they are;    *)
(* the parse is of a whole message only if one was serialized there with   *)
(* that size, otherwise it is of whatever the bytes are ("garbled").       *)
(***************************************************************************)
Whole(seg, at, size) ==
  seg.msg # Null /\ seg.at = at /\ SizeOf[seg.msg] = size

Expected(b) == (WordBytes + b.headerSize + b.payloadSize) % WordMod

Faults == {"too small", "garbled", "header not parsed", "unknown id",
           "payload not parsed", "size and type mismatch"}

Fault(what) == [status |-> what, header |-> Null, payload |-> Null]

Returned(h, p) == [status |-> "ok", header |-> h, payload |-> p]

(* MessageSerializer::Deserialize of the bytes of segment seg.             *)
Deserialize(seg, at, size, id, known) ==
  CASE id \notin known -> "unknown id"
    [] id \in known /\ ~Whole(seg, at, size) -> "garbled"
    [] OTHER -> IF seg.msg \in Parsable THEN "ok" ELSE "payload not parsed"

(* The rest of Read, the header being parsed.                              *)
ReadPayload(b, known) ==
  LET h  == b.header.msg
      id == TypeOf[h]
      d  == Deserialize(b.payload, WordBytes + b.headerSize, b.payloadSize,
                        id, known)
  IN  CASE (b.payloadSize = 0) /\ (id = 0) -> Returned(h, Null)
        [] (b.payloadSize > 0) /\ (id > 0) ->
             IF d = "ok" THEN Returned(h, b.payload.msg) ELSE Fault(d)
        [] OTHER -> Fault("size and type mismatch")

ReadHeader(b, known) ==
  CASE ~Whole(b.header, WordBytes, b.headerSize) -> Fault("garbled")
    [] Whole(b.header, WordBytes, b.headerSize)
       /\ b.header.msg \notin Parsable -> Fault("header not parsed")
    [] OTHER -> ReadPayload(b, known)

(* Fault: a frame that fills the received bytes exactly counts as short.   *)
ReadStrict(b, known) ==
  IF b.written <= Expected(b) THEN Fault("too small") ELSE ReadHeader(b, known)

Read(b, known) ==
  IF b.written < WordBytes \/ b.written < Expected(b)
    THEN Fault("too small") ELSE ReadHeader(b, known)
=============================================================================
