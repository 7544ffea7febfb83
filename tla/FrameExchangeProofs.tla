------------------------- MODULE FrameExchangeProofs -------------------------
(***************************************************************************)
(* Theorems about frames and about the buffers they are exchanged in, for  *)
(* any capacity, any messages and any sizes.                               *)
(***************************************************************************)
EXTENDS FrameExchange, TLAPS

(* b starts with the frame of header h and payload p.                      *)
Holds(b, h, p) ==
  /\ b.written = WordBytes + SizeOf[h] + PayloadBytes(p)
  /\ b.written <= Capacity
  /\ b.headerSize = SizeOf[h]
  /\ b.header = [at |-> WordBytes, msg |-> h]
  /\ b.payloadSize = PayloadBytes(p)
  /\ PayloadBytes(p) > 0
       => b.payload = [at |-> WordBytes + SizeOf[h], msg |-> p]

(* The frame under way is the one that was written last, the buffer for    *)
(* responses is empty when one is written, and no buffer holds more than   *)
(* its capacity.                                                           *)
ExchangeInv ==
  /\ pc # "idle" => asked \in Requests
  /\ pc = "requested" => Holds(wire, asked[1], asked[2])
  /\ pc = "handling" => outBuffer.written = 0 /\ got.status = "ok"
  /\ pc = "responded" => answered \in Responses
                         /\ Holds(wire, answered[1], answered[2])

IInv == /\ TypeOK /\ ExchangeInv
        /\ NoTornFrame /\ FitsCapacity /\ RefusedForItself

-----------------------------------------------------------------------------
(***************************************************************************)
(* Sizes and operations of the buffer.                                     *)
(***************************************************************************)

LEMMA SmallMod ==
  ASSUME NEW a \in Nat, NEW m \in Nat, a < m
  PROVE  a % m = a
  OBVIOUS

LEMMA Sizes ==
  ASSUME NEW h \in Headers, NEW p \in Payloads \cup {Null}
  PROVE  /\ SizeOf[h] \in Nat /\ PayloadBytes(p) \in Nat
         /\ p # Null => p \in Payloads /\ PayloadBytes(p) = SizeOf[p]
         /\ TypeOf[h] \in Nat /\ h # Null
  BY MessagesAssumption DEF PayloadBytes

LEMMA BufferFields ==
  ASSUME NEW b \in Buffer
  PROVE  /\ b.written \in Nat
         /\ b.headerSize \in 0 .. WordMod - 1
         /\ b.payloadSize \in 0 .. WordMod - 1
         /\ b.header \in Segment /\ b.payload \in Segment
  BY DEF Buffer

LEMMA EmptyIsBuffer == EmptyBuffer \in Buffer
<1>1. 0 \in 0 .. WordMod - 1
  BY CapacityAssumption DEF WordBytes
<1>2. Nothing \in Segment
  BY DEF Nothing, Segment
<1> QED
  BY <1>1, <1>2 DEF EmptyBuffer, Buffer

(* The header and its size word.                                           *)
LEMMA HeaderIsWritten ==
  ASSUME NEW b \in Buffer, NEW h \in Headers, HeaderFits(b, h)
  PROVE  /\ HeaderWritten(b, h) \in Buffer
         /\ HeaderWritten(b, h).written = b.written
         /\ HeaderWritten(b, h).headerSize = SizeOf[h]
         /\ HeaderWritten(b, h).header
              = [at |-> b.written + WordBytes, msg |-> h]
         /\ HeaderWritten(b, h).payload = b.payload
         /\ HeaderWritten(b, h).payloadSize = b.payloadSize
<1>1. SizeOf[h] \in Nat /\ b.written \in Nat
  BY MessagesAssumption, BufferFields
<1>2. SizeOf[h] < WordMod
  BY <1>1, CapacityAssumption DEF HeaderFits, WordBytes
<1>3. SizeOf[h] % WordMod = SizeOf[h] /\ SizeOf[h] \in 0 .. WordMod - 1
  BY <1>1, <1>2, SmallMod, CapacityAssumption
<1>4. [at |-> b.written + WordBytes, msg |-> h] \in Segment
  BY <1>1 DEF Segment, WordBytes
<1> QED
  BY <1>3, <1>4 DEF HeaderWritten, Buffer

(* A Write to an empty buffer that does not throw leaves the frame.        *)
LEMMA WriteHolds ==
  ASSUME NEW b \in Buffer, NEW h \in Headers, NEW p \in Payloads \cup {Null},
         b.written = 0, ~WriteThrows(b, h, p)
  PROVE  Write(b, h, p) \in Buffer /\ Holds(Write(b, h, p), h, p)
<1> DEFINE hw == HeaderWritten(b, h)
           w == Write(b, h, p)
           seg == [at |-> b.written + WordBytes + SizeOf[h], msg |-> p]
<1>1. HeaderFits(b, h) /\ PayloadFits(b, h, p)
  BY DEF WriteThrows
<1>2. /\ hw \in Buffer /\ hw.headerSize = SizeOf[h]
      /\ hw.header = [at |-> b.written + WordBytes, msg |-> h]
  BY <1>1, HeaderIsWritten
<1>3. /\ SizeOf[h] \in Nat /\ PayloadBytes(p) \in Nat
      /\ p # Null => PayloadBytes(p) = SizeOf[p]
      /\ p = Null => PayloadBytes(p) = 0
  BY Sizes DEF PayloadBytes
<1>4. WordBytes + SizeOf[h] + PayloadBytes(p) <= Capacity
  BY <1>1, <1>3 DEF HeaderFits, PayloadFits, WordBytes
<1>5. PayloadBytes(p) % WordMod = PayloadBytes(p)
      /\ PayloadBytes(p) \in 0 .. WordMod - 1
  BY <1>3, <1>4, SmallMod, CapacityAssumption DEF WordBytes
<1>6. seg \in Segment
  BY <1>3 DEF Segment, WordBytes
<1> HIDE DEF hw, seg
<1>7. w = [hw EXCEPT
             !.payloadSize = PayloadBytes(p) % WordMod,
             !.payload = IF p = Null THEN @ ELSE seg,
             !.written = b.written + WordBytes + SizeOf[h] + PayloadBytes(p)]
  BY <1>1 DEF Write, hw, seg
<1> HIDE DEF w
<1>8. /\ w.written = WordBytes + SizeOf[h] + PayloadBytes(p)
      /\ w.headerSize = hw.headerSize /\ w.header = hw.header
      /\ w.payloadSize = PayloadBytes(p)
      /\ w.payload = IF p = Null THEN hw.payload ELSE seg
      /\ w \in Buffer
  <2>1. w.written = b.written + WordBytes + SizeOf[h] + PayloadBytes(p)
    BY <1>2, <1>7 DEF Buffer
  <2>2. /\ w.headerSize = hw.headerSize /\ w.header = hw.header
        /\ w.payloadSize = PayloadBytes(p)
        /\ w.payload = IF p = Null THEN hw.payload ELSE seg
    BY <1>2, <1>5, <1>7 DEF Buffer
  <2>3. b.written + WordBytes + SizeOf[h] + PayloadBytes(p) \in Nat
    BY <1>3 DEF WordBytes
  <2>4. w \in Buffer
    BY <1>2, <1>5, <1>6, <1>7, <2>3 DEF Buffer
  <2> QED
    BY <1>3, <2>1, <2>2, <2>4 DEF WordBytes
<1>9. hw.header = [at |-> WordBytes, msg |-> h]
  BY <1>2 DEF WordBytes
<1>10. PayloadBytes(p) > 0
         => w.payload = [at |-> WordBytes + SizeOf[h], msg |-> p]
  BY <1>3, <1>8 DEF seg, WordBytes
<1>11. Holds(w, h, p)
  BY <1>2, <1>4, <1>8, <1>9, <1>10 DEF Holds
<1> QED
  BY <1>8, <1>11 DEF w

(* Any Write leaves a buffer, and not more in it than it has room for.     *)
LEMMA WriteFits ==
  ASSUME NEW b \in Buffer, NEW h \in Headers, NEW p \in Payloads \cup {Null},
         b.written <= Capacity, b.written = 0 \/ WriteThrows(b, h, p)
  PROVE  Write(b, h, p) \in Buffer /\ Write(b, h, p).written <= Capacity
<1>1. CASE ~HeaderFits(b, h)
  BY <1>1 DEF Write
<1>2. CASE HeaderFits(b, h) /\ ~PayloadFits(b, h, p)
  BY <1>2, HeaderIsWritten DEF Write
<1>3. CASE ~WriteThrows(b, h, p)
  BY <1>3, WriteHolds DEF Holds
<1> QED
  BY <1>1, <1>2, <1>3 DEF WriteThrows

(* recv brings the frame over, whatever the buffer held before.            *)
LEMMA ReceivedHolds ==
  ASSUME NEW b \in Buffer, NEW f \in Buffer,
         NEW h \in Headers, NEW p \in Payloads \cup {Null}, Holds(f, h, p)
  PROVE  LET r == AckWritten(Received(b, f), f.written)
         IN  r \in Buffer /\ Holds(r, h, p)
<1> DEFINE r == AckWritten(Received(b, f), f.written)
<1>1. /\ r \in Buffer
      /\ r.written = f.written /\ r.headerSize = f.headerSize
      /\ r.payloadSize = f.payloadSize /\ r.header = f.header
      /\ f.payloadSize # 0 => r.payload = f.payload
  BY DEF AckWritten, Received, Buffer
<1>2. PayloadBytes(p) \in Nat
  BY Sizes
<1> HIDE DEF r
<1>3. Holds(r, h, p)
  BY <1>1, <1>2 DEF Holds
<1> QED
  BY <1>1, <1>3 DEF r

(* Read returns the frame or finds what Refusable says of it, and nothing  *)
(* else.                                                                   *)
Causes == Faults \ {"too small", "garbled"}

LEMMA ReadHolds ==
  ASSUME NEW b \in Buffer, NEW h \in Headers, NEW p \in Payloads \cup {Null},
         NEW known, Holds(b, h, p)
  PROVE  \/ /\ ~Refusable(<<h, p>>, known)
            /\ Read(b, known) = Returned(h, Delivered(<<h, p>>)[2])
         \/ /\ Refusable(<<h, p>>, known)
            /\ \E f \in Causes : Read(b, known) = Fault(f)
<1> DEFINE bad == Refusable(<<h, p>>, known)
<1>1. /\ SizeOf[h] \in Nat /\ PayloadBytes(p) \in Nat /\ TypeOf[h] \in Nat
      /\ h # Null /\ (PayloadBytes(p) > 0 => p # Null /\ SizeOf[p] = PayloadBytes(p))
  BY Sizes DEF PayloadBytes
<1>2. /\ b.written = WordBytes + SizeOf[h] + PayloadBytes(p)
      /\ b.written <= Capacity
      /\ b.headerSize = SizeOf[h] /\ b.payloadSize = PayloadBytes(p)
      /\ b.header = [at |-> WordBytes, msg |-> h]
      /\ PayloadBytes(p) > 0
           => b.payload = [at |-> WordBytes + SizeOf[h], msg |-> p]
  BY DEF Holds
<1>3. Expected(b) = b.written
  <2>1. b.written \in Nat /\ b.written < WordMod
    BY <1>1, <1>2, CapacityAssumption DEF WordBytes
  <2>2. Expected(b) = b.written % WordMod
    BY <1>2 DEF Expected
  <2> QED
    BY <2>1, <2>2, SmallMod, CapacityAssumption
<1>4. ~(b.written < WordBytes) /\ ~(b.written < Expected(b))
  BY <1>1, <1>2, <1>3 DEF WordBytes
<1>5. Whole(b.header, WordBytes, b.headerSize) /\ b.header.msg = h
  BY <1>1, <1>2 DEF Whole
<1>6. Read(b, known) = ReadHeader(b, known)
  BY <1>4, Zenon DEF Read
<1>7. bad <=> \/ h \notin Parsable
              \/ (PayloadBytes(p) = 0) # (TypeOf[h] = 0)
              \/ /\ PayloadBytes(p) > 0
                 /\ TypeOf[h] \notin known \/ p \notin Parsable
  BY DEF Refusable
<1>8. /\ "header not parsed" \in Causes /\ "unknown id" \in Causes
      /\ "payload not parsed" \in Causes
      /\ "size and type mismatch" \in Causes
  BY DEF Causes, Faults
<1>9. CASE h \notin Parsable
  <2>1. Read(b, known) = Fault("header not parsed")
    BY <1>5, <1>6, <1>9, Zenon DEF ReadHeader
  <2> QED
    BY <1>7, <1>8, <1>9, <2>1, Zenon
<1>10. CASE h \in Parsable
  <2>1. Read(b, known) = ReadPayload(b, known)
    BY <1>5, <1>6, <1>10, Zenon DEF ReadHeader
  <2> DEFINE d == Deserialize(b.payload, WordBytes + b.headerSize,
                              b.payloadSize, TypeOf[h], known)
  <2>2. CASE PayloadBytes(p) = 0 /\ TypeOf[h] = 0
    <3>1. b.payloadSize = 0 /\ TypeOf[b.header.msg] = 0
          /\ ~(PayloadBytes(p) > 0)
      BY <1>2, <1>5, <2>2
    <3>2. ReadPayload(b, known) = Returned(h, Null)
      <4>1. ~(b.payloadSize > 0)
        BY <3>1
      <4> QED
        BY <1>5, <3>1, <4>1 DEF ReadPayload
    <3>3. Delivered(<<h, p>>)[2] = Null
      BY <2>2 DEF Delivered
    <3>4. ~bad
      BY <1>7, <1>10, <2>2, <3>1, Zenon
    <3> QED
      BY <2>1, <3>2, <3>3, <3>4, Zenon
  <2>3. CASE PayloadBytes(p) > 0 /\ TypeOf[h] > 0
    <3>1. /\ b.payloadSize > 0 /\ TypeOf[b.header.msg] > 0
          /\ ~(b.payloadSize = 0) /\ PayloadBytes(p) # 0 /\ TypeOf[h] # 0
      BY <1>1, <1>2, <1>5, <2>3
    <3>2. /\ Whole(b.payload, WordBytes + b.headerSize, b.payloadSize)
          /\ b.payload.msg = p
      BY <1>1, <1>2, <2>3 DEF Whole
    <3>3. ReadPayload(b, known) = IF d = "ok" THEN Returned(h, p) ELSE Fault(d)
      BY <1>5, <3>1, <3>2 DEF ReadPayload
    <3>4. d = IF TypeOf[h] \notin known THEN "unknown id"
              ELSE IF p \in Parsable THEN "ok" ELSE "payload not parsed"
      BY <3>2, Zenon DEF Deserialize
    <3>5. bad <=> TypeOf[h] \notin known \/ p \notin Parsable
      BY <1>7, <1>10, <2>3, <3>1
    <3>6. Delivered(<<h, p>>)[2] = p
      BY <3>1 DEF Delivered
    <3>7. "ok" # "unknown id" /\ "ok" # "payload not parsed"
      OBVIOUS
    <3> HIDE DEF d
    <3>8. CASE bad
      <4>1. d \in Causes /\ d # "ok"
        BY <1>8, <3>4, <3>5, <3>7, <3>8, Zenon
      <4> QED
        BY <2>1, <3>3, <3>8, <4>1, Zenon
    <3>9. CASE ~bad
      BY <2>1, <3>3, <3>4, <3>5, <3>6, <3>9, Zenon
    <3> QED
      BY <3>8, <3>9, Zenon
  <2>4. CASE (PayloadBytes(p) = 0) # (TypeOf[h] = 0)
    <3>1. ~(b.payloadSize = 0 /\ TypeOf[b.header.msg] = 0)
          /\ ~(b.payloadSize > 0 /\ TypeOf[b.header.msg] > 0)
      BY <1>1, <1>2, <1>5, <2>4
    <3>2. ReadPayload(b, known) = Fault("size and type mismatch")
      BY <1>5, <3>1 DEF ReadPayload
    <3> QED
      BY <1>7, <1>8, <2>1, <2>4, <3>2, Zenon
  <2>5. \/ PayloadBytes(p) = 0 /\ TypeOf[h] = 0
        \/ PayloadBytes(p) > 0 /\ TypeOf[h] > 0
        \/ (PayloadBytes(p) = 0) # (TypeOf[h] = 0)
    BY <1>1
  <2> QED
    BY <2>2, <2>3, <2>4, <2>5, Zenon
<1> QED
  BY <1>9, <1>10, Zenon

(* What a Read of a whole frame can return is of Read's type.              *)
ReadResults == [status  : Faults \cup {"ok"},
                header  : Headers \cup {Null},
                payload : Headers \cup Payloads \cup {Null}]

LEMMA ReadTypes ==
  ASSUME NEW h \in Headers, NEW p \in Payloads \cup {Null}
  PROVE  /\ \A f \in Causes : Fault(f) \in ReadResults
         /\ Returned(h, Delivered(<<h, p>>)[2]) \in ReadResults
<1>1. Delivered(<<h, p>>)[2] \in Headers \cup Payloads \cup {Null}
  BY DEF Delivered
<1> QED
  BY <1>1 DEF Fault, Returned, Causes, ReadResults

(* A refusal is no success.                                                *)
LEMMA FaultParts ==
  \A f \in Causes : /\ Fault(f).status = f /\ f # "ok"
                     /\ f \notin {"too small", "garbled"}
<1>1. \A f \in Causes : f # "ok" /\ f \notin {"too small", "garbled"}
  BY DEF Causes, Faults
<1> QED
  BY <1>1 DEF Fault

(* A request is a header that announces a payload, and a payload.          *)
LEMMA RequestParts ==
  ASSUME NEW r \in Requests
  PROVE  /\ r[1] \in Headers /\ r[2] \in Payloads
         /\ r = <<r[1], r[2]>> /\ TypeOf[r[1]] > 0
         /\ r[2] # Null /\ PayloadBytes(r[2]) = SizeOf[r[2]]
<1>1. r \in Headers \X Payloads /\ TypeOf[r[1]] > 0
  BY ExchangeAssumption
<1>2. r[1] \in Headers /\ r[2] \in Payloads /\ r = <<r[1], r[2]>>
  BY <1>1
<1>3. r[2] # Null
  BY <1>2, MessagesAssumption
<1> QED
  BY <1>1, <1>2, <1>3 DEF PayloadBytes

(* A response is a header and, unless its handler returned nothing, a      *)
(* payload.                                                                *)
LEMMA ResponseParts ==
  ASSUME NEW r \in Responses
  PROVE  /\ r[1] \in Headers /\ r[2] \in Payloads \cup {Null}
         /\ r = <<r[1], r[2]>> /\ r[1] # Null
<1>1. r \in Headers \X (Payloads \cup {Null})
  BY ExchangeAssumption
<1>2. r[1] \in Headers /\ r[2] \in Payloads \cup {Null} /\ r = <<r[1], r[2]>>
  BY <1>1
<1> QED
  BY <1>2, MessagesAssumption

-----------------------------------------------------------------------------
(***************************************************************************)
(* The exchange.                                                           *)
(***************************************************************************)

LEMMA ExchangeInit == Init => IInv
<1> SUFFICES ASSUME Init PROVE IInv
  OBVIOUS
<1>1. TypeOK
  <2>1. NothingRead \in ReadResults
    BY DEF NothingRead, Returned, ReadResults
  <2> QED
    BY <2>1, EmptyIsBuffer, Zenon DEF Init, TypeOK, ReadResults
<1>2. ExchangeInv
  BY DEF Init, ExchangeInv
<1>3. NoTornFrame /\ RefusedForItself
  BY DEF Init, NoTornFrame, RefusedForItself, NothingRead, Returned
<1>4. FitsCapacity
  BY CapacityAssumption DEF Init, FitsCapacity, EmptyBuffer
<1> QED
  BY <1>1, <1>2, <1>3, <1>4 DEF IInv

LEMMA StutterStep == IInv /\ UNCHANGED vars => IInv'
<1> SUFFICES ASSUME IInv, UNCHANGED vars PROVE IInv'
  OBVIOUS
<1>1. (TypeOK' <=> TypeOK) /\ (FitsCapacity' <=> FitsCapacity)
  BY Zenon DEF vars, TypeOK, FitsCapacity
<1>2. ExchangeInv' <=> ExchangeInv
  BY Zenon DEF vars, ExchangeInv, Holds
<1>3. (NoTornFrame' <=> NoTornFrame)
      /\ (RefusedForItself' <=> RefusedForItself)
  BY Zenon DEF vars, NoTornFrame, RefusedForItself
<1> QED
  BY <1>1, <1>2, <1>3, Zenon DEF IInv

LEMMA SendStep ==
  ASSUME IInv, NEW r \in Requests, Send(r)
  PROVE  IInv'
<1> DEFINE w == Write(EmptyBuffer, r[1], r[2])
<1>1. CASE WriteThrows(EmptyBuffer, r[1], r[2])
  <2>1. UNCHANGED vars
    BY <1>1, Zenon DEF Send, vars
  <2> QED
    BY <2>1, StutterStep, Zenon
<1>2. CASE ~WriteThrows(EmptyBuffer, r[1], r[2])
  <2> HIDE DEF w
  <2>1. /\ pc = "idle" /\ pc' = "requested" /\ wire' = w /\ asked' = r
        /\ UNCHANGED <<inBuffer, outBuffer, answered, got>>
    BY <1>2, Zenon DEF Send, w
  <2>2. EmptyBuffer.written = 0
    BY DEF EmptyBuffer
  <2>3. r[1] \in Headers /\ r[2] \in Payloads \cup {Null}
    BY RequestParts
  <2>4. w \in Buffer /\ Holds(w, r[1], r[2])
    BY <1>2, <2>2, <2>3, EmptyIsBuffer, WriteHolds, Zenon DEF w
  <2>5. TypeOK'
    BY <2>1, <2>4, Zenon DEF IInv, TypeOK
  <2>6. ExchangeInv'
    <3>1. Holds(wire, asked[1], asked[2])'
      BY <2>1, <2>4 DEF Holds
    <3> QED
      BY <2>1, <3>1, Zenon DEF ExchangeInv
  <2>7. NoTornFrame' /\ RefusedForItself'
    BY <2>1, Zenon DEF IInv, NoTornFrame, RefusedForItself
  <2>8. FitsCapacity'
    BY <2>1, <2>4, Zenon DEF IInv, FitsCapacity, Holds
  <2> QED
    BY <2>5, <2>6, <2>7, <2>8, Zenon DEF IInv
<1> QED
  BY <1>1, <1>2, Zenon

LEMMA ReceiveStep ==
  ASSUME IInv, Receive
  PROVE  IInv'
<1> DEFINE b == AckWritten(Received(inBuffer, wire), wire.written)
           r == Read(b, ServerIds)
           h == asked[1]
           p == asked[2]
<1>1. asked \in Requests /\ Holds(wire, h, p)
  BY Zenon DEF IInv, ExchangeInv, Receive
<1>2. /\ h \in Headers /\ p \in Payloads /\ p \in Payloads \cup {Null}
      /\ asked = <<h, p>> /\ TypeOf[h] > 0
  BY <1>1, RequestParts
<1>3. inBuffer \in Buffer /\ outBuffer \in Buffer /\ wire \in Buffer
  BY DEF IInv, TypeOK
<1>4. b \in Buffer /\ Holds(b, h, p)
  BY <1>1, <1>2, <1>3, ReceivedHolds
<1>5. Reset(outBuffer) \in Buffer /\ Reset(outBuffer).written = 0
  BY <1>3 DEF Reset, Buffer
<1> HIDE DEF b, h, p
<1>6. \/ /\ ~Refusable(asked, ServerIds)
         /\ r = Returned(h, Delivered(<<h, p>>)[2])
      \/ Refusable(asked, ServerIds) /\ \E f \in Causes : r = Fault(f)
  <2>1. \/ /\ ~Refusable(<<h, p>>, ServerIds)
           /\ r = Returned(h, Delivered(<<h, p>>)[2])
        \/ /\ Refusable(<<h, p>>, ServerIds)
           /\ \E f \in Causes : r = Fault(f)
    BY <1>2, <1>4, ReadHolds, Zenon
  <2> QED
    BY <1>2, <2>1, Zenon
<1> HIDE DEF r
<1>7. /\ pc' = IF r.status = "ok" THEN "handling" ELSE "dead"
      /\ inBuffer' = b /\ outBuffer' = Reset(outBuffer) /\ got' = r
      /\ wire' = wire /\ asked' = asked /\ answered' = answered
  BY Zenon DEF Receive, b, r
<1>8. r \in ReadResults
  BY <1>2, <1>6, ReadTypes, Zenon
<1>9. pc' \in {"handling", "dead"}
  BY <1>7, Zenon
<1>10. TypeOK'
  BY <1>4, <1>5, <1>7, <1>8, <1>9, Zenon
     DEF IInv, TypeOK, ReadResults
<1>11. ExchangeInv'
  <2>1. pc' = "handling" => outBuffer'.written = 0 /\ got'.status = "ok"
    BY <1>5, <1>7
  <2> QED
    BY <1>1, <1>7, <1>9, <2>1 DEF ExchangeInv
<1>12. FitsCapacity'
  <2>1. b.written <= Capacity /\ 0 <= Capacity
    BY <1>4, CapacityAssumption DEF Holds
  <2> QED
    BY <1>5, <1>7, <2>1, Zenon DEF IInv, FitsCapacity
<1>13. CASE ~Refusable(asked, ServerIds)
  <2>1. /\ r.status = "ok" /\ r.header = h
        /\ r.payload = Delivered(<<h, p>>)[2]
    <3>1. r = Returned(h, Delivered(<<h, p>>)[2])
      BY <1>6, <1>13, Zenon
    <3> QED
      BY <3>1 DEF Returned
  <2>2. PayloadBytes(p) # 0
    BY <1>2, <1>13 DEF Refusable
  <2>3. Delivered(<<h, p>>)[2] = p
    BY <2>2 DEF Delivered
  <2>4. pc' = "handling" /\ got'.status = "ok"
        /\ got'.header = h /\ got'.payload = p
    BY <1>7, <2>1, <2>3, Zenon
  <2>5. NoTornFrame' /\ RefusedForItself'
    BY <1>2, <1>7, <1>13, <2>4 DEF NoTornFrame, RefusedForItself, Refusable
  <2> QED
    BY <1>10, <1>11, <1>12, <2>5, Zenon DEF IInv
<1>14. CASE Refusable(asked, ServerIds)
  <2>1. r.status # "ok" /\ r.status \notin {"too small", "garbled"}
    BY <1>6, <1>14, FaultParts, Zenon
  <2>2. pc' = "dead" /\ got' = r
    BY <1>7, <2>1, Zenon
  <2>3. NoTornFrame' /\ RefusedForItself'
    BY <1>7, <1>14, <2>1, <2>2 DEF NoTornFrame, RefusedForItself, Refusable
  <2> QED
    BY <1>10, <1>11, <1>12, <2>3, Zenon DEF IInv
<1> QED
  BY <1>13, <1>14, Zenon

LEMMA RespondStep ==
  ASSUME IInv, NEW r \in Responses, Respond(r)
  PROVE  IInv'
<1> DEFINE w == Write(outBuffer, r[1], r[2])
           throws == WriteThrows(outBuffer, r[1], r[2])
<1>1. r[1] \in Headers /\ r[2] \in Payloads \cup {Null}
  BY ResponseParts
<1>2. /\ asked \in Requests /\ outBuffer.written = 0 /\ got.status = "ok"
      /\ pc = "handling"
  BY Zenon DEF IInv, ExchangeInv, Respond
<1>3. outBuffer \in Buffer /\ outBuffer.written <= Capacity
  BY Zenon DEF IInv, TypeOK, FitsCapacity
<1>4. w \in Buffer /\ w.written <= Capacity
  BY <1>1, <1>2, <1>3, WriteFits, Zenon
<1>5. ~throws => Holds(w, r[1], r[2])
  BY <1>1, <1>2, <1>3, WriteHolds, Zenon
<1> HIDE DEF w, throws
<1>6. /\ outBuffer' = w /\ answered' = r
      /\ inBuffer' = inBuffer /\ asked' = asked /\ got' = got
      /\ \/ throws /\ pc' = "dead" /\ wire' = wire
         \/ ~throws /\ pc' = "responded" /\ wire' = w
  BY Zenon DEF Respond, w, throws
<1>7. TypeOK'
  BY <1>4, <1>6, Zenon DEF IInv, TypeOK
<1>8. ExchangeInv'
  <2>1. pc' = "responded" => Holds(wire, answered[1], answered[2])'
    BY <1>5, <1>6 DEF Holds
  <2>2. pc' \in {"dead", "responded"} /\ answered' \in Responses
    BY <1>6, Zenon
  <2> QED
    BY <1>2, <1>6, <2>1, <2>2 DEF ExchangeInv
<1>9. FitsCapacity'
  BY <1>4, <1>6, Zenon DEF IInv, FitsCapacity
<1>10. NoTornFrame' /\ RefusedForItself'
  BY <1>2, <1>6 DEF NoTornFrame, RefusedForItself
<1> QED
  BY <1>7, <1>8, <1>9, <1>10, Zenon DEF IInv

LEMMA ReturnStep ==
  ASSUME IInv, Return
  PROVE  IInv'
<1> DEFINE b == AckWritten(Received(EmptyBuffer, wire), wire.written)
           r == Read(b, ClientIds)
           h == answered[1]
           p == answered[2]
<1>1. answered \in Responses /\ Holds(wire, h, p)
  BY Zenon DEF IInv, ExchangeInv, Return
<1>2. h \in Headers /\ p \in Payloads \cup {Null} /\ answered = <<h, p>>
  BY <1>1, ResponseParts
<1>3. wire \in Buffer
  BY Zenon DEF IInv, TypeOK
<1>4. b \in Buffer /\ Holds(b, h, p)
  BY <1>1, <1>2, <1>3, EmptyIsBuffer, ReceivedHolds
<1> HIDE DEF b, h, p
<1>5. \/ /\ ~Refusable(answered, ClientIds)
         /\ r = Returned(h, Delivered(<<h, p>>)[2])
      \/ Refusable(answered, ClientIds) /\ \E f \in Causes : r = Fault(f)
  <2>1. \/ /\ ~Refusable(<<h, p>>, ClientIds)
           /\ r = Returned(h, Delivered(<<h, p>>)[2])
        \/ /\ Refusable(<<h, p>>, ClientIds)
           /\ \E f \in Causes : r = Fault(f)
    BY <1>2, <1>4, ReadHolds, Zenon
  <2> QED
    BY <1>2, <2>1, Zenon
<1> HIDE DEF r
<1>6. r \in ReadResults
  BY <1>2, <1>5, ReadTypes, Zenon
<1>7. /\ pc' = "idle" /\ got' = r
      /\ inBuffer' = inBuffer /\ outBuffer' = outBuffer /\ wire' = wire
      /\ asked' = asked /\ answered' = answered
  BY Zenon DEF Return, b, r
<1>8. TypeOK'
  BY <1>6, <1>7, Zenon DEF IInv, TypeOK, ReadResults
<1>9. ExchangeInv'
  BY <1>7 DEF ExchangeInv
<1>10. FitsCapacity'
  BY <1>7, Zenon DEF IInv, FitsCapacity
<1>11. CASE ~Refusable(answered, ClientIds)
  <2>1. /\ r.status = "ok" /\ r.header = h
        /\ r.payload = Delivered(<<h, p>>)[2]
    <3>1. r = Returned(h, Delivered(<<h, p>>)[2])
      BY <1>5, <1>11, Zenon
    <3> QED
      BY <3>1 DEF Returned
  <2>2. <<r.header, r.payload>> = Delivered(answered)
    BY <1>2, <2>1 DEF Delivered
  <2>3. NoTornFrame' /\ RefusedForItself'
    BY <1>7, <1>11, <2>1, <2>2
       DEF NoTornFrame, RefusedForItself, Refusable, Delivered
  <2> QED
    BY <1>8, <1>9, <1>10, <2>3, Zenon DEF IInv
<1>12. CASE Refusable(answered, ClientIds)
  <2>1. r.status # "ok" /\ r.status \notin {"too small", "garbled"}
    BY <1>5, <1>12, FaultParts, Zenon
  <2>2. NoTornFrame' /\ RefusedForItself'
    BY <1>7, <1>12, <2>1 DEF NoTornFrame, RefusedForItself, Refusable
  <2> QED
    BY <1>8, <1>9, <1>10, <2>2, Zenon DEF IInv
<1> QED
  BY <1>11, <1>12, Zenon

LEMMA Inductive == IInv /\ [Next]_vars => IInv'
<1> SUFFICES ASSUME IInv, [Next]_vars PROVE IInv'
  OBVIOUS
<1>1. CASE \E r \in Requests : Send(r)
  BY <1>1, SendStep, Zenon
<1>2. CASE Receive
  BY <1>2, ReceiveStep, Zenon
<1>3. CASE \E r \in Responses : Respond(r)
  BY <1>3, RespondStep, Zenon
<1>4. CASE Return
  BY <1>4, ReturnStep, Zenon
<1>5. CASE UNCHANGED vars
  BY <1>5, StutterStep, Zenon
<1> QED
  BY <1>1, <1>2, <1>3, <1>4, <1>5, Zenon DEF Next

LEMMA Invariance == Spec => []IInv
  BY ExchangeInit, Inductive, PTL DEF Spec

(* Every variable of the exchange stays in its type: the buffers of        *)
(* ProtoReqRspSrvHandler keep the shape of a ProtoFrameBuffer, and their   *)
(* size words stay within uint32_t.                                        *)
THEOREM ExchangeTypes == Spec => []TypeOK
<1>1. IInv => TypeOK
  BY DEF IInv
<1> QED
  BY <1>1, Invariance, PTL

(* Whatever the capacity and the sizes of the messages: what Read returns  *)
(* to HandleRequest is the request just sent and what it returns to        *)
(* OnResponse the response just written, no part of an older frame that is *)
(* still in the buffer, and it is never short nor garbled.                 *)
THEOREM FramesWhole == Spec => []NoTornFrame
<1>1. IInv => NoTornFrame
  BY DEF IInv
<1> QED
  BY <1>1, Invariance, PTL

(* No buffer ever holds more than Capacity bytes, because _outBuffer is    *)
(* empty whenever a response is written behind what it holds.              *)
THEOREM BuffersSuffice == Spec => []FitsCapacity
<1>1. IInv => FitsCapacity
  BY DEF IInv
<1> QED
  BY <1>1, Invariance, PTL

(* For any capacity, messages and registrations: a request ends the        *)
(* server's process, and a response becomes a frame error at the caller,   *)
(* just if it is Refusable: for its own strings, id or empty payload.      *)
THEOREM RefusalsAreTheMessages == Spec => []RefusedForItself
<1>1. IInv => RefusedForItself
  BY DEF IInv
<1> QED
  BY <1>1, Invariance, PTL
=============================================================================
