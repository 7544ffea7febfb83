------------------------- MODULE CommandServerProofs -------------------------
(***************************************************************************)
(* Proofs about the life of a server, for any number of commands, buffers  *)
(* and requests.  The invariant says where the flags, the thread and the   *)
(* buffers stand at each step of the main thread.                          *)
(***************************************************************************)
EXTENDS CommandServer, TLAPS

Working == {"read", "lookup", "write", "send"}

(* The steps of the destructor after the release of the buffers.           *)
Gone == {"tables", "stop", "join", "gone"}

(* Facts the types rest on: a Start that goes on has room for a pair, a    *)
(* thread that works has a request and buffers, an insertion has a key.    *)
StepInv ==
  /\ main = "onstart" => running \/ made < MaxBuffers
  /\ main = "insert" => inserting \in Commands
  /\ main = "initialize" => owned # 0
  /\ main \in {"start", "spawn", "mark"} => ptr = owned /\ owned # 0
  /\ Spawned => ptr # 0
  /\ thread \in {"recv"} \cup Working => view # 0
  /\ thread \in Working => req \in Requests

(* The socket is bound and its thread is there from Spawn on, and every    *)
(* other flag is a consequence.                                            *)
FlagInv ==
  /\ Spawned <=> bound /\ main # "spawn"
  /\ main \notin {"spawn", "join", "gone", "terminated"}
       => (sockRunning <=> bound)
  /\ running \/ isStarted => bound
  /\ main \in {"spawn", "mark"} => bound
  /\ main = "gone" => thread \in {"none", "ended"}
  /\ main # "thread replaced"

(* The thread uses the handler's own pair as long as no other was made     *)
(* since the thread was, and the pair is not released.                     *)
BufferInv ==
  /\ (Spawned /\ ~again /\ main # "terminated" /\ main \notin Gone)
       => main # "initialize" /\ owned # 0 /\ ptr = owned
  /\ (thread = "recv" /\ ~again /\ main # "terminated") => view = ptr

(* A thread of a stopped socket that is in recv has taken none since, and  *)
(* one that took a request looks at the flag before the next recv.         *)
AfterInv ==
  /\ after \in {0, 1}
  /\ sockRunning \/ thread \in {"none", "recv"} => after = 0

(* The request in hand is the one in the pair, and after Write so is the   *)
(* response.                                                               *)
AnswerInv ==
  /\ ~Spawned => replies = {}
  /\ main \in Gone => owned = 0
  /\ (~again /\ owned # 0) =>
       /\ \A a \in replies : a.rsp = a.req
       /\ (thread \in Working /\ main # "terminated") => inb[owned] = req
       /\ (thread = "send" /\ main # "terminated") => outb[owned] = req

IInv == TypeOK /\ StepInv /\ FlagInv /\ BufferInv /\ AfterInv /\ AnswerInv

-----------------------------------------------------------------------------
(* A number of a pair that is not 0 names one of the pairs.                *)
LEMMA PairNumbers ==
  ASSUME TypeOK
  PROVE  /\ owned # 0 => owned \in Pairs
         /\ ptr # 0 => ptr \in Pairs
<1>1. made \in 0 .. MaxBuffers /\ owned \in 0 .. made /\ ptr \in 0 .. made
  BY Zenon DEF TypeOK
<1> QED
  BY <1>1, ServerAssumption DEF Pairs

(* What recv hands over is a request with the next number, in the pair its *)
(* view is of.                                                             *)
LEMMA ReceivedRequest ==
  ASSUME TypeOK, NEW c \in Commands, Recv(c)
  PROVE  req' \in Requests /\ inb' = [inb EXCEPT ![view] = req']
<1> DEFINE n == IF req = None THEN 1 ELSE req.id + 1
<1>1. n \in Nat /\ n >= 1
  <2>1. CASE req = None
    BY <2>1
  <2>2. CASE req # None
    <3>1. req \in [id : 1 .. MaxRequests, cmd : Commands]
      BY <2>2 DEF TypeOK, Requests
    <3>2. req.id \in 1 .. MaxRequests
      BY <3>1
    <3> QED
      BY <2>2, <3>2, ServerAssumption
  <2> QED
    BY <2>1, <2>2
<1>2. n <= MaxRequests /\ req' = [id |-> n, cmd |-> c]
  BY DEF Recv
<1>3. n \in 1 .. MaxRequests
  BY <1>1, <1>2, ServerAssumption
<1> QED
  BY <1>2, <1>3 DEF Recv, Requests

(* The types in four groups: where the threads are, flags and table,       *)
(* numbers of pairs, contents.                                             *)
PlaceTypes ==
  /\ main \in {"idle", "onstart", "initialize", "start", "spawn", "mark",
               "insert", "release", "tables", "stop", "join", "gone",
               "terminated", "thread replaced"}
  /\ thread \in {"none", "loop", "recv", "read", "lookup", "write", "send",
                 "ended"}

FlagTypes ==
  /\ plumber \in BOOLEAN
  /\ isStarted \in BOOLEAN /\ running \in BOOLEAN
  /\ bound \in BOOLEAN /\ sockRunning \in BOOLEAN
  /\ again \in BOOLEAN
  /\ handlers \subseteq Commands
  /\ inserting \in Commands \cup {None}

NumberTypes ==
  /\ made \in 0 .. MaxBuffers
  /\ owned \in 0 .. made /\ ptr \in 0 .. made /\ view \in 0 .. made

ContentTypes ==
  /\ inb \in [Pairs -> Requests \cup {None}]
  /\ outb \in [Pairs -> Requests \cup {None}]
  /\ req \in Requests \cup {None}
  /\ replies \subseteq [req : Requests, rsp : Requests \cup {None}]

LEMMA TypeGroups ==
  TypeOK <=> /\ PlaceTypes /\ FlagTypes /\ NumberTypes /\ ContentTypes
             /\ after \in Nat
BY Zenon DEF TypeOK, PlaceTypes, FlagTypes, NumberTypes, ContentTypes

(* Only these steps change a number of a pair, or the contents of one.     *)
LEMMA Writers ==
  ASSUME [Next]_vars
  PROVE  /\ \/ OnStart \/ Initialize \/ Release \/ Loop
            \/ UNCHANGED <<made, owned, ptr, view>>
         /\ \/ (\E c \in Commands : Recv(c)) \/ Write \/ Send
            \/ UNCHANGED <<inb, outb, req, replies>>
<1> USE DEF buffers, loop
<1>1. CASE MainCalls
  BY <1>1, Zenon DEF MainCalls, AddCommandHandler, Start, Stop, Destroy
<1>2. CASE \/ HandlerAdded \/ SocketStart \/ Spawn \/ Mark
           \/ ReleaseTables \/ SocketStop \/ Join
  BY <1>2, Zenon DEF HandlerAdded, SocketStart, Spawn, Mark, ReleaseTables,
                     SocketStop, Join
<1>3. CASE OnStart \/ Initialize \/ Release
  BY <1>3, Zenon DEF OnStart, Initialize, Release
<1>4. CASE Loop
  BY <1>4, Zenon DEF Loop
<1>5. CASE RecvTimeout \/ Read \/ Lookup
  BY <1>5, Zenon DEF RecvTimeout, Read, Lookup, ThreadStep, Terminate
<1>6. CASE Write \/ Send
  BY <1>6, Zenon DEF Write, Send, ThreadStep, Terminate
<1>7. CASE \E c \in Commands : Recv(c)
  BY <1>7, Zenon DEF Recv, ThreadStep
<1>8. CASE UNCHANGED vars
  BY <1>8, Zenon DEF vars
<1> QED
  BY <1>1, <1>2, <1>3, <1>4, <1>5, <1>6, <1>7, <1>8, Zenon
     DEF Next, MainFinishes, ReceiveThread

LEMMA NumberStep ==
  ASSUME NumberTypes, StepInv, [Next]_vars
  PROVE  NumberTypes'
<1> USE ServerAssumption DEF NumberTypes
<1>1. CASE OnStart
  <2>1. CASE running
    <3>1. UNCHANGED <<made, owned, ptr, view>>
      BY <1>1, <2>1, Zenon DEF OnStart, loop
    <3> QED
      BY <3>1
  <2>2. CASE ~running
    <3>1. made' = made + 1 /\ owned' = made + 1 /\ ptr' = ptr /\ view' = view
      BY <1>1, <2>2, Zenon DEF OnStart, loop
    <3>2. made < MaxBuffers
      BY <1>1, <2>2, Zenon DEF OnStart, StepInv
    <3> QED
      BY <3>1, <3>2
  <2> QED
    BY <2>1, <2>2
<1>2. CASE Initialize
  <2>1. ptr' = owned /\ UNCHANGED <<made, owned, view>>
    BY <1>2, Zenon DEF Initialize, loop
  <2> QED
    BY <2>1
<1>3. CASE Release
  <2>1. owned' = 0 /\ UNCHANGED <<made, ptr, view>>
    BY <1>3, Zenon DEF Release, loop
  <2> QED
    BY <2>1
<1>4. CASE Loop
  <2>1. view' = ptr /\ UNCHANGED <<made, owned, ptr>>
    BY <1>4, Zenon DEF Loop, ThreadStep
  <2> QED
    BY <2>1
<1>5. CASE UNCHANGED <<made, owned, ptr, view>>
  BY <1>5
<1> QED
  BY <1>1, <1>2, <1>3, <1>4, <1>5, Writers, Zenon

LEMMA ContentStep ==
  ASSUME TypeOK, StepInv, [Next]_vars
  PROVE  ContentTypes'
<1> USE DEF ContentTypes
<1>0. ContentTypes
  BY TypeGroups, Zenon
<1>1. ASSUME NEW c \in Commands, Recv(c) PROVE ContentTypes'
  <2>1. req' \in Requests /\ inb' = [inb EXCEPT ![view] = req']
    BY <1>1, ReceivedRequest, Zenon
  <2>2. outb' = outb /\ replies' = replies
    BY <1>1, Zenon DEF Recv
  <2>3. inb' \in [Pairs -> Requests \cup {None}]
    BY <1>0, <2>1
  <2> QED
    BY <1>0, <2>1, <2>2, <2>3, Zenon
<1>2. CASE Write
  <2>1. inb' = inb /\ req' = req /\ replies' = replies
    BY <1>2, Zenon DEF Write, Terminate
  <2>2. outb' = outb \/ (owned # 0 /\ outb' = [outb EXCEPT ![owned] = inb[owned]])
    BY <1>2, Zenon DEF Write, Terminate
  <2>3. owned # 0 => owned \in Pairs
    BY PairNumbers, Zenon
  <2>4. outb' \in [Pairs -> Requests \cup {None}]
    BY <1>0, <2>2, <2>3
  <2> QED
    BY <1>0, <2>1, <2>4, Zenon
<1>3. CASE Send
  <2>1. thread = "send"
    BY <1>3, Zenon DEF Send, ThreadStep
  <2>2. ptr # 0 /\ req \in Requests
    BY <2>1 DEF StepInv, Spawned, Working
  <2>3. outb[ptr] \in Requests \cup {None}
    BY <1>0, <2>2, PairNumbers
  <2> DEFINE a == [req |-> req, rsp |-> outb[ptr]]
  <2>4. a \in [req : Requests, rsp : Requests \cup {None}]
    BY <2>2, <2>3, Zenon
  <2>5. replies' = replies \cup {a} /\ UNCHANGED <<inb, outb, req>>
    BY <1>3, Zenon DEF Send
  <2> HIDE DEF a
  <2> QED
    BY <1>0, <2>4, <2>5, Zenon
<1>4. CASE UNCHANGED <<inb, outb, req, replies>>
  BY <1>0, <1>4, Zenon
<1> QED
  BY <1>1, <1>2, <1>3, <1>4, Writers, Zenon

LEMMA PlaceStep ==
  ASSUME PlaceTypes, [Next]_vars
  PROVE  PlaceTypes'
<1>1. CASE MainCalls
  <2>1. main' \in {"idle", "insert", "onstart", "release"} /\ thread' = thread
    BY <1>1, Zenon DEF MainCalls, AddCommandHandler, Start, Stop, Destroy, loop
  <2> QED
    BY <2>1, Zenon DEF PlaceTypes
<1>2. CASE MainFinishes
  <2>1. /\ main' \in {"idle", "initialize", "start", "spawn", "mark",
                      "tables", "stop", "join", "gone", "thread replaced"}
        /\ thread' \in {thread, "loop"}
    BY <1>2, Zenon DEF MainFinishes, HandlerAdded, OnStart, Initialize,
                       SocketStart, Spawn, Mark, Release, ReleaseTables,
                       SocketStop, Join, loop
  <2> QED
    BY <2>1, Zenon DEF PlaceTypes
<1>3. CASE ReceiveThread
  <2>1. /\ thread' \in {"loop", "recv", "read", "lookup", "write", "send",
                        "ended"}
        /\ main' \in {main, "terminated"}
    BY <1>3, Zenon DEF ReceiveThread, Loop, RecvTimeout, Recv, Read, Lookup,
                       Write, Send, ThreadStep, Terminate
  <2> QED
    BY <2>1, Zenon DEF PlaceTypes
<1>4. CASE UNCHANGED vars
  <2>1. main' = main /\ thread' = thread
    BY <1>4, Zenon DEF vars, loop
  <2> QED
    BY <2>1, Zenon DEF PlaceTypes
<1> QED
  BY <1>1, <1>2, <1>3, <1>4, Zenon DEF Next

LEMMA FlagTypeStep ==
  ASSUME FlagTypes, StepInv, [Next]_vars
  PROVE  FlagTypes'
<1> USE DEF FlagTypes, flags, table
<1>1. CASE MainCalls
  <2>1. ASSUME NEW c \in Commands, AddCommandHandler(c) PROVE FlagTypes'
    BY <2>1, Zenon DEF AddCommandHandler
  <2>2. ASSUME NEW p \in BOOLEAN, Start(p) PROVE FlagTypes'
    BY <2>2, Zenon DEF Start
  <2>3. ASSUME NEW p \in BOOLEAN, Stop(p) PROVE FlagTypes'
    BY <2>3, Zenon DEF Stop
  <2>4. CASE Destroy
    BY <2>4, Zenon DEF Destroy
  <2> QED
    BY <1>1, <2>1, <2>2, <2>3, <2>4, Zenon DEF MainCalls
<1>2. CASE HandlerAdded
  <2>1. inserting \in Commands
    BY <1>2, Zenon DEF HandlerAdded, StepInv
  <2>2. handlers' \subseteq Commands
    BY <1>2, <2>1, Zenon DEF HandlerAdded
  <2> QED
    BY <1>2, <2>2, Zenon DEF HandlerAdded
<1>3. CASE OnStart
  <2>1. isStarted' \in BOOLEAN /\ again' \in BOOLEAN
    BY <1>3, Zenon DEF OnStart
  <2> QED
    BY <1>3, <2>1, Zenon DEF OnStart
<1>4. CASE Initialize
  BY <1>4, Zenon DEF Initialize
<1>5. CASE SocketStart
  <2>1. bound' \in BOOLEAN
    BY <1>5, Zenon DEF SocketStart
  <2> QED
    BY <1>5, <2>1, Zenon DEF SocketStart
<1>6. CASE Spawn
  BY <1>6, Zenon DEF Spawn
<1>7. CASE Mark
  BY <1>7, Zenon DEF Mark
<1>8. CASE Release \/ ReleaseTables
  BY <1>8, Zenon DEF Release, ReleaseTables
<1>9. CASE SocketStop
  BY <1>9, Zenon DEF SocketStop
<1>10. CASE Join
  BY <1>10, Zenon DEF Join
<1>11. CASE ReceiveThread
  <2>1. UNCHANGED <<plumber, flags, table, again>>
    BY <1>11, Zenon DEF ReceiveThread, Loop, RecvTimeout, Recv, Read, Lookup,
                        Write, Send, ThreadStep
  <2> QED
    BY <2>1, Zenon
<1>12. CASE UNCHANGED vars
  BY <1>12, Zenon DEF vars
<1> QED
  BY <1>1, <1>2, <1>3, <1>4, <1>5, <1>6, <1>7, <1>8, <1>9, <1>10, <1>11, <1>12,
     Zenon DEF Next, MainFinishes

(* Preconditions of the next steps.                                        *)
LEMMA StepStep ==
  ASSUME IInv, [Next]_vars
  PROVE  StepInv'
<1> USE ServerAssumption DEF IInv, TypeOK, StepInv, Working, flags, buffers, table, loop, Spawned
<1>1. ASSUME NEW c \in Commands, AddCommandHandler(c) PROVE StepInv'
  BY <1>1 DEF AddCommandHandler
<1>2. CASE HandlerAdded
  BY <1>2 DEF HandlerAdded
<1>3. ASSUME NEW p \in BOOLEAN, Start(p) PROVE StepInv'
  BY <1>3 DEF Start
<1>4. CASE OnStart
  BY <1>4 DEF OnStart, FlagInv
<1>5. CASE Initialize
  BY <1>5 DEF Initialize, FlagInv
<1>6. CASE SocketStart
  BY <1>6 DEF SocketStart, FlagInv
<1>7. CASE Spawn
  BY <1>7 DEF Spawn, FlagInv
<1>8. CASE Mark
  BY <1>8 DEF Mark
<1>9. ASSUME NEW p \in BOOLEAN, Stop(p) PROVE StepInv'
  BY <1>9 DEF Stop
<1>10. CASE Destroy
  BY <1>10 DEF Destroy
<1>11. CASE Release
  BY <1>11 DEF Release
<1>12. CASE SocketStop
  BY <1>12 DEF SocketStop
<1>13. CASE Join
  BY <1>13 DEF Join
<1>14. CASE Loop
  BY <1>14 DEF Loop, ThreadStep, Alive
<1>15. CASE RecvTimeout
  BY <1>15 DEF RecvTimeout, ThreadStep, Alive
<1>16. ASSUME NEW c \in Commands, Recv(c) PROVE StepInv'
  <2>1. req' \in Requests
    BY <1>16, ReceivedRequest
  <2> QED
    BY <1>16, <2>1 DEF Recv, ThreadStep
<1>17. CASE Read
  BY <1>17 DEF Read, ThreadStep, Terminate, Alive
<1>18. CASE Lookup
  BY <1>18 DEF Lookup, ThreadStep, Terminate, Alive
<1>19. CASE Write
  BY <1>19 DEF Write, ThreadStep, Terminate, Alive
<1>20. CASE Send
  BY <1>20 DEF Send, ThreadStep, Alive
<1>21. CASE ReleaseTables
  BY <1>21 DEF ReleaseTables
<1>22. CASE UNCHANGED vars
  BY <1>22 DEF vars
<1> QED
  BY <1>1, <1>2, <1>3, <1>4, <1>5, <1>6, <1>7, <1>8, <1>9, <1>10, <1>11, <1>12,
     <1>13, <1>14, <1>15, <1>16, <1>17, <1>18, <1>19, <1>20, <1>21, <1>22
     DEF Next, MainCalls, MainFinishes, ReceiveThread

(* The flags and the thread.                                               *)
LEMMA FlagStep ==
  ASSUME IInv, [Next]_vars
  PROVE  FlagInv'
<1> USE ServerAssumption DEF IInv, TypeOK, FlagInv, flags, buffers, table, loop, Spawned
<1>1. ASSUME NEW c \in Commands, AddCommandHandler(c) PROVE FlagInv'
  BY <1>1 DEF AddCommandHandler
<1>2. CASE HandlerAdded
  BY <1>2 DEF HandlerAdded
<1>3. ASSUME NEW p \in BOOLEAN, Start(p) PROVE FlagInv'
  BY <1>3 DEF Start
<1>4. CASE OnStart
  BY <1>4 DEF OnStart
<1>5. CASE Initialize
  BY <1>5 DEF Initialize
<1>6. CASE SocketStart
  <2>1. CASE ~bound /\ main' = "spawn" /\ bound' = TRUE
    BY <1>6, <2>1 DEF SocketStart
  <2>2. CASE main' = "idle" /\ UNCHANGED bound
    BY <1>6, <2>2 DEF SocketStart
  <2> QED
    BY <1>6, <2>1, <2>2 DEF SocketStart
<1>7. CASE Spawn
  BY <1>7 DEF Spawn
<1>8. CASE Mark
  BY <1>8 DEF Mark
<1>9. ASSUME NEW p \in BOOLEAN, Stop(p) PROVE FlagInv'
  BY <1>9 DEF Stop
<1>10. CASE Destroy
  BY <1>10 DEF Destroy
<1>11. CASE Release
  BY <1>11 DEF Release
<1>12. CASE SocketStop
  BY <1>12 DEF SocketStop
<1>13. CASE Join
  BY <1>13 DEF Join
<1>14. CASE Loop
  BY <1>14 DEF Loop, ThreadStep, Alive
<1>15. CASE RecvTimeout
  BY <1>15 DEF RecvTimeout, ThreadStep, Alive
<1>16. ASSUME NEW c \in Commands, Recv(c) PROVE FlagInv'
  BY <1>16 DEF Recv, ThreadStep, Alive
<1>17. CASE Read
  BY <1>17 DEF Read, ThreadStep, Terminate, Alive
<1>18. CASE Lookup
  BY <1>18 DEF Lookup, ThreadStep, Terminate, Alive
<1>19. CASE Write
  BY <1>19 DEF Write, ThreadStep, Terminate, Alive
<1>20. CASE Send
  BY <1>20 DEF Send, ThreadStep, Alive
<1>21. CASE ReleaseTables
  BY <1>21 DEF ReleaseTables
<1>22. CASE UNCHANGED vars
  BY <1>22 DEF vars
<1> QED
  BY <1>1, <1>2, <1>3, <1>4, <1>5, <1>6, <1>7, <1>8, <1>9, <1>10, <1>11, <1>12,
     <1>13, <1>14, <1>15, <1>16, <1>17, <1>18, <1>19, <1>20, <1>21, <1>22
     DEF Next, MainCalls, MainFinishes, ReceiveThread

(* Which pair the thread uses.                                             *)
LEMMA BufferStep ==
  ASSUME IInv, [Next]_vars
  PROVE  BufferInv'
<1> USE ServerAssumption DEF IInv, TypeOK, StepInv, FlagInv, BufferInv, Working, Gone, flags, buffers, table, loop, Spawned
<1>1. ASSUME NEW c \in Commands, AddCommandHandler(c) PROVE BufferInv'
  BY <1>1 DEF AddCommandHandler
<1>2. CASE HandlerAdded
  BY <1>2 DEF HandlerAdded
<1>3. ASSUME NEW p \in BOOLEAN, Start(p) PROVE BufferInv'
  BY <1>3 DEF Start
<1>4. CASE OnStart
  BY <1>4 DEF OnStart
<1>5. CASE Initialize
  BY <1>5 DEF Initialize
<1>6. CASE SocketStart
  BY <1>6 DEF SocketStart
<1>7. CASE Spawn
  BY <1>7 DEF Spawn
<1>8. CASE Mark
  BY <1>8 DEF Mark
<1>9. ASSUME NEW p \in BOOLEAN, Stop(p) PROVE BufferInv'
  BY <1>9 DEF Stop
<1>10. CASE Destroy
  BY <1>10 DEF Destroy
<1>11. CASE Release
  BY <1>11 DEF Release
<1>12. CASE SocketStop
  BY <1>12 DEF SocketStop
<1>13. CASE Join
  BY <1>13 DEF Join
<1>14. CASE Loop
  BY <1>14 DEF Loop, ThreadStep, Alive
<1>15. CASE RecvTimeout
  BY <1>15 DEF RecvTimeout, ThreadStep, Alive
<1>16. ASSUME NEW c \in Commands, Recv(c) PROVE BufferInv'
  BY <1>16 DEF Recv, ThreadStep, Alive
<1>17. CASE Read
  BY <1>17 DEF Read, ThreadStep, Terminate, Alive
<1>18. CASE Lookup
  BY <1>18 DEF Lookup, ThreadStep, Terminate, Alive
<1>19. CASE Write
  BY <1>19 DEF Write, ThreadStep, Terminate, Alive
<1>20. CASE Send
  BY <1>20 DEF Send, ThreadStep, Alive
<1>21. CASE ReleaseTables
  BY <1>21 DEF ReleaseTables
<1>22. CASE UNCHANGED vars
  BY <1>22 DEF vars
<1> QED
  BY <1>1, <1>2, <1>3, <1>4, <1>5, <1>6, <1>7, <1>8, <1>9, <1>10, <1>11, <1>12,
     <1>13, <1>14, <1>15, <1>16, <1>17, <1>18, <1>19, <1>20, <1>21, <1>22
     DEF Next, MainCalls, MainFinishes, ReceiveThread

(* The first request since the stop.                                       *)
LEMMA FirstAfter ==
  ASSUME NEW c \in Commands, Recv(c), after = 0
  PROVE  IF sockRunning THEN after' = 0 ELSE after' = 1
<1>1. after' = after + IF sockRunning THEN 0 ELSE 1
  BY Zenon DEF Recv
<1> QED
  BY <1>1

(* Requests after the stop.                                                *)
LEMMA AfterStep ==
  ASSUME IInv, [Next]_vars
  PROVE  AfterInv'
<1> USE ServerAssumption DEF IInv, TypeOK, FlagInv, AfterInv, flags, buffers, table, loop, Spawned
<1>1. ASSUME NEW c \in Commands, AddCommandHandler(c) PROVE AfterInv'
  BY <1>1 DEF AddCommandHandler
<1>2. CASE HandlerAdded
  BY <1>2 DEF HandlerAdded
<1>3. ASSUME NEW p \in BOOLEAN, Start(p) PROVE AfterInv'
  BY <1>3 DEF Start
<1>4. CASE OnStart
  BY <1>4 DEF OnStart
<1>5. CASE Initialize
  BY <1>5 DEF Initialize
<1>6. CASE SocketStart
  BY <1>6 DEF SocketStart
<1>7. CASE Spawn
  BY <1>7 DEF Spawn
<1>8. CASE Mark
  BY <1>8 DEF Mark
<1>9. ASSUME NEW p \in BOOLEAN, Stop(p) PROVE AfterInv'
  BY <1>9 DEF Stop
<1>10. CASE Destroy
  BY <1>10 DEF Destroy
<1>11. CASE Release
  BY <1>11 DEF Release
<1>12. CASE SocketStop
  BY <1>12 DEF SocketStop
<1>13. CASE Join
  BY <1>13 DEF Join
<1>14. CASE Loop
  BY <1>14 DEF Loop, ThreadStep, Alive
<1>15. CASE RecvTimeout
  BY <1>15 DEF RecvTimeout, ThreadStep, Alive
<1>16. ASSUME NEW c \in Commands, Recv(c) PROVE AfterInv'
  <2>1. thread = "recv" /\ thread' = "read" /\ sockRunning' = sockRunning
    BY <1>16, Zenon DEF Recv, ThreadStep
  <2>2. after = 0
    BY <2>1
  <2>3. IF sockRunning THEN after' = 0 ELSE after' = 1
    BY <1>16, <2>2, FirstAfter, Zenon
  <2> QED
    BY <2>1, <2>3
<1>17. CASE Read
  BY <1>17 DEF Read, ThreadStep, Terminate, Alive
<1>18. CASE Lookup
  BY <1>18 DEF Lookup, ThreadStep, Terminate, Alive
<1>19. CASE Write
  BY <1>19 DEF Write, ThreadStep, Terminate, Alive
<1>20. CASE Send
  BY <1>20 DEF Send, ThreadStep, Alive
<1>21. CASE ReleaseTables
  BY <1>21 DEF ReleaseTables
<1>22. CASE UNCHANGED vars
  BY <1>22 DEF vars
<1> QED
  BY <1>1, <1>2, <1>3, <1>4, <1>5, <1>6, <1>7, <1>8, <1>9, <1>10, <1>11, <1>12,
     <1>13, <1>14, <1>15, <1>16, <1>17, <1>18, <1>19, <1>20, <1>21, <1>22
     DEF Next, MainCalls, MainFinishes, ReceiveThread

(* Requests and responses in the pair.                                     *)
LEMMA AnswerStep ==
  ASSUME IInv, [Next]_vars
  PROVE  AnswerInv'
<1> USE ServerAssumption DEF IInv, TypeOK, StepInv, FlagInv, BufferInv, AnswerInv, Working, Gone, Pairs, flags, buffers, table, loop, Spawned
<1>1. ASSUME NEW c \in Commands, AddCommandHandler(c) PROVE AnswerInv'
  BY <1>1 DEF AddCommandHandler
<1>2. CASE HandlerAdded
  BY <1>2 DEF HandlerAdded
<1>3. ASSUME NEW p \in BOOLEAN, Start(p) PROVE AnswerInv'
  BY <1>3 DEF Start
<1>4. CASE OnStart
  BY <1>4 DEF OnStart
<1>5. CASE Initialize
  BY <1>5 DEF Initialize
<1>6. CASE SocketStart
  BY <1>6 DEF SocketStart
<1>7. CASE Spawn
  BY <1>7 DEF Spawn
<1>8. CASE Mark
  BY <1>8 DEF Mark
<1>9. ASSUME NEW p \in BOOLEAN, Stop(p) PROVE AnswerInv'
  BY <1>9 DEF Stop
<1>10. CASE Destroy
  BY <1>10 DEF Destroy
<1>11. CASE Release
  BY <1>11 DEF Release
<1>12. CASE SocketStop
  BY <1>12 DEF SocketStop
<1>13. CASE Join
  BY <1>13 DEF Join
<1>14. CASE Loop
  BY <1>14 DEF Loop, ThreadStep, Alive
<1>15. CASE RecvTimeout
  BY <1>15 DEF RecvTimeout, ThreadStep, Alive
<1>16. ASSUME NEW c \in Commands, Recv(c) PROVE AnswerInv'
  <2>1. req' \in Requests /\ inb' = [inb EXCEPT ![view] = req']
    BY <1>16, ReceivedRequest
  <2>2. ~again /\ owned # 0 => view = owned
    BY <1>16 DEF Recv, ThreadStep, Alive
  <2>3. owned # 0 => owned \in Pairs
    BY PairNumbers, Zenon
  <2>4. ~again /\ owned # 0 => inb'[owned] = req'
    BY <2>1, <2>2, <2>3
  <2> QED
    BY <1>16, <2>4 DEF Recv, ThreadStep
<1>17. CASE Read
  BY <1>17 DEF Read, ThreadStep, Terminate, Alive
<1>18. CASE Lookup
  BY <1>18 DEF Lookup, ThreadStep, Terminate, Alive
<1>19. CASE Write
  <2>1. owned # 0 => owned \in Pairs
    BY PairNumbers, Zenon
  <2>2. ~again /\ owned # 0 => inb[owned] = req
    BY <1>19 DEF Write, ThreadStep, Alive
  <2>3. owned # 0 => outb' = [outb EXCEPT ![owned] = inb[owned]]
    BY <1>19, Zenon DEF Write
  <2>4. ~again /\ owned # 0 => outb'[owned] = req
    BY <2>1, <2>2, <2>3
  <2> QED
    BY <1>19, <2>4 DEF Write, ThreadStep, Terminate
<1>20. CASE Send
  <2>1. ~again /\ owned # 0 => ptr = owned /\ outb[owned] = req
    BY <1>20 DEF Send, ThreadStep, Alive
  <2>2. ~again /\ owned # 0 => \A a \in replies : a.rsp = a.req
    OBVIOUS
  <2>3. replies' = replies \cup {[req |-> req, rsp |-> outb[ptr]]}
    BY <1>20, Zenon DEF Send
  <2>4. ~again /\ owned # 0 => \A a \in replies' : a.rsp = a.req
    <3> SUFFICES ASSUME ~again, owned # 0, NEW a \in replies'
                 PROVE  a.rsp = a.req
      OBVIOUS
    <3>1. a \in replies \/ a = [req |-> req, rsp |-> outb[ptr]]
      BY <2>3, Zenon
    <3>2. outb[ptr] = req
      BY <2>1, Zenon
    <3>3. ASSUME a = [req |-> req, rsp |-> outb[ptr]] PROVE a.rsp = a.req
      BY <3>2, <3>3, Zenon
    <3> QED
      BY <2>2, <3>1, <3>3, Zenon
  <2> QED
    BY <1>20, <2>4 DEF Send, ThreadStep
<1>21. CASE ReleaseTables
  BY <1>21 DEF ReleaseTables
<1>22. CASE UNCHANGED vars
  BY <1>22 DEF vars
<1> QED
  BY <1>1, <1>2, <1>3, <1>4, <1>5, <1>6, <1>7, <1>8, <1>9, <1>10, <1>11, <1>12,
     <1>13, <1>14, <1>15, <1>16, <1>17, <1>18, <1>19, <1>20, <1>21, <1>22
     DEF Next, MainCalls, MainFinishes, ReceiveThread

(* Types: a step of either thread keeps them.                              *)
LEMMA TypeStep ==
  ASSUME IInv, [Next]_vars
  PROVE  TypeOK'
<1>1. TypeOK /\ StepInv
  BY Zenon DEF IInv
<1>2. PlaceTypes' /\ FlagTypes' /\ NumberTypes' /\ ContentTypes'
  BY <1>1, TypeGroups, PlaceStep, FlagTypeStep, NumberStep, ContentStep, Zenon
<1>3. after' \in Nat
  BY AfterStep DEF AfterInv
<1> QED
  BY <1>2, <1>3, Zenon DEF TypeOK, PlaceTypes, FlagTypes, NumberTypes,
                           ContentTypes

LEMMA Initially == Init => IInv
<1> SUFFICES ASSUME Init PROVE IInv
  OBVIOUS
<1> USE ServerAssumption DEF Init
<1>1. TypeOK
  <2>1. made \in 0 .. MaxBuffers /\ owned \in 0 .. made
        /\ ptr \in 0 .. made /\ view \in 0 .. made
    OBVIOUS
  <2>2. /\ main = "idle" /\ thread = "none"
        /\ handlers \subseteq Commands /\ inserting \in Commands \cup {None}
        /\ req \in Requests \cup {None}
        /\ replies \subseteq [req : Requests, rsp : Requests \cup {None}]
    BY Zenon
  <2>3. /\ inb \in [Pairs -> Requests \cup {None}]
        /\ outb \in [Pairs -> Requests \cup {None}]
    BY Zenon
  <2>4. /\ plumber \in BOOLEAN /\ isStarted \in BOOLEAN /\ running \in BOOLEAN
        /\ bound \in BOOLEAN /\ sockRunning \in BOOLEAN
        /\ again \in BOOLEAN /\ after \in Nat
    BY Zenon
  <2> QED
    BY <2>1, <2>2, <2>3, <2>4, Zenon DEF TypeOK
<1>2. StepInv /\ FlagInv /\ BufferInv /\ AfterInv /\ AnswerInv
  BY DEF StepInv, FlagInv, BufferInv, AfterInv, AnswerInv, Working, Gone, Spawned
<1> QED
  BY <1>1, <1>2 DEF IInv

LEMMA Invariant == Spec => []IInv
<1>1. ASSUME IInv, [Next]_vars PROVE IInv'
  BY <1>1, TypeStep, StepStep, FlagStep, BufferStep, AfterStep, AnswerStep DEF IInv
<1> QED
  BY Initially, <1>1, PTL DEF Spec

-----------------------------------------------------------------------------
(* The variables of CommandServer keep their types, for any commands and   *)
(* any bounds.                                                             *)
THEOREM ServerTypes == Spec => []TypeOK
<1>1. IInv => TypeOK
  BY DEF IInv
<1> QED
  BY Invariant, <1>1, PTL

(* The flags of Plumber, handler and socket agree between calls, and no    *)
(* Start gives the socket a second thread.                                 *)
THEOREM FlagsInStep == Spec => []FlagsAgree
<1>1. IInv => FlagsAgree
  BY DEF IInv, FlagInv, FlagsAgree, TypeOK
<1> QED
  BY Invariant, <1>1, PTL

(* HandleRequest and ReceiveLoop use buffers that exist, unless Start came *)
(* after Stop or the destructor has begun.                                 *)
THEOREM BuffersStayLive == Spec => []BuffersLive
<1>1. IInv => BuffersLive
  BY DEF IInv, TypeOK, FlagInv, BufferInv, BuffersLive, Alive, Releasing, Spawned, Gone
<1> QED
  BY Invariant, <1>1, PTL

(* The response that goes out is the one to the request that came in.      *)
THEOREM AnswersFromOwnBuffers == Spec => []AnswersOwnRequest
<1>1. IInv => AnswersOwnRequest
  BY DEF IInv, AnswerInv, AnswersOwnRequest
<1> QED
  BY Invariant, <1>1, PTL

(* However many requests arrive, the receive thread takes at most one      *)
(* after ~NngReqRspSrvSocket has cleared _running.                         *)
THEOREM StopTakesEffect == Spec => []AtMostOneAfterStop
<1>1. IInv => AtMostOneAfterStop
  BY DEF IInv, AfterInv, AtMostOneAfterStop
<1> QED
  BY Invariant, <1>1, PTL
=============================================================================
