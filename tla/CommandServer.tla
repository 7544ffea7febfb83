---------------------------- MODULE CommandServer ----------------------------
(***************************************************************************)
(* The life of a server: Plumber, CommandServiceHandler,                   *)
(* ProtoReqRspSrvHandler and NngReqRspSrvSocket from the constructor to    *)
(* the destructor.                                                         *)
(*                                                                         *)
(* The main thread registers handlers, starts, stops and destroys, through *)
(* Plumber or through GetCommandServiceHandler(); the receive thread takes *)
(* requests.  They share, without a lock, four flags that mean nearly the  *)
(* same, the dispatcher's table, and two buffers that the handler owns and *)
(* the socket knows as raw pointers.  A pair of buffers is named by the    *)
(* number of the OnStart that made it; the handler owns one pair at a time *)
(* and 0 is none.  The client's view of this server is in CommandFlow.     *)
(***************************************************************************)
EXTENDS Naturals

CONSTANTS Commands,     \* the message types that handlers are added for
          MaxBuffers,   \* bound: OnStart calls that make buffers
          MaxRequests,  \* bound: requests that arrive
          None

ASSUME ServerAssumption ==
  MaxBuffers \in Nat /\ MaxRequests \in Nat /\ None \notin Nat

Pairs == 1 .. MaxBuffers
Requests == [id : 1 .. MaxRequests, cmd : Commands]

VARIABLES
  main,        \* the next step of the main thread
  plumber,     \* the Start in progress came through Plumber
  isStarted,   \* Plumber::_isStarted
  running,     \* ProtoReqRspSrvHandler::_running
  bound,       \* NngReqRspSrvSocket::_bound
  sockRunning, \* NngReqRspSrvSocket::_running
  made,        \* the pairs of buffers made so far
  owned,       \* the pair in ProtoReqRspSrvHandler::_inBuffer, _outBuffer
  ptr,         \* the pair NngReqRspSrvSocket::_inBuffer, _outBuffer point to
  inb, outb,   \* what the buffers of a pair hold
  handlers,    \* the keys of MessageDispatcher::_handlers
  inserting,   \* the key an insertion in progress adds
  thread,      \* the next step of the receive thread
  view,        \* the pair the receive thread's recv writes to
  req,         \* the request it received last
  replies,     \* history: the replies sent, each with its request
  again,       \* history: buffers were made while a receive thread was there
  after        \* history: requests received after the destructor stopped
               \* the socket

flags == <<isStarted, running, bound, sockRunning>>
buffers == <<made, owned, ptr, inb, outb>>
table == <<handlers, inserting>>
loop == <<thread, view, req, replies>>
vars == <<main, plumber, flags, buffers, table, loop, again, after>>

(* A thread object that has been given a thread and was not joined.        *)
Spawned == thread # "none"

TypeOK ==
  /\ main \in {"idle", "onstart", "initialize", "start", "spawn", "mark",
               "insert", "release", "tables", "stop", "join", "gone",
               "terminated", "thread replaced"}
  /\ plumber \in BOOLEAN
  /\ isStarted \in BOOLEAN /\ running \in BOOLEAN
  /\ bound \in BOOLEAN /\ sockRunning \in BOOLEAN
  /\ made \in 0 .. MaxBuffers
  /\ owned \in 0 .. made /\ ptr \in 0 .. made /\ view \in 0 .. made
  /\ inb \in [Pairs -> Requests \cup {None}]
  /\ outb \in [Pairs -> Requests \cup {None}]
  /\ handlers \subseteq Commands
  /\ inserting \in Commands \cup {None}
  /\ thread \in {"none", "loop", "recv", "read", "lookup", "write", "send",
                 "ended"}
  /\ req \in Requests \cup {None}
  /\ replies \subseteq [req : Requests, rsp : Requests \cup {None}]
  /\ again \in BOOLEAN /\ after \in Nat

(* The constructors; Plumber's own CreateStream handler is in the table    *)
(* before anyone else can see the server and is left out.                  *)
Init ==
  /\ main = "idle" /\ plumber = FALSE
  /\ isStarted = FALSE /\ running = FALSE
  /\ bound = FALSE /\ sockRunning = FALSE
  /\ made = 0 /\ owned = 0 /\ ptr = 0
  /\ inb = [p \in Pairs |-> None] /\ outb = [p \in Pairs |-> None]
  /\ handlers = {} /\ inserting = None
  /\ thread = "none" /\ view = 0 /\ req = None /\ replies = {}
  /\ again = FALSE /\ after = 0

-----------------------------------------------------------------------------
(***************************************************************************)
(* The main thread.                                                        *)
(***************************************************************************)

(* AddCommandHandler, CommandServiceHandler::RegisterHandler and           *)
(* RegisterHandlerWithMetadata: the insertion into the table begins ...    *)
AddCommandHandler(c) ==
  /\ main = "idle"
  /\ main' = "insert" /\ inserting' = c
  /\ UNCHANGED <<plumber, flags, buffers, handlers, loop, again, after>>

(* ... and is done.                                                        *)
HandlerAdded ==
  /\ main = "insert"
  /\ main' = "idle" /\ inserting' = None
  /\ handlers' = handlers \cup {inserting}
  /\ UNCHANGED <<plumber, flags, buffers, loop, again, after>>

(* Plumber::Start, if (_isStarted) return; or CommandServiceHandler::Start.*)
Start(throughPlumber) ==
  /\ main = "idle"
  /\ throughPlumber => ~isStarted
  /\ running \/ made < MaxBuffers
  /\ main' = "onstart" /\ plumber' = throughPlumber
  /\ UNCHANGED <<flags, buffers, table, loop, again, after>>

(* Fault: OnStart without if (_running) return true.                       *)
OnStartUnguarded ==
  /\ main = "onstart"
  /\ made < MaxBuffers
  /\ made' = made + 1 /\ owned' = made + 1
  /\ main' = "initialize"
  /\ again' = (again \/ (Spawned /\ ~running))
  /\ UNCHANGED <<plumber, flags, ptr, inb, outb, table, loop, after>>

(* ProtoReqRspSrvHandler::OnStart: nothing to do when _running, else a new *)
(* pair of buffers, whose assignment to the unique_ptrs frees the old one  *)
(* whoever still uses it ...                                               *)
OnStart ==
  /\ main = "onstart"
  /\ IF running
       THEN /\ main' = "idle"
            /\ isStarted' = (isStarted \/ plumber)
            /\ UNCHANGED <<made, owned, again>>
       ELSE /\ made' = made + 1 /\ owned' = made + 1
            /\ main' = "initialize"
            /\ again' = (again \/ Spawned)
            /\ UNCHANGED isStarted
  /\ UNCHANGED <<plumber, running, bound, sockRunning, ptr, inb, outb, table,
                 loop, after>>

(* ... and NngReqRspSrvSocket::Initialize takes its addresses.             *)
Initialize ==
  /\ main = "initialize"
  /\ main' = "start" /\ ptr' = owned
  /\ UNCHANGED <<plumber, flags, made, owned, inb, outb, table, loop, again, after>>

(* Fault: NngReqRspSrvSocket::Start without if (_bound) throw; a second    *)
(* listen, at another url, works.                                          *)
SocketStartUnguarded ==
  /\ main = "start"
  /\ \/ main' = "spawn" /\ bound' = TRUE
     \/ main' = "idle" /\ UNCHANGED bound
  /\ UNCHANGED <<plumber, isStarted, running, sockRunning, buffers, table,
                 loop, again, after>>

(* NngReqRspSrvSocket::Start: throws when already bound or when listen     *)
(* does (the address is taken).                                            *)
SocketStart ==
  /\ main = "start"
  /\ \/ ~bound /\ main' = "spawn" /\ bound' = TRUE
     \/ main' = "idle" /\ UNCHANGED bound
  /\ UNCHANGED <<plumber, isStarted, running, sockRunning, buffers, table,
                 loop, again, after>>

(* _running = true; _recvThread = thread(...), which ends the process when *)
(* _recvThread already has a thread.                                       *)
Spawn ==
  /\ main = "spawn"
  /\ sockRunning' = TRUE
  /\ IF Spawned THEN main' = "thread replaced" /\ UNCHANGED thread
                ELSE main' = "mark" /\ thread' = "loop"
  /\ UNCHANGED <<plumber, isStarted, running, bound, buffers, table, view,
                 req, replies, again, after>>

(* ProtoReqRspSrvHandler::_running and Plumber::_isStarted.                *)
Mark ==
  /\ main = "mark"
  /\ main' = "idle" /\ running' = TRUE
  /\ isStarted' = (isStarted \/ plumber)
  /\ UNCHANGED <<plumber, bound, sockRunning, buffers, table, loop, again, after>>

(* Plumber::Stop, if (!_isStarted) return; or CommandServiceHandler::Stop. *)
(* The socket stays bound and the receive thread goes on.                  *)
Stop(throughPlumber) ==
  /\ main = "idle"
  /\ throughPlumber => isStarted
  /\ running' = FALSE
  /\ isStarted' = (isStarted /\ ~throughPlumber)
  /\ UNCHANGED <<main, plumber, bound, sockRunning, buffers, table, loop,
                 again, after>>

(* ~Plumber ... ~ProtoReqRspSrvHandler.  _outBuffer and _inBuffer are      *)
(* declared after _socket and go before it ...                             *)
Destroy ==
  /\ main = "idle"
  /\ main' = "release"
  /\ UNCHANGED <<plumber, flags, buffers, table, loop, again, after>>

(* Fault: the unique_ptrs are left without a value.                        *)
ReleaseToNothing ==
  /\ main = "release"
  /\ main' = "tables" /\ owned' = None
  /\ UNCHANGED <<plumber, flags, made, ptr, inb, outb, table, loop, again, after>>

Release ==
  /\ main = "release"
  /\ main' = "tables" /\ owned' = 0
  /\ UNCHANGED <<plumber, flags, made, ptr, inb, outb, table, loop, again, after>>

(* ... as do _dispatcher and the reference to _serializer, declared after  *)
(* _socket too ...                                                         *)
ReleaseTables ==
  /\ main = "tables"
  /\ main' = "stop" /\ handlers' = {}
  /\ UNCHANGED <<plumber, flags, buffers, inserting, loop, again, after>>

(* ... then ~NngReqRspSrvSocket: if (_running), _running = false ...       *)
SocketStop ==
  /\ main = "stop"
  /\ main' = IF sockRunning THEN "join" ELSE "gone"
  /\ sockRunning' = FALSE
  /\ UNCHANGED <<plumber, isStarted, running, bound, buffers, table, loop,
                 again, after>>

(* ... and join.                                                           *)
Join ==
  /\ main = "join" /\ thread = "ended"
  /\ main' = "gone"
  /\ UNCHANGED <<plumber, flags, buffers, table, loop, again, after>>

-----------------------------------------------------------------------------
(***************************************************************************)
(* The receive thread: NngReqRspSrvSocket::ReceiveLoop with                *)
(* ProtoReqRspSrvHandler::HandleRequest inside.                            *)
(***************************************************************************)
Alive == main \notin {"terminated", "thread replaced"}

(* The destructor has released the buffers and still waits for the thread. *)
Releasing == main \in {"tables", "stop", "join"}

(* The dispatcher and the serializer are gone as well.                     *)
TablesReleased == main \in {"stop", "join", "gone"}

ThreadStep(from, to) ==
  /\ Alive
  /\ thread = from /\ thread' = to
  /\ UNCHANGED <<plumber, flags, made, owned, ptr, table, again>>

(* An exception leaves the thread: std::terminate.                         *)
Terminate ==
  main' = "terminated" /\ UNCHANGED <<inb, outb, view, req, replies, after>>

(* Fault: while (true).                                                    *)
LoopForever ==
  /\ ThreadStep("loop", "recv")
  /\ view' = ptr
  /\ UNCHANGED <<main, inb, outb, req, replies, after>>

(* while (_running), nng::view out(_inBuffer, _inBufferSize).              *)
Loop ==
  /\ ThreadStep("loop", IF sockRunning THEN "recv" ELSE "ended")
  /\ view' = ptr
  /\ UNCHANGED <<main, inb, outb, req, replies, after>>

(* Fault: the timeout goes back to recv without a look at _running.        *)
RecvTimeoutRetries ==
  /\ ThreadStep("recv", "recv")
  /\ UNCHANGED <<main, inb, outb, view, req, replies, after>>

(* Nothing for 1000 ms.                                                    *)
RecvTimeout ==
  /\ ThreadStep("recv", "loop")
  /\ UNCHANGED <<main, inb, outb, view, req, replies, after>>

(* recv returns a request; its bytes are in the pair the view is of.       *)
Recv(c) ==
  LET r == [id |-> IF req = None THEN 1 ELSE req.id + 1, cmd |-> c]
  IN  /\ r.id <= MaxRequests
      /\ ThreadStep("recv", "read")
      /\ req' = r
      /\ inb' = [inb EXCEPT ![view] = r]
      /\ after' = after + IF sockRunning THEN 0 ELSE 1
      /\ UNCHANGED <<main, outb, view, replies>>

(* AckWritten, Reset and Read, on the pair the handler owns now.  Bytes    *)
(* that no recv put there, and those of a pair that was released, read as  *)
(* anything: the process ends or, in a released pair, may find them as     *)
(* they were.                                                              *)
Read ==
  /\ ThreadStep("read", "lookup")
  /\ \/ /\ owned # 0 => inb[owned] # None
        /\ UNCHANGED <<main, inb, outb, view, req, replies, after>>
     \/ /\ owned # 0 => inb[owned] = None
        /\ Terminate

(* GetMessageName and MessageDispatcher::Handle: the tables are read.  A   *)
(* command without a handler, and one whose handler throws, ends the       *)
(* process; so may a table that is changed meanwhile or was released,      *)
(* whose memory may also still be as it was.                               *)
Lookup ==
  /\ ThreadStep("lookup", "write")
  /\ \/ /\ req.cmd \in handlers \/ TablesReleased
        /\ UNCHANGED <<main, inb, outb, view, req, replies, after>>
     \/ Terminate

(* The handler has run: its response is written to the pair owned now.     *)
(* When that was released the process ends, or it goes nowhere.            *)
Write ==
  /\ ThreadStep("write", "send")
  /\ \/ /\ outb' = IF owned = 0 THEN outb
                     ELSE [outb EXCEPT ![owned] = inb[owned]]
        /\ UNCHANGED <<main, inb, view, req, replies, after>>
     \/ owned = 0 /\ Terminate

(* Fault: the response goes out from the pair of the first Start.          *)
SendFromFirst ==
  /\ ThreadStep("send", "loop")
  /\ replies' = replies \cup {[req |-> req, rsp |-> outb[1]]}
  /\ UNCHANGED <<main, inb, outb, view, req, after>>

(* nng::view view(_outBuffer, rspSize), send.                              *)
Send ==
  /\ ThreadStep("send", "loop")
  /\ replies' = replies \cup {[req |-> req, rsp |-> outb[ptr]]}
  /\ UNCHANGED <<main, inb, outb, view, req, after>>

-----------------------------------------------------------------------------
MainCalls ==
  \/ \E c \in Commands : AddCommandHandler(c)
  \/ \E p \in BOOLEAN : Start(p) \/ Stop(p)
  \/ Destroy

MainFinishes ==
  \/ HandlerAdded \/ OnStart \/ Initialize \/ SocketStart \/ Spawn \/ Mark
  \/ Release \/ ReleaseTables \/ SocketStop \/ Join

ReceiveThread ==
  \/ Loop \/ RecvTimeout \/ (\E c \in Commands : Recv(c))
  \/ Read \/ Lookup \/ Write \/ Send

Next == MainCalls \/ MainFinishes \/ ReceiveThread

Spec == Init /\ [][Next]_vars

(* The two threads run on, the handler of a command returns, and recv      *)
(* returns after 1000 ms at the latest.                                    *)
FairSpec == Spec /\ WF_vars(MainFinishes) /\ WF_vars(ReceiveThread)

-----------------------------------------------------------------------------
(***************************************************************************)
(* Properties.                                                             *)
(***************************************************************************)

(* The receive thread reads and writes buffers that exist and that are the *)
(* handler's own, through Start calls that are repeated, that find the     *)
(* address taken and are tried again, and through Stop.  Two sequences     *)
(* break it and are excluded: a Start after Stop, and the destructor,      *)
(* which releases the buffers before it joins the thread.                  *)
BuffersLive ==
  (Alive /\ ~again /\ ~Releasing) =>
    /\ thread = "recv" => view = owned /\ owned # 0
    /\ thread \in {"read", "lookup", "write", "send"}
         => ptr = owned /\ owned # 0

(* What the socket sends is what the handler wrote for the request that    *)
(* was just received, under the same two conditions: no request is         *)
(* answered from a buffer of an earlier Start.                             *)
AnswersOwnRequest ==
  (~again /\ owned # 0) => \A a \in replies : a.rsp = a.req

(* The four flags agree between calls: a Start that threw leaves nothing   *)
(* that keeps a later one from working, and what counts as started has a   *)
(* socket that is bound and a thread that receives.  And they keep the     *)
(* socket from being given a second thread, which would end the process.   *)
FlagsAgree ==
  /\ main # "thread replaced"
  /\ main = "idle" =>
       /\ bound <=> sockRunning
       /\ bound <=> Spawned
       /\ (running \/ isStarted) => bound

(* _running is atomic, but ReceiveLoop looks at it only between requests:  *)
(* once ~NngReqRspSrvSocket has cleared it the thread takes one request at *)
(* most, that of the recv it was in or about to begin, and no matter how   *)
(* many clients keep sending the destructor waits for no second one.       *)
AtMostOneAfterStop == after <= 1

(* The destructor ends, though the receive thread has to notice first.     *)
DestructorEnds == (main = "release") ~> (main \in {"gone", "terminated"})
=============================================================================
