----------------------------- MODULE EventStore -----------------------------
(***************************************************************************)
(* The event store of the server (event_store.hpp): the table of published *)
(* streams and the threads that create streams and publish to them.        *)
(*                                                                         *)
(* The receive thread of the command socket runs CreateStreamCommandHandler*)
(* (a client's Subscribe) and the application's command handlers; other    *)
(* threads of the application reach the same object through                *)
(* Plumber::GetEventStore.  _publishedStreams has no lock.  A thread is    *)
(* modelled one access to shared state at a time.  An exception in the     *)
(* receive thread ends the process, in another thread it goes to its       *)
(* caller.                                                                 *)
(***************************************************************************)
EXTENDS Naturals, FiniteSets

CONSTANTS Threads,       \* the threads that use the store
          ReceiveThread, \* the one that runs command handlers
          Streams,       \* the stream names
          Ops,           \* Ops[t]: the operations thread t calls
          MaxSockets,    \* bound: publish sockets ever created
          None

ASSUME ThreadsAssumption == ReceiveThread \in Threads
ASSUME OpsAssumption ==
  Ops \in [Threads -> SUBSET {"ensure", "create", "publish"}]
ASSUME SocketsAssumption == MaxSockets \in Nat /\ None \notin Nat

VARIABLES
  pc,       \* pc[t]: the next step of thread t
  op,       \* op[t]: the operation it is in
  stream,   \* stream[t]: the stream it is about
  sock,     \* sock[t]: the local h of EnsureStreamCreated and CreateStream
  todo,     \* todo[t]: the handlers Publish has not come to yet
  result,   \* result[t]: how the last operation ended
  streams,  \* _publishedStreams: the publish handlers of each stream
  bound,    \* the publish sockets whose _bound is true, i.e. that listen
  created,  \* publish sockets created so far
  wire,     \* wire[t]: the sockets the last Publish of t sent over (history)
  alive     \* the process runs

threadVars == <<pc, op, stream, sock, todo, result, wire>>
vars == <<threadVars, streams, bound, created, alive>>

R == ReceiveThread
Sockets == 1 .. MaxSockets
Results == {"none", "ok", "listen failed", "not serialized", "not bound"}

TypeOK ==
  /\ pc \in [Threads -> {"idle", "check", "make", "add", "listen", "range",
                         "send"}]
  /\ op \in [Threads -> {"ensure", "create", "publish"}]
  /\ stream \in [Threads -> Streams \cup {None}]
  /\ sock \in [Threads -> Sockets \cup {None}]
  /\ todo \in [Threads -> SUBSET Sockets]
  /\ result \in [Threads -> Results]
  /\ streams \in [Streams -> SUBSET Sockets]
  /\ bound \subseteq Sockets
  /\ created \in 0 .. MaxSockets
  /\ wire \in [Threads -> SUBSET Sockets]
  /\ alive \in BOOLEAN

Init ==
  /\ pc = [t \in Threads |-> "idle"]
  /\ op = [t \in Threads |-> "publish"]
  /\ stream = [t \in Threads |-> None]
  /\ sock = [t \in Threads |-> None]
  /\ todo = [t \in Threads |-> {}]
  /\ result = [t \in Threads |-> "none"]
  /\ streams = [s \in Streams |-> {}]
  /\ bound = {}
  /\ created = 0
  /\ wire = [t \in Threads |-> {}]
  /\ alive = TRUE

-----------------------------------------------------------------------------
Goto(t, l) == pc' = [pc EXCEPT ![t] = l]

(* The operation returns, or throws: in the receive thread a throw goes    *)
(* through HandleRequest and ReceiveLoop and ends the process.             *)
End(t, r) ==
  /\ Goto(t, "idle")
  /\ result' = [result EXCEPT ![t] = r]
  /\ alive' = (alive /\ (r = "ok" \/ t # ReceiveThread))

(* A thread calls the store: EnsureStreamCreated starts with the check,    *)
(* CreateStream with the socket, Publish with the range.                   *)
Call(t, o, s) ==
  /\ pc[t] = "idle"
  /\ o \in Ops[t]
  /\ Goto(t, CASE o = "ensure" -> "check"
               [] o = "create" -> "make"
               [] OTHER -> "range")
  /\ op' = [op EXCEPT ![t] = o]
  /\ stream' = [stream EXCEPT ![t] = s]
  /\ result' = [result EXCEPT ![t] = "none"]
  /\ wire' = [wire EXCEPT ![t] = {}]
  /\ UNCHANGED <<sock, todo, streams, bound, created, alive>>

(* Fault: any stream in the table counts.                                  *)
StreamExistsAny(t) ==
  /\ pc[t] = "check"
  /\ IF \E s \in Streams : streams[s] # {}
       THEN End(t, "ok")
       ELSE Goto(t, "make") /\ UNCHANGED <<result, alive>>
  /\ UNCHANGED <<op, stream, sock, todo, wire, streams, bound, created>>

(* if (_subscriptionManager->StreamExists(streamName)) return;             *)
StreamExists(t) ==
  /\ pc[t] = "check"
  /\ IF streams[stream[t]] # {}
       THEN End(t, "ok")
       ELSE Goto(t, "make") /\ UNCHANGED <<result, alive>>
  /\ UNCHANGED <<op, stream, sock, todo, wire, streams, bound, created>>

(* Fault: a null socket from the factory is not refused.                   *)
MakeSocketNull(t) ==
  /\ pc[t] = "make"
  /\ Goto(t, "add")
  /\ UNCHANGED <<op, stream, sock, todo, result, wire, streams, bound,
                 created, alive>>

(* make_shared<ProtoPublishHandler>(CreatePublishSocket(streamName), ...). *)
MakeSocket(t) ==
  /\ pc[t] = "make"
  /\ created < MaxSockets
  /\ created' = created + 1
  /\ sock' = [sock EXCEPT ![t] = created + 1]
  /\ Goto(t, "add")
  /\ UNCHANGED <<op, stream, todo, result, wire, streams, bound, alive>>

(* AddStream.  The insertion may rehash the multimap: a thread that        *)
(* iterates over it meanwhile goes on over whatever it then finds.         *)
AddStream(t) ==
  /\ pc[t] = "add"
  /\ streams' = [streams EXCEPT ![stream[t]] = @ \cup {sock[t]}]
  /\ todo' \in {f \in [Threads -> SUBSET UNION {streams'[s] : s \in Streams}] :
                  \A u \in Threads : pc[u] # "send" => f[u] = todo[u]}
  /\ Goto(t, "listen")
  /\ UNCHANGED <<op, stream, sock, result, wire, bound, created, alive>>

(* Fault: an exception of listen is swallowed.                             *)
ListenFailureIgnored(t) ==
  /\ pc[t] = "listen"
  /\ bound' = IF streams[stream[t]] \cap bound = {}
                THEN bound \cup {sock[t]} ELSE bound
  /\ End(t, "ok")
  /\ UNCHANGED <<op, stream, sock, todo, wire, streams, created>>

(* h->Start(), NngPublishSocket::Start: listen fails when the address is   *)
(* in use, by another socket of the stream or by another process; then     *)
(* _bound stays false and the handler stays in the table.                  *)
Listen(t) ==
  /\ pc[t] = "listen"
  /\ \/ /\ streams[stream[t]] \cap bound = {}
        /\ bound' = bound \cup {sock[t]}
        /\ End(t, "ok")
     \/ End(t, "listen failed") /\ UNCHANGED bound
  /\ UNCHANGED <<op, stream, sock, todo, wire, streams, created>>

(* Fault: begin() and end() instead of equal_range(streamName).            *)
PublishRangeWhole(t) ==
  /\ pc[t] = "range"
  /\ todo' = [todo EXCEPT ![t] = UNION {streams[s] : s \in Streams}]
  /\ Goto(t, "send")
  /\ UNCHANGED <<op, stream, sock, result, wire, streams, bound, created,
                 alive>>

(* EventStore::Publish and SubscriptionManager::Publish: equal_range.      *)
PublishRange(t) ==
  /\ pc[t] = "range"
  /\ todo' = [todo EXCEPT ![t] = streams[stream[t]]]
  /\ Goto(t, "send")
  /\ UNCHANGED <<op, stream, sock, result, wire, streams, bound, created,
                 alive>>

(* One turn of the loop over the stream's handlers:                        *)
(* ProtoPublishHandler::Publish and NngPublishSocket::Send.  An event that *)
(* is not registered or does not fit the frame throws before the first     *)
(* send; a socket that is not bound throws; either ends the loop.          *)
PublishOne(t) ==
  /\ pc[t] = "send"
  /\ \/ /\ todo[t] = {}
        /\ End(t, "ok")
        /\ UNCHANGED <<todo, wire>>
     \/ /\ todo[t] # {} /\ wire[t] = {}
        /\ End(t, "not serialized")
        /\ UNCHANGED <<todo, wire>>
     \/ \E h \in todo[t] :
          /\ h \notin bound
          /\ End(t, "not bound")
          /\ UNCHANGED <<todo, wire>>
     \/ \E h \in todo[t] :
          /\ h \in bound
          /\ todo' = [todo EXCEPT ![t] = @ \ {h}]
          /\ wire' = [wire EXCEPT ![t] = @ \cup {h}]
          /\ UNCHANGED <<pc, result, alive>>
  /\ UNCHANGED <<op, stream, sock, streams, bound, created>>

(* The process ends for a reason outside of the store: a command handler   *)
(* that throws, or main that returns.                                      *)
EndProcess ==
  /\ alive' = FALSE
  /\ UNCHANGED <<threadVars, streams, bound, created>>

Step(t) ==
  \/ StreamExists(t) \/ MakeSocket(t) \/ AddStream(t) \/ Listen(t)
  \/ PublishRange(t) \/ PublishOne(t)

Next ==
  /\ alive
  /\ \/ EndProcess
     \/ \E t \in Threads :
          \/ \E o \in {"ensure", "create", "publish"}, s \in Streams :
               Call(t, o, s)
          \/ Step(t)

Spec == Init /\ [][Next]_vars

-----------------------------------------------------------------------------
(***************************************************************************)
(* Properties.                                                             *)
(***************************************************************************)

(* Only the receive thread creates streams, in the handler of a client's   *)
(* CreateStream or in a handler of the application.                        *)
OneCreator ==
  \A t \in Threads : Ops[t] \cap {"ensure", "create"} # {} => t = ReceiveThread

(* A CreateStream command that was answered left a socket that listens:    *)
(* the client's dial, which follows the answer in Subscribe, finds it.     *)
(* AddStream comes before Start, so this needs that no other thread        *)
(* creates streams.                                                        *)
AnsweredMeansListening ==
  (alive /\ result[ReceiveThread] = "ok" /\ op[ReceiveThread] = "ensure")
    => streams[stream[ReceiveThread]] \cap bound # {}

(* A handler that could not be started is not survived: as long as the     *)
(* process runs, a handler in the table listens, except for the one that   *)
(* is between AddStream and Start.  Publish would throw on a deaf one for  *)
(* ever, as nothing takes it out of the table.                             *)
NoDeafHandler ==
  alive => \A s \in Streams : streams[s] \subseteq bound \cup
             (IF pc[ReceiveThread] = "listen" THEN {sock[ReceiveThread]}
                                              ELSE {})

(* A Publish from a command handler goes out over every handler its stream *)
(* has and over no other stream's, unless its event cannot be serialized,  *)
(* and it does not meet a socket that is not bound.  (From another thread  *)
(* it may: it can come between AddStream and Start.)                       *)
PublishReachesStream ==
  (/\ op[ReceiveThread] = "publish"
   /\ result[ReceiveThread] \notin {"none", "not serialized"})
    => wire[ReceiveThread] = streams[stream[ReceiveThread]]
=============================================================================
