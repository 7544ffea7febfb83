-------------------------- MODULE EventStoreProofs --------------------------
(***************************************************************************)
(* Theorems about EventStore, for any number of streams and of threads     *)
(* that publish, when only the receive thread creates streams (OneCreator).*)
(***************************************************************************)
EXTENDS EventStore, TLAPS

USE ThreadsAssumption, OpsAssumption, SocketsAssumption

(***************************************************************************)
(* The inductive invariant.  The receive thread is the only one between    *)
(* the check and Start; every other handler in the table listens as long   *)
(* as the process runs; nothing that was answered is ever taken back; and  *)
(* what a Publish of the receive thread has sent and has still to send is  *)
(* always what the table has for its stream.                               *)
(***************************************************************************)
Creating == {"check", "make", "add", "listen"}

CreatorInv ==
  /\ \A t \in Threads : pc[t] \in Creating => t = R
  /\ pc[R] \in {"add", "listen"} => sock[R] \in Sockets
  /\ pc[R] = "listen" => sock[R] \in streams[stream[R]]
  /\ pc[R] \in Creating => op[R] # "publish"
  /\ pc[R] \in {"range", "send"} => op[R] = "publish"
  /\ \A t \in Threads : pc[t] # "idle" => stream[t] \in Streams
  /\ \A t \in Threads : pc[t] # "idle" => result[t] = "none"

ListenInv ==
  alive => \A s \in Streams : \A h \in streams[s] :
             \/ h \in bound
             \/ pc[R] = "listen" /\ h = sock[R]

AnswerInv ==
  (alive /\ result[R] = "ok" /\ op[R] = "ensure")
    => /\ stream[R] \in Streams
       /\ \E h \in streams[stream[R]] : h \in bound

PublishInv ==
  /\ pc[R] = "range" => wire[R] = {}
  /\ pc[R] = "send" => wire[R] \cup todo[R] = streams[stream[R]]
  /\ PublishReachesStream

IInv == TypeOK /\ CreatorInv /\ ListenInv /\ AnswerInv /\ PublishInv

LEMMA InitIInv == Init => IInv
  BY DEF Init, IInv, TypeOK, CreatorInv, ListenInv, AnswerInv, PublishInv,
         PublishReachesStream, R, Creating, Results, Sockets

LEMMA NextIInv == OneCreator /\ IInv /\ [Next]_vars => IInv'
<1> SUFFICES ASSUME OneCreator, IInv, [Next]_vars PROVE IInv'
  OBVIOUS
<1> USE DEF IInv, R
<1>1. ASSUME NEW t \in Threads, NEW s \in Streams, alive,
             NEW o \in {"ensure", "create", "publish"}, Call(t, o, s)
      PROVE  IInv'
  <2>1. TypeOK'
    BY <1>1 DEF Call, Goto, TypeOK, Results
  <2>2. CreatorInv'
    BY <1>1 DEF Call, Goto, TypeOK, CreatorInv, Creating, OneCreator
  <2>3. ListenInv'
    BY <1>1 DEF Call, Goto, TypeOK, CreatorInv, Creating, ListenInv
  <2>4. AnswerInv'
    BY <1>1 DEF Call, Goto, TypeOK, CreatorInv, Creating, ListenInv, AnswerInv
  <2>5. PublishInv'
    BY <1>1
    DEF Call, Goto, TypeOK, CreatorInv, Creating, ListenInv, PublishInv,
        PublishReachesStream
  <2> QED
    BY <2>1, <2>2, <2>3, <2>4, <2>5
<1>2. ASSUME NEW t \in Threads, alive, StreamExists(t) PROVE IInv'
  <2>0. t = R /\ pc[R] = "check"
    <3>1. pc[t] = "check"
      BY <1>2, Zenon DEF StreamExists
    <3> QED
      BY <3>1 DEF CreatorInv, Creating
  <2>a. UNCHANGED <<op, stream, sock, todo, wire, streams, bound, created>>
    BY <1>2, Zenon DEF StreamExists
  <2>b. \/ /\ streams[stream[R]] # {}
           /\ pc' = [pc EXCEPT ![R] = "idle"]
           /\ result' = [result EXCEPT ![R] = "ok"]
           /\ alive' \in BOOLEAN
        \/ /\ pc' = [pc EXCEPT ![R] = "make"]
           /\ result' = result
           /\ alive' = alive
    BY <1>2, <2>0, Zenon DEF StreamExists, End, Goto
  <2>1. TypeOK'
    BY <2>a, <2>b DEF TypeOK, Results
  <2>2. CreatorInv'
    BY <2>0, <2>a, <2>b DEF TypeOK, CreatorInv, Creating
  <2>c. \A s \in Streams : \A h \in streams[s] : h \in bound
    BY <1>2, <2>0 DEF ListenInv
  <2>3. ListenInv'
    BY <2>a, <2>c DEF ListenInv
  <2>4. AnswerInv'
    BY <2>0, <2>a, <2>b, <2>c DEF TypeOK, CreatorInv, AnswerInv
  <2>5. PublishInv'
    BY <2>0, <2>a, <2>b
    DEF TypeOK, CreatorInv, Creating, PublishInv, PublishReachesStream
  <2> QED
    BY <2>1, <2>2, <2>3, <2>4, <2>5
<1>3. ASSUME NEW t \in Threads, alive, MakeSocket(t) PROVE IInv'
  <2>0. created + 1 \in Sockets /\ created + 1 \in 0 .. MaxSockets
    BY <1>3 DEF MakeSocket, TypeOK, Sockets
  <2>1. TypeOK'
    BY <1>3, <2>0 DEF MakeSocket, Goto, TypeOK
  <2>2. CreatorInv'
    BY <1>3, <2>0 DEF MakeSocket, Goto, TypeOK, CreatorInv, Creating
  <2>3. ListenInv'
    BY <1>3, <2>0
    DEF MakeSocket, Goto, TypeOK, CreatorInv, Creating, ListenInv
  <2>4. AnswerInv'
    BY <1>3, <2>0
    DEF MakeSocket, Goto, TypeOK, CreatorInv, Creating, ListenInv, AnswerInv
  <2>5. PublishInv'
    BY <1>3, <2>0
    DEF MakeSocket, Goto, TypeOK, CreatorInv, Creating, ListenInv, PublishInv,
        PublishReachesStream
  <2> QED
    BY <2>1, <2>2, <2>3, <2>4, <2>5
<1>4. ASSUME NEW t \in Threads, alive, AddStream(t) PROVE IInv'
  <2>1. TypeOK'
    <3>1. sock[t] \in Sockets
      BY <1>4 DEF AddStream, CreatorInv, Creating
    <3>2. streams' \in [Streams -> SUBSET Sockets]
      BY <1>4, <3>1 DEF AddStream, TypeOK
    <3>3. UNION {streams'[s] : s \in Streams} \subseteq Sockets
      BY <3>2
    <3>4. todo' \in [Threads -> SUBSET UNION {streams'[s] : s \in Streams}]
      BY <1>4 DEF AddStream
    <3>5. todo' \in [Threads -> SUBSET Sockets]
      BY <3>3, <3>4
    <3> QED
      BY <1>4, <3>2, <3>5 DEF AddStream, Goto, TypeOK
  <2>2. CreatorInv'
    BY <1>4 DEF AddStream, Goto, TypeOK, CreatorInv, Creating
  <2>3. ListenInv'
    BY <1>4 DEF AddStream, Goto, TypeOK, CreatorInv, Creating, ListenInv
  <2>4. AnswerInv'
    BY <1>4
    DEF AddStream, Goto, TypeOK, CreatorInv, Creating, ListenInv, AnswerInv
  <2>5. PublishInv'
    BY <1>4
    DEF AddStream, Goto, TypeOK, CreatorInv, Creating, ListenInv, PublishInv,
        PublishReachesStream
  <2> QED
    BY <2>1, <2>2, <2>3, <2>4, <2>5
<1>5. ASSUME NEW t \in Threads, alive, Listen(t) PROVE IInv'
  <2>0. t = R /\ pc[R] = "listen"
    <3>1. pc[t] = "listen"
      BY <1>5, Zenon DEF Listen
    <3> QED
      BY <3>1 DEF CreatorInv, Creating
  <2>s. /\ sock[R] \in Sockets
        /\ stream[R] \in Streams
        /\ sock[R] \in streams[stream[R]]
        /\ op[R] # "publish"
    BY <2>0 DEF CreatorInv, Creating
  <2>a. /\ UNCHANGED <<op, stream, sock, todo, wire, streams, created>>
        /\ pc' = [pc EXCEPT ![R] = "idle"]
    BY <1>5, <2>0, Zenon DEF Listen, End, Goto
  <2>b. \/ /\ bound' = bound \cup {sock[R]}
           /\ result' = [result EXCEPT ![R] = "ok"]
           /\ alive' \in BOOLEAN
        \/ /\ bound' = bound
           /\ result' = [result EXCEPT ![R] = "listen failed"]
           /\ alive' = FALSE
    <3>1. \/ bound' = bound \cup {sock[R]} /\ End(R, "ok")
          \/ bound' = bound /\ End(R, "listen failed")
      BY <1>5, <2>0, Zenon DEF Listen
    <3>2. CASE bound' = bound \cup {sock[R]} /\ End(R, "ok")
      BY <3>2, Zenon DEF End
    <3>3. CASE bound' = bound /\ End(R, "listen failed")
      <4>1. /\ result' = [result EXCEPT ![R] = "listen failed"]
            /\ alive' = (alive /\ ("listen failed" = "ok" \/ R # ReceiveThread))
        BY <3>3, Zenon DEF End
      <4>2. "listen failed" # "ok"
        OBVIOUS
      <4>3. R = ReceiveThread
        BY DEF R
      <4> QED
        BY <3>3, <4>1, <4>2, <4>3, Zenon
    <3> QED
      BY <3>1, <3>2, <3>3
  <2>1. TypeOK'
    BY <2>s, <2>a, <2>b DEF TypeOK, Results
  <2>2. CreatorInv'
    BY <2>0, <2>a, <2>b DEF TypeOK, CreatorInv, Creating
  <2>c. alive' => \A s \in Streams : \A h \in streams[s] : h \in bound'
    BY <1>5, <2>0, <2>b DEF ListenInv
  <2>3. ListenInv'
    BY <2>a, <2>c DEF ListenInv
  <2>4. AnswerInv'
    BY <2>s, <2>a, <2>c DEF AnswerInv
  <2>5. PublishInv'
    BY <2>0, <2>s, <2>a DEF TypeOK, PublishInv, PublishReachesStream
  <2> QED
    BY <2>1, <2>2, <2>3, <2>4, <2>5
<1>6. ASSUME NEW t \in Threads, alive, PublishRange(t) PROVE IInv'
  <2>1. TypeOK'
    BY <1>6 DEF PublishRange, Goto, TypeOK, CreatorInv
  <2>2. CreatorInv'
    BY <1>6 DEF PublishRange, Goto, TypeOK, CreatorInv, Creating
  <2>3. ListenInv'
    BY <1>6 DEF PublishRange, Goto, TypeOK, CreatorInv, Creating, ListenInv
  <2>4. AnswerInv'
    BY <1>6
    DEF PublishRange, Goto, TypeOK, CreatorInv, Creating, ListenInv, AnswerInv
  <2>5. PublishInv'
    BY <1>6
    DEF PublishRange, Goto, TypeOK, CreatorInv, Creating, ListenInv,
        PublishInv, PublishReachesStream
  <2> QED
    BY <2>1, <2>2, <2>3, <2>4, <2>5
<1>7. ASSUME NEW t \in Threads, alive, PublishOne(t) PROVE IInv'
  <2>1. TypeOK'
    <3>1. alive' \in BOOLEAN
      BY <1>7, Zenon DEF PublishOne, End, TypeOK
    <3>2. \/ /\ pc' = [pc EXCEPT ![t] = "idle"]
             /\ \E r \in Results : result' = [result EXCEPT ![t] = r]
             /\ todo' = todo /\ wire' = wire
          \/ \E h \in todo[t] :
               /\ pc' = pc /\ result' = result
               /\ todo' = [todo EXCEPT ![t] = todo[t] \ {h}]
               /\ wire' = [wire EXCEPT ![t] = wire[t] \cup {h}]
      BY <1>7, Zenon DEF PublishOne, End, Goto, Results
    <3> QED
      <4>0. UNCHANGED <<op, stream, sock, streams, bound, created>>
        BY <1>7, Zenon DEF PublishOne
      <4>1. ASSUME NEW r \in Results, pc' = [pc EXCEPT ![t] = "idle"],
                   result' = [result EXCEPT ![t] = r],
                   todo' = todo, wire' = wire
            PROVE  TypeOK'
        <5>1. /\ result' \in [Threads -> Results]
              /\ pc' \in [Threads -> {"idle", "check", "make", "add", "listen",
                                       "range", "send"}]
          BY <4>1 DEF TypeOK
        <5> QED
          BY <3>1, <4>0, <4>1, <5>1, Zenon DEF TypeOK
      <4>2. ASSUME NEW h \in todo[t], pc' = pc, result' = result,
                   todo' = [todo EXCEPT ![t] = todo[t] \ {h}],
                   wire' = [wire EXCEPT ![t] = wire[t] \cup {h}]
            PROVE  TypeOK'
        <5>1. h \in Sockets
          BY DEF TypeOK
        <5>2. /\ todo' \in [Threads -> SUBSET Sockets]
              /\ wire' \in [Threads -> SUBSET Sockets]
          BY <4>2, <5>1 DEF TypeOK
        <5> QED
          BY <3>1, <4>0, <4>2, <5>2, Zenon DEF TypeOK
      <4> QED
        BY <3>2, <4>1, <4>2, Zenon
  <2>a. /\ pc[t] = "send"
        /\ UNCHANGED <<op, stream, sock, streams, bound, created>>
    BY <1>7, Zenon DEF PublishOne
  <2>b. \/ /\ pc' = [pc EXCEPT ![t] = "idle"]
           /\ \E r \in Results : result' = [result EXCEPT ![t] = r]
        \/ pc' = pc /\ result' = result
    BY <1>7, Zenon DEF PublishOne, End, Goto, Results
  <2>c. /\ pc'[R] = "listen" <=> pc[R] = "listen"
        /\ alive' => alive
    BY <1>7, <2>a, <2>b DEF TypeOK
  <2>2. CreatorInv'
    BY <2>a, <2>b DEF TypeOK, CreatorInv, Creating
  <2>3. ListenInv'
    BY <2>a, <2>c DEF ListenInv
  <2>4. AnswerInv'
    <3>1. CASE t # R
      <4>1. result'[R] = result[R]
        BY <2>b, <3>1 DEF TypeOK
      <4> QED
        BY <2>a, <2>c, <4>1 DEF AnswerInv
    <3>2. CASE t = R
      <4>1. op[R] # "ensure"
        BY <2>a, <3>2 DEF CreatorInv
      <4> QED
        BY <2>a, <4>1 DEF AnswerInv
    <3> QED
      BY <3>1, <3>2
  <2>5. PublishInv'
    <3>1. CASE t # R
      BY <1>7, <3>1 DEF PublishOne, Goto, End, TypeOK, PublishInv,
                        PublishReachesStream
    <3>2. CASE t = R
      <4>1. /\ op[R] = "publish" /\ result[R] = "none" /\ stream[R] \in Streams
            /\ wire[R] \cup todo[R] = streams[stream[R]]
            /\ \A h \in todo[R] : h \in bound
        BY <1>7, <3>2 DEF PublishOne, CreatorInv, ListenInv, PublishInv
      <4>2. \/ /\ pc' = [pc EXCEPT ![R] = "idle"]
               /\ todo' = todo /\ wire' = wire
               /\ \/ result' = [result EXCEPT ![R] = "ok"] /\ todo[R] = {}
                  \/ result' = [result EXCEPT ![R] = "not serialized"]
            \/ \E h \in todo[R] :
                 /\ pc' = pc /\ result' = result
                 /\ todo' = [todo EXCEPT ![R] = todo[R] \ {h}]
                 /\ wire' = [wire EXCEPT ![R] = wire[R] \cup {h}]
        BY <1>7, <3>2, <4>1, Zenon DEF PublishOne, Goto, End
      <4>3. /\ pc[R] = "send"
            /\ UNCHANGED <<op, stream, streams>>
        BY <1>7, <3>2 DEF PublishOne
      <4>4. CASE pc' = [pc EXCEPT ![R] = "idle"]
        <5>1. pc'[R] = "idle"
          BY <4>4, ThreadsAssumption DEF TypeOK, R
        <5>2. CASE todo' = todo /\ wire' = wire /\ todo[R] = {}
          BY <4>1, <4>3, <5>1, <5>2 DEF PublishInv, PublishReachesStream, R
        <5>3. CASE result' = [result EXCEPT ![R] = "not serialized"]
          <6>1. result'[R] = "not serialized"
            BY <5>3, ThreadsAssumption DEF TypeOK, R
          <6> QED
            BY <5>1, <6>1 DEF PublishInv, PublishReachesStream, R
        <5>4. pc' # pc
          BY <4>3, <5>1
        <5> QED
          BY <4>2, <5>2, <5>3, <5>4, Zenon
      <4>5. ASSUME NEW h \in todo[R], pc' = pc, result' = result,
                   todo' = [todo EXCEPT ![R] = todo[R] \ {h}],
                   wire' = [wire EXCEPT ![R] = wire[R] \cup {h}]
            PROVE  PublishInv'
        <5>1. wire'[R] \cup todo'[R] = wire[R] \cup todo[R]
          BY <4>5 DEF TypeOK
        <5> QED
          BY <4>1, <4>3, <4>5, <5>1 DEF PublishInv, PublishReachesStream
      <4> QED
        BY <4>2, <4>4, <4>5
    <3> QED
      BY <3>1, <3>2
  <2> QED
    BY <2>1, <2>2, <2>3, <2>4, <2>5
<1>8. CASE UNCHANGED vars
  BY <1>8
  DEF vars, threadVars, TypeOK, CreatorInv, ListenInv, AnswerInv,
      PublishInv, PublishReachesStream
<1>9. CASE alive /\ EndProcess
  <2>1. /\ alive' = FALSE
        /\ UNCHANGED <<pc, op, stream, sock, todo, result, wire, streams,
                       bound, created>>
    BY <1>9, Zenon DEF EndProcess, threadVars
  <2>2. TypeOK'
    BY <2>1 DEF TypeOK
  <2>3. CreatorInv' /\ ListenInv' /\ AnswerInv'
    BY <2>1 DEF CreatorInv, ListenInv, AnswerInv
  <2>4. PublishInv'
    BY <2>1 DEF PublishInv, PublishReachesStream
  <2> QED
    BY <2>2, <2>3, <2>4
<1> QED
  BY <1>1, <1>2, <1>3, <1>4, <1>5, <1>6, <1>7, <1>8, <1>9 DEF Next, Step

(* When only the receive thread creates streams the variables of the store *)
(* keep their types: a handler that goes into the table has a socket.      *)
THEOREM StoreTypes ==
  ASSUME OneCreator PROVE Spec => []TypeOK
<1>1. Init => IInv
  BY InitIInv
<1>2. IInv /\ [Next]_vars => IInv'
  BY NextIInv, OneCreator
<1>3. IInv => TypeOK
  BY DEF IInv
<1> QED
  BY <1>1, <1>2, <1>3, PTL DEF Spec

(* When only the receive thread creates streams, a CreateStream command    *)
(* that EnsureStreamCreated let through or carried out left a socket that  *)
(* listens, whatever the publishing threads do.                            *)
THEOREM AnsweredStreamsListen ==
  ASSUME OneCreator PROVE Spec => []AnsweredMeansListening
<1>1. Init => IInv
  BY InitIInv
<1>2. IInv /\ [Next]_vars => IInv'
  BY NextIInv, OneCreator
<1>3. IInv => AnsweredMeansListening
  BY DEF IInv, AnswerInv, R, AnsweredMeansListening
<1> QED
  BY <1>1, <1>2, <1>3, PTL DEF Spec

(* Under the same discipline the table never holds a handler that does not *)
(* listen while the process runs, but for the one that is being started: a *)
(* failed listen in the receive thread ends the process.                   *)
THEOREM HandlersListen ==
  ASSUME OneCreator PROVE Spec => []NoDeafHandler
<1>1. Init => IInv
  BY InitIInv
<1>2. IInv /\ [Next]_vars => IInv'
  BY NextIInv, OneCreator
<1>3. IInv => NoDeafHandler
  BY DEF IInv, ListenInv, R, NoDeafHandler
<1> QED
  BY <1>1, <1>2, <1>3, PTL DEF Spec

(* Under the same discipline a Publish from a command handler goes out     *)
(* over exactly the handlers of its stream and never meets an unbound      *)
(* socket.                                                                 *)
THEOREM HandlerPublishReachesStream ==
  ASSUME OneCreator PROVE Spec => []PublishReachesStream
<1>1. Init => IInv
  BY InitIInv
<1>2. IInv /\ [Next]_vars => IInv'
  BY NextIInv, OneCreator
<1>3. IInv => PublishReachesStream
  BY DEF IInv, PublishInv
<1> QED
  BY <1>1, <1>2, <1>3, PTL DEF Spec

-----------------------------------------------------------------------------
(***************************************************************************)
(* Sockets are not shared.  A number is given to one socket only, a socket *)
(* is in the table of one stream only, and a second socket of a stream     *)
(* cannot listen beside the first.                                         *)
(***************************************************************************)
OneListener ==
  \A s \in Streams : \A g, h \in streams[s] :
    g \in bound /\ h \in bound => g = h

SocketInv ==
  /\ \A h \in bound : h <= created
  /\ \A s \in Streams : \A h \in streams[s] : h <= created
  /\ pc[R] \in {"add", "listen"} => sock[R] <= created /\ sock[R] \notin bound
  /\ pc[R] = "add" => \A s \in Streams : sock[R] \notin streams[s]
  /\ pc[R] = "listen" =>
       \A s \in Streams : sock[R] \in streams[s] => s = stream[R]
  /\ OneListener

LEMMA SocketInit == Init => SocketInv
<1> SUFFICES ASSUME Init PROVE SocketInv
  OBVIOUS
<1>1. pc[R] = "idle"
  BY DEF Init, R
<1> QED
  BY <1>1 DEF Init, SocketInv, OneListener

(* A step that neither makes, adds nor starts a socket.                    *)
LEMMA SocketsUntouched ==
  ASSUME SocketInv, UNCHANGED <<sock, streams, bound, created>>,
         pc'[R] \in {"add", "listen"} =>
           pc'[R] = pc[R] /\ stream'[R] = stream[R]
  PROVE  SocketInv'
  BY Zenon DEF SocketInv, OneListener, R

LEMMA SocketStep ==
  ASSUME OneCreator, IInv, SocketInv, [Next]_vars
  PROVE  SocketInv'
<1>0. /\ TypeOK /\ R \in Threads
      /\ \A t \in Threads : pc[t] \in Creating => t = R
      /\ pc[R] \in {"add", "listen"} => stream[R] \in Streams
  BY DEF IInv, CreatorInv, R
<1>1. ASSUME NEW t \in Threads, NEW s \in Streams, NEW o, Call(t, o, s)
      PROVE  SocketInv'
  <2>1. UNCHANGED <<sock, streams, bound, created>>
    BY <1>1, Zenon DEF Call
  <2>2. \E l \in {"check", "make", "range"} : pc' = [pc EXCEPT ![t] = l]
    BY <1>1 DEF Call, Goto
  <2>3. stream' = [stream EXCEPT ![t] = s]
    BY <1>1, Zenon DEF Call
  <2>4. pc'[R] \in {"add", "listen"} => t # R
    BY <1>0, <2>2 DEF TypeOK
  <2>5. t # R => pc'[R] = pc[R] /\ stream'[R] = stream[R]
    BY <1>0, <2>2, <2>3 DEF TypeOK
  <2> QED
    BY <2>1, <2>4, <2>5, SocketsUntouched, Zenon
<1>2. ASSUME NEW t \in Threads,
             StreamExists(t) \/ PublishRange(t) \/ PublishOne(t)
      PROVE  SocketInv'
  <2>1. UNCHANGED <<sock, streams, bound, created, stream>>
    BY <1>2, Zenon DEF StreamExists, PublishRange, PublishOne
  <2>2. \/ pc' = pc
        \/ \E l \in {"idle", "make", "send"} : pc' = [pc EXCEPT ![t] = l]
    BY <1>2, Zenon DEF StreamExists, PublishRange, PublishOne, End, Goto
  <2>3. pc'[R] \in {"add", "listen"} => pc'[R] = pc[R]
    BY <1>0, <2>2 DEF TypeOK
  <2> QED
    BY <2>1, <2>3, SocketsUntouched, Zenon
<1>3. ASSUME NEW t \in Threads, MakeSocket(t) PROVE SocketInv'
  <2>1. t = R
    BY <1>0, <1>3 DEF MakeSocket, Creating
  <2>2. /\ created' = created + 1 /\ created \in Nat
        /\ sock'[R] = created + 1 /\ pc'[R] = "add"
        /\ UNCHANGED <<streams, bound>>
    BY <1>0, <1>3, <2>1 DEF MakeSocket, Goto, TypeOK
  <2>3. /\ \A h \in bound : h \in Nat /\ h <= created
        /\ \A s \in Streams : \A h \in streams[s] : h \in Nat /\ h <= created
    BY <1>0 DEF SocketInv, TypeOK, Sockets
  <2>4. OneListener'
    BY <2>2, Zenon DEF SocketInv, OneListener
  <2> QED
    BY <2>2, <2>3, <2>4 DEF SocketInv, R
<1>4. ASSUME NEW t \in Threads, AddStream(t) PROVE SocketInv'
  <2>1. t = R /\ pc[R] = "add"
    BY <1>0, <1>4 DEF AddStream, Creating
  <2>2. /\ streams' = [streams EXCEPT ![stream[R]] = @ \cup {sock[R]}]
        /\ pc' = [pc EXCEPT ![R] = "listen"]
        /\ UNCHANGED <<stream, sock, bound, created>>
    BY <1>4, <2>1, Zenon DEF AddStream, Goto
  <2>3. pc'[R] = "listen"
    BY <1>0, <2>2 DEF TypeOK
  <2>4. \A s \in Streams : \A h \in streams'[s] :
          h \in streams[s] \/ (h = sock[R] /\ s = stream[R])
    BY <1>0, <2>1, <2>2 DEF TypeOK
  <2>5. /\ sock[R] <= created /\ sock[R] \notin bound
        /\ \A s \in Streams : sock[R] \notin streams[s]
    BY <2>1 DEF SocketInv
  <2>6. OneListener'
    BY <2>2, <2>4, <2>5, Zenon DEF SocketInv, OneListener
  <2>7. /\ \A h \in bound : h <= created
        /\ \A s \in Streams : \A h \in streams'[s] : h <= created
    BY <2>4, <2>5, Zenon DEF SocketInv
  <2>8. \A s \in Streams : sock[R] \in streams'[s] => s = stream[R]
    BY <2>4, <2>5, Zenon
  <2> QED
    BY <2>2, <2>3, <2>5, <2>6, <2>7, <2>8 DEF SocketInv, R
<1>5. ASSUME NEW t \in Threads, Listen(t) PROVE SocketInv'
  <2>1. t = R /\ pc[R] = "listen"
    BY <1>0, <1>5 DEF Listen, Creating
  <2>2. /\ pc' = [pc EXCEPT ![R] = "idle"]
        /\ UNCHANGED <<stream, sock, streams, created>>
    BY <1>5, <2>1, Zenon DEF Listen, End, Goto
  <2>3. pc'[R] = "idle"
    BY <1>0, <2>2 DEF TypeOK
  <2>4. \/ bound' = bound
        \/ streams[stream[R]] \cap bound = {} /\ bound' = bound \cup {sock[R]}
    BY <1>5, <2>1, Zenon DEF Listen
  <2>5. /\ sock[R] <= created
        /\ \A s \in Streams : sock[R] \in streams[s] => s = stream[R]
    BY <2>1 DEF SocketInv
  <2>6. OneListener'
    <3> SUFFICES ASSUME NEW s \in Streams, NEW g \in streams[s],
                        NEW h \in streams[s], g \in bound', h \in bound'
                 PROVE  g = h
      BY <2>2, Zenon DEF OneListener
    <3>1. g \in bound /\ h \in bound => g = h
      BY Zenon DEF SocketInv, OneListener
    <3>2. CASE bound' = bound
      BY <3>1, <3>2, Zenon
    <3>3. CASE /\ streams[stream[R]] \cap bound = {}
               /\ bound' = bound \cup {sock[R]}
      <4>1. CASE s = stream[R]
        BY <3>3, <4>1
      <4>2. CASE s # stream[R]
        BY <2>5, <3>1, <3>3, <4>2, Zenon
      <4> QED
        BY <4>1, <4>2
    <3> QED
      BY <2>4, <3>2, <3>3, Zenon
  <2>7. /\ \A h \in bound' : h <= created
        /\ \A s \in Streams : \A h \in streams[s] : h <= created
    BY <2>4, <2>5, Zenon DEF SocketInv
  <2> QED
    BY <2>2, <2>3, <2>6, <2>7 DEF SocketInv, R
<1>6. CASE EndProcess \/ UNCHANGED vars
  <2>1. UNCHANGED <<pc, stream, sock, streams, bound, created>>
    BY <1>6, Zenon DEF EndProcess, vars, threadVars
  <2> QED
    BY <2>1, SocketsUntouched, Zenon
<1> QED
  BY <1>1, <1>2, <1>3, <1>4, <1>5, <1>6, Zenon DEF Next, Step

(* Under the same discipline no stream ever has two sockets that listen:   *)
(* an event is sent over a stream at most once.                            *)
THEOREM OneListenerPerStream ==
  ASSUME OneCreator PROVE Spec => []OneListener
<1>1. Init => IInv /\ SocketInv
  BY InitIInv, SocketInit
<1>2. IInv /\ SocketInv /\ [Next]_vars => (IInv /\ SocketInv)'
  BY NextIInv, SocketStep, OneCreator
<1>3. SocketInv => OneListener
  BY DEF SocketInv
<1> QED
  BY <1>1, <1>2, <1>3, PTL DEF Spec
=============================================================================
