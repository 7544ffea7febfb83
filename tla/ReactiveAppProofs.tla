-------------------------- MODULE ReactiveAppProofs --------------------------
(***************************************************************************)
(* Theorems about the example server, for any streams, properties, values  *)
(* and threads that publish, when only command handlers create streams     *)
(* (OneCreator).  Its steps are steps of the store, so the invariant of    *)
(* EventStoreProofs holds of it too; AppInv says in addition where the     *)
(* command in progress is.                                                 *)
(***************************************************************************)
EXTENDS ReactiveApp, EventStoreProofs

AppTypes ==
  /\ value \in [Properties -> Values]
  /\ slots \in [Properties -> {0, 1}]
  /\ subs \subseteq Streams
  /\ cmd \in {"none", "create", "set"}
  /\ selected \subseteq Properties \cup {Unknown}
  /\ changed \in Properties \cup {None}
  /\ signals = 0
  /\ rest \subseteq subs
  /\ asked \in [Streams -> SUBSET Properties]
  /\ told \in [Streams -> {0, 1}]
  /\ seen \in [Streams -> [Properties -> Values]]

(* The call of the store that a command waits for is its own.              *)
CommandInv ==
  /\ cmd = "create" =>
       /\ op[R] = "create" /\ stream[R] \in Streams
       /\ alive /\ pc[R] = "idle" => streams[stream[R]] # {}
  /\ cmd = "set" =>
       /\ changed \in Properties
       /\ pc[R] # "idle" =>
            op[R] = "publish" /\ stream[R] \in subs /\ stream[R] \notin rest

(* A subscription has a handler in the table, and what it asked for has a  *)
(* connection.                                                             *)
SubsInv ==
  /\ \A s \in subs : streams[s] # {}
  /\ \A s \in Streams : \A p \in asked[s] : slots[p] = 1

(* A stream that has still to be told has not been told.                   *)
ToldInv ==
  cmd = "set" =>
    /\ \A s \in rest : told[s] = 0
    /\ pc[R] # "idle" =>
         /\ wire[R] = {} => told[stream[R]] = 0
         /\ \A h \in wire[R] : h \in bound /\ h \in streams[stream[R]]

(* The one property a subscriber may be behind with is the one that is     *)
(* being told, and only until the event goes out over its stream.          *)
Pending(s) ==
  \/ s \in rest
  \/ pc[R] # "idle" /\ s = stream[R] /\ wire[R] = {}

SeenInv ==
  alive => \A s \in subs : \A p \in asked[s] :
             \/ seen[s][p] = value[p]
             \/ cmd = "set" /\ p = changed /\ Pending(s)

AppInv ==
  /\ IInv /\ SocketInv
  /\ AppTypes /\ CommandInv /\ SubsInv /\ ToldInv /\ SeenInv

-----------------------------------------------------------------------------
(* Every step of the server is a step of the store, or leaves it alone.    *)
LEMMA AppStepIsStoreStep == [AppNext]_allVars => [Next]_vars
<1> SUFFICES ASSUME [AppNext]_allVars PROVE [Next]_vars
  OBVIOUS
<1>0. R \in Threads
  BY ThreadsAssumption DEF R
<1>1. ASSUME NEW s \in Streams, NEW o \in {"ensure", "create", "publish"},
             alive, Call(R, o, s)
      PROVE  Next
  BY <1>0, <1>1, Zenon DEF Next
<1>2. ASSUME NEW s \in Streams,
             \/ CreateStream(s) \/ OnPropertyChanged(s)
             \/ \E sel \in SUBSET (Properties \cup {Unknown}) :
                  CreateReactiveSubscription(s, sel)
      PROVE  Next
  <2>1. CASE CreateStream(s)
    BY <1>1, <2>1, Zenon DEF CreateStream, Free
  <2>2. CASE OnPropertyChanged(s)
    BY <1>1, <2>2, Zenon DEF OnPropertyChanged
  <2>3. ASSUME NEW sel, CreateReactiveSubscription(s, sel) PROVE Next
    BY <1>1, <2>3, Zenon DEF CreateReactiveSubscription, Free
  <2> QED
    BY <1>2, <2>1, <2>2, <2>3, Zenon
<1>3. CASE AddReactiveSubscription \/ SlotReturns
  BY <1>3, Zenon DEF AddReactiveSubscription, SlotReturns
<1>4. CASE \E p \in Properties, v \in Values : SetValue(p, v)
  BY <1>4, Zenon DEF SetValue
<1>5. CASE RefuseSetter
  BY <1>5, Zenon DEF RefuseSetter, Free, Next
<1>6. ASSUME NEW t \in Threads, StoreStep(t) PROVE Next
  BY <1>6, Zenon DEF StoreStep, Next
<1>7. ASSUME NEW t \in Threads, NEW o \in {"ensure", "create", "publish"},
             NEW s \in Streams, OtherCall(t, o, s)
      PROVE  Next
  BY <1>7, Zenon DEF OtherCall, Next
<1>8. CASE UNCHANGED allVars
  BY <1>8, Zenon DEF allVars
<1> QED
  BY <1>2, <1>3, <1>4, <1>5, <1>6, <1>7, <1>8, Zenon DEF AppNext

-----------------------------------------------------------------------------
(***************************************************************************)
(* What a step inside the store does, as far as the command handlers are   *)
(* concerned.                                                              *)
(***************************************************************************)

(* Handlers and listening sockets only come.                               *)
LEMMA StoreGrows ==
  ASSUME IInv, NEW t \in Threads, Step(t)
  PROVE  /\ op' = op /\ stream' = stream
         /\ \A s \in Streams : \A h \in streams[s] : h \in streams'[s]
         /\ \A h \in bound : h \in bound'
<1>1. op' = op /\ stream' = stream
  BY Zenon DEF Step, StreamExists, MakeSocket, AddStream, Listen, PublishRange,
               PublishOne
<1>2. \/ streams' = streams
      \/ streams' = [streams EXCEPT ![stream[t]] = @ \cup {sock[t]}]
  BY Zenon DEF Step, StreamExists, MakeSocket, AddStream, Listen, PublishRange,
               PublishOne
<1>3. bound' = bound \/ bound' = bound \cup {sock[t]}
  BY Zenon DEF Step, StreamExists, MakeSocket, AddStream, Listen, PublishRange,
               PublishOne
<1>4. streams \in [Streams -> SUBSET Sockets]
  BY Zenon DEF IInv, TypeOK
<1>5. \A s \in Streams : \A h \in streams[s] : h \in streams'[s]
  BY <1>2, <1>4
<1> QED
  BY <1>1, <1>3, <1>5, Zenon

(* A step of another thread.                                               *)
LEMMA OtherThreadStep ==
  ASSUME IInv, NEW t \in Threads, t # R, Step(t)
  PROVE  pc'[R] = pc[R] /\ wire'[R] = wire[R] /\ alive' = alive
<1>0. R \in Threads
  BY ThreadsAssumption DEF R
<1>1. pc' = pc \/ \E l : pc' = [pc EXCEPT ![t] = l]
  BY Zenon DEF Step, StreamExists, MakeSocket, AddStream, Listen, PublishRange,
               PublishOne, End, Goto
<1>2. wire' = wire \/ \E w : wire' = [wire EXCEPT ![t] = w]
  <2>1. CASE PublishOne(t)
    BY <2>1, Zenon DEF PublishOne
  <2>2. CASE ~PublishOne(t)
    BY <2>2, Zenon DEF Step, StreamExists, MakeSocket, AddStream, Listen,
                       PublishRange
  <2> QED
    BY <2>1, <2>2
<1>3. alive' = alive
  <2>1. alive \in BOOLEAN
    BY Zenon DEF IInv, TypeOK
  <2> QED
    BY <2>1, Zenon DEF Step, StreamExists, MakeSocket, AddStream, Listen,
                       PublishRange, PublishOne, End, R
<1>4. pc \in [Threads -> {"idle", "check", "make", "add", "listen", "range",
                          "send"}]
      /\ wire \in [Threads -> SUBSET Sockets]
  BY Zenon DEF IInv, TypeOK
<1> QED
  BY <1>0, <1>1, <1>2, <1>3, <1>4

(* A step of a CreateStream of the receive thread: if it is the last and   *)
(* the process goes on, the stream has a handler.                          *)
LEMMA CreateStep ==
  ASSUME IInv, op[R] = "create", alive, Step(R)
  PROVE  alive' /\ pc'[R] = "idle" => streams'[stream[R]] # {}
<1>0. R \in Threads /\ stream' = stream
  BY ThreadsAssumption, StoreGrows DEF R
<1>1. pc \in [Threads -> {"idle", "check", "make", "add", "listen", "range",
                          "send"}]
  BY Zenon DEF IInv, TypeOK
<1>2. CASE StreamExists(R)
  <2>1. \/ streams[stream[R]] # {}
        \/ pc' = [pc EXCEPT ![R] = "make"]
    BY <1>2, Zenon DEF StreamExists, Goto
  <2>2. streams' = streams
    BY <1>2, Zenon DEF StreamExists
  <2> QED
    BY <1>0, <1>1, <2>1, <2>2
<1>3. CASE MakeSocket(R) \/ AddStream(R)
  <2>1. \E l \in {"add", "listen"} : pc' = [pc EXCEPT ![R] = l]
    BY <1>3, Zenon DEF MakeSocket, AddStream, Goto
  <2> QED
    BY <1>0, <1>1, <2>1
<1>4. CASE Listen(R)
  <2>1. pc[R] = "listen" /\ streams' = streams
    BY <1>4, Zenon DEF Listen
  <2>2. sock[R] \in streams[stream[R]]
    BY <2>1, Zenon DEF IInv, CreatorInv
  <2> QED
    BY <2>1, <2>2
<1>5. CASE PublishRange(R) \/ PublishOne(R)
  <2>1. pc[R] \in {"range", "send"}
    BY <1>5, Zenon DEF PublishRange, PublishOne
  <2>2. op[R] = "publish"
    BY <2>1, Zenon DEF IInv, CreatorInv
  <2> QED
    BY <2>2
<1> QED
  BY <1>2, <1>3, <1>4, <1>5, Zenon DEF Step

(* A step of a Publish of the receive thread: it sends over a listening    *)
(* socket of its stream, or it sends nothing; and when it is done all of   *)
(* the stream's handlers had the event.                                    *)
LEMMA PublishStep ==
  ASSUME IInv, op[R] = "publish", alive, Step(R)
  PROVE  /\ pc[R] # "idle"
         /\ UNCHANGED <<streams, bound>>
         /\ \/ wire'[R] = wire[R]
            \/ /\ pc'[R] # "idle"
               /\ \E h \in streams[stream[R]] :
                    h \in bound /\ wire'[R] = wire[R] \cup {h}
         /\ alive' /\ pc'[R] = "idle" => wire[R] = streams[stream[R]]
<1>0. /\ R \in Threads /\ R = ReceiveThread
      /\ pc \in [Threads -> {"idle", "check", "make", "add", "listen", "range",
                             "send"}]
      /\ wire \in [Threads -> SUBSET Sockets]
  BY ThreadsAssumption, Zenon DEF R, IInv, TypeOK
<1>1. pc[R] \notin Creating
  BY Zenon DEF IInv, CreatorInv
<1>2. PublishRange(R) \/ PublishOne(R)
  BY <1>1, Zenon DEF Step, StreamExists, MakeSocket, AddStream, Listen, Creating
<1>3. CASE PublishRange(R)
  <2>1. /\ pc[R] = "range" /\ pc' = [pc EXCEPT ![R] = "send"]
        /\ UNCHANGED <<streams, bound, wire>>
    BY <1>3, Zenon DEF PublishRange, Goto
  <2>2. pc'[R] = "send"
    BY <1>0, <2>1
  <2> QED
    BY <2>1, <2>2
<1>4. CASE PublishOne(R)
  <2>1. pc[R] = "send" /\ UNCHANGED <<streams, bound>>
    BY <1>4, Zenon DEF PublishOne
  <2>2. wire[R] \cup todo[R] = streams[stream[R]]
    BY <2>1, Zenon DEF IInv, PublishInv
  <2>3. \/ /\ UNCHANGED wire
           /\ alive' => todo[R] = {}
        \/ \E h \in todo[R] :
             /\ h \in bound /\ pc' = pc
             /\ wire' = [wire EXCEPT ![R] = @ \cup {h}]
    BY <1>0, <1>4, Zenon DEF PublishOne, End
  <2>4. CASE UNCHANGED wire /\ (alive' => todo[R] = {})
    BY <2>1, <2>2, <2>4
  <2>5. ASSUME NEW h \in todo[R], h \in bound, pc' = pc,
               wire' = [wire EXCEPT ![R] = @ \cup {h}]
        PROVE  /\ pc'[R] # "idle" /\ h \in streams[stream[R]]
               /\ wire'[R] = wire[R] \cup {h}
    BY <1>0, <2>1, <2>2, <2>5
  <2> QED
    BY <2>1, <2>3, <2>4, <2>5, Zenon
<1> QED
  BY <1>2, <1>3, <1>4

-----------------------------------------------------------------------------
(***************************************************************************)
(* The invariant, one action at a time.                                    *)
(***************************************************************************)
Parts == AppTypes /\ CommandInv /\ SubsInv /\ ToldInv /\ SeenInv

AppUnchanged ==
  /\ value' = value /\ slots' = slots /\ subs' = subs /\ cmd' = cmd
  /\ selected' = selected /\ changed' = changed /\ signals' = signals
  /\ rest' = rest /\ asked' = asked /\ told' = told /\ seen' = seen

LEMMA AppVarsUnchanged == UNCHANGED appVars => AppUnchanged
  BY Zenon DEF appVars, setter, history, AppUnchanged

LEMMA TypesUnchanged == AppTypes /\ AppUnchanged => AppTypes'
  BY Zenon DEF AppTypes, AppUnchanged

(* A step that is none of the command's.                                   *)
LEMMA Bystander ==
  ASSUME Parts, AppUnchanged,
         \A s \in Streams : \A h \in streams[s] : h \in streams'[s],
         \A h \in bound : h \in bound',
         alive' => alive,
         \/ cmd = "none"
         \/ /\ pc'[R] = pc[R] /\ op'[R] = op[R]
            /\ stream'[R] = stream[R] /\ wire'[R] = wire[R]
  PROVE  Parts'
<1>1. AppTypes'
  BY TypesUnchanged, Zenon DEF Parts
<1>2. subs \subseteq Streams
  BY Zenon DEF Parts, AppTypes
<1>3. SubsInv'
  BY <1>2, Zenon DEF Parts, SubsInv, AppUnchanged
<1>4. CASE cmd = "none"
  <2>1. CommandInv' /\ ToldInv'
    BY <1>4 DEF CommandInv, ToldInv, AppUnchanged
  <2>2. SeenInv'
    BY <1>4 DEF Parts, SeenInv, AppUnchanged
  <2> QED
    BY <1>1, <1>3, <2>1, <2>2, Zenon DEF Parts
<1>5. CASE /\ pc'[R] = pc[R] /\ op'[R] = op[R]
           /\ stream'[R] = stream[R] /\ wire'[R] = wire[R]
  <2>1. CommandInv'
    <3>1. stream[R] \in Streams /\ streams[stream[R]] # {}
            => streams'[stream[R]] # {}
      OBVIOUS
    <3> QED
      BY <1>5, <3>1, Zenon DEF Parts, CommandInv, AppUnchanged, R
  <2>2. ToldInv'
    BY <1>2, <1>5, Zenon DEF Parts, CommandInv, ToldInv, AppUnchanged, R
  <2>3. SeenInv'
    BY <1>5, Zenon DEF Parts, SeenInv, Pending, AppUnchanged, R
  <2> QED
    BY <1>1, <1>3, <2>1, <2>2, <2>3, Zenon DEF Parts
<1> QED
  BY <1>4, <1>5

LEMMA CallEffect ==
  ASSUME IInv, NEW t \in Threads, NEW o \in {"ensure", "create", "publish"},
         NEW s \in Streams, Call(t, o, s)
  PROVE  /\ UNCHANGED <<streams, bound, alive>>
         /\ t # R => /\ pc'[R] = pc[R] /\ op'[R] = op[R]
                     /\ stream'[R] = stream[R] /\ wire'[R] = wire[R]
         /\ t = R => /\ pc'[R] # "idle" /\ op'[R] = o
                     /\ stream'[R] = s /\ wire'[R] = {}
<1>1. R \in Threads /\ TypeOK
  BY ThreadsAssumption, Zenon DEF R, IInv
<1>2. /\ UNCHANGED <<streams, bound, alive>>
      /\ op' = [op EXCEPT ![t] = o] /\ stream' = [stream EXCEPT ![t] = s]
      /\ wire' = [wire EXCEPT ![t] = {}]
  BY Zenon DEF Call
<1>3. \E l \in {"check", "make", "range"} : pc' = [pc EXCEPT ![t] = l]
  BY DEF Call, Goto
<1>4. t # R => /\ pc'[R] = pc[R] /\ op'[R] = op[R]
               /\ stream'[R] = stream[R] /\ wire'[R] = wire[R]
  BY <1>1, <1>2, <1>3 DEF TypeOK
<1>5. t = R => /\ pc'[R] # "idle" /\ op'[R] = o
               /\ stream'[R] = s /\ wire'[R] = {}
  BY <1>1, <1>2, <1>3 DEF TypeOK
<1> QED
  BY <1>2, <1>4, <1>5, Zenon

LEMMA CreateStreamKeeps ==
  ASSUME IInv, Parts, NEW s \in Streams, CreateStream(s)
  PROVE  Parts'
<1>1. cmd = "none" /\ Call(R, "ensure", s) /\ AppUnchanged
  BY AppVarsUnchanged, Zenon DEF CreateStream, Free
<1>2. UNCHANGED <<streams, bound, alive>>
  BY <1>1, Zenon DEF Call
<1> QED
  BY <1>1, <1>2, Bystander, Zenon

LEMMA CreateReactiveKeeps ==
  ASSUME IInv, Parts, NEW s \in Streams,
         NEW sel \in SUBSET (Properties \cup {Unknown}),
         CreateReactiveSubscription(s, sel)
  PROVE  Parts'
<1>1. /\ cmd = "none" /\ Call(R, "create", s)
      /\ cmd' = "create" /\ selected' = sel
      /\ UNCHANGED <<value, slots, subs, setter, asked, history>>
  BY Zenon DEF CreateReactiveSubscription, Free
<1>2. UNCHANGED <<changed, signals, rest, told, seen>>
  BY <1>1, Zenon DEF setter, history
<1>3. /\ UNCHANGED <<streams, bound, alive>>
      /\ pc'[R] # "idle" /\ op'[R] = "create" /\ stream'[R] = s
  BY <1>1, CallEffect, ThreadsAssumption DEF R
<1>4. AppTypes'
  BY <1>1, <1>2, Zenon DEF Parts, AppTypes
<1>5. CommandInv' /\ ToldInv'
  BY <1>1, <1>3 DEF CommandInv, ToldInv, R
<1>6. SubsInv'
  BY <1>1, <1>3, Zenon DEF Parts, SubsInv
<1>7. SeenInv'
  BY <1>1, <1>2, <1>3 DEF Parts, SeenInv
<1> QED
  BY <1>4, <1>5, <1>6, <1>7, Zenon DEF Parts

LEMMA AddReactiveKeeps ==
  ASSUME IInv, Parts, AddReactiveSubscription
  PROVE  Parts'
<1> DEFINE s == stream[R]
<1>1. /\ alive /\ cmd = "create" /\ pc[R] = "idle"
      /\ cmd' = "none" /\ selected' = {}
      /\ subs' = subs \cup {s}
      /\ slots' = MonitorProperty(KnownSelectors)
      /\ asked' = [asked EXCEPT ![s] = selected \cap Properties]
      /\ seen' = [seen EXCEPT ![s] = value]
      /\ UNCHANGED <<vars, value, setter, told>>
  BY Zenon DEF AddReactiveSubscription
<1>2. UNCHANGED <<value, changed, signals, rest, told, alive, streams>>
  BY <1>1, Zenon DEF setter, vars
<1>3. s \in Streams /\ streams[s] # {}
  BY <1>1, Zenon DEF Parts, CommandInv
<1>4. /\ slots' \in [Properties -> {0, 1}]
      /\ \A p \in Properties : slots[p] = 1 \/ p \in selected => slots'[p] = 1
  <2>1. slots \in [Properties -> {0, 1}]
    BY Zenon DEF Parts, AppTypes
  <2>2. \A p \in Properties : p # Unknown
    BY AppAssumption
  <2> QED
    BY <1>1, <2>1, <2>2 DEF MonitorProperty, KnownSelectors
<1>5. /\ asked \in [Streams -> SUBSET Properties]
      /\ seen \in [Streams -> [Properties -> Values]]
      /\ value \in [Properties -> Values]
  BY Zenon DEF Parts, AppTypes
<1>6. /\ asked' \in [Streams -> SUBSET Properties]
      /\ seen' \in [Streams -> [Properties -> Values]]
      /\ asked'[s] = selected \cap Properties /\ seen'[s] = value
      /\ \A u \in Streams : u # s => asked'[u] = asked[u] /\ seen'[u] = seen[u]
  BY <1>1, <1>3, <1>5
<1> HIDE DEF s
<1>7. AppTypes'
  <2>1. subs' \subseteq Streams /\ rest' \subseteq subs'
    BY <1>1, <1>2, <1>3, Zenon DEF Parts, AppTypes
  <2>2. /\ value' \in [Properties -> Values] /\ signals' = 0
        /\ changed' \in Properties \cup {None} /\ told' \in [Streams -> {0, 1}]
    BY <1>2, Zenon DEF Parts, AppTypes
  <2>3. cmd' \in {"none", "create", "set"}
        /\ selected' \subseteq Properties \cup {Unknown}
    BY <1>1, Zenon
  <2> QED
    BY <1>4, <1>6, <2>1, <2>2, <2>3, Zenon DEF AppTypes
<1>8. CommandInv' /\ ToldInv'
  BY <1>1 DEF CommandInv, ToldInv
<1>9. SubsInv'
  <2>1. \A u \in subs' : streams'[u] # {}
    BY <1>1, <1>2, <1>3, Zenon DEF Parts, SubsInv
  <2>2. ASSUME NEW u \in Streams, NEW p \in asked'[u] PROVE slots'[p] = 1
    <3>1. p \in Properties
      BY <1>6, <2>2
    <3>2. CASE u = s
      BY <1>4, <1>6, <2>2, <3>1, <3>2, Zenon
    <3>3. CASE u # s
      BY <1>4, <1>6, <2>2, <3>1, <3>3, Zenon DEF Parts, SubsInv
    <3> QED
      BY <3>2, <3>3
  <2> QED
    BY <2>1, <2>2, Zenon DEF SubsInv
<1>10. SeenInv'
  <2> SUFFICES ASSUME NEW u \in subs', NEW p \in asked'[u]
               PROVE  seen'[u][p] = value'[p]
    BY Zenon DEF SeenInv
  <2>1. CASE u = s
    BY <1>2, <1>6, <2>1, Zenon
  <2>2. CASE u # s
    <3>1. u \in subs /\ u \in Streams
      BY <1>1, <2>2, Zenon DEF Parts, AppTypes
    <3>2. seen[u][p] = value[p]
      BY <1>1, <1>6, <2>2, <3>1 DEF Parts, SeenInv
    <3> QED
      BY <1>2, <1>6, <2>2, <3>1, <3>2, Zenon
  <2> QED
    BY <2>1, <2>2
<1> QED
  BY <1>7, <1>8, <1>9, <1>10, Zenon DEF Parts

LEMMA SetValueKeeps ==
  ASSUME IInv, Parts, NEW p \in Properties, NEW v \in Values, SetValue(p, v)
  PROVE  Parts'
<1> DEFINE raised == v # value[p] /\ slots[p] > 0
<1>1. /\ alive /\ cmd = "none" /\ pc[R] = "idle"
      /\ value' = [value EXCEPT ![p] = v]
      /\ cmd' = IF raised THEN "set" ELSE "none"
      /\ changed' = IF raised THEN p ELSE None
      /\ signals' = IF raised THEN slots[p] - 1 ELSE 0
      /\ rest' = IF raised THEN subs ELSE {}
      /\ told' = [s \in Streams |-> 0]
      /\ UNCHANGED <<vars, slots, subs, selected, asked, seen>>
  BY Zenon DEF SetValue, Free
<1>2. /\ UNCHANGED <<slots, subs, selected, asked, seen>>
      /\ UNCHANGED <<pc, alive, streams>>
  BY <1>1, Zenon DEF vars, threadVars
<1>3. pc'[R] = "idle"
  BY <1>1, <1>2, Zenon DEF R
<1>4. /\ value \in [Properties -> Values] /\ slots \in [Properties -> {0, 1}]
      /\ asked \in [Streams -> SUBSET Properties] /\ subs \subseteq Streams
  BY Zenon DEF Parts, AppTypes
<1>5. /\ value' \in [Properties -> Values] /\ value'[p] = v
      /\ \A q \in Properties : q # p => value'[q] = value[q]
  BY <1>1, <1>4
<1>6. ~raised => v = value[p] \/ slots[p] = 0
  BY <1>4
<1>7. AppTypes'
  <2>1. signals' = 0
    BY <1>1, <1>4
  <2>2. told' \in [Streams -> {0, 1}]
    BY <1>1
  <2>3. rest' \subseteq subs' /\ changed' \in Properties \cup {None}
        /\ cmd' \in {"none", "set"}
    BY <1>1, <1>2, Zenon
  <2>4. /\ slots' \in [Properties -> {0, 1}] /\ subs' \subseteq Streams
        /\ selected' \subseteq Properties \cup {Unknown}
        /\ asked' \in [Streams -> SUBSET Properties]
        /\ seen' \in [Streams -> [Properties -> Values]]
    BY <1>2, Zenon DEF Parts, AppTypes
  <2> QED
    BY <1>5, <2>1, <2>2, <2>3, <2>4, Zenon DEF AppTypes
<1> HIDE DEF raised
<1>8. cmd' # "create" /\ (cmd' = "set" => raised)
  BY <1>1
<1>9. CommandInv'
  <2>1. cmd' = "set" => changed' \in Properties
    BY <1>1, <1>8, Zenon
  <2> QED
    BY <1>3, <1>8, <2>1, Zenon DEF CommandInv
<1>10. SubsInv'
  BY <1>2, Zenon DEF Parts, SubsInv
<1>11. ToldInv'
  <2>1. \A s \in rest' : told'[s] = 0
    BY <1>1, <1>4
  <2> QED
    BY <1>3, <2>1, Zenon DEF ToldInv
<1>12. SeenInv'
  <2> SUFFICES ASSUME NEW s \in subs, NEW q \in asked[s]
               PROVE  \/ seen[s][q] = value'[q]
                      \/ cmd' = "set" /\ q = changed' /\ Pending(s)'
    BY <1>2, Zenon DEF SeenInv
  <2>1. seen[s][q] = value[q] /\ q \in Properties /\ slots[q] = 1
    BY <1>1, <1>4 DEF Parts, SeenInv, SubsInv
  <2>2. CASE q # p
    BY <1>5, <2>1, <2>2, Zenon
  <2>3. CASE q = p /\ ~raised
    BY <1>5, <1>6, <2>1, <2>3
  <2>4. CASE q = p /\ raised
    BY <1>1, <2>4, Zenon DEF Pending
  <2> QED
    BY <2>2, <2>3, <2>4
<1> QED
  BY <1>7, <1>9, <1>10, <1>11, <1>12, Zenon DEF Parts

LEMMA OnPropertyChangedKeeps ==
  ASSUME IInv, Parts, NEW s \in Streams, OnPropertyChanged(s)
  PROVE  Parts'
<1>1. /\ alive /\ cmd = "set" /\ pc[R] = "idle" /\ s \in rest
      /\ rest' = rest \ {s} /\ Call(R, "publish", s)
      /\ UNCHANGED <<value, slots, subs, cmd, selected, changed, signals,
                     asked, history>>
  BY Zenon DEF OnPropertyChanged
<1>2. UNCHANGED <<value, slots, subs, cmd, selected, changed, signals, asked,
                  told, seen>>
  BY <1>1, Zenon DEF history
<1>3. /\ UNCHANGED <<streams, bound, alive>>
      /\ pc'[R] # "idle" /\ op'[R] = "publish"
      /\ stream'[R] = s /\ wire'[R] = {}
  BY <1>1, CallEffect, ThreadsAssumption DEF R
<1>4. s \in subs /\ s \notin rest' /\ \A u \in rest' : u \in rest
  BY <1>1, Zenon DEF Parts, AppTypes
<1>5. AppTypes'
  <2>1. rest' \subseteq subs'
    BY <1>1, <1>2, Zenon DEF Parts, AppTypes
  <2> QED
    BY <1>2, <2>1, Zenon DEF Parts, AppTypes
<1>6. CommandInv'
  BY <1>1, <1>2, <1>3, <1>4 DEF Parts, CommandInv, R
<1>7. SubsInv'
  BY <1>2, <1>3, Zenon DEF Parts, SubsInv
<1>8. ToldInv'
  BY <1>1, <1>2, <1>3, <1>4 DEF Parts, ToldInv, R
<1>9. SeenInv'
  <2>1. \A u \in Streams \cup subs : Pending(u) => Pending(u)'
    BY <1>1, <1>3, Zenon DEF Pending, R
  <2> QED
    BY <1>1, <1>2, <1>3, <2>1, Zenon DEF Parts, SeenInv
<1> QED
  BY <1>5, <1>6, <1>7, <1>8, <1>9, Zenon DEF Parts

LEMMA SlotReturnsKeeps ==
  ASSUME IInv, Parts, SlotReturns
  PROVE  Parts'
<1>1. signals = 0
  BY Zenon DEF Parts, AppTypes
<1>2. /\ pc[R] = "idle" /\ rest = {}
      /\ cmd' = "none" /\ changed' = None /\ UNCHANGED <<signals, rest>>
      /\ UNCHANGED <<vars, value, slots, subs, selected, asked, history>>
  BY <1>1 DEF SlotReturns
<1>3. UNCHANGED <<value, slots, subs, selected, asked, told, seen, alive, streams>>
  BY <1>2, Zenon DEF history, vars
<1>4. AppTypes'
  BY <1>2, <1>3, Zenon DEF Parts, AppTypes
<1>5. CommandInv' /\ ToldInv'
  BY <1>2 DEF CommandInv, ToldInv
<1>6. SubsInv'
  BY <1>3, Zenon DEF Parts, SubsInv
<1>7. SeenInv'
  <2>1. \A s \in subs : ~Pending(s)
    BY <1>2, Zenon DEF Pending
  <2> QED
    BY <1>3, <2>1, Zenon DEF Parts, SeenInv
<1> QED
  BY <1>4, <1>5, <1>6, <1>7, Zenon DEF Parts

(* A step of the Publish that a SetterCommand waits for.                   *)
LEMMA TellKeeps ==
  ASSUME IInv, SocketInv, Parts, cmd = "set", StoreStep(R)
  PROVE  Parts'
<1> DEFINE s == stream[R]
           sends == wire'[R] # wire[R]
<1>1. /\ alive /\ Step(R)
      /\ told' = IF sends THEN [told EXCEPT ![s] = @ + 1] ELSE told
      /\ seen' = IF sends THEN [seen EXCEPT ![s][changed] = value[changed]]
                          ELSE seen
      /\ UNCHANGED <<value, slots, subs, cmd, selected, setter, asked>>
  BY Zenon DEF StoreStep
<1>2. UNCHANGED <<value, slots, subs, cmd, selected, changed, signals, rest,
                  asked>>
  BY <1>1, Zenon DEF setter
<1>3. R \in Threads /\ pc[R] # "idle"
  BY <1>1, ThreadsAssumption
  DEF R, Step, StreamExists, MakeSocket, AddStream, Listen, PublishRange,
      PublishOne
<1>4. /\ op[R] = "publish" /\ changed \in Properties
      /\ s \in subs /\ s \in Streams /\ s \notin rest
  BY <1>3, Zenon DEF Parts, AppTypes, CommandInv
<1>5. op' = op /\ stream' = stream
  BY <1>1, <1>3, StoreGrows, Zenon
<1>6. /\ UNCHANGED <<streams, bound>>
      /\ \/ wire'[R] = wire[R]
         \/ /\ pc'[R] # "idle"
            /\ \E h \in streams[s] : h \in bound /\ wire'[R] = wire[R] \cup {h}
      /\ alive' /\ pc'[R] = "idle" => wire[R] = streams[s]
  BY <1>1, <1>4, PublishStep, Zenon
<1>7. /\ wire[R] = {} => told[s] = 0
      /\ \A h \in wire[R] : h \in bound /\ h \in streams[s]
      /\ \A u \in rest : told[u] = 0
  BY <1>3, Zenon DEF Parts, ToldInv
<1>8. sends => wire[R] = {} /\ wire'[R] # {}
  <2> SUFFICES ASSUME sends PROVE wire[R] = {} /\ wire'[R] # {}
    OBVIOUS
  <2>1. PICK h \in streams[s] : h \in bound /\ wire'[R] = wire[R] \cup {h}
    BY <1>6
  <2>2. h \notin wire[R]
    BY <2>1
  <2>3. \A g \in wire[R] : g = h
    BY <1>4, <1>7, <2>1, Zenon DEF SocketInv, OneListener
  <2> QED
    BY <2>1, <2>2, <2>3
<1>9. /\ told \in [Streams -> {0, 1}]
      /\ seen \in [Streams -> [Properties -> Values]]
      /\ value \in [Properties -> Values]
      /\ asked \in [Streams -> SUBSET Properties]
      /\ subs \subseteq Streams /\ rest \subseteq subs
  BY Zenon DEF Parts, AppTypes
<1>10. /\ told' \in [Streams -> {0, 1}]
       /\ \A u \in Streams : u # s => told'[u] = told[u]
       /\ ~sends => told' = told
  <2>1. CASE ~sends
    BY <1>1, <1>9, <2>1
  <2>2. CASE sends
    <3>1. told' = [told EXCEPT ![s] = told[s] + 1] /\ told[s] = 0
      BY <1>1, <1>7, <1>8, <2>2
    <3> QED
      BY <1>4, <1>9, <2>2, <3>1
  <2> QED
    BY <2>1, <2>2
<1>11. /\ seen' \in [Streams -> [Properties -> Values]]
       /\ \A u \in Streams : \A p \in Properties :
            \/ seen'[u][p] = seen[u][p] /\ ~(sends /\ u = s /\ p = changed)
            \/ sends /\ u = s /\ p = changed /\ seen'[u][p] = value[p]
  <2>1. CASE ~sends
    BY <1>1, <1>9, <2>1
  <2>2. CASE sends
    <3>1. seen' = [seen EXCEPT ![s][changed] = value[changed]]
      BY <1>1, <2>2
    <3>2. value[changed] \in Values
      BY <1>4, <1>9
    <3> QED
      BY <1>4, <1>9, <2>2, <3>1, <3>2
  <2> QED
    BY <2>1, <2>2
<1> HIDE DEF s, sends
<1>12. AppTypes'
  BY <1>2, <1>10, <1>11, Zenon DEF Parts, AppTypes
<1>13. stream'[R] = s /\ op'[R] = "publish"
  BY <1>4, <1>5, Zenon DEF s, R
<1>14. CommandInv'
  BY <1>2, <1>4, <1>13 DEF CommandInv, R
<1>15. SubsInv'
  BY <1>2, <1>6, Zenon DEF Parts, SubsInv
<1>16. ToldInv'
  <2>1. \A u \in rest : told'[u] = 0
    BY <1>4, <1>7, <1>9, <1>10, Zenon
  <2>2. wire'[R] = {} => told'[s] = 0
    BY <1>7, <1>8, <1>10, Zenon DEF sends
  <2>3. \A h \in wire'[R] : h \in bound' /\ h \in streams'[s]
    BY <1>6, <1>7, Zenon DEF s
  <2> QED
    BY <1>2, <1>13, <2>1, <2>2, <2>3, Zenon DEF ToldInv, R
<1>17. SeenInv'
  <2> SUFFICES ASSUME alive', NEW u \in subs, NEW p \in asked[u]
               PROVE  seen'[u][p] = value[p] \/ (p = changed /\ Pending(u)')
    BY <1>2, Zenon DEF SeenInv
  <2>1. u \in Streams /\ p \in Properties
    BY <1>9
  <2>2. seen[u][p] = value[p] \/ (p = changed /\ Pending(u))
    BY <1>1, Zenon DEF Parts, SeenInv
  <2>3. seen[u][p] = value[p] => seen'[u][p] = value[p]
    BY <1>11, <2>1, Zenon
  <2>4. ASSUME p = changed, Pending(u)
        PROVE  seen'[u][p] = value[p] \/ Pending(u)'
    <3>1. CASE u \in rest
      BY <1>2, <3>1, Zenon DEF Pending
    <3>2. CASE u = s /\ wire[R] = {} /\ sends
      BY <1>11, <2>1, <2>4, <3>2, Zenon
    <3>3. CASE u = s /\ wire[R] = {} /\ ~sends
      <4>1. wire'[R] = {}
        BY <3>3, Zenon DEF sends
      <4>2. streams[s] # {}
        BY <1>4, Zenon DEF Parts, SubsInv
      <4>3. pc'[R] # "idle"
        BY <1>6, <3>3, <4>2, Zenon DEF s
      <4> QED
        BY <1>13, <3>3, <4>1, <4>3, Zenon DEF Pending, R
    <3> QED
      BY <2>4, <3>1, <3>2, <3>3, Zenon DEF Pending, s
  <2> QED
    BY <2>2, <2>3, <2>4, Zenon
<1> QED
  BY <1>12, <1>14, <1>15, <1>16, <1>17, Zenon DEF Parts

LEMMA StoreStepKeeps ==
  ASSUME IInv, SocketInv, Parts, NEW t \in Threads, StoreStep(t)
  PROVE  Parts'
<1> DEFINE sends == t = R /\ cmd = "set" /\ wire'[R] # wire[R]
<1>1. /\ alive /\ Step(t)
      /\ ~sends => told' = told /\ seen' = seen
      /\ UNCHANGED <<value, slots, subs, cmd, selected, setter, asked>>
  BY Zenon DEF StoreStep
<1>2. ~sends => AppUnchanged
  BY <1>1, Zenon DEF setter, AppUnchanged
<1>3. /\ op' = op /\ stream' = stream
      /\ \A s \in Streams : \A h \in streams[s] : h \in streams'[s]
      /\ \A h \in bound : h \in bound'
  BY <1>1, StoreGrows, Zenon
<1>4. CASE t # R
  <2>1. AppUnchanged
    BY <1>2, <1>4
  <2>2. pc'[R] = pc[R] /\ wire'[R] = wire[R] /\ alive' = alive
    BY <1>1, <1>4, OtherThreadStep, Zenon
  <2>3. op'[R] = op[R] /\ stream'[R] = stream[R]
    BY <1>3, Zenon DEF R
  <2> QED
    BY <1>3, <2>1, <2>2, <2>3, Bystander, Zenon
<1>5. CASE cmd = "none"
  <2>1. AppUnchanged
    BY <1>2, <1>5
  <2> QED
    BY <1>1, <1>3, <1>5, <2>1, Bystander, Zenon
<1>6. CASE t = R /\ cmd = "create"
  <2>1. AppUnchanged
    BY <1>2, <1>6
  <2>2. AppTypes'
    BY <2>1, TypesUnchanged, Zenon DEF Parts
  <2>3. op[R] = "create" /\ stream[R] \in Streams
    BY <1>6, Zenon DEF Parts, CommandInv
  <2>4. alive' /\ pc'[R] = "idle" => streams'[stream[R]] # {}
    BY <1>1, <1>6, <2>3, CreateStep, Zenon
  <2>5. CommandInv'
    <3>1. cmd' = "create" /\ op'[R] = op[R] /\ stream'[R] = stream[R]
      BY <1>3, <1>6, <2>1, Zenon DEF AppUnchanged, R
    <3> QED
      BY <2>3, <2>4, <3>1 DEF CommandInv, R
  <2>6. SubsInv'
    <3>1. subs \subseteq Streams
      BY Zenon DEF Parts, AppTypes
    <3> QED
      BY <1>3, <2>1, <3>1, Zenon DEF Parts, SubsInv, AppUnchanged
  <2>7. ToldInv'
    BY <1>6, <2>1 DEF ToldInv, AppUnchanged
  <2>8. SeenInv'
    BY <1>1, <1>6, <2>1 DEF Parts, SeenInv, AppUnchanged
  <2> QED
    BY <2>2, <2>5, <2>6, <2>7, <2>8, Zenon DEF Parts
<1>7. CASE t = R /\ cmd = "set"
  BY <1>7, TellKeeps, Zenon
<1>8. cmd \in {"none", "create", "set"}
  BY Zenon DEF Parts, AppTypes
<1> QED
  BY <1>4, <1>5, <1>6, <1>7, <1>8, Zenon

LEMMA OtherCallKeeps ==
  ASSUME IInv, Parts, NEW t \in Threads, NEW s \in Streams,
         NEW o \in {"ensure", "create", "publish"}, OtherCall(t, o, s)
  PROVE  Parts'
<1>1. t # R /\ Call(t, o, s) /\ AppUnchanged
  BY AppVarsUnchanged, Zenon DEF OtherCall
<1>2. /\ UNCHANGED <<streams, bound, alive>>
      /\ pc'[R] = pc[R] /\ op'[R] = op[R]
      /\ stream'[R] = stream[R] /\ wire'[R] = wire[R]
  BY <1>1, CallEffect, Zenon
<1> QED
  BY <1>1, <1>2, Bystander, Zenon

LEMMA PartsStep ==
  ASSUME IInv, SocketInv, Parts, [AppNext]_allVars
  PROVE  Parts'
<1>1. CASE RefuseSetter
  <2>1. /\ cmd = "none" /\ alive /\ AppUnchanged
        /\ UNCHANGED <<streams, bound>>
    BY <1>1, AppVarsUnchanged, Zenon DEF RefuseSetter, Free, EndProcess
  <2> QED
    BY <2>1, Bystander, Zenon
<1>2. CASE UNCHANGED allVars
  <2>1. UNCHANGED <<pc, op, stream, wire, streams, bound, alive>> /\ AppUnchanged
    BY <1>2, AppVarsUnchanged, Zenon DEF allVars, vars, threadVars
  <2>2. /\ pc'[R] = pc[R] /\ op'[R] = op[R]
        /\ stream'[R] = stream[R] /\ wire'[R] = wire[R]
    BY <2>1, Zenon DEF R
  <2> QED
    BY <2>1, <2>2, Bystander, Zenon
<1> QED
  BY <1>1, <1>2, CreateStreamKeeps, CreateReactiveKeeps, AddReactiveKeeps,
     SetValueKeeps, OnPropertyChangedKeeps, SlotReturnsKeeps, StoreStepKeeps,
     OtherCallKeeps, Zenon DEF AppNext

LEMMA AppInitially == AppInit => AppInv
<1> SUFFICES ASSUME AppInit PROVE AppInv
  OBVIOUS
<1>1. IInv /\ SocketInv
  BY InitIInv, SocketInit, Zenon DEF AppInit
<1>2. AppTypes
  <2>1. /\ slots \in [Properties -> {0, 1}] /\ told \in [Streams -> {0, 1}]
        /\ asked \in [Streams -> SUBSET Properties]
    BY DEF AppInit
  <2>2. /\ value \in [Properties -> Values]
        /\ seen \in [Streams -> [Properties -> Values]]
    BY AppAssumption DEF AppInit
  <2> QED
    BY <2>1, <2>2, Zenon DEF AppInit, AppTypes
<1>3. CommandInv /\ SubsInv /\ ToldInv /\ SeenInv
  BY DEF AppInit, CommandInv, SubsInv, ToldInv, SeenInv
<1> QED
  BY <1>1, <1>2, <1>3, Zenon DEF AppInv

LEMMA AppInvariant ==
  ASSUME OneCreator PROVE AppSpec => []AppInv
<1>1. AppInv /\ [AppNext]_allVars => AppInv'
  <2> SUFFICES ASSUME AppInv, [AppNext]_allVars PROVE AppInv'
    OBVIOUS
  <2>1. [Next]_vars
    BY AppStepIsStoreStep, Zenon
  <2>2. IInv /\ SocketInv /\ Parts
    BY Zenon DEF AppInv, Parts
  <2>3. IInv' /\ SocketInv'
    BY <2>1, <2>2, OneCreator, NextIInv, SocketStep, Zenon
  <2>4. Parts'
    BY <2>2, PartsStep, Zenon
  <2> QED
    BY <2>3, <2>4, Zenon DEF AppInv, Parts
<1> QED
  BY <1>1, AppInitially, PTL DEF AppSpec

-----------------------------------------------------------------------------
(* The example server uses the store as EventStore says: whatever commands *)
(* arrive, what it does to the store is a behaviour of EventStore.         *)
THEOREM AppUsesStore == AppSpec => Spec
<1>1. AppInit => Init
  BY DEF AppInit
<1> QED
  BY <1>1, AppStepIsStoreStep, PTL DEF AppSpec, Spec

(* So what holds of the store holds in the server: CreateStream commands   *)
(* that were answered listen, no handler is deaf, and the Publish of a     *)
(* command handler reaches its stream.                                     *)
THEOREM AppKeepsStorePromises ==
  ASSUME OneCreator
  PROVE  AppSpec => [](/\ AnsweredMeansListening /\ NoDeafHandler
                       /\ PublishReachesStream)
<1>1. Spec => []AnsweredMeansListening
  BY AnsweredStreamsListen, OneCreator
<1>2. Spec => []NoDeafHandler
  BY HandlersListen, OneCreator
<1>3. Spec => []PublishReachesStream
  BY HandlerPublishReachesStream, OneCreator
<1> QED
  BY <1>1, <1>2, <1>3, AppUsesStore, PTL

(* The variables of the example server keep their types.                   *)
THEOREM AppTypesHold ==
  ASSUME OneCreator PROVE AppSpec => []AppTypeOK
<1>1. AppInv => AppTypeOK
  <2> SUFFICES ASSUME AppInv PROVE AppTypeOK
    OBVIOUS
  <2>1. TypeOK /\ AppTypes
    BY Zenon DEF AppInv, IInv
  <2>2. slots \in [Properties -> Nat] /\ told \in [Streams -> Nat]
    <3>1. slots \in [Properties -> {0, 1}] /\ told \in [Streams -> {0, 1}]
      BY <2>1, Zenon DEF AppTypes
    <3> QED
      BY <3>1
  <2>3. signals \in Nat
    <3>1. signals = 0
      BY <2>1, Zenon DEF AppTypes
    <3> QED
      BY <3>1
  <2> QED
    BY <2>1, <2>2, <2>3, Zenon DEF AppTypeOK, AppTypes
<1> QED
  BY <1>1, AppInvariant, OneCreator, PTL

(* A change of a property is published at most once over each stream, for  *)
(* any number of subscriptions that asked for it.                          *)
THEOREM ChangesToldOnce ==
  ASSUME OneCreator PROVE AppSpec => []ToldOnce
<1>1. AppInv => ToldOnce
  <2> SUFFICES ASSUME AppInv, NEW s \in Streams PROVE told[s] <= 1
    BY Zenon DEF ToldOnce
  <2>1. told \in [Streams -> {0, 1}]
    BY Zenon DEF AppInv, AppTypes
  <2> QED
    BY <2>1
<1> QED
  BY <1>1, AppInvariant, OneCreator, PTL

(* Between commands every reactive subscription has been told the value of *)
(* every property it asked for, whatever publishing threads do meanwhile.  *)
THEOREM SubscribersStayCurrent ==
  ASSUME OneCreator PROVE AppSpec => []SubscribersCurrent
<1>1. AppInv => SubscribersCurrent
  BY DEF AppInv, SeenInv, SubscribersCurrent, Free
<1> QED
  BY <1>1, AppInvariant, OneCreator, PTL
=============================================================================
