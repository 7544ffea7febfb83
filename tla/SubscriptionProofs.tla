------------------------- MODULE SubscriptionProofs -------------------------
(***************************************************************************)
(* Theorems about Subscription, for any number of subscriptions, events    *)
(* and connections and any queue size.                                     *)
(***************************************************************************)
EXTENDS Subscription, TLAPS

(***************************************************************************)
(* The inductive invariant.  UserInv ties the steps of the user thread to  *)
(* what it holds: a subscription has a receive thread only from Spawn on,  *)
(* and nothing happens to one that is gone.  LateInv says why at most one  *)
(* event is late: after the first the thread is before its check again,    *)
(* and the check lets nothing past.  QuietInv says what the socket's       *)
(* _running tells of its thread: it is false of a thread only while the    *)
(* destructor that cleared it waits for the thread, and afterwards.        *)
(***************************************************************************)
UserInv ==
  /\ upc \in {"dial", "spawn"} => usub \in Subs /\ st[usub] = "new"
  /\ upc \in {"release", "stop", "join"} =>
       usub \in Subs /\ st[usub] \in {"new", "open", "stopped"}
  /\ upc = "join" => st[usub] # "new"
  /\ \A s \in Subs : tpc[s] = "none" <=> st[s] \in {"new", "failed"}

LateInv ==
  \A s \in Subs :
    /\ tpc[s] = "none" => late[s] = 0
    /\ running[s] => late[s] = 0
    /\ late[s] \in {0, 1}
    /\ late[s] = 1 => tpc[s] \notin {"read", "handle"}

QuietInv ==
  \A s \in Subs :
    /\ st[s] = "gone" => tpc[s] = "ended"
    /\ tpc[s] # "none" /\ ~sockRunning[s] =>
         \/ st[s] = "gone"
         \/ usub = s /\ upc \in {"join", "crashed"}
    /\ sockRunning[s] => tpc[s] # "none"

GotInv ==
  \A s \in Subs : tpc[s] \in {"check", "read", "handle"} => got[s] \in Events

IInv == TypeOK /\ UserInv /\ LateInv /\ QuietInv /\ GotInv

LEMMA EnqueueType ==
  ASSUME NEW q \in Seq(Events), Len(q) <= QueueSize, NEW e \in Events
  PROVE  Enqueue(q, e) \in Seq(Events) /\ Len(Enqueue(q, e)) <= QueueSize
<1>1. CASE Len(q) = QueueSize
  <2>1. Tail(q) \in Seq(Events) /\ Len(Tail(q)) = Len(q) - 1
    BY <1>1, SizesAssumption
  <2> QED
    BY <1>1, <2>1, SizesAssumption DEF Enqueue
<1>2. CASE Len(q) # QueueSize
  BY <1>2, SizesAssumption DEF Enqueue
<1> QED
  BY <1>1, <1>2

LEMMA InitIInv == Init => IInv
  BY SizesAssumption
  DEF Init, IInv, TypeOK, UserInv, LateInv, QuietInv, GotInv, Events

LEMMA NextIInv == IInv /\ [Next]_vars => IInv'
<1> SUFFICES ASSUME IInv, [Next]_vars PROVE IInv'
  OBVIOUS
<1> USE SizesAssumption, NoneAssumption DEF IInv
<1>1. ASSUME NEW s \in Subs, Subscribe(s) PROVE IInv'
  <2> DEFINE Refused ==
               /\ st' = [st EXCEPT ![s] = "failed"]
               /\ UNCHANGED <<upc, usub, running, holds>>
             Made ==
               /\ upc' = "dial" /\ usub' = s
               /\ running' = [running EXCEPT ![s] = TRUE]
               /\ holds' = [holds EXCEPT ![s] = TRUE]
               /\ UNCHANGED st
  <2>0. /\ upc = "idle" /\ st[s] = "new"
        /\ Refused \/ Made
    BY <1>1, Zenon DEF Subscribe
  <2>1. TypeOK'
    <3>1. UNCHANGED <<client, dialed, sockRunning, netVars, threadVars>>
      BY <1>1, Zenon DEF Subscribe
    <3>2. /\ upc' \in {upc, "dial"} /\ usub' \in Subs \cup {None}
          /\ running' \in [Subs -> BOOLEAN] /\ holds' \in [Subs -> BOOLEAN]
          /\ st' \in [Subs -> {"new", "open", "stopped", "failed", "gone"}]
      <4>1. CASE Refused
        BY <4>1 DEF TypeOK
      <4>2. CASE Made
        BY <4>2 DEF TypeOK
      <4> QED
        BY <2>0, <4>1, <4>2, Zenon
    <3> QED
      BY <3>1, <3>2, Zenon DEF TypeOK, netVars, threadVars
  <2>2. UNCHANGED <<tpc, late, got, sockRunning, dialed>>
    BY <1>1, Zenon DEF Subscribe, threadVars
  <2>3. CASE Refused
    <3>1. UserInv' /\ QuietInv'
      BY <2>0, <2>2, <2>3 DEF TypeOK, UserInv, QuietInv
    <3>2. LateInv' /\ GotInv'
      BY <2>2, <2>3, Zenon DEF LateInv, GotInv
    <3> QED
      BY <2>1, <3>1, <3>2, Zenon
  <2>4. CASE Made
    <3>1. UserInv' /\ QuietInv'
      BY <2>0, <2>2, <2>4 DEF UserInv, QuietInv
    <3>2. late[s] = 0
      BY <2>0 DEF UserInv, LateInv
    <3>3. \A x \in Subs : x # s => running'[x] = running[x]
      BY <2>4 DEF TypeOK
    <3>4. LateInv' /\ GotInv'
      BY <2>2, <3>2, <3>3, Zenon DEF LateInv, GotInv
    <3> QED
      BY <2>1, <3>1, <3>4, Zenon
  <2> QED
    BY <2>0, <2>3, <2>4, Zenon
<1>2. ASSUME Dial PROVE IInv'
  <2>1. TypeOK'
    BY <1>2 DEF Dial, TypeOK, UserInv, userVars, netVars, threadVars
  <2>2. UserInv' /\ LateInv' /\ QuietInv' /\ GotInv'
    BY <1>2
    DEF Dial, TypeOK, UserInv, LateInv, QuietInv, GotInv, userVars,
        netVars, threadVars
  <2> QED
    BY <2>1, <2>2
<1>3. ASSUME Spawn PROVE IInv'
  <2>1. TypeOK'
    BY <1>3 DEF Spawn, TypeOK, UserInv, userVars, netVars, threadVars
  <2>2. UserInv' /\ LateInv' /\ QuietInv' /\ GotInv'
    BY <1>3
    DEF Spawn, TypeOK, UserInv, LateInv, QuietInv, GotInv, userVars,
        netVars, threadVars
  <2> QED
    BY <2>1, <2>2
<1>4. ASSUME NEW s \in Subs, Unsubscribe(s) PROVE IInv'
  <2>1. TypeOK'
    BY <1>4
    DEF Unsubscribe, ParentUnsubscribes, TypeOK, UserInv, userVars,
        netVars, threadVars
  <2>2. UserInv' /\ LateInv' /\ QuietInv' /\ GotInv'
    BY <1>4
    DEF Unsubscribe, ParentUnsubscribes, TypeOK, UserInv, LateInv,
        QuietInv, GotInv, userVars, netVars, threadVars
  <2> QED
    BY <2>1, <2>2
<1>5. ASSUME NEW s \in Subs, Destroy(s) PROVE IInv'
  <2>1. TypeOK'
    BY <1>5 DEF Destroy, TypeOK, UserInv, userVars, netVars, threadVars
  <2>2. UserInv' /\ LateInv' /\ QuietInv' /\ GotInv'
    BY <1>5
    DEF Destroy, TypeOK, UserInv, LateInv, QuietInv, GotInv, userVars,
        netVars, threadVars
  <2> QED
    BY <2>1, <2>2
<1>6. ASSUME Release PROVE IInv'
  <2>1. TypeOK'
    BY <1>6 DEF Release, TypeOK, UserInv, userVars, netVars, threadVars
  <2>2. UserInv' /\ LateInv' /\ QuietInv' /\ GotInv'
    BY <1>6
    DEF Release, TypeOK, UserInv, LateInv, QuietInv, GotInv, userVars,
        netVars, threadVars
  <2> QED
    BY <2>1, <2>2
<1>7. ASSUME SocketStop PROVE IInv'
  <2>0. upc = "stop" /\ UserInv /\ TypeOK
    BY <1>7 DEF SocketStop
  <2>1. CASE sockRunning[usub]
    <3>1. /\ upc' = "join"
          /\ sockRunning' = [sockRunning EXCEPT ![usub] = FALSE]
          /\ UNCHANGED <<usub, st, client, holds, dialed, running, netVars,
                         threadVars>>
      BY <1>7, <2>1, Zenon DEF SocketStop
    <3>2. TypeOK' /\ LateInv' /\ GotInv'
      BY <3>1 DEF TypeOK, LateInv, GotInv, netVars, threadVars
    <3>3. UserInv' /\ QuietInv'
      BY <2>0, <2>1, <3>1 DEF TypeOK, UserInv, QuietInv, threadVars
    <3> QED
      BY <3>2, <3>3
  <2>2. CASE ~sockRunning[usub]
    <3>1. Closed /\ UNCHANGED sockRunning
      BY <1>7, <2>2, Zenon DEF SocketStop
    <3>2. st[usub] = "new" /\ tpc[usub] = "none" /\ usub \in Subs
      BY <2>0, <2>2 DEF UserInv, QuietInv
    <3>3. TypeOK'
      BY <2>0, <3>1, <3>2 DEF Closed, TypeOK, threadVars
    <3>4. UserInv' /\ LateInv' /\ QuietInv' /\ GotInv'
      BY <2>0, <3>1, <3>2
      DEF Closed, TypeOK, UserInv, LateInv, QuietInv, GotInv, threadVars
    <3> QED
      BY <3>3, <3>4
  <2> QED
    BY <2>1, <2>2
<1>8. ASSUME Join PROVE IInv'
  <2>1. TypeOK'
    BY <1>8 DEF Join, Closed, TypeOK, UserInv, userVars, netVars, threadVars
  <2>2. UserInv' /\ LateInv' /\ QuietInv' /\ GotInv'
    BY <1>8
    DEF Join, Closed, TypeOK, UserInv, LateInv, QuietInv, GotInv, userVars,
        netVars, threadVars
  <2> QED
    BY <2>1, <2>2
<1>9. ASSUME DestroyClient PROVE IInv'
  <2>1. TypeOK'
    BY <1>9 DEF DestroyClient, TypeOK, UserInv, userVars, netVars, threadVars
  <2>2. UserInv' /\ LateInv' /\ QuietInv' /\ GotInv'
    BY <1>9
    DEF DestroyClient, TypeOK, UserInv, LateInv, QuietInv, GotInv,
        userVars, netVars, threadVars
  <2> QED
    BY <2>1, <2>2
<1>10. ASSUME NEW s \in Subs, Loop(s) PROVE IInv'
  <2>1. TypeOK'
    BY <1>10
    DEF Loop, ThreadStep, TypeOK, UserInv, userVars, netVars, threadVars
  <2>2. UserInv' /\ LateInv' /\ QuietInv' /\ GotInv'
    BY <1>10
    DEF Loop, ThreadStep, TypeOK, UserInv, LateInv, QuietInv, GotInv,
        userVars, netVars, threadVars
  <2> QED
    BY <2>1, <2>2
<1>11. ASSUME NEW s \in Subs, Recv(s) PROVE IInv'
  <2>1. TypeOK'
    BY <1>11
    DEF Recv, ThreadStep, TypeOK, UserInv, userVars, netVars, threadVars
  <2>2. UserInv' /\ LateInv' /\ QuietInv' /\ GotInv'
    BY <1>11
    DEF Recv, ThreadStep, TypeOK, UserInv, LateInv, QuietInv, GotInv,
        userVars, netVars, threadVars
  <2> QED
    BY <2>1, <2>2
<1>12. ASSUME NEW s \in Subs, RecvTimeout(s) PROVE IInv'
  <2>1. TypeOK'
    BY <1>12
    DEF RecvTimeout, ThreadStep, TypeOK, UserInv, userVars, netVars,
        threadVars
  <2>2. UserInv' /\ LateInv' /\ QuietInv' /\ GotInv'
    BY <1>12
    DEF RecvTimeout, ThreadStep, TypeOK, UserInv, LateInv, QuietInv,
        GotInv, userVars, netVars, threadVars
  <2> QED
    BY <2>1, <2>2
<1>13. ASSUME NEW s \in Subs, Check(s) PROVE IInv'
  <2>1. TypeOK'
    BY <1>13
    DEF Check, ThreadStep, TypeOK, UserInv, userVars, netVars, threadVars
  <2>2. UserInv' /\ LateInv' /\ QuietInv' /\ GotInv'
    BY <1>13
    DEF Check, ThreadStep, TypeOK, UserInv, LateInv, QuietInv, GotInv,
        userVars, netVars, threadVars
  <2> QED
    BY <2>1, <2>2
<1>14. ASSUME NEW s \in Subs, Read(s) PROVE IInv'
  <2>1. TypeOK'
    BY <1>14
    DEF Read, ThreadStep, TypeOK, UserInv, userVars, netVars, threadVars
  <2>2. UserInv' /\ LateInv' /\ QuietInv' /\ GotInv'
    BY <1>14
    DEF Read, ThreadStep, TypeOK, UserInv, LateInv, QuietInv, GotInv,
        userVars, netVars, threadVars
  <2> QED
    BY <2>1, <2>2
<1>15. ASSUME NEW s \in Subs, Handle(s) PROVE IInv'
  <2>a. got[s] \in Events /\ handled[s] \in Seq(Events) /\ late[s] + 1 \in Nat
    BY <1>15 DEF Handle, TypeOK, GotInv
  <2>b. Append(handled[s], got[s]) \in Seq(Events)
    BY <2>a
  <2>c. /\ handled' \in [Subs -> Seq(Events)]
        /\ late' \in [Subs -> Nat]
    <3>1. CASE got[s] \in Unmapped
      BY <1>15, <3>1 DEF Handle, TypeOK
    <3>2. CASE got[s] \notin Unmapped
      <4>1. handled' = [handled EXCEPT ![s] = Append(handled[s], got[s])]
        BY <1>15, <3>2 DEF Handle
      <4>2. handled' \in [Subs -> Seq(Events)]
        BY <4>1, <2>b DEF TypeOK
      <4>3. late' \in [Subs -> Nat]
        BY <1>15, <3>2, <2>a DEF Handle, TypeOK
      <4> QED
        BY <4>2, <4>3
    <3> QED
      BY <3>1, <3>2
  <2>1. TypeOK'
    BY <1>15, <2>c
    DEF Handle, ThreadStep, TypeOK, userVars, netVars, threadVars
  <2>2. UserInv' /\ LateInv' /\ QuietInv' /\ GotInv'
    BY <1>15
    DEF Handle, ThreadStep, TypeOK, UserInv, LateInv, QuietInv, GotInv,
        userVars, netVars, threadVars
  <2> QED
    BY <2>1, <2>2
<1>17. ASSUME NEW s \in Subs, Restart(s) PROVE IInv'
  <2>1. TypeOK'
    BY <1>17 DEF Restart, TypeOK, UserInv, userVars, netVars, threadVars
  <2>2. UserInv' /\ LateInv' /\ QuietInv' /\ GotInv'
    BY <1>17
    DEF Restart, TypeOK, UserInv, LateInv, QuietInv, GotInv, userVars,
        netVars, threadVars
  <2> QED
    BY <2>1, <2>2
<1>21. ASSUME NEW s \in Subs, HandlerUnsubscribes(s) PROVE IInv'
  <2>a. got[s] \in Events /\ handled[s] \in Seq(Events) /\ late[s] + 1 \in Nat
    BY <1>21 DEF HandlerUnsubscribes, ParentUnsubscribes, TypeOK, GotInv
  <2>b. Append(handled[s], got[s]) \in Seq(Events)
    BY <2>a
  <2>c. handled' = [handled EXCEPT ![s] = Append(handled[s], got[s])]
    BY <1>21 DEF HandlerUnsubscribes
  <2>d. handled' \in [Subs -> Seq(Events)]
    BY <2>b, <2>c DEF TypeOK
  <2>e. late' \in [Subs -> Nat]
    BY <1>21, <2>a DEF HandlerUnsubscribes, ParentUnsubscribes, TypeOK
  <2>1. TypeOK'
    BY <1>21, <2>d, <2>e
    DEF HandlerUnsubscribes, ParentUnsubscribes, TypeOK, userVars, netVars,
        threadVars
  <2>2. UserInv' /\ LateInv' /\ QuietInv' /\ GotInv'
    BY <1>21
    DEF HandlerUnsubscribes, ParentUnsubscribes, TypeOK, UserInv, LateInv,
        QuietInv, GotInv, userVars, netVars, threadVars
  <2> QED
    BY <2>1, <2>2
<1>16. ASSUME NEW s \in Subs, Attach(s) PROVE IInv'
  <2>1. TypeOK'
    BY <1>16 DEF Attach, TypeOK, UserInv, userVars, netVars, threadVars
  <2>2. UserInv' /\ LateInv' /\ QuietInv' /\ GotInv'
    BY <1>16
    DEF Attach, TypeOK, UserInv, LateInv, QuietInv, GotInv, userVars,
        netVars, threadVars
  <2> QED
    BY <2>1, <2>2
<1>18. ASSUME NEW broken, Publish(broken) PROVE IInv'
  <2>0. \A s \in Subs : /\ queue'[s] \in Seq(Events)
                         /\ Len(queue'[s]) <= QueueSize
    <3> SUFFICES ASSUME NEW s \in Subs
                 PROVE  /\ queue'[s] \in Seq(Events)
                        /\ Len(queue'[s]) <= QueueSize
      OBVIOUS
    <3>1. published + 1 \in Events
      BY <1>18 DEF Publish, TypeOK, Events
    <3> QED
      BY <1>18, <3>1, EnqueueType DEF Publish, TypeOK
  <2>1. TypeOK'
    BY <1>18, <2>0 DEF Publish, TypeOK, userVars, threadVars
  <2>2. UserInv' /\ LateInv' /\ QuietInv' /\ GotInv'
    BY <1>18
    DEF Publish, TypeOK, UserInv, LateInv, QuietInv, GotInv, userVars,
        netVars, threadVars
  <2> QED
    BY <2>1, <2>2
<1>19. CASE UNCHANGED vars
  BY <1>19
  DEF vars, userVars, netVars, threadVars, TypeOK, UserInv, LateInv,
      QuietInv, GotInv
<1> QED
  BY <1>1, <1>2, <1>3, <1>4, <1>5, <1>6, <1>7, <1>8, <1>9, <1>10, <1>11,
     <1>12, <1>13, <1>14, <1>15, <1>16, <1>18, <1>19, <1>17, <1>21
  DEF Next, UserCalls, UserFinishes, ReceiveThread

(* Every state of every behaviour satisfies IInv.                          *)
THEOREM Inductive == Spec => []IInv
<1>1. Init => IInv
  BY InitIInv
<1>2. IInv /\ [Next]_vars => IInv'
  BY NextIInv
<1> QED
  BY <1>1, <1>2, PTL DEF Spec

(* The variables of a subscription keep their types, and no SUB queue      *)
(* holds more than its capacity.                                           *)
THEOREM TypeCorrect == Spec => []TypeOK
<1>1. IInv => TypeOK
  BY DEF IInv
<1> QED
  BY <1>1, Inductive, PTL

(* After Unsubscribe or the destructor's Stop the handler gets at most one *)
(* more event, whatever the two threads do.                                *)
THEOREM UnsubscribeTakesEffect == Spec => []AtMostOneLate
<1>1. IInv => AtMostOneLate
  BY DEF IInv, LateInv, AtMostOneLate
<1> QED
  BY <1>1, Inductive, PTL

(* The flag by which ~NngSubscribeSocket decides whether to wait for its   *)
(* thread is right: when it is false there is no thread, and no thread     *)
(* outlives its socket, however the user, the handler and the threads      *)
(* interleave.                                                             *)
THEOREM NoThreadIsAbandoned == Spec => []NoThreadAbandoned
<1>1. IInv => NoThreadAbandoned
  BY DEF IInv, TypeOK, UserInv, QuietInv, NoThreadAbandoned
<1> QED
  BY <1>1, Inductive, PTL

-----------------------------------------------------------------------------
(***************************************************************************)
(* Order.  What the handler got is below what the receive thread has in    *)
(* hand, that is below what is in the queue, and all of it was published.  *)
(***************************************************************************)
InHand(s) == tpc[s] \in {"check", "read", "handle"}

Ordered(s) ==
  /\ Increasing(queue[s]) /\ Increasing(handled[s])
  /\ \A j \in 1 .. Len(queue[s]) : queue[s][j] <= published
  /\ \A i \in 1 .. Len(handled[s]) :
       /\ handled[s][i] <= published
       /\ \A j \in 1 .. Len(queue[s]) : handled[s][i] < queue[s][j]
  /\ InHand(s) =>
       /\ got[s] <= published
       /\ \A i \in 1 .. Len(handled[s]) : handled[s][i] < got[s]
       /\ \A j \in 1 .. Len(queue[s]) : got[s] < queue[s][j]

OrderInv == \A s \in Subs : Ordered(s)

LEMMA AppendElements ==
  ASSUME NEW S, NEW q \in Seq(S), NEW e \in S
  PROVE  /\ Append(q, e) \in Seq(S)
         /\ Len(Append(q, e)) = Len(q) + 1
         /\ \A i \in 1 .. Len(q) : Append(q, e)[i] = q[i]
         /\ Append(q, e)[Len(q) + 1] = e
  OBVIOUS

LEMMA TailElements ==
  ASSUME NEW S, NEW q \in Seq(S), q # <<>>
  PROVE  /\ Tail(q) \in Seq(S)
         /\ Len(Tail(q)) = Len(q) - 1
         /\ \A i \in 1 .. Len(Tail(q)) : Tail(q)[i] = q[i + 1]
         /\ Len(q) \in Nat \ {0}
         /\ Head(q) = q[1]
  OBVIOUS

LEMMA EventsAreNumbers == Events \subseteq Nat
  BY SizesAssumption DEF Events

LEMMA IncreasingAppend ==
  ASSUME NEW q \in Seq(Events), NEW e \in Events, Increasing(q),
         \A i \in 1 .. Len(q) : q[i] < e
  PROVE  Increasing(Append(q, e))
<1> DEFINE r == Append(q, e)
<1>1. /\ r \in Seq(Events) /\ Len(r) = Len(q) + 1
      /\ \A i \in 1 .. Len(q) : r[i] = q[i]
      /\ r[Len(q) + 1] = e
  BY AppendElements
<1> HIDE DEF r
<1>2. Len(q) \in Nat
  OBVIOUS
<1> SUFFICES ASSUME NEW i \in 1 .. Len(r), NEW j \in 1 .. Len(r), i < j
             PROVE  r[i] < r[j]
  BY DEF Increasing, r
<1>3. i \in 1 .. Len(q)
  BY <1>1, <1>2
<1>4. CASE j \in 1 .. Len(q)
  BY <1>1, <1>3, <1>4 DEF Increasing
<1>5. CASE j = Len(q) + 1
  BY <1>1, <1>3, <1>5
<1> QED
  BY <1>1, <1>2, <1>4, <1>5

LEMMA IncreasingTail ==
  ASSUME NEW q \in Seq(Events), q # <<>>, Increasing(q)
  PROVE  /\ Increasing(Tail(q))
         /\ \A j \in 1 .. Len(Tail(q)) : Head(q) < Tail(q)[j]
<1>1. /\ Len(q) \in Nat \ {0} /\ Len(Tail(q)) = Len(q) - 1
      /\ \A i \in 1 .. Len(Tail(q)) : Tail(q)[i] = q[i + 1]
      /\ Head(q) = q[1]
  BY TailElements
<1>2. \A i \in 1 .. Len(Tail(q)) : i + 1 \in 1 .. Len(q) /\ 1 \in 1 .. Len(q)
  BY <1>1
<1> QED
  BY <1>1, <1>2 DEF Increasing

(* A queue that takes in an event above all it has stays in order, and     *)
(* what it then holds it held before, or is that event.                    *)
LEMMA EnqueueElements ==
  ASSUME NEW q \in Seq(Events), NEW e \in Events, Increasing(q),
         \A j \in 1 .. Len(q) : q[j] < e
  PROVE  /\ Increasing(Enqueue(q, e))
         /\ \A j \in 1 .. Len(Enqueue(q, e)) :
              \/ Enqueue(q, e)[j] = e
              \/ \E k \in 1 .. Len(q) : Enqueue(q, e)[j] = q[k]
<1> DEFINE p == IF Len(q) = QueueSize THEN Tail(q) ELSE q
<1>1. /\ p \in Seq(Events) /\ Increasing(p)
      /\ \A j \in 1 .. Len(p) : \E k \in 1 .. Len(q) : p[j] = q[k]
  <2>1. CASE Len(q) = QueueSize
    <3>1. q # <<>>
      BY <2>1, SizesAssumption
    <3>2. /\ Tail(q) \in Seq(Events) /\ Increasing(Tail(q))
          /\ Len(Tail(q)) = Len(q) - 1 /\ Len(q) \in Nat \ {0}
          /\ \A j \in 1 .. Len(Tail(q)) : Tail(q)[j] = q[j + 1]
      BY <3>1, TailElements, IncreasingTail
    <3>3. \A j \in 1 .. Len(Tail(q)) : j + 1 \in 1 .. Len(q)
      BY <3>2
    <3> QED
      BY <2>1, <3>2, <3>3
  <2>2. CASE Len(q) # QueueSize
    BY <2>2
  <2> QED
    BY <2>1, <2>2
<1>2. Enqueue(q, e) = Append(p, e)
  BY DEF Enqueue
<1> HIDE DEF p
<1>3. \A j \in 1 .. Len(p) : p[j] < e
  BY <1>1
<1>4. Increasing(Append(p, e))
  BY <1>1, <1>3, IncreasingAppend
<1>5. \A j \in 1 .. Len(Append(p, e)) :
        \/ Append(p, e)[j] = e
        \/ \E k \in 1 .. Len(q) : Append(p, e)[j] = q[k]
  <2>1. /\ Len(Append(p, e)) = Len(p) + 1
        /\ \A i \in 1 .. Len(p) : Append(p, e)[i] = p[i]
        /\ Append(p, e)[Len(p) + 1] = e
    BY <1>1, AppendElements
  <2>2. \A j \in 1 .. Len(Append(p, e)) : j \in 1 .. Len(p) \/ j = Len(p) + 1
    BY <2>1, <1>1
  <2> QED
    BY <1>1, <2>1, <2>2
<1> QED
  BY <1>2, <1>4, <1>5

LEMMA InitOrder == Init => OrderInv
  BY DEF Init, OrderInv, Ordered, InHand, Increasing

(* A step that leaves alone the events of u, and gives its thread none.    *)
LEMMA OrderKept ==
  ASSUME NEW u \in Subs, Ordered(u), published' = published,
         queue'[u] = queue[u], handled'[u] = handled[u],
         InHand(u)' => InHand(u) /\ got'[u] = got[u]
  PROVE  Ordered(u)'
  BY DEF Ordered, Increasing

LEMMA NextOrder == IInv /\ OrderInv /\ [Next]_vars => OrderInv'
<1> SUFFICES ASSUME IInv, OrderInv, [Next]_vars, NEW u \in Subs
             PROVE  Ordered(u)'
  BY DEF OrderInv
<1>0. Ordered(u) /\ TypeOK /\ UserInv /\ GotInv
  BY DEF OrderInv, IInv
<1> DEFINE q == queue[u]
           h == handled[u]
<1>a. /\ q \in Seq(Events) /\ h \in Seq(Events) /\ published \in Nat
      /\ \A j \in 1 .. Len(q) : q[j] \in Nat
      /\ \A i \in 1 .. Len(h) : h[i] \in Nat
  BY <1>0, EventsAreNumbers, SizesAssumption DEF TypeOK, Events
<1>1. CASE UserCalls \/ Dial \/ Spawn \/ Release \/ UNCHANGED vars
  <2>1. /\ published' = published /\ queue' = queue /\ handled' = handled
        /\ got' = got
    BY <1>1 DEF UserCalls, Subscribe, Unsubscribe, Restart, Destroy,
       DestroyClient, Dial, Spawn, Release, vars, netVars, threadVars
  <2>2. InHand(u)' => InHand(u)
    BY <1>0, <1>1 DEF UserCalls, Subscribe, Unsubscribe, Restart, Destroy,
       DestroyClient, Dial, Spawn, Release, vars, threadVars,
       InHand, TypeOK
  <2> QED
    BY <1>0, <2>1, <2>2, OrderKept
<1>2. CASE SocketStop \/ Join
  <2>1. /\ published' = published /\ handled' = handled /\ got' = got
        /\ tpc' = tpc
        /\ queue'[u] = queue[u] \/ queue'[u] = <<>>
    BY <1>0, <1>2 DEF SocketStop, Join, Closed, netVars, threadVars, TypeOK
  <2>2. CASE queue'[u] = queue[u]
    BY <1>0, <2>1, <2>2, OrderKept DEF InHand
  <2>3. CASE queue'[u] = <<>>
    BY <1>0, <2>1, <2>3 DEF Ordered, Increasing, InHand
  <2> QED
    BY <2>1, <2>2, <2>3
<1>3. CASE \E s \in Subs : Loop(s) \/ RecvTimeout(s) \/ Check(s) \/ Read(s)
  <2>1. /\ published' = published /\ queue' = queue /\ handled' = handled
    BY <1>3 DEF Loop, RecvTimeout, Check, Read, ThreadStep
  <2>2. InHand(u)' => InHand(u) /\ got'[u] = got[u]
    BY <1>0, <1>3 DEF Loop, RecvTimeout, Check, Read, ThreadStep, InHand,
       TypeOK
  <2> QED
    BY <1>0, <2>1, <2>2, OrderKept
<1>4. CASE \E s \in Subs : Recv(s)
  <2> PICK s \in Subs : Recv(s)
    BY <1>4
  <2>1. CASE s # u
    <3>1. /\ queue'[u] = queue[u] /\ got'[u] = got[u] /\ tpc'[u] = tpc[u]
          /\ handled' = handled /\ published' = published
      BY <1>0, <2>1 DEF Recv, ThreadStep, TypeOK
    <3> QED
      BY <1>0, <3>1, OrderKept DEF InHand
  <2>2. CASE s = u
    <3>1. /\ q # <<>> /\ queue'[u] = Tail(q) /\ got'[u] = Head(q)
          /\ handled'[u] = h /\ published' = published
      BY <1>0, <2>2 DEF Recv, ThreadStep, TypeOK
    <3>2. /\ Increasing(Tail(q))
          /\ \A j \in 1 .. Len(Tail(q)) : Head(q) < Tail(q)[j]
      BY <1>0, <1>a, <3>1, IncreasingTail DEF Ordered
    <3>3. /\ Len(q) \in Nat \ {0} /\ Len(Tail(q)) = Len(q) - 1
          /\ \A j \in 1 .. Len(Tail(q)) : Tail(q)[j] = q[j + 1]
          /\ Head(q) = q[1]
      BY <1>a, <3>1, TailElements
    <3>4. /\ 1 \in 1 .. Len(q)
          /\ \A j \in 1 .. Len(Tail(q)) : j + 1 \in 1 .. Len(q)
      BY <3>3
    <3> HIDE DEF q, h
    <3>5. Increasing(q) /\ Increasing(h)
          /\ (\A j \in 1 .. Len(q) : q[j] <= published)
          /\ \A i \in 1 .. Len(h) : /\ h[i] <= published
                                    /\ \A j \in 1 .. Len(q) : h[i] < q[j]
      BY <1>0 DEF Ordered, q, h
    <3> QED
      BY <3>1, <3>2, <3>3, <3>4, <3>5 DEF Ordered, Increasing
  <2> QED
    BY <2>1, <2>2
<1>5. CASE \E s \in Subs : Handle(s) \/ HandlerUnsubscribes(s)
  <2> PICK s \in Subs : Handle(s) \/ HandlerUnsubscribes(s)
    BY <1>5
  <2>1. CASE s # u
    <3>1. /\ handled'[u] = handled[u] /\ tpc'[u] = tpc[u]
          /\ queue' = queue /\ got' = got /\ published' = published
      BY <1>0, <2>1 DEF Handle, HandlerUnsubscribes, ThreadStep, netVars, TypeOK
    <3> QED
      BY <1>0, <3>1, OrderKept DEF InHand
  <2>2. CASE s = u
    <3>1. /\ InHand(u) /\ ~InHand(u)' /\ got[u] \in Events
          /\ queue'[u] = q /\ published' = published
      BY <1>0, <2>2 DEF Handle, HandlerUnsubscribes, ThreadStep, netVars, TypeOK, InHand, GotInv
    <3>2. CASE handled' = handled
      BY <1>0, <3>1, <3>2 DEF Ordered, Increasing
    <3>3. CASE handled'[u] = Append(h, got[u])
      <4> DEFINE g == got[u]
                 r == Append(h, g)
      <4>1. /\ r \in Seq(Events) /\ Len(r) = Len(h) + 1
            /\ \A i \in 1 .. Len(h) : r[i] = h[i]
            /\ r[Len(h) + 1] = g
        BY <1>a, <3>1, AppendElements
      <4>2. /\ Increasing(q) /\ Increasing(h) /\ g <= published
            /\ \A i \in 1 .. Len(h) : h[i] < g
            /\ \A j \in 1 .. Len(q) : q[j] <= published /\ g < q[j]
            /\ \A i \in 1 .. Len(h) : /\ h[i] <= published
                                      /\ \A j \in 1 .. Len(q) : h[i] < q[j]
        BY <1>0, <3>1 DEF Ordered
      <4>3. Increasing(r)
        BY <1>a, <3>1, <4>2, IncreasingAppend
      <4> HIDE DEF r, g, q, h
      <4>4. \A i \in 1 .. Len(r) : i \in 1 .. Len(h) \/ i = Len(h) + 1
        BY <4>1, <1>a
      <4>5. \A i \in 1 .. Len(r) :
              r[i] <= published /\ \A j \in 1 .. Len(q) : r[i] < q[j]
        BY <4>1, <4>2, <4>4
      <4>6. handled'[u] = r
        BY <3>3 DEF r, g
      <4> QED
        BY <3>1, <4>2, <4>3, <4>5, <4>6 DEF Ordered, Increasing
    <3> QED
      BY <1>0, <2>2, <3>2, <3>3 DEF Handle, HandlerUnsubscribes, TypeOK
  <2> QED
    BY <2>1, <2>2
<1>6. CASE \E s \in Subs : Attach(s)
  BY <1>0, <1>6, OrderKept DEF Attach, threadVars, InHand
<1>7. CASE \E broken \in SUBSET attached : Publish(broken)
  <2> PICK broken \in SUBSET attached : Publish(broken)
    BY <1>7
  <2>1. /\ published' = published + 1 /\ tpc' = tpc /\ got' = got
        /\ handled' = handled /\ published + 1 \in Events
    BY <1>0, <1>7, SizesAssumption DEF Publish, threadVars, TypeOK, Events
  <2>2. CASE u \notin attached \ broken
    <3>1. queue'[u] = q
      BY <1>7, <2>2 DEF Publish
    <3>2. InHand(u) => got[u] \in Nat
      BY <1>0, EventsAreNumbers DEF GotInv, InHand
    <3>3. /\ Increasing(q) /\ Increasing(h)
          /\ \A j \in 1 .. Len(q) : q[j] <= published
          /\ \A i \in 1 .. Len(h) : /\ h[i] <= published
                                    /\ \A j \in 1 .. Len(q) : h[i] < q[j]
          /\ InHand(u) => /\ got[u] <= published
                          /\ \A i \in 1 .. Len(h) : h[i] < got[u]
                          /\ \A j \in 1 .. Len(q) : got[u] < q[j]
      BY <1>0 DEF Ordered
    <3>4. handled'[u] = h /\ got'[u] = got[u] /\ (InHand(u)' <=> InHand(u))
      BY <2>1 DEF InHand
    <3> HIDE DEF q, h
    <3>5. /\ \A j \in 1 .. Len(q) : q[j] <= published'
          /\ \A i \in 1 .. Len(h) : h[i] <= published'
          /\ InHand(u) => got[u] <= published'
      BY <1>a, <2>1, <3>2, <3>3
    <3> QED
      BY <3>1, <3>3, <3>4, <3>5 DEF Ordered
  <2>3. CASE u \in attached \ broken
    <3> DEFINE e == published + 1
               r == Enqueue(q, e)
    <3>1. queue'[u] = r
      BY <1>7, <2>3 DEF Publish
    <3>2. /\ Increasing(q) /\ Increasing(h)
          /\ \A j \in 1 .. Len(q) : q[j] <= published
          /\ \A i \in 1 .. Len(h) : /\ h[i] <= published
                                    /\ \A j \in 1 .. Len(q) : h[i] < q[j]
          /\ InHand(u) => /\ got[u] <= published
                          /\ \A i \in 1 .. Len(h) : h[i] < got[u]
                          /\ \A j \in 1 .. Len(q) : got[u] < q[j]
      BY <1>0 DEF Ordered
    <3>3. \A j \in 1 .. Len(q) : q[j] < e
      BY <1>a, <3>2
    <3>4. /\ Increasing(r)
          /\ \A j \in 1 .. Len(r) :
               r[j] = e \/ \E k \in 1 .. Len(q) : r[j] = q[k]
      BY <1>a, <2>1, <3>2, <3>3, EnqueueElements
    <3>5. InHand(u) => got[u] \in Nat
      BY <1>0, EventsAreNumbers DEF GotInv, InHand
    <3>6. published' = e /\ e \in Nat /\ e > published
      BY <1>a, <2>1
    <3> HIDE DEF q, h, r, e
    <3>7. \A j \in 1 .. Len(r) : r[j] <= e
      BY <1>a, <3>3, <3>4, <3>6
    <3>8. \A i \in 1 .. Len(h) :
            h[i] <= e /\ \A j \in 1 .. Len(r) : h[i] < r[j]
      BY <1>a, <3>2, <3>4, <3>6
    <3>9. InHand(u) => got[u] <= e /\ \A j \in 1 .. Len(r) : got[u] < r[j]
      <4> SUFFICES ASSUME InHand(u)
                   PROVE  got[u] <= e /\ \A j \in 1 .. Len(r) : got[u] < r[j]
        OBVIOUS
      <4> DEFINE g == got[u]
      <4>1. /\ g \in Nat /\ g <= published
            /\ \A j \in 1 .. Len(q) : g < q[j]
        BY <3>2, <3>5
      <4> HIDE DEF g
      <4>2. g <= e /\ \A j \in 1 .. Len(r) : g < r[j]
        BY <1>a, <3>4, <3>6, <4>1
      <4> QED
        BY <4>2 DEF g
    <3>10. handled'[u] = h /\ got'[u] = got[u] /\ (InHand(u)' <=> InHand(u))
      BY <2>1 DEF h, InHand
    <3> QED
      BY <3>1, <3>2, <3>4, <3>6, <3>7, <3>8, <3>9, <3>10
      DEF Ordered
  <2> QED
    BY <2>2, <2>3
<1> QED
  BY <1>1, <1>2, <1>3, <1>4, <1>5, <1>6, <1>7
  DEF Next, UserFinishes, ReceiveThread

(* A subscription's handler gets events in the order of publication and    *)
(* none twice, however many are lost on the way.                           *)
THEOREM DeliveryInOrder == Spec => []HandledInOrder
<1>1. Init => OrderInv
  BY InitOrder
<1>2. IInv /\ OrderInv /\ [Next]_vars => OrderInv'
  BY NextOrder
<1>3. OrderInv => HandledInOrder
  BY DEF OrderInv, Ordered, HandledInOrder
<1> QED
  BY <1>1, <1>2, <1>3, Inductive, PTL DEF Spec

-----------------------------------------------------------------------------
(***************************************************************************)
(* No event twice, when the user does not let subscriptions overlap: of    *)
(* two subscriptions one has stopped for good, and what it has handled or  *)
(* let past its check is below all that the other has got or will get.     *)
(***************************************************************************)
Elements(q) == {q[i] : i \in 1 .. Len(q)}

Done(s) == Elements(handled[s])
             \cup (IF tpc[s] \in {"read", "handle"} THEN {got[s]} ELSE {})
Coming(s) == Elements(queue[s]) \cup Elements(handled[s])
               \cup (IF InHand(s) THEN {got[s]} ELSE {})

Before(s, u) == ~running[s] /\ \A x \in Done(s), y \in Coming(u) : x < y

OnceInv ==
  \A s, u \in Subs \ again : s # u => Before(s, u) \/ Before(u, s)

(* A subscription without a thread has nothing yet.                        *)
FreshInv ==
  \A s \in Subs :
    /\ st[s] \in {"new", "failed"}
         /\ ~(upc \in {"spawn", "crashed"} /\ usub = s)
         => s \notin dialed
    /\ tpc[s] = "none" => handled[s] = <<>>
    /\ s \notin dialed /\ tpc[s] = "none" => queue[s] = <<>>

LEMMA HandledAreNumbers ==
  ASSUME NEW q \in Seq(Events), NEW i \in 1 .. Len(q)
  PROVE  q[i] \in Nat
<1>1. q[i] \in Events
  OBVIOUS
<1> QED
  BY <1>1, EventsAreNumbers

LEMMA ElementsAppend ==
  ASSUME NEW q \in Seq(Events), NEW e \in Events
  PROVE  Elements(Append(q, e)) \subseteq Elements(q) \cup {e}
  BY AppendElements DEF Elements

LEMMA ElementsTail ==
  ASSUME NEW q \in Seq(Events), q # <<>>
  PROVE  Elements(Tail(q)) \subseteq Elements(q) /\ Head(q) \in Elements(q)
<1>1. /\ Len(q) \in Nat \ {0} /\ Len(Tail(q)) = Len(q) - 1
      /\ \A i \in 1 .. Len(Tail(q)) : Tail(q)[i] = q[i + 1]
      /\ Head(q) = q[1]
  BY TailElements
<1>2. \A i \in 1 .. Len(Tail(q)) : i + 1 \in 1 .. Len(q)
  BY <1>1
<1>3. 1 \in 1 .. Len(q)
  BY <1>1
<1> QED
  BY <1>1, <1>2, <1>3 DEF Elements

LEMMA ElementsEnqueue ==
  ASSUME NEW q \in Seq(Events), NEW e \in Events
  PROVE  Elements(Enqueue(q, e)) \subseteq Elements(q) \cup {e}
<1>1. CASE Len(q) = QueueSize
  <2>1. q # <<>>
    BY <1>1, SizesAssumption
  <2>2. Tail(q) \in Seq(Events)
    BY <2>1, TailElements
  <2>3. Elements(Append(Tail(q), e)) \subseteq Elements(Tail(q)) \cup {e}
    BY <2>2, ElementsAppend
  <2>4. Elements(Tail(q)) \subseteq Elements(q)
    BY <2>1, ElementsTail
  <2> QED
    BY <1>1, <2>3, <2>4 DEF Enqueue
<1>2. CASE Len(q) # QueueSize
  BY <1>2, ElementsAppend DEF Enqueue
<1> QED
  BY <1>1, <1>2

LEMMA InitOnce == Init => FreshInv /\ OnceInv
<1> SUFFICES ASSUME Init PROVE FreshInv /\ OnceInv
  OBVIOUS
<1>1. FreshInv
  BY DEF Init, FreshInv
<1>2. \A s \in Subs : ~running[s] /\ Done(s) = {}
  BY DEF Init, Done, Elements
<1> QED
  BY <1>1, <1>2 DEF OnceInv, Before

LEMMA NextFresh == IInv /\ FreshInv /\ [Next]_vars => FreshInv'
<1> SUFFICES ASSUME IInv, FreshInv, [Next]_vars PROVE FreshInv'
  OBVIOUS
<1>0. TypeOK /\ UserInv /\ NoneAssumption
  BY NoneAssumption DEF IInv
<1>1. CASE \E s \in Subs : Subscribe(s) \/ Unsubscribe(s) \/ Restart(s)
                           \/ Destroy(s)
  BY <1>0, <1>1 DEF Subscribe, Unsubscribe, ParentUnsubscribes, Restart,
                    Destroy, FreshInv, UserInv, TypeOK, netVars, threadVars
<1>2. CASE DestroyClient \/ Release
  BY <1>0, <1>2 DEF DestroyClient, Release, FreshInv, UserInv, TypeOK,
                    netVars, threadVars
<1>3. CASE Dial
  BY <1>0, <1>3 DEF Dial, FreshInv, UserInv, TypeOK, netVars, threadVars
<1>4. CASE Spawn
  BY <1>0, <1>4 DEF Spawn, FreshInv, UserInv, TypeOK, netVars, threadVars
<1>5. CASE SocketStop \/ Join
  BY <1>0, <1>5 DEF SocketStop, Join, Closed, FreshInv, UserInv, TypeOK,
                    netVars, threadVars
<1>6. CASE \E s \in Subs : Loop(s) \/ Recv(s) \/ RecvTimeout(s) \/ Check(s)
                           \/ Read(s)
  BY <1>0, <1>6 DEF Loop, Recv, RecvTimeout, Check, Read, ThreadStep,
                    FreshInv, UserInv, TypeOK, userVars
<1>7. CASE \E s \in Subs : Handle(s) \/ HandlerUnsubscribes(s)
  BY <1>0, <1>7 DEF Handle, HandlerUnsubscribes, ParentUnsubscribes,
                    ThreadStep, FreshInv, UserInv, TypeOK, userVars, netVars
<1>8. CASE \E s \in Subs : Attach(s)
  BY <1>0, <1>8 DEF Attach, FreshInv, TypeOK, userVars, threadVars
<1>9. CASE \E broken \in SUBSET attached : Publish(broken)
  BY <1>0, <1>9 DEF Publish, FreshInv, TypeOK, userVars, threadVars
<1>10. CASE UNCHANGED vars
  BY <1>10 DEF vars, userVars, netVars, threadVars, FreshInv
<1> QED
  BY <1>1, <1>2, <1>3, <1>4, <1>5, <1>6, <1>7, <1>8, <1>9, <1>10
  DEF Next, UserCalls, UserFinishes, ReceiveThread

(* What a step does to a subscription that is not started by it, that gets *)
(* no event and lets none past its check.                                  *)
Shrinks(s) ==
  /\ running'[s] => running[s]
  /\ Done(s)' \subseteq Done(s)
  /\ Coming(s)' \subseteq Coming(s)

LEMMA ShrinksKept ==
  ASSUME OnceInv, again \subseteq again', TypeOK, TypeOK',
         \A s \in Subs \ again' : Shrinks(s)
  PROVE  OnceInv'
<1>1. \A s, u \in Subs \ again' : s # u =>
        (Before(s, u) => Before(s, u)')
  BY DEF Before, Shrinks, TypeOK
<1> QED
  BY <1>1 DEF OnceInv

(* A step that leaves the events of s alone and takes none in hand.        *)
LEMMA SameEvents ==
  ASSUME NEW s \in Subs, queue'[s] = queue[s], handled'[s] = handled[s],
         InHand(s)' => InHand(s) /\ got'[s] = got[s],
         tpc'[s] \in {"read", "handle"} => tpc[s] \in {"read", "handle"}
  PROVE  Done(s)' \subseteq Done(s) /\ Coming(s)' \subseteq Coming(s)
  BY DEF Done, Coming, Elements, InHand

(* Recv and Handle: an event moves from the queue to the hand, and from    *)
(* there to what was handled.                                              *)
LEMMA EventMoves ==
  ASSUME IInv, NEW s \in Subs,
         Recv(s) \/ Handle(s) \/ HandlerUnsubscribes(s)
  PROVE  Done(s)' \subseteq Done(s) /\ Coming(s)' \subseteq Coming(s)
<1>0. TypeOK /\ GotInv
  BY DEF IInv
<1>1. CASE Recv(s)
  <2>1. /\ queue[s] \in Seq(Events) /\ queue[s] # <<>>
        /\ queue'[s] = Tail(queue[s]) /\ got'[s] = Head(queue[s])
        /\ handled'[s] = handled[s] /\ tpc'[s] = "check"
    BY <1>0, <1>1 DEF Recv, ThreadStep, TypeOK
  <2>2. /\ Elements(queue'[s]) \subseteq Elements(queue[s])
        /\ got'[s] \in Elements(queue[s])
    BY <2>1, ElementsTail
  <2>3. Elements(handled'[s]) = Elements(handled[s])
    BY <2>1
  <2>4. /\ Elements(handled[s])' = Elements(handled'[s])
        /\ Elements(queue[s])' = Elements(queue'[s])
    BY DEF Elements
  <2> QED
    BY <2>1, <2>2, <2>3, <2>4 DEF Done, Coming, InHand
<1>2. CASE Handle(s) \/ HandlerUnsubscribes(s)
  <2>1. /\ tpc[s] = "handle" /\ tpc'[s] = "loop" /\ queue'[s] = queue[s]
        /\ got[s] \in Events /\ handled[s] \in Seq(Events)
        /\ \/ handled'[s] = handled[s]
           \/ handled'[s] = Append(handled[s], got[s])
    BY <1>0, <1>2 DEF Handle, HandlerUnsubscribes, ThreadStep, TypeOK,
                      GotInv, netVars
  <2>2. Elements(handled'[s]) \subseteq Elements(handled[s]) \cup {got[s]}
    BY <2>1, ElementsAppend
  <2>3. /\ Elements(handled[s])' = Elements(handled'[s])
        /\ Elements(queue[s])' = Elements(queue[s])
    BY <2>1 DEF Elements
  <2> QED
    BY <2>1, <2>2, <2>3 DEF Done, Coming, InHand
<1> QED
  BY <1>1, <1>2

LEMMA NextOnce ==
  ASSUME Overlap = FALSE
  PROVE  IInv /\ OrderInv /\ FreshInv /\ OnceInv /\ [Next]_vars => OnceInv'
<1> SUFFICES ASSUME IInv, OrderInv, FreshInv, OnceInv, [Next]_vars
             PROVE  OnceInv'
  OBVIOUS
<1>0. TypeOK /\ UserInv /\ GotInv /\ TypeOK'
  BY NextIInv DEF IInv
<1>1. ASSUME again \subseteq again', \A s \in Subs \ again' : Shrinks(s)
      PROVE  OnceInv'
  BY <1>0, <1>1, ShrinksKept
<1>2. ASSUME NEW w \in Subs, Subscribe(w) PROVE OnceInv'
  <2>1. /\ again' = again /\ tpc' = tpc /\ queue' = queue /\ got' = got
        /\ handled' = handled /\ \A s \in Subs : ~running[s]
        /\ \A s \in Subs : s # w => ~running'[s]
    BY <1>0, <1>2 DEF Subscribe, netVars, threadVars, TypeOK
  <2>2. \A s \in Subs : /\ Done(s)' \subseteq Done(s)
                        /\ Coming(s)' \subseteq Coming(s)
    BY <2>1, SameEvents DEF InHand
  <2>3. Coming(w) = {}
    <3>1. st[w] = "new" /\ upc = "idle"
      BY <1>2 DEF Subscribe
    <3>2. tpc[w] = "none" /\ w \notin dialed
      BY <1>0, <3>1 DEF UserInv, FreshInv
    <3>3. queue[w] = <<>> /\ handled[w] = <<>>
      BY <3>2 DEF FreshInv
    <3> QED
      BY <3>2, <3>3 DEF Coming, Elements, InHand
  <2>4. \A s \in Subs : s # w => Before(s, w)'
    BY <2>1, <2>2, <2>3 DEF Before
  <2>5. \A s, u \in Subs : s # w /\ u # w /\ Before(s, u) => Before(s, u)'
    BY <2>1, <2>2 DEF Before
  <2> QED
    BY <2>1, <2>4, <2>5 DEF OnceInv
<1>3. ASSUME NEW w \in Subs, Restart(w) PROVE OnceInv'
  <2>1. /\ again' = again \cup {w} /\ tpc' = tpc /\ queue' = queue
        /\ got' = got /\ handled' = handled
        /\ \A s \in Subs : s # w => running'[s] = running[s]
    BY <1>0, <1>3 DEF Restart, netVars, TypeOK
  <2>2. \A s \in Subs \ again' : Shrinks(s)
    BY <2>1, SameEvents DEF Shrinks, InHand
  <2> QED
    BY <1>1, <2>1, <2>2
<1>4. ASSUME NEW w \in Subs, Check(w) PROVE OnceInv'
  <2>1. /\ again' = again /\ queue' = queue /\ got' = got
        /\ handled' = handled /\ running' = running
        /\ \A s \in Subs : s # w => tpc'[s] = tpc[s]
        /\ tpc[w] = "check"
        /\ ~running[w] => tpc'[w] = "loop"
        /\ InHand(w)' => InHand(w)
    BY <1>0, <1>4 DEF Check, ThreadStep, InHand, TypeOK
  <2>2. \A s \in Subs : Coming(s)' \subseteq Coming(s)
    BY <2>1 DEF Coming, InHand, Elements
  <2>3. \A s \in Subs : ~running[s] => Done(s)' \subseteq Done(s)
    BY <2>1 DEF Done, Elements
  <2>4. \A s, u \in Subs : Before(s, u) => Before(s, u)'
    BY <2>1, <2>2, <2>3 DEF Before
  <2> QED
    BY <2>1, <2>4 DEF OnceInv
<1>5. ASSUME NEW broken, Publish(broken) PROVE OnceInv'
  <2>1. /\ again' = again /\ tpc' = tpc /\ got' = got /\ handled' = handled
        /\ running' = running /\ published + 1 \in Events
    BY <1>0, <1>5 DEF Publish, threadVars, TypeOK, Events
  <2>2. \A s \in Subs : Done(s)' = Done(s)
    BY <2>1 DEF Done, Elements
  <2>3. \A s \in Subs : Coming(s)' \subseteq Coming(s) \cup {published + 1}
    <3> SUFFICES ASSUME NEW s \in Subs
                 PROVE  Coming(s)' \subseteq Coming(s) \cup {published + 1}
      OBVIOUS
    <3>1. \/ queue'[s] = queue[s]
          \/ queue'[s] = Enqueue(queue[s], published + 1)
      BY <1>0, <1>5 DEF Publish, TypeOK
    <3>2. Elements(queue'[s]) \subseteq Elements(queue[s])
                                          \cup {published + 1}
      BY <1>0, <2>1, <3>1, ElementsEnqueue DEF TypeOK
    <3>3. /\ Elements(queue[s])' = Elements(queue'[s])
          /\ Elements(handled[s])' = Elements(handled[s])
      BY <2>1 DEF Elements
    <3> QED
      BY <2>1, <3>2, <3>3 DEF Coming, InHand
  <2>4. \A s \in Subs : \A x \in Done(s) : x < published + 1
    <3> SUFFICES ASSUME NEW s \in Subs, NEW x \in Done(s)
                 PROVE  x < published + 1
      OBVIOUS
    <3>a. Ordered(s) /\ handled[s] \in Seq(Events)
      BY <1>0 DEF OrderInv, TypeOK
    <3>b. ASSUME NEW i \in 1 .. Len(handled[s]), x = handled[s][i]
          PROVE  x \in Nat /\ x <= published
      BY <3>a, <3>b, HandledAreNumbers DEF Ordered
    <3>c. ASSUME tpc[s] \in {"read", "handle"}, x = got[s]
          PROVE  x \in Nat /\ x <= published
      <4>1. got[s] \in Nat
        BY <1>0, <3>c, EventsAreNumbers DEF GotInv
      <4> QED
        BY <3>a, <3>c, <4>1 DEF Ordered, InHand
    <3>1. x \in Nat /\ x <= published
      BY <3>b, <3>c DEF Done, Elements
    <3> QED
      BY <1>0, <3>1 DEF TypeOK
  <2>5. \A s, u \in Subs : Before(s, u) => Before(s, u)'
    BY <2>1, <2>2, <2>3, <2>4 DEF Before
  <2> QED
    BY <2>1, <2>5 DEF OnceInv
<1>6. ASSUME NEW w \in Subs,
             Recv(w) \/ Handle(w) \/ HandlerUnsubscribes(w)
      PROVE  OnceInv'
  <2>1. /\ again' = again
        /\ \A s \in Subs : running'[s] => running[s]
        /\ \A s \in Subs : s # w =>
             /\ queue'[s] = queue[s] /\ handled'[s] = handled[s]
             /\ got'[s] = got[s] /\ tpc'[s] = tpc[s]
    BY <1>0, <1>6 DEF Recv, Handle, HandlerUnsubscribes, ThreadStep,
                      netVars, TypeOK
  <2>2. \A s \in Subs : Shrinks(s)
    BY <1>6, <2>1, SameEvents, EventMoves DEF Shrinks, InHand
  <2> QED
    BY <1>1, <2>1, <2>2
<1>7. CASE \/ \E s \in Subs : Unsubscribe(s) \/ Destroy(s) \/ Attach(s)
           \/ DestroyClient \/ Dial \/ Spawn \/ Release \/ UNCHANGED vars
  <2>0. \A s \in Subs : running'[s] => running[s]
    <3>1. CASE \E s \in Subs : Unsubscribe(s) \/ Destroy(s) \/ Attach(s)
      BY <1>0, <3>1 DEF Unsubscribe, Destroy, Attach, TypeOK
    <3>2. CASE Dial
      BY <1>0, <3>2 DEF Dial, TypeOK
    <3>3. CASE DestroyClient \/ Spawn \/ Release \/ UNCHANGED vars
      BY <3>3 DEF DestroyClient, Spawn, Release, vars
    <3> QED
      BY <1>7, <3>1, <3>2, <3>3
  <2>1. /\ again' = again /\ queue' = queue /\ handled' = handled
        /\ got' = got
    BY <1>7
    DEF Unsubscribe, Destroy, Attach, DestroyClient, Dial, Spawn, Release,
        vars, netVars, threadVars
  <2>2. \A s \in Subs : tpc'[s] = tpc[s] \/ tpc'[s] = "loop"
    BY <1>0, <1>7
    DEF Unsubscribe, Destroy, Attach, DestroyClient, Dial, Spawn, Release,
        vars, threadVars, TypeOK
  <2>3. \A s \in Subs : Shrinks(s)
    BY <2>0, <2>1, <2>2, SameEvents DEF Shrinks, InHand
  <2> QED
    BY <1>1, <2>1, <2>3
<1>8. CASE \E s \in Subs : Loop(s) \/ RecvTimeout(s) \/ Read(s)
  <2>1. /\ again' = again /\ queue' = queue /\ handled' = handled
        /\ running' = running
    BY <1>8 DEF Loop, RecvTimeout, Read, ThreadStep
  <2>2. \A s \in Subs :
          /\ InHand(s)' => InHand(s) /\ got'[s] = got[s]
          /\ tpc'[s] \in {"read", "handle"} => tpc[s] \in {"read", "handle"}
    BY <1>0, <1>8 DEF Loop, RecvTimeout, Read, ThreadStep, InHand, TypeOK
  <2>3. \A s \in Subs : Shrinks(s)
    BY <2>1, <2>2, SameEvents DEF Shrinks
  <2> QED
    BY <1>1, <2>1, <2>3
<1>9. CASE SocketStop \/ Join
  <2>1. /\ again' = again /\ handled' = handled /\ running' = running
        /\ got' = got /\ tpc' = tpc
        /\ \A s \in Subs : queue'[s] = queue[s] \/ queue'[s] = <<>>
    BY <1>0, <1>9 DEF SocketStop, Join, Closed, netVars, threadVars, TypeOK
  <2>2. \A s \in Subs : Done(s)' = Done(s) /\ Coming(s)' \subseteq Coming(s)
    BY <2>1 DEF Done, Coming, InHand, Elements
  <2>3. \A s \in Subs : Shrinks(s)
    BY <2>1, <2>2 DEF Shrinks
  <2> QED
    BY <1>1, <2>1, <2>3
<1> QED
  BY <1>2, <1>3, <1>4, <1>5, <1>6, <1>7, <1>8, <1>9
  DEF Next, UserCalls, UserFinishes, ReceiveThread

(* Two subscriptions that do not overlap, and neither of which was started *)
(* again, bring the handler no event twice, although the last event of one *)
(* may be handled while the next is up.  Of a subscription that was        *)
(* started again this says nothing: its queue may hold what another one    *)
(* has brought as well.                                                    *)
THEOREM NoDuplicateDelivery ==
  ASSUME Overlap = FALSE PROVE Spec => []HandledOnce
<1>1. Init => OrderInv /\ FreshInv /\ OnceInv
  BY InitOrder, InitOnce
<1>2. IInv /\ OrderInv /\ FreshInv /\ OnceInv /\ [Next]_vars
        => OrderInv' /\ FreshInv' /\ OnceInv'
  BY NextOrder, NextFresh, NextOnce
<1>3. IInv /\ OnceInv => HandledOnce
  <2> SUFFICES ASSUME IInv, OnceInv,
                      NEW s \in Subs \ again, NEW u \in Subs \ again, s # u,
                      NEW i \in 1 .. Len(handled[s]),
                      NEW j \in 1 .. Len(handled[u])
               PROVE  handled[s][i] # handled[u][j]
    BY DEF HandledOnce
  <2> DEFINE x == handled[s][i]
             y == handled[u][j]
  <2>1. x \in Nat /\ y \in Nat
    BY HandledAreNumbers DEF IInv, TypeOK
  <2>2. /\ x \in Done(s) /\ x \in Coming(s)
        /\ y \in Done(u) /\ y \in Coming(u)
    BY DEF Done, Coming, Elements
  <2> HIDE DEF x, y
  <2>3. x < y \/ y < x
    BY <2>2 DEF OnceInv, Before
  <2>4. x # y
    BY <2>1, <2>3
  <2> QED
    BY <2>4 DEF x, y
<1> QED
  BY <1>1, <1>2, <1>3, Inductive, PTL DEF Spec
=============================================================================
