---------------------------- MODULE Subscription ----------------------------
(***************************************************************************)
(* The subscriptions of a client to one stream: SubscriptionManagerImp of  *)
(* PlumberClient, ClientProtoSubscriptionStream and NngSubscribeSocket;    *)
(* or those of ProtoSubscribeHandler, whose Start, Stop, OnMessageReceived *)
(* and destructor are the same code, and whose Start may be called again.  *)
(*                                                                         *)
(* One user thread subscribes, unsubscribes and destroys; each subscription*)
(* that is up has a receive thread.  The two meet in the plain bool        *)
(* _running of the stream, in the atomic _running of the socket and in the *)
(* members that a destructor releases.  All subscriptions deliver to the   *)
(* same event handler.  The server's publish socket and NNG's SUB queue    *)
(* are external: a subscription gets what is published while it is         *)
(* attached, in order, and a full queue loses its oldest event.            *)
(***************************************************************************)
EXTENDS Naturals, Sequences, FiniteSets

CONSTANTS Subs,        \* subscription objects, each used once
          Unreadable,  \* the events ProtoFrameBufferView::Read throws on:
                       \* not registered at the client, or no bytes
          Unmapped,    \* the events EventHandlerBase has no handler for
          Overlap,     \* TRUE iff the user may subscribe again before the
                       \* last subscription is unsubscribed or destroyed
          MaxEvents,   \* bound: events published
          QueueSize,   \* capacity of a SUB receive queue (128 in NNG)
          None

ASSUME OverlapAssumption == Overlap \in BOOLEAN
ASSUME SizesAssumption ==
  MaxEvents \in Nat /\ QueueSize \in Nat \ {0}
ASSUME EventsAssumption ==
  /\ Unreadable \subseteq 1 .. MaxEvents
  /\ Unmapped \subseteq 1 .. MaxEvents
ASSUME NoneAssumption == None \notin Nat /\ None \notin Subs

VARIABLES
  upc,         \* the next step of the user thread
  usub,        \* the subscription it is busy with
  st,          \* st[s]: what the user holds
  client,      \* the PlumberClient exists, and its SubscriptionManagerImp
  running,     \* ClientProtoSubscriptionStream::_running
  holds,       \* holds[s]: the stream's _serializer is not released
  sockRunning, \* NngSubscribeSocket::_running
  tpc,         \* tpc[s]: the next step of the receive thread
  got,         \* got[s]: the event in ReceiveLoop's buf
  dialed,      \* the sockets that have dialed
  attached,    \* the sockets the publisher sends to (external)
  queue,       \* queue[s]: the SUB receive queue (external)
  published,   \* events published so far: 1 .. published
  handled,     \* handled[s]: the events the handler got (history)
  late,        \* late[s]: how many of them after the last Stop (history)
  again        \* the subscriptions that were started again (history)

userVars == <<upc, usub, st, client, holds, dialed>>
netVars == <<attached, queue, published>>
threadVars == <<tpc, got, handled, late, again>>
vars == <<userVars, running, sockRunning, netVars, threadVars>>

Events == 1 .. MaxEvents

TypeOK ==
  /\ upc \in {"idle", "dial", "spawn", "release", "stop", "join", "crashed"}
  /\ usub \in Subs \cup {None}
  /\ st \in [Subs -> {"new", "open", "stopped", "failed", "gone"}]
  /\ client \in BOOLEAN
  /\ running \in [Subs -> BOOLEAN]
  /\ holds \in [Subs -> BOOLEAN]
  /\ sockRunning \in [Subs -> BOOLEAN]
  /\ tpc \in [Subs -> {"none", "loop", "recv", "check", "read", "handle",
                       "ended"}]
  /\ got \in [Subs -> Events \cup {None}]
  /\ dialed \subseteq Subs
  /\ attached \subseteq dialed
  /\ queue \in [Subs -> Seq(Events)]
  /\ \A s \in Subs : Len(queue[s]) <= QueueSize
  /\ published \in 0 .. MaxEvents
  /\ handled \in [Subs -> Seq(Events)]
  /\ late \in [Subs -> Nat]
  /\ again \subseteq Subs

Init ==
  /\ upc = "idle"
  /\ usub = None
  /\ st = [s \in Subs |-> "new"]
  /\ client = TRUE
  /\ running = [s \in Subs |-> FALSE]
  /\ holds = [s \in Subs |-> FALSE]
  /\ sockRunning = [s \in Subs |-> FALSE]
  /\ tpc = [s \in Subs |-> "none"]
  /\ got = [s \in Subs |-> None]
  /\ dialed = {}
  /\ attached = {}
  /\ queue = [s \in Subs |-> <<>>]
  /\ published = 0
  /\ handled = [s \in Subs |-> <<>>]
  /\ late = [s \in Subs |-> 0]
  /\ again = {}

-----------------------------------------------------------------------------
(***************************************************************************)
(* The user thread.                                                        *)
(***************************************************************************)

(* Subscribe up to the dial: the CreateStream command is answered, the     *)
(* stream is made and its _running is set.  A command that throws leaves   *)
(* nothing behind.                                                         *)
Subscribe(s) ==
  /\ upc = "idle" /\ client /\ st[s] = "new"
  /\ Overlap \/ \A u \in Subs : ~running[u]
  /\ \/ /\ upc' = "dial" /\ usub' = s
        /\ running' = [running EXCEPT ![s] = TRUE]
        /\ holds' = [holds EXCEPT ![s] = TRUE]
        /\ UNCHANGED st
     \/ /\ st' = [st EXCEPT ![s] = "failed"]
        /\ UNCHANGED <<upc, usub, running, holds>>
  /\ UNCHANGED <<client, dialed, sockRunning, netVars, threadVars>>

(* NngSubscribeSocket::Start dials; when that throws the stream is         *)
(* destroyed.                                                              *)
Dial ==
  /\ upc = "dial"
  /\ \/ /\ upc' = "spawn"
        /\ dialed' = dialed \cup {usub}
        /\ UNCHANGED running
     \/ /\ upc' = "release"
        /\ running' = [running EXCEPT ![usub] = FALSE]
        /\ UNCHANGED dialed
  /\ UNCHANGED <<usub, st, client, holds, sockRunning, netVars, threadVars>>

(* The socket's _running is set, the thread starts, Subscribe returns.     *)
Spawn ==
  /\ upc = "spawn"
  /\ upc' = "idle" /\ usub' = None
  /\ st' = [st EXCEPT ![usub] = "open"]
  /\ sockRunning' = [sockRunning EXCEPT ![usub] = TRUE]
  /\ tpc' = [tpc EXCEPT ![usub] = "loop"]
  /\ UNCHANGED <<client, holds, dialed, running, netVars, got, handled, late,
                 again>>

(* Fault: Unsubscribe stops the socket as well.                            *)
UnsubscribeStopsSocket(s) ==
  /\ upc = "idle" /\ st[s] \in {"open", "stopped"}
  /\ running' = [running EXCEPT ![s] = FALSE]
  /\ sockRunning' = [sockRunning EXCEPT ![s] = FALSE]
  /\ st' = [st EXCEPT ![s] = "stopped"]
  /\ UNCHANGED <<upc, usub, client, holds, dialed, netVars, threadVars>>

(* _parent->Unsubscribe: off the manager's list.  When the manager is gone *)
(* the raw pointer dangles, which ends the process or goes unnoticed.      *)
ParentUnsubscribes == upc' = upc \/ (~client /\ upc' = "crashed")

(* Subscription::Unsubscribe: Stop, and off the manager's list.  The       *)
(* socket stays connected and its thread goes on.                          *)
Unsubscribe(s) ==
  /\ upc = "idle" /\ st[s] \in {"open", "stopped"}
  /\ running' = [running EXCEPT ![s] = FALSE]
  /\ st' = [st EXCEPT ![s] = "stopped"]
  /\ ParentUnsubscribes
  /\ UNCHANGED <<usub, client, holds, dialed, sockRunning, netVars,
                 threadVars>>

(* ProtoSubscribeHandler::Start after Stop: _running is set before the     *)
(* socket throws "Socket already connected", so that the caller gets the   *)
(* exception and the handler its events.                                   *)
Restart(s) ==
  /\ upc = "idle" /\ st[s] = "stopped"
  /\ Overlap \/ \A u \in Subs : ~running[u]
  /\ running' = [running EXCEPT ![s] = TRUE]
  /\ st' = [st EXCEPT ![s] = "open"]
  /\ late' = [late EXCEPT ![s] = 0]
  /\ again' = again \cup {s}
  /\ UNCHANGED <<upc, usub, client, holds, dialed, sockRunning, netVars, tpc,
                 got, handled>>

(* The user lets go of the unique_ptr<ISubscription>, the last reference   *)
(* to the stream: ~ClientProtoSubscriptionStream calls Stop.               *)
Destroy(s) ==
  /\ upc = "idle" /\ st[s] \in {"open", "stopped"}
  /\ upc' = "release" /\ usub' = s
  /\ running' = [running EXCEPT ![s] = FALSE]
  /\ UNCHANGED <<st, client, holds, dialed, sockRunning, netVars, threadVars>>

(* Members go in reverse order of declaration: _serializer before _socket. *)
Release ==
  /\ upc = "release"
  /\ upc' = "stop"
  /\ holds' = [holds EXCEPT ![usub] = FALSE]
  /\ UNCHANGED <<usub, st, client, dialed, running, sockRunning, netVars,
                 threadVars>>

(* The NNG socket closes, and _dispatcher goes.                            *)
Closed ==
  /\ upc' = "idle" /\ usub' = None
  /\ st' = [st EXCEPT ![usub] = IF @ = "new" THEN "failed" ELSE "gone"]
  /\ dialed' = dialed \ {usub}
  /\ attached' = attached \ {usub}
  /\ queue' = [queue EXCEPT ![usub] = <<>>]
  /\ UNCHANGED <<client, holds, running, published, threadVars>>

(* ~NngSubscribeSocket: if (_running), _running = false and a join.        *)
SocketStop ==
  /\ upc = "stop"
  /\ IF sockRunning[usub]
       THEN /\ upc' = "join"
            /\ sockRunning' = [sockRunning EXCEPT ![usub] = FALSE]
            /\ UNCHANGED <<usub, st, client, holds, dialed, running, netVars,
                           threadVars>>
       ELSE Closed /\ UNCHANGED sockRunning

Join ==
  /\ upc = "join" /\ tpc[usub] = "ended"
  /\ Closed
  /\ UNCHANGED sockRunning

(* The user destroys the PlumberClient, while subscriptions may be left.   *)
DestroyClient ==
  /\ upc = "idle" /\ client
  /\ client' = FALSE
  /\ UNCHANGED <<upc, usub, st, holds, dialed, running, sockRunning, netVars,
                 threadVars>>

-----------------------------------------------------------------------------
(***************************************************************************)
(* The receive thread of subscription s.                                   *)
(***************************************************************************)
ThreadStep(s, l) ==
  /\ upc # "crashed"
  /\ tpc' = [tpc EXCEPT ![s] = l]
  /\ UNCHANGED <<userVars, running, sockRunning, attached, published, again>>

(* while (_running), and a new buf.                                        *)
Loop(s) ==
  /\ tpc[s] = "loop"
  /\ ThreadStep(s, IF sockRunning[s] THEN "recv" ELSE "ended")
  /\ got' = [got EXCEPT ![s] = None]
  /\ UNCHANGED <<queue, handled, late>>

Recv(s) ==
  /\ tpc[s] = "recv" /\ queue[s] # <<>>
  /\ got' = [got EXCEPT ![s] = Head(queue[s])]
  /\ queue' = [queue EXCEPT ![s] = Tail(queue[s])]
  /\ ThreadStep(s, "check")
  /\ UNCHANGED <<handled, late>>

(* Fault: a timeout receives again without a look at _running.             *)
RecvTimeoutRetries(s) ==
  /\ tpc[s] = "recv" /\ queue[s] = <<>>
  /\ ThreadStep(s, "recv")
  /\ UNCHANGED <<queue, got, handled, late>>

(* Fault: the timeout is not noticed and the old buffer goes on.           *)
RecvTimeoutUnnoticed(s) ==
  /\ tpc[s] = "recv" /\ queue[s] = <<>>
  /\ ThreadStep(s, "check")
  /\ UNCHANGED <<queue, got, handled, late>>

(* Nothing for 100 ms: break if !_running, continue otherwise.             *)
RecvTimeout(s) ==
  /\ tpc[s] = "recv" /\ queue[s] = <<>>
  /\ ThreadStep(s, IF sockRunning[s] THEN "loop" ELSE "ended")
  /\ UNCHANGED <<queue, got, handled, late>>

(* Fault: OnMessageReceived without its first line.                        *)
CheckIgnored(s) ==
  /\ tpc[s] = "check"
  /\ ThreadStep(s, "read")
  /\ UNCHANGED <<queue, got, handled, late>>

(* OnMessageReceived: if (!_running) return;                               *)
Check(s) ==
  /\ tpc[s] = "check"
  /\ ThreadStep(s, IF running[s] THEN "read" ELSE "loop")
  /\ UNCHANGED <<queue, got, handled, late>>

(* Fault: the exception is not caught and ends the thread.                 *)
ReadEndsThread(s) ==
  /\ tpc[s] = "read"
  /\ ThreadStep(s, IF got[s] \in Unreadable THEN "ended" ELSE "handle")
  /\ UNCHANGED <<queue, got, handled, late>>

(* A view over the buffer with a copy of _serializer, and Read; what       *)
(* throws is caught, reported and forgotten.                               *)
Read(s) ==
  /\ tpc[s] = "read"
  /\ ThreadStep(s, IF got[s] \in Unreadable THEN "loop" ELSE "handle")
  /\ UNCHANGED <<queue, got, handled, late>>

(* Fault: an event whose handler throws is handled again.                  *)
HandleRetried(s) ==
  /\ tpc[s] = "handle"
  /\ \E l \in {"handle", "loop"} : ThreadStep(s, l)
  /\ handled' = [handled EXCEPT ![s] = Append(@, got[s])]
  /\ late' = [late EXCEPT ![s] = IF running[s] THEN @ ELSE @ + 1]
  /\ UNCHANGED <<queue, got>>

(* _dispatcher->Handle, EventHandlerBase::Handle: an event without a       *)
(* handler is passed over; whether the handler throws makes no difference. *)
Handle(s) ==
  /\ tpc[s] = "handle"
  /\ ThreadStep(s, "loop")
  /\ IF got[s] \in Unmapped
       THEN UNCHANGED <<handled, late>>
       ELSE /\ handled' = [handled EXCEPT ![s] = Append(@, got[s])]
            /\ late' = [late EXCEPT ![s] = IF running[s] THEN @ ELSE @ + 1]
  /\ UNCHANGED <<queue, got>>

(* The handler unsubscribes the subscription that called it, in the        *)
(* receive thread.  That the user thread is not destroying it at the same  *)
(* time is a precondition: the pointer the handler uses would dangle.      *)
HandlerUnsubscribes(s) ==
  /\ upc # "crashed"
  /\ tpc[s] = "handle" /\ got[s] \notin Unmapped
  /\ st[s] \in {"open", "stopped"}
  /\ ~(upc \in {"release", "stop", "join"} /\ usub = s)
  /\ handled' = [handled EXCEPT ![s] = Append(@, got[s])]
  /\ late' = [late EXCEPT ![s] = IF running[s] THEN @ ELSE @ + 1]
  /\ running' = [running EXCEPT ![s] = FALSE]
  /\ st' = [st EXCEPT ![s] = "stopped"]
  /\ tpc' = [tpc EXCEPT ![s] = "loop"]
  /\ ParentUnsubscribes
  /\ UNCHANGED <<usub, client, holds, dialed, sockRunning, netVars, got,
                 again>>

-----------------------------------------------------------------------------
(***************************************************************************)
(* The publisher and the network (external).                               *)
(***************************************************************************)

(* The publisher learns of a connection some time after the dial.          *)
Attach(s) ==
  /\ upc # "crashed" /\ s \in dialed \ attached
  /\ attached' = attached \cup {s}
  /\ UNCHANGED <<userVars, running, sockRunning, queue, published, threadVars>>

(* Room is made for a new event by dropping the oldest.                    *)
Enqueue(q, e) == Append(IF Len(q) = QueueSize THEN Tail(q) ELSE q, e)

(* An event goes to the attached sockets but for those whose connection is *)
(* broken just then, which the dialer makes anew.                          *)
Publish(broken) ==
  /\ published < MaxEvents
  /\ published' = published + 1
  /\ queue' = [s \in Subs |-> IF s \in attached \ broken
                                THEN Enqueue(queue[s], published + 1)
                                ELSE queue[s]]
  /\ UNCHANGED <<userVars, running, sockRunning, attached, threadVars>>

-----------------------------------------------------------------------------
UserFinishes == Dial \/ Spawn \/ Release \/ SocketStop \/ Join

UserCalls ==
  \/ \E s \in Subs : Subscribe(s) \/ Unsubscribe(s) \/ Restart(s)
                     \/ Destroy(s)
  \/ DestroyClient

ReceiveThread(s) ==
  Loop(s) \/ Recv(s) \/ RecvTimeout(s) \/ Check(s) \/ Read(s) \/ Handle(s)
  \/ HandlerUnsubscribes(s)

Next ==
  \/ UserCalls
  \/ UserFinishes
  \/ \E s \in Subs : ReceiveThread(s)
  \/ \E s \in Subs : Attach(s)
  \/ \E broken \in SUBSET attached : Publish(broken)

Spec == Init /\ [][Next]_vars

(* A thread that can go on does: a call of the user goes on to its end, a  *)
(* receive thread runs, and the handler it calls returns.  Nothing is      *)
(* asked of calls that are not made.                                       *)
FairSpec ==
  /\ Spec
  /\ WF_vars(UserFinishes)
  /\ \A s \in Subs : WF_vars(ReceiveThread(s))

(* Moreover the dialer connects.                                           *)
ConnectedSpec == FairSpec /\ \A s \in Subs : WF_vars(Attach(s))

-----------------------------------------------------------------------------
(***************************************************************************)
(* Properties.                                                             *)
(***************************************************************************)
Increasing(q) == \A i, j \in 1 .. Len(q) : i < j => q[i] < q[j]

(* Events reach the handler of a subscription in the order they were       *)
(* published and none of them twice, whatever is lost to a full queue, a   *)
(* broken connection or a frame that cannot be read.                       *)
HandledInOrder == \A s \in Subs : Increasing(handled[s])

(* Once Unsubscribe (or the destructor's Stop) has run, the handler gets   *)
(* at most the one event the receive thread had already let past its look  *)
(* at _running; Unsubscribe does not wait for the thread.                  *)
AtMostOneLate == \A s \in Subs : late[s] <= 1

(* A handler whose subscriptions follow one another, each unsubscribed     *)
(* before the next, in the handler or outside it, and never started again, *)
(* gets no event twice, although the receive thread of an old subscription *)
(* may still be in the handler while the new one is up.                    *)
HandledOnce ==
  \A s, u \in Subs \ again : s # u =>
    \A i \in 1 .. Len(handled[s]), j \in 1 .. Len(handled[u]) :
      handled[s][i] # handled[u][j]

(* ~NngSubscribeSocket waits for its thread only if (_running).  Whenever  *)
(* the flag is false there is no thread to wait for, after a failed dial,  *)
(* an Unsubscribe in either thread, a restart: no std::thread is destroyed *)
(* unjoined, which would end the process, and no receive thread outlives   *)
(* the socket, the signal and the dispatcher it uses.                      *)
NoThreadAbandoned ==
  /\ (upc = "stop" /\ ~sockRunning[usub]) => tpc[usub] = "none"
  /\ \A s \in Subs :
       st[s] \in {"gone", "failed"} => tpc[s] \in {"none", "ended"}

(* The destruction of a subscription ends: the receive thread sees         *)
(* _running at its next turn or after the 100 ms of a receive.             *)
DestructionEnds == (upc = "join") ~> (upc \in {"idle", "crashed"})

(* One event that cannot be read does not silence the subscription: what   *)
(* is in the queue is taken out as long as the subscription is there.      *)
QueueDrains ==
  \A s \in Subs : (queue[s] # <<>>) ~> \/ queue[s] = <<>>
                                        \/ st[s] = "gone" \/ upc = "crashed"

(* The receive thread does not copy the stream's _serializer once the      *)
(* object it points to is gone, that is, once the stream and the client    *)
(* have released it.                                                       *)
SerializerFreed == ~client /\ \A s \in Subs : ~holds[s]
NoUseAfterRelease ==
  \A s \in Subs : (tpc[s] = "read") => ~SerializerFreed

(* Replay: a subscription that stays open gets the events published before *)
(* it.                                                                     *)
Replayed ==
  \A s \in Subs, e \in Events \ (Unreadable \cup Unmapped) :
    (st[s] = "open" /\ published >= e)
      ~> (st[s] # "open" \/ \E i \in 1 .. Len(handled[s]) : handled[s][i] = e)
=============================================================================
