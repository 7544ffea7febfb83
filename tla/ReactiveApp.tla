----------------------------- MODULE ReactiveApp -----------------------------
(***************************************************************************)
(* The server of the example application (examples/app/server.cpp) on top  *)
(* of the event store: properties that commands set, and a monitor that    *)
(* publishes their changes to the streams of reactive subscriptions.       *)
(*                                                                         *)
(* All of it runs in the receive thread, inside command handlers, one      *)
(* Publish after the other (StartReactiveSubscription does nothing); the   *)
(* store is the one of EventStore, with the steps of its threads between.  *)
(***************************************************************************)
EXTENDS EventStore

CONSTANTS Properties,  \* the element.property pairs of the registry
          Unknown,     \* a selector the registry does not have
          Values, Initial

ASSUME AppAssumption ==
  /\ Unknown \notin Properties /\ Initial \in [Properties -> Values]
  /\ None \notin Properties
  /\ Ops[ReceiveThread] = {"ensure", "create", "publish"}

VARIABLES
  value,    \* PropertyInfoImpl::_value
  slots,    \* the connections to PropertyInfoImpl::_valueChanged
  subs,     \* PropertyMonitorService::_reactiveSubscriptions
  cmd,      \* "none", or the handler that waits for a call of the store
  selected, \* the selectors of the CreateReactiveSubscription in progress
  changed,  \* the property that the SetterCommand in progress changed
  signals,  \* the slots of it that have still to be run
  rest,     \* the streams the slot that runs has still to publish to
  asked,    \* history: the properties a reactive subscription asked for
  told,     \* history: the events of the last change sent over a stream
  seen      \* history: what the events of a stream make of a property

setter == <<changed, signals, rest>>
history == <<told, seen>>
appVars == <<value, slots, subs, cmd, selected, setter, asked, history>>
allVars == <<vars, appVars>>

AppTypeOK ==
  /\ TypeOK
  /\ value \in [Properties -> Values]
  /\ slots \in [Properties -> Nat]
  /\ subs \subseteq Streams
  /\ cmd \in {"none", "create", "set"}
  /\ selected \subseteq Properties \cup {Unknown}
  /\ changed \in Properties \cup {None}
  /\ signals \in Nat
  /\ rest \subseteq subs
  /\ asked \in [Streams -> SUBSET Properties]
  /\ told \in [Streams -> Nat]
  /\ seen \in [Streams -> [Properties -> Values]]

(* main: AddElement, AddProperty and the first SetValue of each property.  *)
AppInit ==
  /\ Init
  /\ value = Initial
  /\ slots = [p \in Properties |-> 0]
  /\ subs = {} /\ cmd = "none" /\ selected = {}
  /\ changed = None /\ signals = 0 /\ rest = {}
  /\ asked = [s \in Streams |-> {}]
  /\ told = [s \in Streams |-> 0]
  /\ seen = [s \in Streams |-> Initial]

-----------------------------------------------------------------------------
(* The receive thread is between two commands.                             *)
Free == alive /\ pc[R] = "idle" /\ cmd = "none"

(* CreateStreamCommandHandler, for a client's Subscribe.                   *)
CreateStream(s) ==
  /\ Free
  /\ Call(R, "ensure", s)
  /\ UNCHANGED appVars

(* CreateReactiveSubscriptionHandler: _eventStore->CreateStream ...        *)
CreateReactiveSubscription(s, selectors) ==
  /\ Free
  /\ Call(R, "create", s)
  /\ cmd' = "create" /\ selected' = selectors
  /\ UNCHANGED <<value, slots, subs, setter, asked, history>>

(* Fault: "already monitoring" is not looked up.                           *)
MonitorPropertyAgain(ps) == [p \in Properties |-> slots[p] + IF p \in ps THEN 1 ELSE 0]

(* PropertyMonitorService::MonitorProperty, for each of ps: one connection *)
(* a property, however many subscriptions ask for it.                      *)
MonitorProperty(ps) == [p \in Properties |-> IF p \in ps THEN 1 ELSE slots[p]]

(* Fault: a selector that is not found ends the loop.                      *)
KnownSelectorsOrNone == IF Unknown \in selected THEN {} ELSE selected

(* GetElement, GetProperty: a selector that is not found is skipped.       *)
KnownSelectors == selected \ {Unknown}

(* ... and, when it returned, AddReactiveSubscription and the loop over    *)
(* the selectors.                                                          *)
AddReactiveSubscription ==
  /\ alive /\ cmd = "create" /\ pc[R] = "idle"
  /\ cmd' = "none" /\ selected' = {}
  /\ subs' = subs \cup {stream[R]}
  /\ slots' = MonitorProperty(KnownSelectors)
  /\ asked' = [asked EXCEPT ![stream[R]] = selected \cap Properties]
  /\ seen' = [seen EXCEPT ![stream[R]] = value]
  /\ UNCHANGED <<vars, value, setter, told>>

(* SetterCommandHandler: an unknown property, a value of another type or   *)
(* one that is too short throws, and the exception ends the process.       *)
RefuseSetter ==
  /\ Free
  /\ EndProcess
  /\ UNCHANGED appVars

(* SetterCommandHandler and PropertyInfoImpl::SetValue: the signal is      *)
(* raised only when the value is another one.                              *)
SetValue(p, v) ==
  LET raised == v # value[p] /\ slots[p] > 0
  IN  /\ Free
      /\ value' = [value EXCEPT ![p] = v]
      /\ cmd' = IF raised THEN "set" ELSE "none"
      /\ changed' = IF raised THEN p ELSE None
      /\ signals' = IF raised THEN slots[p] - 1 ELSE 0
      /\ rest' = IF raised THEN subs ELSE {}
      /\ told' = [s \in Streams |-> 0]
      /\ UNCHANGED <<vars, slots, subs, selected, asked, seen>>

(* PropertyMonitorService::OnPropertyChanged: the next stream's Publish.   *)
OnPropertyChanged(s) ==
  /\ alive /\ cmd = "set" /\ pc[R] = "idle"
  /\ s \in rest
  /\ rest' = rest \ {s}
  /\ Call(R, "publish", s)
  /\ UNCHANGED <<value, slots, subs, cmd, selected, changed, signals, asked,
                 history>>

(* The slot returns: the signal runs the next one, or the command ends.    *)
SlotReturns ==
  /\ alive /\ cmd = "set" /\ pc[R] = "idle" /\ rest = {}
  /\ IF signals > 0
       THEN signals' = signals - 1 /\ rest' = subs
            /\ UNCHANGED <<cmd, changed>>
       ELSE cmd' = "none" /\ changed' = None /\ UNCHANGED <<signals, rest>>
  /\ UNCHANGED <<vars, value, slots, subs, selected, asked, history>>

(* A step inside the store.  What the receive thread sends in a            *)
(* SetterCommand is the PropertyChangedEvent of the property and its value.*)
StoreStep(t) ==
  LET s == stream[R]
      sends == t = R /\ cmd = "set" /\ wire'[R] # wire[R]
  IN  /\ alive
      /\ Step(t)
      /\ told' = IF sends THEN [told EXCEPT ![s] = @ + 1] ELSE told
      /\ seen' = IF sends THEN [seen EXCEPT ![s][changed] = value[changed]]
                          ELSE seen
      /\ UNCHANGED <<value, slots, subs, cmd, selected, setter, asked>>

(* Another thread of an application calls the store.                       *)
OtherCall(t, o, s) ==
  /\ alive /\ t # R
  /\ Call(t, o, s)
  /\ UNCHANGED appVars

AppNext ==
  \/ \E s \in Streams :
       \/ CreateStream(s)
       \/ \E sel \in SUBSET (Properties \cup {Unknown}) :
            CreateReactiveSubscription(s, sel)
       \/ OnPropertyChanged(s)
  \/ AddReactiveSubscription \/ RefuseSetter \/ SlotReturns
  \/ \E p \in Properties, v \in Values : SetValue(p, v)
  \/ \E t \in Threads :
       \/ StoreStep(t)
       \/ \E o \in {"ensure", "create", "publish"}, s \in Streams :
            OtherCall(t, o, s)

AppSpec == AppInit /\ [][AppNext]_allVars

-----------------------------------------------------------------------------
(***************************************************************************)
(* Properties.                                                             *)
(***************************************************************************)

(* Between commands, what the events of a reactive subscription add up to  *)
(* is the value of every property it asked for: no change is missed,       *)
(* whichever subscriptions and selectors came before it, and a stream that *)
(* cannot be published to does not go unnoticed.                           *)
SubscribersCurrent ==
  Free => \A s \in subs : \A p \in asked[s] : seen[s][p] = value[p]

(* A change is told at most once over each stream, though several          *)
(* subscriptions asked for the property: it has one connection.            *)
ToldOnce == \A s \in Streams : told[s] <= 1
=============================================================================
