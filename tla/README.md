# cppplumberd: a TLA+ verification project

cppplumberd is a small CQRS library: a client sends commands (protobuf messages)
to a server over NNG request/reply sockets, command handlers on the server publish
events to streams, and clients subscribe to streams over NNG publish/subscribe
sockets. This directory holds TLA+ models of its own logic, the TLC runs that check
them on small instances, and theorems about them that TLAPS checks for every value
of the constants. Paths below are relative to the root of the repository.

Contents: 1 the system, 2 modules and code, 3 runs, 4 bounds, 5 fairness, 6 proofs,
7 what the models showed, 8 what is not modelled, 9 plan.

## 1. The system

| component | state | operations | hard behaviour |
|---|---|---|---|
| `MessageSerializer`, `MessageDispatcher` | type → id and id → type maps; id → handler; id → exception factory | `RegisterMessage`, `RegisterHandler`, `RegisterRequestResponse`, `RegisterError`, lookups | several registrations per call, any of which may throw; two processes register independently; no lock |
| `ProtoFrameBufferView`, `ProtoFrameBuffer` | bytes, `_written` | `Write`, `Read`, `Reset`, `AckWritten` | buffers reused without being cleared; sizes at the limit of the buffer |
| command path, client: `PlumberCommandBus`, `ProtoReqRspClientHandler`, `NngReqRspClientSocket` | two `_connected` flags, a REQ socket | `Start`, `Send` | several threads on one client, no lock; a receive without timeout; NNG sends unanswered requests again |
| command path, server: `CommandServiceHandler`, `ProtoReqRspSrvHandler`, `NngReqRspSrvSocket` | two buffers, four flags, a receive thread | `RegisterHandler`, `Start`, `ReceiveLoop`, `HandleRequest`, `Stop`, destructor | exceptions become responses or end the process; crash between handling and answer; Start repeated or after Stop; buffers owned by one object and used by another |
| `EventStore` with `SubscriptionManager`, `ProtoPublishHandler`, `NngPublishSocket` | `_publishedStreams`, a socket and `_bound` per stream | `EnsureStreamCreated`, `CreateStream`, `Publish` | check and act without a lock; table entry before the listen; a failing listen |
| subscriptions: `PlumberClient::SubscriptionManagerImp`, `ClientProtoSubscriptionStream`, `NngSubscribeSocket`, `EventHandlerBase` | plain `_running` of the stream, atomic `_running` of the socket, members released by destructors, a receive thread | `Subscribe`, `Unsubscribe`, destruction, `ReceiveLoop`, `OnMessageReceived` | Unsubscribe and destruction against the thread; members go in reverse order of declaration; events lost, queue overflow |
| `Plumber`, `PlumberClient` | owners of the above | `Start`, `Stop`, `RegisterMessage`, accessors | order of destruction |
| `ProtoSubscribeHandler` | `_running`, a handler table, a subscribe socket | `RegisterHandler`, `Start`, `Stop`, `OnMessageReceived` | Start after Stop throws and takes effect |
| generated messages of `cqrs.proto` | fields, unknown fields | accessors, construct, copy, merge, swap, serialize, parse | sizes announced before the bytes; widths; strings that are not UTF-8; bytes of another class |
| example server (`examples/app/server.cpp`) | properties, signal connections, reactive subscriptions | `SetterCommand`, `CreateReactiveSubscription`, the monitor | several publishes inside one command, any of which may end the process |
| `StopWatch`, factories, interfaces | see 8 | | |

How they interact. `PlumberClient::Subscribe` sends a `CreateStream` command through
the command path; on the server `CreateStreamCommandHandler`, in the receive thread of
the command socket, calls `EventStore::EnsureStreamCreated`; when the answer is back,
the client dials the stream's publish socket and starts a receive thread of its own.
All command handlers of a server run in that one receive thread; other threads of the
application can reach the store through `Plumber::GetEventStore`. A client and a
server share nothing but the wire, so what they registered has to agree by contract.

What makes each part correct:

- registry: tables keyed by type and by id never contradict each other, also after a
  refused registration; a command is handled as the type it was sent as or not at all;
- frames: a successful `Read` returns what one `Write` put there, and whether a frame is
  refused depends on its message alone;
- commands: an answer belongs to the caller's own command; a command runs once per
  transmission; every call ends when the server stays up; faults arrive as faults;
- store: an answered `CreateStream` means somebody listens; publishing reaches exactly
  the stream's sockets;
- server: the receive thread only touches buffers that exist and are the handler's; no
  sequence of Start and Stop leaves the flags contradicting each other; a stopped socket
  takes one more request at most; the destructor ends;
- messages: what is written is read back, in as many bytes as announced;
- example server: a subscription hears of every change of its properties, once;
- subscriptions: order, no duplicates, silence after `Unsubscribe` up to one event,
  a destruction that ends, joins the thread if there is one and frees nothing in use.

`PROJECT.json` lists the hazards behind these properties at their lines.

## 2. Modules and code

`PROJECT.json` ("map") gives the source lines of every definition. Definitions named
"Fault: ..." in a comment are deliberately wrong variants that are not part of any
specification: substituting one for the operator after it must break a property
(the "mutants" of `PROJECT.json`).

**MessageRegistry** – `reg[p]` is the `MessageSerializer` of the client and of the server
process, `handlers` the dispatcher's table, `factories` the client's exception factories.
A functor is represented by the type it casts its message to. The pairs `<<type, id>>`
that a program registers are template arguments, hence the constant `Contract`; each may
be registered at any time and again. `RegisterMessage` gives a type its id once
(`RegisterThrows` when asked for another) and overwrites the entry of the id. The compound
registrations stop at the first throw and keep what was done before it. The overload of
`RegisterHandler` for a handler that returns a message is not there: it calls `Write` with
the address of the message, which selects the template of `proto_frame_buffer.hpp:35`, whose
`payload.SerializeToArray` does not compile for a pointer, so no program has it. `Dispatch`
follows a command from the client's maps through the server's.

**Frame**, **FrameExchange** – a buffer is its two size words, the places where the last
header and payload were serialized, and `_written`. `Write` refuses a part that does not fit
after the earlier part has been written. `Read` computes in `uint32_t` (`WordMod`) and has
the code's ways to throw, in its order: too small, a header that is not parsed, and
(`Deserialize`) an id that is not registered or a payload that is not parsed, then a
size/type mismatch. `Parsable` are the messages whose strings are UTF-8. FrameExchange takes
commands through the server's two buffers: `Send`, `Receive` (`recv`, `AckWritten`, `Reset`,
`Read`), `Respond`, `Return`.

**CqrsMessages** – objects of the four classes of `cqrs.proto`, each a record of fields plus
unknown fields. A message class is a table of fields, which the generated code writes out
in every function; `Serialize`, `ByteSizeLong`, `Merged`, `Cleared` go over the table.
Bytes are real bytes and numbers are base-128 digits, so that 32- and 64-bit values keep
their width; the length in front of a string has three of them. What is written is the
sequence of the `Pieces`, one for each field and unknown field. The parser (`TcParser`,
external) is modelled by what it does with a table: `Advance` reads one tag and its value,
known fields by number and wire type, the rest kept as unknown, strings refused when not
UTF-8 (`Utf8Valid`, well-formed sequences of one to four bytes), and `Parsed` is as many
`Advance`s as there are bytes. `Deserialize` makes a new object of a class from the bytes of
an object of any class, as nothing in a frame names the class of its header, and drops it
when the parser refuses.

**CommandFlow** – a caller is a thread in `Send` or `Start`, one access to shared state per
action (`CheckConnected`, `SocketStart`, `Dial`, `MarkSocket`, `MarkHandler`, `SocketSend`,
`SocketRecv`, `Return`; `WriteFails` when the command cannot be written). `ClientOf` says
who shares a client. The server is its receive thread: `Receive`, `HandleRequest` /
`HandlerThrows` / `RejectRequest`, `SendResponse`, `ReceiveTimeout`; it may `Crash` between
any two steps and start again (`StartServer`). NNG is external, modelled from its use: a
REQ socket has one outstanding request which a further send replaces (a waiting receive
is cancelled), replies are matched by request id, requests are sent again after a lost
connection or a timer (`Resend`). A command is a name; a response is a status and whether
it has a type (none has a payload: `Get()` of both fault classes is null and handlers return
nothing): `Reply` and `ProcessResponse` are what `HandleRequest` and the client's
`ProcessResponse` make of the end of a handler.

**CommandService** – the abstract specification of the command path: calls are submitted,
executed any number of times and answered with the end of one of their own executions,
or fail. `CommandFlow!Service` instantiates it: `PhaseOf`, `AnswerOf` and `CallOf` map a
caller's program counter, result and transmissions; `executed` is the history `ran`.

**CommandServer** – the server from constructor to destructor. The main thread adds handlers
(an insertion is two steps), starts through `Plumber` or the handler (`OnStart`,
`Initialize`, `SocketStart`, `Spawn`, `Mark`), stops and destroys (`Release` of the buffers,
then `ReleaseTables` of dispatcher and serializer, then `SocketStop` and `Join`, the reverse
order of declaration); the receive thread goes through `Loop`, `Recv`, `Read`, `Lookup`,
`Write`, `Send`. Pairs of buffers are numbered, `owned` is the pair in the handler's
`unique_ptr`s and `ptr` the one whose addresses the socket has. Reading a released pair, one
nothing was received into, or a table that is released or being changed has any outcome, the
end of the process included.

**EventStore** – `streams` is `_publishedStreams`, `bound` the sockets that listen. A thread
is in `EnsureStreamCreated` (`StreamExists`, `MakeSocket`, `AddStream`, `Listen`),
`CreateStream` (the same without the check) or `Publish` (`PublishRange`, `PublishOne` per
handler). Insertion into the `unordered_multimap` while another thread iterates is a data
race: that thread's remaining range becomes arbitrary (`todo'` in `AddStream`). An
exception in the receive thread ends the process, elsewhere it goes to the caller.

**ReactiveApp** – the example server on top of EventStore (it extends the module and
interleaves with its steps): `CreateStream` and `CreateReactiveSubscription` commands,
`SetValue` with the signal it raises, `OnPropertyChanged` with one `Publish` of the store
per stream. `seen` is what the events sent over a stream add up to.

**Subscription** – one user thread (`Subscribe`, `Dial`, `Spawn`, `Unsubscribe`, `Restart`,
`Destroy`, `Release`, `SocketStop`, `Join`, `DestroyClient`) and a receive thread per
subscription (`Loop`, `Recv`, `RecvTimeout`, `Check`, `Read`, `Handle`, or
`HandlerUnsubscribes` when the handler unsubscribes its own subscription). `SocketStop`
looks at the socket's `_running` as `~NngSubscribeSocket` does and joins only if it is set;
a failed `Dial` destroys the stream through the same steps. `Restart` is
`ProtoSubscribeHandler::Start` after `Stop`. `Unsubscribe` goes through a raw pointer to the
client's manager, which dangles when the client was destroyed first: then the call has no
effect on the manager or ends the process (`ParentUnsubscribes`). One precondition: a
handler does not unsubscribe while the user thread is destroying the same subscription, as
its own pointer to it would dangle. Publisher and SUB queue are external: `Publish` appends
to the queues of the attached sockets but for those whose connection is broken just then, a
full queue drops its oldest event, `Attach` is the dialer's connection. Events are numbered
in the order of publication. `Unreadable` events make `Read` throw, `Unmapped` ones have no
handler function.

`MC*.tla` instantiate the modules for TLC, `*Proofs.tla` hold the theorems.

## 3. Runs

| run | instance | shows |
|---|---|---|
| registry | 3 types, 4 ids, both processes, one type with two ids in the contract | `TablesAgree`, `DispatchSound`, `FactorySound`, and that a type's id never changes (`TypeIdStable`) |
| frames | buffer of 20 bytes, sizes that fit exactly, exceed by one, are empty; strings that are not UTF-8, an id the server does not know | `NoTornFrame`, `FitsCapacity`; a frame is refused just if its message cannot be read as such (`RefusedForItself`) |
| codec | two objects, numbers at 0, two digits and their full width, strings that are empty, of letters of one and two bytes, and cut inside a letter (not UTF-8), one unknown field | `SizeExact`, `RoundTrip`, `MergeIsConcatenation`, `CopyExact`, `CutNeverAlters` |
| commands | one caller, two requests, two transmissions per server life, two lives, handlers that return or throw a fault | `ReplyMatchesRequest`, `OneRunPerTransmission`, `NoSocketMisuse`, and the refinement `ImplementsService` |
| calls_end | two callers share a client, commands that cannot be written or read, throwing handlers | `CallsEnd`: if the server stays up, every call ends |
| server | two commands, three pairs of buffers, two requests | `BuffersLive`, `AnswersOwnRequest`, `FlagsAgree`, `AtMostOneAfterStop`, `DestructorEnds` |
| reactive | receive thread creates and publishes, another thread publishes, two streams, three sockets, two properties | `AnsweredMeansListening`, `NoDeafHandler`, `PublishReachesStream`, `SubscribersCurrent`, `ToldOnce` |
| subscription | two subscriptions of one handler in succession, three events, one of them unreadable, queue of one, broken connections, failed dials, the client destroyed at any time, fair threads | `HandledInOrder`, `HandledOnce`, `AtMostOneLate`, `NoThreadAbandoned`, `DestructionEnds`, `QueueDrains` |
| shared_reply | two threads on one client | violation of `ReplyMatchesRequest` |
| typed_answers | a handler returns or throws `TypedFaultException` | violation of `EndReachesCaller` |
| release_order | a subscription outlives its client | violation of `NoUseAfterRelease` |
| replay | an event is published before the subscriber is attached | violation of `Replayed` |

Each module also has one type invariant, checked by one of its runs. Runs with
`CHECK_DEADLOCK FALSE` are of systems that may stop: bounds on requests, events or
sockets are used up, callers need not call, a dead process stays dead.

Two properties of the server have a condition, because the code breaks them outside of it:
`BuffersLive` and `AnswersOwnRequest` exclude a `Start` after `Stop` (`again`) and the time
between the release of the buffers and the join in the destructor. The history makes the
exception exact. `HandledOnce` is about subscriptions that follow one another and were not
started again (`again` of Subscription): with a restart a queued event can be handled by
the old and the new subscription.

## 4. Bounds

All bounds are constants: `MaxRequests`, `MaxTx`, `MaxStarts`, `MaxSockets`, `MaxBuffers`,
`MaxEvents`, `MaxUnknown`, `QueueSize`, `Capacity`, `WordMod`.

- Mixing up answers takes two requests of one client and a late reply: two requests
  and two lives of the server give every order of crash, resend and late reply.
- Two transmissions per life is the least with a timer resend; with two lives a request
  can be transmitted four times.
- Three sockets let a stream be created twice through `CreateStream` and another once.
- Three events with an unreadable one between leave two to put in order or to be late
  with; a queue of one overflows with two. Two subscriptions are what `HandledOnce` is
  about. No event is `Unmapped` in the run (a step that changes nothing but the program
  counter); the theorems are for any set of them.
- Three pairs of buffers are a Start that finds the address taken, one that works and one
  after Stop.
- Two objects are what copy, merge and swap take; the numbers have every length of varint
  at which truncation to 32 bits, or the tenth byte, matters.
- Strings are shorter than 2^21 bytes (`LengthLimit`, a definition and no constant: the
  theorems have it too). A frame takes no message of more than 2^16.
- The frame sizes are chosen around `Capacity`, requests and responses whose payload has
  no bytes included; `WordMod` only has to exceed it, as 2^32 exceeds 64 KiB.

The theorems of section 6 hold for every value of these constants.

## 5. Fairness

`CommandFlow!Fairness`: weak fairness of each caller's thread, of the receive thread
(handlers end), of the delivery of replies, and of `Resend(k, 1)`, the transmission of an
outstanding request to a server that came back, which the reconnecting dialer of a REQ
socket makes. Callers need not call, timers need not expire, servers need not crash or
start; `CallsEnd` has the premise that the server is up from some time on, as nothing in
the library restarts it. `CommandServer!FairSpec`: weak fairness of the main thread inside a
call and of the receive thread (a handler returns; a receive times out after 1000 ms).
`Subscription!FairSpec`: weak fairness of the user thread inside a call and of each receive
thread (the handler it calls returns; a receive has a timeout of 100 ms, so the loop
always turns); `ConnectedSpec` adds `Attach`, the dialer, for the run replay, so that its
counterexample is not a subscriber that never connects. Strong fairness is used nowhere.

## 6. Proofs

Liveness under fairness and `ENABLED` are beyond the prover and stay with TLC. Every safety
property that a passing run checks is also a theorem.

| theorem | assumption | statement |
|---|---|---|
| `MessageRegistryProofs!RegistryTypes`, `RegistryAgreement`, `IdsStable` | – | always `TypeOK`, `TablesAgree`; `TypeIdStable` of every step |
| `MessageRegistryProofs!DispatchSoundness`, `FactorySoundness` | `UniqueIds` | always `DispatchSound`, `FactorySound` |
| `CommandFlowProofs!TypeCorrect`, `RunsBounded` | – | always `TypeOK`, `OneRunPerTransmission` |
| `CommandFlowProofs!AnswersAreOwn`, `SocketsInStep` | `OneThreadPerClient` | always `ReplyMatchesRequest`, `NoSocketMisuse` |
| `CommandFlowProofs!CommandFlowImplementsService` | `OneThreadPerClient` | `Spec => ImplementsService` |
| `CommandServerProofs!ServerTypes`, `FlagsInStep`, `BuffersStayLive`, `AnswersFromOwnBuffers`, `StopTakesEffect` | – | always `TypeOK`, `FlagsAgree`, `BuffersLive`, `AnswersOwnRequest`, `AtMostOneAfterStop` |
| `FrameExchangeProofs!ExchangeTypes`, `FramesWhole`, `BuffersSuffice`, `RefusalsAreTheMessages` | – | always `TypeOK`, `NoTornFrame`, `FitsCapacity`, `RefusedForItself` |
| `CqrsMessagesProofs!MessageTypes`, `SizesAreExact`, `WrittenIsRead`, `ConcatenationsMerge`, `CopiesAreExact`, `CutsNeverAlter` | – | always `TypeOK`, `SizeExact`, `RoundTrip`, `MergeIsConcatenation`, `CopyExact`, `CutNeverAlters` |
| `EventStoreProofs!StoreTypes`, `AnsweredStreamsListen`, `HandlersListen`, `HandlerPublishReachesStream`, `OneListenerPerStream` | `OneCreator` | always `TypeOK`, `AnsweredMeansListening`, `NoDeafHandler`, `PublishReachesStream`, `OneListener` |
| `ReactiveAppProofs!AppUsesStore` | – | `AppSpec => Spec` of EventStore |
| `ReactiveAppProofs!AppKeepsStorePromises`, `AppTypesHold`, `ChangesToldOnce`, `SubscribersStayCurrent` | `OneCreator` | under `AppSpec` always the three properties of the store, `AppTypeOK`, `ToldOnce`, `SubscribersCurrent` |
| `SubscriptionProofs!TypeCorrect`, `UnsubscribeTakesEffect`, `NoThreadIsAbandoned`, `DeliveryInOrder` | – | always `TypeOK`, `AtMostOneLate`, `NoThreadAbandoned`, `HandledInOrder` |
| `SubscriptionProofs!NoDuplicateDelivery` | `Overlap = FALSE` | always `HandledOnce`, between two subscriptions neither of which was restarted |

The assumptions are about how the library is used and are needed: run shared_reply
shows `AnswersAreOwn` false without its own, and section 7 says what goes wrong without
the other two.

*Registry.* `TablesAgree` is inductive with `TypeOK`; `RegisteredLemma` says what one
`RegisterMessage` does to one serializer, and every action is one or two of those.
With unique ids the agreement of each process and the common contract give soundness
of `Dispatch`.

*Frames.* `Holds(b, h, p)` says that buffer `b` starts with the frame of `h` and `p`: the two
size words, the place of either part, and `_written`. A `Write` to an empty buffer that does
not throw leaves it (`WriteHolds`, where `Capacity < WordMod` keeps the size words from
wrapping), `recv` carries it over whatever the receiving buffer held (`ReceivedHolds`), and
`Read` returns header and payload of such a buffer or finds the message `Refusable`
(`ReadHolds`). `ExchangeInv` says when they apply: the frame under
way holds what was asked or answered last, and `_outBuffer` is empty whenever a response
is written, which is what the `Reset` in `HandleRequest` is for.

*Messages.* `TypeOK` is inductive as it stands, and the other five follow from it: they are
facts about any message, not about how an object came to hold it. They need induction over
bytes and pieces, which `SetInduction` gives for a set of numbers, from the well-foundedness
of `<` on Nat (`LeastNat`); with it a recursive function is shown to have its values
(`FlattenFunction`, `FlattenFirst`, `FlattenLength`) and the parser to keep what each
`Advance` keeps and to be at the end of the bytes when it accepts (`ParsedStays`). Below
that are the digits (`LowSame`: a field gets back the digits it was written with, though
they pass through a 32- or 64-bit mask), the varints (`ReadVarintAt`, `ReadVarintEarly`),
and a value at the front of any bytes, whole or cut (`ReadValueBack`, `ReadValueEarly`). The
invariant of the parser is `Reached`: after the first `j` pieces it holds the message those
make, and what is left is the rest of the pieces or the beginning of that rest. `Trace` is
the sequence of these messages. As fields at their defaults have pieces without bytes, `j`
is not unique: every step is taken from the furthest one (`ReachedFurthest`, `ReachedStep`),
and `ParsedTrace` says where it ends. The messages of the trace are `Overlay(t, m0, m, j)`,
`m0` with what the first `j` pieces of `m` hold (`FieldPiece`, `UnknownPiece`); from the
default message all pieces make `m` (`RoundTrip`), some of them make part of `m`
(`CutNeverAlters`), and from another message they make `Merged` (`MergeTrace`,
`MergeIsConcatenation`). For `SizeExact` the arithmetic of `VarintSize`, `(log2 * 9 + 73)
\div 64`, is shown to be the number of digits (`VarintSizes`).

*Command flow.* Four layers. `TypeInv`: types, that a caller past `Send` has a command,
that the server's buffers hold something when they are used. `HistInv`: what ran was
received, and a transmission is under way, being handled, or done, never two of these,
which gives `OneRunPerTransmission`. `EvidenceInv`: every response on its way, in the
server's buffer or in a REQ socket is the `Reply` of a recorded run of the request it is
for. `CallerInv` (one caller per client): when a caller waits, the outstanding request is
its own and carries its command; the two flags change together between calls.
`Bystander` and `OtherCallers` say that steps of other clients do not disturb this.

*Refinement.* Every action of CommandFlow maps to one of CommandService or to a stutter:
`Send` to `Call`, `SocketSend` to `Submit`, `HandleRequest` and `HandlerThrows` to `Execute`,
a `Return` with a readable response to `Answer`, the ends without one to `Fail`, `Start` to
`Connect`. `EvidenceInv` gives the execution that `Answer` asks for, and a further fact on
ids (a client's requests are numbered by its only caller) that a `Submit` is a new call.

*Server.* None of the safety properties is inductive: each only speaks of the moments when
it matters. `FlagInv` says for every step of the main thread what the flags are, all as a
consequence of `bound`: the thread is there from `Spawn` on, which only a `SocketStart` that
found the socket unbound reaches. `BufferInv` says that until `again` becomes true the
pointers in the socket are the handler's own pair, also while no request is under way, and
`AnswerInv` that this pair holds the request in hand and, after `Write`, its response.
`StepInv` has the preconditions of the next steps (room for a pair, a key to insert), on
which the types rest; these are shown in four groups (places, flags, numbers, contents), as
few actions write to more than one or two. IInv was checked with TLC on the instance of run
server first.

*Event store.* With one creator only the receive thread is between check and listen
(`CreatorInv`), so every other table entry listens while the process is alive
(`ListenInv`), what was answered stays answered (`AnswerInv`), and what its `Publish` has
sent and has still to send together are the table's entry (`PublishInv`). `SocketInv` adds
that the socket a creating thread has in hand is new, does not listen and is in the table of
no other stream; as a second socket of a stream finds the address taken, a stream has
one listening socket (`OneListenerPerStream`).

*Example server.* Every action of ReactiveApp is a step of EventStore or leaves its
variables alone (`AppStepIsStoreStep`), so `AppSpec` implements `Spec` under the identity
mapping and what is proved of the store holds in the server. `AppInv` adds where the
command in progress is: the store's call it waits for is its own (`CommandInv`), a
subscription has a handler in the table (`SubsInv`), a stream still to be told has not been
told (`ToldInv`, which with `OneListener` gives `ToldOnce`), and the one property a
subscriber may be behind with is the one being told, until the event has gone out over its
stream (`SeenInv`, of which `SubscribersCurrent` is the case between two commands). AppInv
was checked with TLC on the instance of run reactive first.

*Subscription.* `LateInv` relates the history variable `late` to where the thread is:
after `Stop` it can only count the event already past `Check`. For the order, `OrderInv`
says that `handled`, the event in hand, the queue and `published` form one increasing
sequence; the lemmas on `Append`, `Tail` and `Enqueue` carry it. `HandledOnce` needs to
know where the subscriptions stand to each other in time: when they do not overlap, what an
earlier one can still handle was published before the later one was attached.
`NoThreadAbandoned` is about one moment, the look at the socket's `_running` in the destructor;
`QuietInv` is what makes it inductive: the flag is true of every thread but the one a
destructor is waiting for, through failed dials, both kinds of Unsubscribe and restarts.

Only model-checked: liveness (`CallsEnd`, `DestructorEnds`, `DestructionEnds`,
`QueueDrains`).

## 7. What the models showed

As runs (see "findings" in `PROJECT.json` for the lines that are contradicted):

- Two threads sharing a client can get each other's answers (shared_reply).
- A `TypedFaultException` does not reach the caller: its response has a type and no payload,
  as the class does not override `Get()`, and the client's `Read` refuses it (typed_answers).
- A subscription that outlives its client releases the serializer before the thread
  that uses it is joined (release_order).
- Events are neither kept nor replayed (replay).

Seen while modelling, each a consequence of a module's definitions:

- Two types registered under one id are not refused: the second takes over the id's
  entry (`message_serializer.hpp:88`). `DispatchSound` needs `UniqueIds`.
- A `FaultException` with a code from 200 to 299 is success to the caller
  (`ProcessResponse`).
- Two threads whose first `Send` on one client coincides: one may throw "Socket already
  connected" (`NoSocketMisuse` needs `OneThreadPerClient`).
- `Publish` from another thread between `AddStream` and `Start` throws "Socket not bound";
  with two creating threads a `CreateStream` may be answered for a stream nobody listens
  on (`AnsweredMeansListening` needs `OneCreator`).
- `Start` after `Stop` on a server makes new buffers, hands them to the socket and then
  throws "Socket already bound": the receive thread, which was never ended, may at that
  time be writing into the pair that is freed. Afterwards requests are answered again.
- The destructor of a server frees both buffers, the dispatcher and its serializer before
  it joins the receive thread.
- `Unsubscribe` on a subscription whose client is gone uses a dangling pointer.
- `ProtoSubscribeHandler::Start` after `Stop` throws "Socket already connected", and the
  subscriber is running again.
- A fault whose text is not UTF-8 is sent and cannot be parsed by the client (`RoundTrip`).
- In the example server a `CreateReactiveSubscription` for a stream that exists ends the
  server, as does a `SetterCommand` for an unknown property.
- A payload without bytes is no payload to `Read`: the proof of `NoTornFrame` failed on it
  until the property said what is delivered (`Delivered`). In a response it takes a fault
  class of the application's own that overrides `Get()`.
- A handler that returns a message cannot be registered (section 2, MessageRegistry).
- A command with no bytes of payload (all fields default) ends the server process, as does
  one with an unknown id or without handler (`RejectRequest`).

## 8. Not modelled

- Addresses and logging: data without influence on control here. Protobuf's arenas,
  reflection, descriptors and cached sizes: not used by the library.
- The creation of a thread, a socket or an object succeeds; `listen` and `dial` may fail.
  `recv` and `send` of a running socket fail in no other way than by timeout or the state
  of the REQ socket.
- `ProtoSubscribeHandler::Start` tried again after a failed dial.
- More than one creator of streams: the properties of the store are stated for one
  (`OneCreator`), that is, for stream creation in command handlers only.
- An initial value: the example server sends none with a new subscription, so `seen` starts
  at the value of that moment, an assumption of ReactiveApp about how it is learned.
- Time: a timeout is a step that may happen when nothing has arrived.
- A handler that destroys its own subscription: one thread, one outcome (the destructor
  joins its own thread, throws and ends the process). A handler that calls `Send`.
- The erase and `push_back` on the client's list of subscriptions, which nothing reads, and
  memory that is not released (the payload of an event whose handler throws).
- `SubscriptionManager`'s in-process subscribers: a private class none of whose users
  subscribes. `Plumber::AddEventHandler` changes no state.
- `StopWatch` (a sequential timer nothing uses), the socket factory, interfaces,
  `utils.hpp`, the example's command-line client.

## 9. Plan

Done, in the order of the plan: MessageRegistry, Frame/FrameExchange, CommandFlow,
EventStore, Subscription; then CommandServer, the extension of Subscription, CommandService
with the refinement and its proof, CqrsMessages, ReactiveApp, and the proofs of
CommandServer, FrameExchange, ReactiveApp and CqrsMessages. Next: the composition of
CommandFlow's `CreateStream` answer, EventStore and Subscription.
