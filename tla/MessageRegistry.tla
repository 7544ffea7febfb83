--------------------------- MODULE MessageRegistry ---------------------------
(***************************************************************************)
(* The message registrations of a client and of a server process, and what *)
(* they make of a command that travels from one to the other.              *)
(*                                                                         *)
(* Each process owns one MessageSerializer (message_serializer.hpp) with   *)
(* two maps that are meant to be inverse to each other: _typeIdMap gives   *)
(* the id under which a C++ type is sent, _messageIdMap the type that is   *)
(* instantiated for a received id.  The server adds the id-keyed handler   *)
(* table of its MessageDispatcher, the client the id-keyed exception       *)
(* factories of ProtoReqRspClientHandler.  Registrations are template      *)
(* instantiations, so the pairs <<type, id>> a program can register are a  *)
(* constant; each can run at any time, any number of times, in any order.  *)
(***************************************************************************)
EXTENDS Naturals

CONSTANTS Types,     \* the protobuf message types
          Ids,       \* the message ids, all of them > 0
          Contract,  \* the pairs <<type, id>> the program instantiates
          NoId,      \* "the type has no id": _typeIdMap.find(..) == end()
          NoType     \* "the id has no type": _messageIdMap.find(..) == end()

ASSUME ContractAssumption == Contract \subseteq Types \X Ids
ASSUME NoneAssumption == NoId \notin Ids /\ NoType \notin Types

VARIABLES reg,       \* reg[p]: the MessageSerializer of process p
          handlers,  \* MessageDispatcher::_handlers of the server: the type
                     \* the functor under an id casts its message to
          factories  \* _exceptionFactories of the client, likewise

vars == <<reg, handlers, factories>>

Procs == {"client", "server"}

Serializer == [typeIdMap    : [Types -> Ids \cup {NoId}],
               messageIdMap : [Ids -> Types \cup {NoType}]]

TypeOK ==
  /\ reg \in [Procs -> Serializer]
  /\ handlers \in [Ids -> Types \cup {NoType}]
  /\ factories \in [Ids -> Types \cup {NoType}]

Init ==
  /\ reg = [p \in Procs |-> [typeIdMap    |-> [t \in Types |-> NoId],
                             messageIdMap |-> [i \in Ids |-> NoType]]]
  /\ handlers = [i \in Ids |-> NoType]
  /\ factories = [i \in Ids |-> NoType]

-----------------------------------------------------------------------------
(***************************************************************************)
(* MessageSerializer::RegisterMessage<TMessage, MessageId>.  A type that   *)
(* already has an id keeps it: the call returns when the id is the same    *)
(* one and throws when it is another.  A new type is bound in both maps;   *)
(* operator[] on _messageIdMap replaces whatever the id meant before.      *)
(***************************************************************************)
RegisterThrows(s, t, i) == s.typeIdMap[t] \notin {NoId, i}

(* Fault: the lookup of the type is missing.                               *)
RegisteredWithoutLookup(s, t, i) ==
  [typeIdMap    |-> [s.typeIdMap EXCEPT ![t] = i],
   messageIdMap |-> [s.messageIdMap EXCEPT ![i] = t]]

Registered(s, t, i) ==
  IF s.typeIdMap[t] # NoId
    THEN s
    ELSE [typeIdMap    |-> [s.typeIdMap EXCEPT ![t] = i],
          messageIdMap |-> [s.messageIdMap EXCEPT ![i] = t]]

(* MessageSerializer::RegisterMessage, called directly, through            *)
(* ProtoReqRspClientHandler::RegisterRequest, or through the server side   *)
(* ProtoReqRspSrvHandler::RegisterError, which only registers the type.    *)
RegisterMessage(p, t, i) ==
  /\ reg' = [reg EXCEPT ![p] = Registered(@, t, i)]
  /\ UNCHANGED <<handlers, factories>>

(* Fault: the two ids are swapped.                                         *)
RegisterRequestResponseSwapped(t, i, u, j) ==
  /\ reg' = [reg EXCEPT !["client"] = Registered(Registered(@, t, j), u, i)]
  /\ UNCHANGED <<handlers, factories>>

(* ProtoReqRspClientHandler::RegisterRequestResponse: when the first call  *)
(* throws the second is never made; when the second throws the first one's *)
(* registration stays.                                                     *)
RegisterRequestResponse(t, i, u, j) ==
  LET s == reg["client"]
  IN  /\ reg' = [reg EXCEPT !["client"] =
                   IF RegisterThrows(s, t, i)
                     THEN s
                     ELSE Registered(Registered(s, t, i), u, j)]
      /\ UNCHANGED <<handlers, factories>>

(* Fault: the dispatcher is filled although the serializer refused.        *)
RegisterHandlerUnchecked(t, i) ==
  /\ reg' = [reg EXCEPT !["server"] = Registered(@, t, i)]
  /\ handlers' = [handlers EXCEPT ![i] = t]
  /\ UNCHANGED factories

(* Fault: the entry keeps the id where the handler belongs.                *)
RegisterHandlerById(t, i) ==
  /\ reg' = [reg EXCEPT !["server"] = Registered(@, t, i)]
  /\ handlers' = [handlers EXCEPT ![i] = i]
  /\ UNCHANGED factories

(* ProtoReqRspSrvHandler::RegisterHandler / RegisterHandlerWithMetadata:   *)
(* the serializer first, and only if it did not throw the dispatcher,      *)
(* which replaces the functor the id had.  (The overload for a handler     *)
(* that returns a message cannot be instantiated: Write takes the address  *)
(* it is given for a message and does not compile.)                        *)
RegisterHandler(t, i) ==
  /\ reg' = [reg EXCEPT !["server"] = Registered(@, t, i)]
  /\ handlers' = IF RegisterThrows(reg["server"], t, i)
                   THEN handlers ELSE [handlers EXCEPT ![i] = t]
  /\ UNCHANGED factories

(* Fault: the factory is stored although the serializer refused.           *)
RegisterErrorUnchecked(t, i) ==
  /\ reg' = [reg EXCEPT !["client"] = Registered(@, t, i)]
  /\ factories' = [factories EXCEPT ![i] = t]
  /\ UNCHANGED handlers

(* ProtoReqRspClientHandler::RegisterError: serializer, then factory.      *)
RegisterError(t, i) ==
  /\ reg' = [reg EXCEPT !["client"] = Registered(@, t, i)]
  /\ factories' = IF RegisterThrows(reg["client"], t, i)
                    THEN factories ELSE [factories EXCEPT ![i] = t]
  /\ UNCHANGED handlers

Next ==
  \E c \in Contract :
    \/ \E p \in Procs : RegisterMessage(p, c[1], c[2])
    \/ \E d \in Contract : RegisterRequestResponse(c[1], c[2], d[1], d[2])
    \/ RegisterHandler(c[1], c[2])
    \/ RegisterError(c[1], c[2])

Spec == Init /\ [][Next]_vars

-----------------------------------------------------------------------------
(***************************************************************************)
(* What becomes of a command of type t sent now: the client looks the id   *)
(* up (GetMessageId throws when there is none), the server instantiates    *)
(* the type its own map gives for the id (Deserialize throws when there is *)
(* none), the dispatcher looks the functor up (Handle throws when there is *)
(* none) and the functor casts the message (a failed cast throws).  The    *)
(* bytes on the wire carry no type, so a message of type t instantiated as *)
(* another type u is parsed as a u.                                        *)
(***************************************************************************)
Dispatch(t) ==
  LET i == reg["client"].typeIdMap[t]
      u == reg["server"].messageIdMap[i]
  IN  CASE i = NoId             -> [outcome |-> "not sent", as |-> NoType]
        [] i # NoId /\ u = NoType -> [outcome |-> "unknown id", as |-> NoType]
        [] i # NoId /\ u # NoType /\ handlers[i] = NoType ->
             [outcome |-> "no handler", as |-> u]
        [] i # NoId /\ u # NoType /\ handlers[i] \notin {NoType, u} ->
             [outcome |-> "type mismatch", as |-> u]
        [] OTHER -> [outcome |-> "handled", as |-> u]

(* No two types are registered under one id, by either process.            *)
UniqueIds == \A c, d \in Contract : c[2] = d[2] => c[1] = d[1]

(***************************************************************************)
(* Properties.                                                             *)
(***************************************************************************)

(* The maps of a serializer and the tables keyed by id never drift apart,  *)
(* whatever was registered and whatever threw half way: an id decodes only *)
(* to a type that is sent under that id, an id a type is sent under always *)
(* decodes to something, and a functor is only stored for a type that the  *)
(* same process sends and decodes under that id (RegisterMessage,          *)
(* RegisterHandler, RegisterError; holds even when ids are not unique).    *)
TablesAgree ==
  /\ \A p \in Procs : \A t \in Types, i \in Ids :
       /\ reg[p].messageIdMap[i] = t => reg[p].typeIdMap[t] = i
       /\ reg[p].typeIdMap[t] = i => reg[p].messageIdMap[i] # NoType
       /\ reg[p].typeIdMap[t] = i => <<t, i>> \in Contract
  /\ \A t \in Types, i \in Ids :
       /\ handlers[i] = t => reg["server"].typeIdMap[t] = i
       /\ factories[i] = t => reg["client"].typeIdMap[t] = i

(* With unique ids a command is handled as the type it was sent as or not  *)
(* at all: it is never parsed as another type, and a handler that was      *)
(* registered is never reached by a message it cannot cast, although       *)
(* client and server register independently and in any order.              *)
DispatchSound ==
  \A t \in Types :
    /\ Dispatch(t).outcome # "type mismatch"
    /\ Dispatch(t).as \in {t, NoType}

(* With unique ids the client's exception factory for an id always casts   *)
(* the error details to the type the serializer instantiated, so           *)
(* "Error type mismatch" (RegisterError) is never thrown.                  *)
FactorySound ==
  \A i \in Ids : factories[i] # NoType =>
                   reg["client"].messageIdMap[i] = factories[i]

(* A type's id never changes once it was given: frames already written     *)
(* with the old id stay decodable (RegisterMessage's early return and      *)
(* throw).                                                                 *)
TypeIdStable ==
  [][\A p \in Procs, t \in Types :
       reg[p].typeIdMap[t] # NoId
         => reg'[p].typeIdMap[t] = reg[p].typeIdMap[t]]_vars
=============================================================================
