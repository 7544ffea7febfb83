------------------------ MODULE MessageRegistryProofs ------------------------
(* Theorems about MessageRegistry, for every contract.                     *)
EXTENDS MessageRegistry, TLAPS

(* What one serializer promises on its own: the part of TablesAgree that   *)
(* speaks of its two maps.                                                 *)
MapsAgree(s) ==
  \A t \in Types, i \in Ids :
    /\ s.messageIdMap[i] = t => s.typeIdMap[t] = i
    /\ s.typeIdMap[t] = i => s.messageIdMap[i] # NoType
    /\ s.typeIdMap[t] = i => <<t, i>> \in Contract

(* RegisterMessage keeps a serializer well typed and its maps in           *)
(* agreement, never takes a type's id away, and, unless it throws, leaves  *)
(* the type bound to the id it was called with.                            *)
LEMMA RegisteredLemma ==
  ASSUME NEW s \in Serializer, MapsAgree(s), NEW c \in Contract
  PROVE  /\ Registered(s, c[1], c[2]) \in Serializer
         /\ MapsAgree(Registered(s, c[1], c[2]))
         /\ \A t \in Types : s.typeIdMap[t] # NoId =>
              Registered(s, c[1], c[2]).typeIdMap[t] = s.typeIdMap[t]
         /\ ~RegisterThrows(s, c[1], c[2]) =>
              Registered(s, c[1], c[2]).typeIdMap[c[1]] = c[2]
<1> DEFINE t0 == c[1]
           i0 == c[2]
           r  == Registered(s, t0, i0)
<1>1. t0 \in Types /\ i0 \in Ids /\ <<t0, i0>> \in Contract
  BY ContractAssumption
<1>2. CASE s.typeIdMap[t0] # NoId
  <2>1. r = s
    BY <1>2 DEF Registered
  <2> QED
    BY <1>1, <1>2, <2>1 DEF RegisterThrows
<1>3. CASE s.typeIdMap[t0] = NoId
  <2>1. r = [typeIdMap    |-> [s.typeIdMap EXCEPT ![t0] = i0],
             messageIdMap |-> [s.messageIdMap EXCEPT ![i0] = t0]]
    BY <1>3 DEF Registered
  <2>2. r \in Serializer
    BY <1>1, <2>1 DEF Serializer
  <2>3. /\ r.typeIdMap[t0] = i0 /\ r.messageIdMap[i0] = t0
        /\ \A t \in Types \ {t0} : r.typeIdMap[t] = s.typeIdMap[t]
        /\ \A i \in Ids \ {i0} : r.messageIdMap[i] = s.messageIdMap[i]
    BY <1>1, <2>1 DEF Serializer
  <2> HIDE DEF t0, i0, r
  <2>4. MapsAgree(r)
    <3>1. ASSUME NEW t \in Types, NEW i \in Ids, r.messageIdMap[i] = t
          PROVE  r.typeIdMap[t] = i
      <4>1. CASE i = i0
        BY <2>3, <3>1, <4>1
      <4>2. CASE i # i0
        <5>1. s.messageIdMap[i] = t
          BY <2>3, <3>1, <4>2
        <5>2. s.typeIdMap[t] = i
          BY <5>1 DEF MapsAgree
        <5>3. t # t0
          BY <1>3, <5>2, NoneAssumption
        <5> QED
          BY <2>3, <5>2, <5>3
      <4> QED
        BY <4>1, <4>2
    <3>2. ASSUME NEW t \in Types, NEW i \in Ids, r.typeIdMap[t] = i
          PROVE  r.messageIdMap[i] # NoType /\ <<t, i>> \in Contract
      BY <1>1, <1>3, <2>3, <3>2, NoneAssumption DEF MapsAgree
    <3> QED
      BY <3>1, <3>2 DEF MapsAgree
  <2>5. \A t \in Types : s.typeIdMap[t] # NoId
                           => r.typeIdMap[t] = s.typeIdMap[t]
    BY <1>3, <2>3
  <2> QED
    BY <2>2, <2>3, <2>4, <2>5 DEF r, t0, i0
<1> QED
  BY <1>2, <1>3

-----------------------------------------------------------------------------
(* Init establishes, and every registration preserves, the agreement of    *)
(* the maps and the tables.                                                *)
IInv == TypeOK /\ TablesAgree

LEMMA TablesAgreeSplit ==
  TablesAgree <=> /\ \A p \in Procs : MapsAgree(reg[p])
                  /\ \A t \in Types, i \in Ids :
                       /\ handlers[i] = t => reg["server"].typeIdMap[t] = i
                       /\ factories[i] = t => reg["client"].typeIdMap[t] = i
  BY DEF TablesAgree, MapsAgree

LEMMA InitIInv == Init => IInv
<1> SUFFICES ASSUME Init PROVE IInv
  OBVIOUS
<1>1. TypeOK
  BY DEF Init, TypeOK, Serializer
<1>2. TablesAgree
  BY NoneAssumption DEF Init, TablesAgree
<1> QED
  BY <1>1, <1>2 DEF IInv

LEMMA NextIInv == IInv /\ [Next]_vars => IInv'
<1> SUFFICES ASSUME IInv, [Next]_vars PROVE IInv'
  OBVIOUS
<1>0. /\ reg \in [Procs -> Serializer]
      /\ handlers \in [Ids -> Types \cup {NoType}]
      /\ factories \in [Ids -> Types \cup {NoType}]
      /\ \A p \in Procs : MapsAgree(reg[p])
      /\ \A t \in Types, i \in Ids :
           /\ handlers[i] = t => reg["server"].typeIdMap[t] = i
           /\ factories[i] = t => reg["client"].typeIdMap[t] = i
  BY TablesAgreeSplit DEF IInv, TypeOK
<1>p. "client" \in Procs /\ "server" \in Procs
  BY DEF Procs
\* What every action does to the serializers, and what that preserves.
<1> DEFINE Grows == /\ reg' \in [Procs -> Serializer]
                    /\ \A p \in Procs :
                         /\ MapsAgree(reg'[p])
                         /\ \A t \in Types : reg[p].typeIdMap[t] # NoId =>
                              reg'[p].typeIdMap[t] = reg[p].typeIdMap[t]
<1>g. ASSUME Grows,
             handlers' \in [Ids -> Types \cup {NoType}],
             factories' \in [Ids -> Types \cup {NoType}],
             \A t \in Types, i \in Ids : handlers'[i] = t =>
               handlers[i] = t \/ reg'["server"].typeIdMap[t] = i,
             \A t \in Types, i \in Ids : factories'[i] = t =>
               factories[i] = t \/ reg'["client"].typeIdMap[t] = i
      PROVE  IInv'
  <2>1. TypeOK'
    BY <1>g DEF TypeOK
  <2>2. \A t \in Types, i \in Ids :
           /\ handlers'[i] = t => reg'["server"].typeIdMap[t] = i
           /\ factories'[i] = t => reg'["client"].typeIdMap[t] = i
    BY <1>0, <1>g, <1>p, NoneAssumption
  <2>3. TablesAgree'
    BY <1>g, <2>2 DEF TablesAgree, MapsAgree
  <2> QED
    BY <2>1, <2>3 DEF IInv
\* One registration in process p.
<1>r. ASSUME NEW p \in Procs, NEW c \in Contract,
             reg' = [reg EXCEPT ![p] = Registered(@, c[1], c[2])]
      PROVE  /\ Grows
             /\ ~RegisterThrows(reg[p], c[1], c[2])
                  => reg'[p].typeIdMap[c[1]] = c[2]
  <2>1. reg[p] \in Serializer /\ MapsAgree(reg[p])
    BY <1>0
  <2>2. /\ reg'[p] = Registered(reg[p], c[1], c[2])
        /\ \A q \in Procs \ {p} : reg'[q] = reg[q]
        /\ DOMAIN reg' = Procs /\ reg' = [q \in Procs |-> reg'[q]]
    BY <1>0, <1>r
  <2>3. /\ reg'[p] \in Serializer /\ MapsAgree(reg'[p])
        /\ \A t \in Types : reg[p].typeIdMap[t] # NoId =>
                              reg'[p].typeIdMap[t] = reg[p].typeIdMap[t]
        /\ ~RegisterThrows(reg[p], c[1], c[2])
             => reg'[p].typeIdMap[c[1]] = c[2]
    BY <2>1, <2>2, RegisteredLemma
  <2>4. reg' \in [Procs -> Serializer]
    BY <1>0, <2>2, <2>3
  <2> QED
    BY <1>0, <2>2, <2>3, <2>4
<1>c. \A c \in Contract : c[1] \in Types /\ c[2] \in Ids
  BY ContractAssumption
<1>1. ASSUME NEW c \in Contract, NEW p \in Procs,
             RegisterMessage(p, c[1], c[2])
      PROVE  IInv'
  <2>1. Grows
    BY <1>1, <1>r DEF RegisterMessage
  <2> HIDE DEF Grows
  <2> QED
    BY <1>0, <1>1, <1>g, <2>1 DEF RegisterMessage
<1>2. ASSUME NEW c \in Contract, NEW d \in Contract,
             RegisterRequestResponse(c[1], c[2], d[1], d[2])
      PROVE  IInv'
  <2> DEFINE s  == reg["client"]
             s1 == Registered(s, c[1], c[2])
             s2 == Registered(s1, d[1], d[2])
             s3 == IF RegisterThrows(s, c[1], c[2]) THEN s ELSE s2
  <2>1. s \in Serializer /\ MapsAgree(s)
    BY <1>0, <1>p
  <2>2. /\ s1 \in Serializer /\ MapsAgree(s1)
        /\ \A t \in Types : s.typeIdMap[t] # NoId =>
                              s1.typeIdMap[t] = s.typeIdMap[t]
    BY <2>1, RegisteredLemma
  <2>3. /\ s2 \in Serializer /\ MapsAgree(s2)
        /\ \A t \in Types : s1.typeIdMap[t] # NoId =>
                              s2.typeIdMap[t] = s1.typeIdMap[t]
    BY <2>2, RegisteredLemma
  <2>4. reg' = [reg EXCEPT !["client"] = s3]
    BY <1>2 DEF RegisterRequestResponse
  <2> HIDE DEF s1, s2
  <2>5. /\ s3 \in Serializer /\ MapsAgree(s3)
        /\ \A t \in Types : s.typeIdMap[t] # NoId =>
                              s3.typeIdMap[t] = s.typeIdMap[t]
    BY <2>1, <2>2, <2>3
  <2> HIDE DEF s3
  <2>6. Grows
    BY <1>0, <1>p, <2>4, <2>5
  <2> HIDE DEF Grows
  <2> QED
    BY <1>0, <1>2, <1>g, <2>6 DEF RegisterRequestResponse
<1>3. ASSUME NEW c \in Contract, RegisterHandler(c[1], c[2])
      PROVE  IInv'
  <2>1. Grows /\ (~RegisterThrows(reg["server"], c[1], c[2])
                    => reg'["server"].typeIdMap[c[1]] = c[2])
    BY <1>3, <1>p, <1>r DEF RegisterHandler
  <2> HIDE DEF Grows
  <2>2. handlers' \in [Ids -> Types \cup {NoType}]
    BY <1>0, <1>3, <1>c DEF RegisterHandler
  <2>3. \A t \in Types, i \in Ids : handlers'[i] = t =>
               handlers[i] = t \/ reg'["server"].typeIdMap[t] = i
    BY <1>0, <1>3, <1>c, <2>1 DEF RegisterHandler
  <2> QED
    BY <1>0, <1>3, <1>g, <2>1, <2>2, <2>3 DEF RegisterHandler
<1>4. ASSUME NEW c \in Contract, RegisterError(c[1], c[2])
      PROVE  IInv'
  <2>1. Grows /\ (~RegisterThrows(reg["client"], c[1], c[2])
                    => reg'["client"].typeIdMap[c[1]] = c[2])
    BY <1>4, <1>p, <1>r DEF RegisterError
  <2> HIDE DEF Grows
  <2>2. factories' \in [Ids -> Types \cup {NoType}]
    BY <1>0, <1>4, <1>c DEF RegisterError
  <2>3. \A t \in Types, i \in Ids : factories'[i] = t =>
               factories[i] = t \/ reg'["client"].typeIdMap[t] = i
    BY <1>0, <1>4, <1>c, <2>1 DEF RegisterError
  <2> QED
    BY <1>0, <1>4, <1>g, <2>1, <2>2, <2>3 DEF RegisterError
<1>5. ASSUME UNCHANGED vars PROVE IInv'
  BY <1>5 DEF vars, IInv, TypeOK, TablesAgree
<1> QED
  BY <1>1, <1>2, <1>3, <1>4, <1>5 DEF Next

(* Whatever is registered, in whatever order, and whatever throws: the     *)
(* maps of a serializer and the tables keyed by id agree.                  *)
THEOREM RegistryAgreement == Spec => []TablesAgree
<1>1. IInv => TablesAgree
  BY DEF IInv
<1> QED
  BY InitIInv, NextIInv, <1>1, PTL DEF Spec

(* The tables keep their types.                                            *)
THEOREM RegistryTypes == Spec => []TypeOK
<1>1. IInv => TypeOK
  BY DEF IInv
<1> QED
  BY InitIInv, NextIInv, <1>1, PTL DEF Spec

(* What a step does to the serializer of a process: nothing, one           *)
(* registration or two.                                                    *)
LEMMA StepRegisters ==
  ASSUME IInv, [Next]_vars, NEW q \in Procs
  PROVE  \/ reg'[q] = reg[q]
         \/ \E c \in Contract : reg'[q] = Registered(reg[q], c[1], c[2])
         \/ \E c, d \in Contract :
              reg'[q] = Registered(Registered(reg[q], c[1], c[2]), d[1], d[2])
<1>0. reg \in [Procs -> Serializer]
  BY DEF IInv, TypeOK
<1>1. ASSUME NEW c \in Contract, NEW p \in Procs,
             reg' = [reg EXCEPT ![p] = Registered(@, c[1], c[2])]
      PROVE  reg'[q] = reg[q] \/ reg'[q] = Registered(reg[q], c[1], c[2])
  BY <1>0, <1>1
<1>2. ASSUME NEW c \in Contract, NEW d \in Contract, NEW p \in Procs,
             reg' = [reg EXCEPT ![p] =
               IF RegisterThrows(reg[p], c[1], c[2]) THEN reg[p]
               ELSE Registered(Registered(reg[p], c[1], c[2]), d[1], d[2])]
      PROVE  \/ reg'[q] = reg[q]
             \/ reg'[q] = Registered(Registered(reg[q], c[1], c[2]), d[1], d[2])
  BY <1>0, <1>2
<1>3. "client" \in Procs /\ "server" \in Procs
  BY DEF Procs
<1>4. CASE UNCHANGED vars
  BY <1>4 DEF vars
<1>5. CASE Next
  <2> PICK c \in Contract :
        \/ \E p \in Procs : RegisterMessage(p, c[1], c[2])
        \/ \E d \in Contract : RegisterRequestResponse(c[1], c[2], d[1], d[2])
        \/ RegisterHandler(c[1], c[2])
        \/ RegisterError(c[1], c[2])
    BY <1>5 DEF Next
  <2>1. CASE \E p \in Procs : RegisterMessage(p, c[1], c[2])
    BY <1>1, <2>1 DEF RegisterMessage
  <2>2. CASE \E d \in Contract :
               RegisterRequestResponse(c[1], c[2], d[1], d[2])
    BY <1>2, <1>3, <2>2 DEF RegisterRequestResponse
  <2>3. CASE RegisterHandler(c[1], c[2])
    BY <1>1, <1>3, <2>3 DEF RegisterHandler
  <2>5. CASE RegisterError(c[1], c[2])
    BY <1>1, <1>3, <2>5 DEF RegisterError
  <2> QED
    BY <2>1, <2>2, <2>3, <2>5
<1> QED
  BY <1>4, <1>5

(* The id of a type never changes, for any contract.                       *)
THEOREM IdsStable == Spec => TypeIdStable
<1>1. ASSUME IInv, [Next]_vars, NEW p \in Procs, NEW t \in Types,
             reg[p].typeIdMap[t] # NoId
      PROVE  reg'[p].typeIdMap[t] = reg[p].typeIdMap[t]
  <2>1. reg[p] \in Serializer /\ MapsAgree(reg[p])
    BY <1>1, TablesAgreeSplit DEF IInv, TypeOK
  <2>2. CASE reg'[p] = reg[p]
    BY <2>2
  <2>3. ASSUME NEW c \in Contract, reg'[p] = Registered(reg[p], c[1], c[2])
        PROVE  reg'[p].typeIdMap[t] = reg[p].typeIdMap[t]
    BY <1>1, <2>1, <2>3, RegisteredLemma
  <2>4. ASSUME NEW c \in Contract, NEW d \in Contract,
               reg'[p] = Registered(Registered(reg[p], c[1], c[2]), d[1], d[2])
        PROVE  reg'[p].typeIdMap[t] = reg[p].typeIdMap[t]
    <3> DEFINE s1 == Registered(reg[p], c[1], c[2])
    <3>1. /\ s1 \in Serializer /\ MapsAgree(s1)
          /\ s1.typeIdMap[t] = reg[p].typeIdMap[t]
      BY <1>1, <2>1, RegisteredLemma
    <3> HIDE DEF s1
    <3>2. Registered(s1, d[1], d[2]).typeIdMap[t] = s1.typeIdMap[t]
      BY <1>1, <3>1, RegisteredLemma
    <3> QED
      BY <2>4, <3>1, <3>2 DEF s1
  <2> QED
    BY <1>1, <2>2, <2>3, <2>4, StepRegisters
<1>2. IInv /\ [Next]_vars =>
        [\A p \in Procs, t \in Types :
           reg[p].typeIdMap[t] # NoId
             => reg'[p].typeIdMap[t] = reg[p].typeIdMap[t]]_vars
  BY <1>1
<1> QED
  BY InitIInv, NextIInv, <1>2, PTL DEF Spec, TypeIdStable

(* When no two types share an id, a command is handled as the type it was  *)
(* sent as or not at all.                                                  *)
THEOREM DispatchSoundness == ASSUME UniqueIds PROVE Spec => []DispatchSound
<1>1. IInv => DispatchSound
  <2> SUFFICES ASSUME IInv, NEW t \in Types
               PROVE  /\ Dispatch(t).outcome # "type mismatch"
                      /\ Dispatch(t).as \in {t, NoType}
    BY DEF DispatchSound
  <2> DEFINE i == reg["client"].typeIdMap[t]
             u == reg["server"].messageIdMap[i]
  <2>1. "client" \in Procs /\ "server" \in Procs
    BY DEF Procs
  <2>2. CASE i = NoId
    BY <2>2 DEF Dispatch
  <2>3. CASE i # NoId
    <3>1. i \in Ids
      BY <2>1, <2>3 DEF IInv, TypeOK, Serializer
    <3>2. u \in Types \cup {NoType} /\ handlers[i] \in Types \cup {NoType}
      BY <2>1, <3>1 DEF IInv, TypeOK, Serializer
    <3>3. <<t, i>> \in Contract
      BY <2>1, <3>1 DEF IInv, TablesAgree
    <3>4. u # NoType => u = t
      <4>1. u # NoType => <<u, i>> \in Contract
        BY <2>1, <3>1, <3>2 DEF IInv, TablesAgree
      <4> QED
        BY <3>3, <4>1 DEF UniqueIds
    <3>5. u # NoType /\ handlers[i] # NoType => handlers[i] = u
      <4>1. handlers[i] # NoType => <<handlers[i], i>> \in Contract
        BY <2>1, <3>1, <3>2 DEF IInv, TablesAgree
      <4> QED
        BY <3>3, <3>4, <4>1 DEF UniqueIds
    <3> QED
      BY <2>3, <3>4, <3>5 DEF Dispatch
  <2> QED
    BY <2>2, <2>3
<1> QED
  BY InitIInv, NextIInv, <1>1, PTL DEF Spec

(* When no two types share an id, an exception factory always gets the     *)
(* type it casts to.                                                       *)
THEOREM FactorySoundness == ASSUME UniqueIds PROVE Spec => []FactorySound
<1>1. IInv => FactorySound
  <2> SUFFICES ASSUME IInv, NEW i \in Ids, factories[i] # NoType
               PROVE  reg["client"].messageIdMap[i] = factories[i]
    BY DEF FactorySound
  <2>1. "client" \in Procs
    BY DEF Procs
  <2>2. factories[i] \in Types
    BY DEF IInv, TypeOK
  <2>3. /\ reg["client"].typeIdMap[factories[i]] = i
        /\ <<factories[i], i>> \in Contract
    BY <2>1, <2>2 DEF IInv, TablesAgree
  <2>4. reg["client"].messageIdMap[i] \in Types
    BY <2>1, <2>2, <2>3 DEF IInv, TypeOK, TablesAgree, Serializer
  <2>5. <<reg["client"].messageIdMap[i], i>> \in Contract
    BY <2>1, <2>4 DEF IInv, TablesAgree
  <2> QED
    BY <2>3, <2>5 DEF UniqueIds
<1> QED
  BY InitIInv, NextIInv, <1>1, PTL DEF Spec
=============================================================================
