---------------------------- MODULE TelemetryProofs ----------------------------
(***************************************************************************)
(* Proofs about Telemetry, for any registry tables, any specification file *)
(* of the shape the assumptions state, any telegrams, and bytes of any     *)
(* even size.                                                              *)
(***************************************************************************)
EXTENDS Telemetry, WellFoundedInduction, TLAPS

-------------------------------------------------------------------------------
(***************************************************************************)
(* Operators.                                                              *)
(***************************************************************************)

\* Positions are natural numbers below a bound.
Positions(S) == \E N \in Nat : S \subseteq 1..N

LEMMA MaxExists ==
  ASSUME NEW S, Positions(S), S # {}
  PROVE  Max(S) \in S /\ \A y \in S : Max(S) >= y
<1>1. PICK N \in Nat : S \subseteq 1..N
  BY DEF Positions
<1> DEFINE T == {N - y : y \in S}
<1>2. \A y \in S : y \in Nat /\ N - y \in Nat /\ N - y \in T
  BY <1>1
<1> T \subseteq Nat /\ T # {}
  BY <1>2
<1>3. PICK t \in T : \A u \in T : ~(<<u, t>> \in OpToRel(<, Nat))
  <2> HIDE DEF T
  <2> QED
    BY NatLessThanWellFounded, WFMin
<1>4. PICK x \in S : t = N - x
  BY <1>3
<1>5. \A y \in S : x >= y
  <2> SUFFICES ASSUME NEW y \in S PROVE x >= y
    OBVIOUS
  <2>1. N - y \in T /\ N - y \in Nat /\ t \in Nat /\ x \in Nat /\ y \in Nat
    BY <1>2, <1>4
  <2>2. ~(N - y < t)
    BY <1>3, <2>1 DEF OpToRel
  <2> QED
    BY <1>4, <2>1, <2>2
<1> QED
  BY <1>4, <1>5 DEF Max
LEMMA MinExists ==
  ASSUME NEW S, Positions(S), S # {}
  PROVE  Min(S) \in S
<1>1. S \subseteq Nat
  BY DEF Positions
<1>2. PICK x \in S : \A y \in S : ~(<<y, x>> \in OpToRel(<, Nat))
  BY <1>1, NatLessThanWellFounded, WFMin
<1>3. \A y \in S : x <= y
  <2> SUFFICES ASSUME NEW y \in S PROVE x <= y
    OBVIOUS
  <2>1. x \in Nat /\ y \in Nat
    BY <1>1
  <2>2. ~(y < x)
    BY <1>2, <2>1 DEF OpToRel
  <2> QED
    BY <2>1, <2>2
<1> QED
  BY <1>3 DEF Min

\* The definitions the decoder works with.
IsDef(d) == Positions(DOMAIN d) /\ \A i \in DOMAIN d : d[i] \in FieldDef

LEMMA MapTypeFacts ==
  ASSUME NEW f, Mapped(f)
  PROVE  /\ MapType(f) \subseteq {"Int16", "Uint8", "Uint16", "Uint32"}
         /\ FieldOf(f).type \in MapType(f)
<1>1. MapType(f) \subseteq {"Int16", "Uint8", "Uint16", "Uint32"}
  BY DEF MapType, ByteType, PairType
<1> QED
  BY <1>1 DEF FieldOf, Mapped

\* mapField takes the type of a field from the number of its bytes and the sign
\* of the highest one.
LEMMA MappedTypes ==
  ASSUME NEW f \in VsField, Mapped(f), WellFormed(f)
  PROVE  /\ Len(f.parts) \in {1, 2, 4}
         /\ Len(f.parts) = 1 => /\ FieldOf(f).type = IF f.parts[1].isSigned THEN "Int16" ELSE "Uint8"
                                /\ f.parts[1].mask = FullMask
         /\ Len(f.parts) = 2 => /\ FieldOf(f).type = IF f.parts[2].isSigned THEN "Int16" ELSE "Uint16"
                                /\ Consecutive(f, 2)
         /\ Len(f.parts) = 4 => /\ FieldOf(f).type = "Uint32"
                                /\ Consecutive(f, 4)
<1>1. Len(f.parts) \in {1, 2, 4}
  BY DEF WellFormed
<1>2. FieldOf(f).type \in MapType(f) /\ MapType(f) # {}
  BY MapTypeFacts DEF Mapped
<1>3. CASE Len(f.parts) = 1
  <2>1. ~Consecutive(f, 2) /\ ~Consecutive(f, 4)
    BY <1>3 DEF Consecutive
  <2>2. f.parts[1].mask = FullMask /\ MapType(f) = {ByteType(f.parts[1])}
    BY <1>2, <1>3, <2>1 DEF MapType
  <2> QED
    BY <1>2, <1>3, <2>2 DEF ByteType
<1>4. CASE Len(f.parts) = 2
  <2>1. ~Consecutive(f, 4)
    BY <1>4 DEF Consecutive
  <2>2. Consecutive(f, 2) /\ MapType(f) = {PairType(f.parts[1], f.parts[2])}
    BY <1>2, <1>4, <2>1 DEF MapType
  <2> QED
    BY <1>2, <1>4, <2>2 DEF PairType
<1>5. CASE Len(f.parts) = 4
  <2>1. ~Consecutive(f, 2)
    BY <1>5 DEF Consecutive
  <2>2. Consecutive(f, 4) /\ MapType(f) = {"Uint32"}
    BY <1>2, <1>5, <2>1 DEF MapType
  <2> QED
    BY <1>2, <1>5, <2>2
<1> QED
  BY <1>1, <1>3, <1>4, <1>5

LEMMA FieldOfType ==
  ASSUME NEW pk \in Packets, NEW i \in DOMAIN pk.fields, Mapped(pk.fields[i])
  PROVE  FieldOf(pk.fields[i]) \in FieldDef
<1> DEFINE f == pk.fields[i]
<1>1. f \in VsField /\ WellFormed(f) /\ GoName(f.text) \in Names
  BY PacketsAssumption DEF VsPacket
<1>2. f.parts[1] \in VsPart
  BY <1>1 DEF VsField, WellFormed
<1>3. FieldOf(f).type \in FieldType
  BY MapTypeFacts DEF FieldType
<1> QED
  BY <1>1, <1>2, <1>3 DEF FieldOf, FieldDef, VsField, VsPart

LEMMA FieldsOfIsDef == \A pk \in Packets : IsDef(FieldsOf(pk))
<1> SUFFICES ASSUME NEW pk \in Packets PROVE IsDef(FieldsOf(pk))
  OBVIOUS
<1>1. pk.fields \in Seq(VsField)
  BY PacketsAssumption DEF VsPacket
<1>2. DOMAIN pk.fields = 1..Len(pk.fields) /\ Len(pk.fields) \in Nat
  BY <1>1
<1>3. DOMAIN FieldsOf(pk) \subseteq DOMAIN pk.fields
  BY DEF FieldsOf
<1>4. \A i \in DOMAIN FieldsOf(pk) : FieldsOf(pk)[i] \in FieldDef
  BY FieldOfType DEF FieldsOf
<1> QED
  BY <1>2, <1>3, <1>4 DEF IsDef, Positions

\* An entry of the generated table is made from one packet, and every packet
\* that generate keeps has its entry.
LEMMA GeneratedEntry ==
  /\ \A pk \in Packets : Generated(pk) => /\ KeyOf(pk) \in DOMAIN GeneratedRegistry
                                          /\ GeneratedRegistry[KeyOf(pk)] = FieldsOf(pk)
  /\ \A k \in DOMAIN GeneratedRegistry :
       \E pk \in Packets : Generated(pk) /\ KeyOf(pk) = k /\ GeneratedRegistry[k] = FieldsOf(pk)
<1> DEFINE kept == {pk \in Packets : Generated(pk)}
           chosen(k) == CHOOSE pk \in kept : KeyOf(pk) = k
<1>1. \A k : k \in DOMAIN GeneratedRegistry <=> \E pk \in kept : KeyOf(pk) = k
  BY DEF GeneratedRegistry, Generate
<1>2. \A k \in DOMAIN GeneratedRegistry : GeneratedRegistry[k] = FieldsOf(chosen(k))
  BY DEF GeneratedRegistry, Generate
<1>3. \A k \in DOMAIN GeneratedRegistry : chosen(k) \in kept /\ KeyOf(chosen(k)) = k
  BY <1>1
<1>4. \A pk \in kept : chosen(KeyOf(pk)) = pk
  BY PacketsAssumption
<1> QED
  BY <1>1, <1>2, <1>3, <1>4

LEMMA TablesAreDefs ==
  /\ \A k \in DOMAIN Custom : IsDef(Custom[k])
  /\ \A k \in DOMAIN GeneratedRegistry : IsDef(GeneratedRegistry[k])
<1>1. \A k \in DOMAIN Custom : IsDef(Custom[k])
  <2> SUFFICES ASSUME NEW k \in DOMAIN Custom PROVE IsDef(Custom[k])
    OBVIOUS
  <2>1. Custom[k] \in Seq(FieldDef)
    BY CustomAssumption
  <2>2. DOMAIN Custom[k] = 1..Len(Custom[k]) /\ Len(Custom[k]) \in Nat
    BY <2>1
  <2> QED
    BY <2>1, <2>2 DEF IsDef, Positions
<1> QED
  BY <1>1, FieldsOfIsDef, GeneratedEntry
-------------------------------------------------------------------------------
(***************************************************************************)
(* The registry.  In whatever order the init functions run, an entry of    *)
(* the generated table stands under a custom key only until InitCustom.    *)
(***************************************************************************)

FromCustom(k) == k \in DOMAIN Custom /\ registry[k] = Custom[k]

FromGenerated(k) ==
  /\ k \in DOMAIN GeneratedRegistry /\ registry[k] = GeneratedRegistry[k]
  /\ k \in DOMAIN Custom => "custom" \in inits

RegistryInv ==
  /\ inits \subseteq {"custom", "generated"}
  /\ bus \in Buses /\ prefix \in TopicPrefixes[bus] /\ moved \in BOOLEAN
  /\ \A k \in DOMAIN registry : FromCustom(k) \/ FromGenerated(k)
  /\ "custom" \notin inits => DOMAIN Custom \subseteq DOMAIN registry
  /\ "generated" \notin inits => DOMAIN GeneratedRegistry \subseteq DOMAIN registry

LEMMA RegistryInit == Init => RegistryInv
BY DEF Init, RegistryInv, EmptyMap

LEMMA RegistryPreserved == RegistryInv /\ [Next]_vars => RegistryInv'
<1> SUFFICES ASSUME RegistryInv, [Next]_vars PROVE RegistryInv'
  OBVIOUS
<1> USE DEF RegistryInv, FromCustom, FromGenerated, settings
<1>1. CASE InitCustom
  BY <1>1 DEF InitCustom, SetEntries
<1>2. CASE InitGenerated
  BY <1>2 DEF InitGenerated, SetEntries
<1>3. ASSUME NEW s \in Sources, NEW frame \in Telegrams[s], Receive(frame) PROVE RegistryInv'
  BY <1>3 DEF Receive
<1>4. ASSUME NEW s \in Sources, Publish(s) PROVE RegistryInv'
  BY <1>4 DEF Publish
<1>5. CASE RestartLoop
  BY <1>5 DEF RestartLoop
<1>6. CASE Reconnect
  BY <1>6 DEF Reconnect
<1>7. CASE ChangePrefix
  BY <1>7 DEF ChangePrefix
<1>8. CASE NewSession
  BY <1>8 DEF NewSession
<1>9. CASE UNCHANGED vars
  BY <1>9 DEF vars
<1> QED
  BY <1>1, <1>2, <1>3, <1>4, <1>5, <1>6, <1>7, <1>8, <1>9 DEF Next

LEMMA RegistryEntries ==
  ASSUME RegistryInv
  PROVE  \A k \in DOMAIN registry :
           /\ k \in DOMAIN Custom \cup DOMAIN GeneratedRegistry
           /\ IsDef(registry[k]) /\ UnitsAgree(registry[k])
BY TablesAreDefs, UnitsAssumption DEF RegistryInv, FromCustom, FromGenerated

\* A source has one entry at most.

LEMMA BroadcastKeys ==
  ASSUME RegistryInv
  PROVE  \A k \in DOMAIN registry : \E src : k = BroadcastKey(src)
<1>1. \A k \in DOMAIN Custom : \E src : k = BroadcastKey(src)
  BY CustomAssumption DEF BroadcastKey
<1>2. \A k \in DOMAIN GeneratedRegistry : \E src : k = BroadcastKey(src)
  BY GeneratedEntry DEF Generated, KeyOf, BroadcastKey
<1> QED
  BY <1>1, <1>2 DEF RegistryInv, FromCustom, FromGenerated

LEMMA LookupIsEntry ==
  ASSUME RegistryInv, NEW frame, Known(registry, frame)
  PROVE  BroadcastKey(frame.src) \in DOMAIN registry /\ Lookup(registry, frame) = EntryOf(frame.src)
<1>1. PICK src : pkey(frame.src, frame.dst, frame.cmd) = BroadcastKey(src)
  BY BroadcastKeys DEF Known
<1>2. BroadcastKey(frame.src) = pkey(frame.src, frame.dst, frame.cmd)
  BY <1>1 DEF BroadcastKey, pkey
<1> QED
  BY <1>2 DEF Known, Lookup, EntryOf

\* The custom table wins whichever init function ran first, and no entry is lost.
THEOREM CustomTakesPrecedence == Spec => []CustomPrecedence
<1>1. RegistryInv => CustomPrecedence
  BY DEF RegistryInv, FromCustom, FromGenerated, CustomPrecedence, Running
<1> QED
  BY <1>1, RegistryInit, RegistryPreserved, PTL DEF Spec

-------------------------------------------------------------------------------
(***************************************************************************)
(* From the telegram to the topic.  What accum holds is the decoding of    *)
(* one telegram with the entry of the registry, which no longer changes;   *)
(* what a topic holds was made of such a decoding.                         *)
(***************************************************************************)

DecodedFrom(s, frame) ==
  /\ inits = {} /\ s \in bus
  /\ frame \in Telegrams[s]
  /\ Known(registry, frame)

Decoded(frame) == Decode(frame.payload, Lookup(registry, frame))

AccumInv ==
  /\ DOMAIN accum = DOMAIN latest
  /\ \A s \in DOMAIN latest : DecodedFrom(s, latest[s]) /\ accum[s] = Decoded(latest[s])

TopicInv ==
  /\ DOMAIN topic = DOMAIN origin
  /\ DOMAIN origin \subseteq TopicPrefixes[bus] \X bus
  /\ \A t \in DOMAIN origin : DecodedFrom(t[2], origin[t]) /\ topic[t] = Message(Decoded(origin[t]))

\* A retained config was made from a field of the source's entry.
AnnouncedFor(config, s, n) ==
  /\ config.topic \in TopicPrefixes[bus] \X {s} /\ config.name = n
  /\ BroadcastKey(s) \in DOMAIN registry
  /\ \E i \in DOMAIN EntryOf(s) : EntryOf(s)[i].name = n /\ config.unit = EntryOf(s)[i].unit

ConfigInv ==
  \A k \in DOMAIN configs :
    /\ inits = {}
    /\ \E s \in bus, n \in Names : k = SensorKey(s, n) /\ AnnouncedFor(configs[k], s, n)

FlowInv == RegistryInv /\ AccumInv /\ TopicInv /\ ConfigInv

LEMMA FlowInit == Init => FlowInv
BY RegistryInit DEF Init, FlowInv, AccumInv, TopicInv, ConfigInv, EmptyMap

LEMMA BusSources ==
  ASSUME RegistryInv
  PROVE  \A s \in bus : \A frame \in Telegrams[s] : frame.src = s /\ frame.payload \in Payload
BY TelegramsAssumption DEF RegistryInv, Sources

LEMMA AccumPreserved == FlowInv /\ [Next]_vars => AccumInv'
<1> SUFFICES ASSUME FlowInv, [Next]_vars PROVE AccumInv'
  OBVIOUS
<1> USE DEF FlowInv, AccumInv, DecodedFrom, Decoded
<1>1. CASE InitCustom
  <2>1. DOMAIN latest = {}
    BY <1>1 DEF InitCustom
  <2> QED
    BY <1>1, <2>1 DEF InitCustom
<1>2. CASE InitGenerated
  <2>1. DOMAIN latest = {}
    BY <1>2 DEF InitGenerated
  <2> QED
    BY <1>2, <2>1 DEF InitGenerated
<1>3. ASSUME NEW s \in Sources, NEW frame \in Telegrams[s], Receive(frame) PROVE AccumInv'
  <2>1. frame.src = s
    BY TelegramsAssumption
  <2>2. CASE Known(registry, frame)
    <3>1. /\ accum' = Put(accum, s, Decoded(frame)) /\ latest' = Put(latest, s, frame)
          /\ inits = {} /\ s \in bus /\ UNCHANGED <<inits, registry, bus>>
      BY <1>3, <2>1, <2>2 DEF Receive, Running
    <3> QED
      BY <2>2, <3>1 DEF Put, Known, Lookup
  <2>3. CASE ~Known(registry, frame)
    BY <1>3, <2>3 DEF Receive
  <2> QED
    BY <2>2, <2>3
<1>4. ASSUME NEW s \in Sources, Publish(s) PROVE AccumInv'
  BY <1>4 DEF Publish
<1>5. CASE RestartLoop
  BY <1>5 DEF RestartLoop, EmptyMap
<1>6. CASE Reconnect
  BY <1>6 DEF Reconnect
<1>7. CASE ChangePrefix
  BY <1>7 DEF ChangePrefix
<1>8. CASE NewSession
  BY <1>8 DEF NewSession, EmptyMap
<1>9. CASE UNCHANGED vars
  BY <1>9 DEF vars
<1> QED
  BY <1>1, <1>2, <1>3, <1>4, <1>5, <1>6, <1>7, <1>8, <1>9 DEF Next

LEMMA TopicPreserved == FlowInv /\ [Next]_vars => TopicInv'
<1> SUFFICES ASSUME FlowInv, [Next]_vars PROVE TopicInv'
  OBVIOUS
<1> USE DEF FlowInv, TopicInv, DecodedFrom, Decoded
<1>1. CASE InitCustom
  <2>1. DOMAIN origin = {}
    BY <1>1 DEF InitCustom
  <2> QED
    BY <1>1, <2>1 DEF InitCustom
<1>2. CASE InitGenerated
  <2>1. DOMAIN origin = {}
    BY <1>2 DEF InitGenerated
  <2> QED
    BY <1>2, <2>1 DEF InitGenerated
<1>3. ASSUME NEW s \in Sources, NEW frame \in Telegrams[s], Receive(frame) PROVE TopicInv'
  BY <1>3 DEF Receive
<1>4. ASSUME NEW s \in Sources, Publish(s) PROVE TopicInv'
  <2>1. UNCHANGED <<inits, registry, bus>> /\ s \in DOMAIN accum /\ PublishTelemetry(s)
    BY <1>4 DEF Publish
  <2>2. CASE UNCHANGED <<topic, origin>>
    BY <2>1, <2>2
  <2>3. CASE /\ topic' = Put(topic, Topic(s), Message(accum[s]))
             /\ origin' = Put(origin, Topic(s), latest[s])
    <3>1. /\ DecodedFrom(s, latest[s]) /\ accum[s] = Decoded(latest[s])
          /\ Topic(s) \in TopicPrefixes[bus] \X bus /\ Topic(s)[2] = s
      BY <2>1 DEF AccumInv, RegistryInv, Topic
    <3> QED
      BY <2>1, <2>3, <3>1 DEF Put
  <2> QED
    BY <2>1, <2>2, <2>3 DEF PublishTelemetry
<1>5. CASE RestartLoop
  BY <1>5 DEF RestartLoop
<1>6. CASE Reconnect
  BY <1>6 DEF Reconnect
<1>7. CASE ChangePrefix
  BY <1>7 DEF ChangePrefix
<1>8. CASE NewSession
  BY <1>8 DEF NewSession
<1>9. CASE UNCHANGED vars
  BY <1>9 DEF vars
<1> QED
  BY <1>1, <1>2, <1>3, <1>4, <1>5, <1>6, <1>7, <1>8, <1>9 DEF Next

LEMMA DecodedFacts ==
  ASSUME NEW frame, IsDef(Lookup(registry, frame)), UnitsAgree(Lookup(registry, frame))
  PROVE  LET def == Lookup(registry, frame)
             fs == Decoded(frame)
         IN /\ Positions(DOMAIN fs)
            /\ DOMAIN fs = {i \in DOMAIN def : InRange(frame.payload, def[i])}
            /\ \A i \in DOMAIN fs : /\ fs[i].name = def[i].name
                                   /\ fs[i].value = ExtractValue(frame.payload, def[i])
                                   /\ fs[i].unit = def[i].unit
            /\ UnitsAgree(fs)
<1> DEFINE def == Lookup(registry, frame)
<1>1. DOMAIN Decoded(frame) = {i \in DOMAIN def : InRange(frame.payload, def[i])}
  BY DEF Decoded, Decode
<1>2. \A i \in DOMAIN Decoded(frame) :
        Decoded(frame)[i] = [name |-> def[i].name, value |-> ExtractValue(frame.payload, def[i]),
                             unit |-> def[i].unit]
  BY DEF Decoded, Decode
<1>3. Positions(DOMAIN Decoded(frame))
  BY <1>1 DEF IsDef, Positions
<1>4. \A i \in DOMAIN Decoded(frame) : /\ Decoded(frame)[i].name = def[i].name
                                       /\ Decoded(frame)[i].value = ExtractValue(frame.payload, def[i])
                                       /\ Decoded(frame)[i].unit = def[i].unit
  BY <1>2
<1>5. UnitsAgree(Decoded(frame))
  BY <1>1, <1>4 DEF UnitsAgree
<1> QED
  BY <1>1, <1>3, <1>4, <1>5

LEMMA ConfigPreserved == FlowInv /\ [Next]_vars => ConfigInv'
<1> SUFFICES ASSUME FlowInv, [Next]_vars PROVE ConfigInv'
  OBVIOUS
<1> USE DEF FlowInv, ConfigInv, AnnouncedFor, EntryOf
<1>1. CASE InitCustom
  <2>1. DOMAIN configs = {}
    BY <1>1 DEF InitCustom
  <2> QED
    BY <1>1, <2>1 DEF InitCustom, haVars
<1>2. CASE InitGenerated
  <2>1. DOMAIN configs = {}
    BY <1>2 DEF InitGenerated
  <2> QED
    BY <1>2, <2>1 DEF InitGenerated, haVars
<1>3. ASSUME NEW s \in Sources, NEW frame \in Telegrams[s], Receive(frame) PROVE ConfigInv'
  BY <1>3 DEF Receive, haVars
<1>4. ASSUME NEW s \in Sources, Publish(s) PROVE ConfigInv'
  <2>1. UNCHANGED <<inits, registry, bus>> /\ inits = {} /\ s \in DOMAIN accum
    BY <1>4 DEF Publish, Running
  <2>2. CASE UNCHANGED haVars
    BY <2>1, <2>2 DEF haVars
  <2>3. CASE PublishDiscovery(s, accum[s])
    <3> DEFINE fields == accum[s]
               names == {fields[i].name : i \in DOMAIN fields}
               new == {n \in names : SensorKey(s, n) \notin discovered}
    <3>1. PICK lost \in Losses :
            LET sent == {SensorKey(s, n) : n \in new \ lost}
            IN configs' = [k \in DOMAIN configs \cup sent |->
                             IF k \in sent
                             THEN Config(s, fields, CHOOSE n \in new \ lost : SensorKey(s, n) = k)
                             ELSE configs[k]]
      BY <2>3 DEF PublishDiscovery
    <3> DEFINE sent == {SensorKey(s, n) : n \in new \ lost}
    <3>2. /\ s \in bus /\ latest[s].src = s /\ Known(registry, latest[s])
          /\ fields = Decoded(latest[s])
      BY <2>1, BusSources DEF AccumInv, DecodedFrom
    <3>3. /\ BroadcastKey(s) \in DOMAIN registry /\ Lookup(registry, latest[s]) = EntryOf(s)
          /\ IsDef(EntryOf(s)) /\ UnitsAgree(EntryOf(s))
      BY <3>2, LookupIsEntry, RegistryEntries
    <3>4. /\ Positions(DOMAIN fields) /\ DOMAIN fields \subseteq DOMAIN EntryOf(s)
          /\ \A i \in DOMAIN fields : /\ fields[i].name = EntryOf(s)[i].name
                                     /\ fields[i].unit = EntryOf(s)[i].unit
      <4> HIDE DEF fields
      <4>1. IsDef(Lookup(registry, latest[s])) /\ UnitsAgree(Lookup(registry, latest[s]))
        BY <3>3
      <4>2. /\ Positions(DOMAIN Decoded(latest[s]))
            /\ DOMAIN Decoded(latest[s]) \subseteq DOMAIN Lookup(registry, latest[s])
            /\ \A i \in DOMAIN Decoded(latest[s]) :
                 /\ Decoded(latest[s])[i].name = Lookup(registry, latest[s])[i].name
                 /\ Decoded(latest[s])[i].unit = Lookup(registry, latest[s])[i].unit
        BY <4>1, DecodedFacts
      <4> QED
        BY <3>2, <3>3, <4>2
    <3> HIDE DEF fields
    <3>5. ASSUME NEW n \in names
          PROVE  n \in Names /\ AnnouncedFor(Config(s, fields, n), s, n)
      <4>1. At(fields, n) # {} /\ Positions(At(fields, n))
        BY <3>4 DEF At, Positions
      <4>2. PICK i \in At(fields, n) : i = Min(At(fields, n))
        BY <4>1, MinExists
      <4>3. i \in DOMAIN EntryOf(s) /\ EntryOf(s)[i].name = n /\ fields[i].unit = EntryOf(s)[i].unit
        BY <3>4, <4>2 DEF At
      <4>4. n \in Names
        BY <3>3, <4>3 DEF IsDef, FieldDef
      <4>5. /\ Config(s, fields, n).topic = Topic(s) /\ Config(s, fields, n).name = n
            /\ Config(s, fields, n).unit = fields[i].unit
        BY <4>2 DEF Config
      <4> QED
        BY <3>3, <4>3, <4>4, <4>5 DEF Topic, RegistryInv
    <3>6. ASSUME NEW k \in sent
          PROVE  \E n \in Names : k = SensorKey(s, n) /\ AnnouncedFor(configs'[k], s, n)
      <4> DEFINE n == CHOOSE m \in new \ lost : SensorKey(s, m) = k
      <4>1. n \in new \ lost /\ SensorKey(s, n) = k
        OBVIOUS
      <4>2. configs'[k] = Config(s, fields, n)
        BY <3>1
      <4> HIDE DEF n
      <4> QED
        BY <3>5, <4>1, <4>2
    <3>7. ASSUME NEW k \in DOMAIN configs', k \notin sent
          PROVE  k \in DOMAIN configs /\ configs'[k] = configs[k]
      BY <3>1, <3>7
    <3> HIDE DEF sent, names, new
    <3> QED
      BY <2>1, <3>2, <3>6, <3>7
  <2> QED
    BY <1>4, <2>2, <2>3 DEF Publish
<1>5. CASE RestartLoop
  BY <1>5 DEF RestartLoop, haVars
<1>6. CASE Reconnect
  BY <1>6 DEF Reconnect
<1>7. CASE ChangePrefix
  BY <1>7 DEF ChangePrefix, haVars
<1>8. CASE NewSession
  BY <1>8 DEF NewSession
<1>9. CASE UNCHANGED vars
  BY <1>9 DEF vars, haVars
<1> QED
  BY <1>1, <1>2, <1>3, <1>4, <1>5, <1>6, <1>7, <1>8, <1>9 DEF Next

LEMMA FlowHolds == Spec => []FlowInv
<1>1. FlowInv /\ [Next]_vars => FlowInv'
  BY RegistryPreserved, AccumPreserved, TopicPreserved, ConfigPreserved DEF FlowInv
<1> QED
  BY <1>1, FlowInit, PTL DEF Spec

\* Every entry of the registry is well formed, and what is kept and published is
\* of sources on the bus.
THEOREM TelemetryTypeCorrect == Spec => []TelemetryTypeOK
<1>1. FlowInv => TelemetryTypeOK
  <2> SUFFICES ASSUME FlowInv PROVE TelemetryTypeOK
    OBVIOUS
  <2>1. \A k \in DOMAIN registry : /\ k \in DOMAIN Custom \cup DOMAIN GeneratedRegistry
                                   /\ IsDef(registry[k])
    BY RegistryEntries DEF FlowInv
  <2> QED
    BY <2>1 DEF FlowInv, RegistryInv, AccumInv, TopicInv, ConfigInv, AnnouncedFor, DecodedFrom,
                IsDef, TelemetryTypeOK
<1> QED
  BY <1>1, FlowHolds, PTL
-------------------------------------------------------------------------------
(***************************************************************************)
(* What is on a topic: of fields that share a name the last one wins, in   *)
(* the map of values and, since all of them have a unit or none has, in    *)
(* the map of units.                                                       *)
(***************************************************************************)

\* The field a published name shows.
Winner(fs, n) == Max(At(fs, n))

Shows(msg, n, field) ==
  /\ msg.fields[n] = field.value
  /\ IF n \in DOMAIN msg.units THEN msg.units[n] = field.unit ELSE field.unit = ""

LEMMA MessageFacts ==
  ASSUME NEW fs, Positions(DOMAIN fs), UnitsAgree(fs), NEW n
  PROVE  /\ n \in DOMAIN Message(fs).fields <=> \E i \in DOMAIN fs : fs[i].name = n
         /\ n \in DOMAIN Message(fs).fields =>
              /\ Winner(fs, n) \in DOMAIN fs /\ fs[Winner(fs, n)].name = n
              /\ Shows(Message(fs), n, fs[Winner(fs, n)])
<1> DEFINE names == {fs[i].name : i \in DOMAIN fs}
<1>1. /\ DOMAIN Message(fs).fields = names
      /\ DOMAIN Message(fs).units = {m \in names : UnitAt(fs, m) # {}}
  BY DEF Message
<1>2. SUFFICES ASSUME n \in names
      PROVE  /\ Winner(fs, n) \in DOMAIN fs /\ fs[Winner(fs, n)].name = n
             /\ Shows(Message(fs), n, fs[Winner(fs, n)])
  BY <1>1
<1>3. At(fs, n) # {} /\ Positions(At(fs, n))
  BY <1>2 DEF At, Positions
<1>4. Winner(fs, n) \in At(fs, n)
  BY <1>3, MaxExists DEF Winner
<1>5. Message(fs).fields[n] = fs[Winner(fs, n)].value
  BY <1>2 DEF Message, Winner
<1>6. CASE UnitAt(fs, n) = {}
  BY <1>1, <1>4, <1>5, <1>6 DEF At, UnitAt, Shows
<1>7. CASE UnitAt(fs, n) # {}
  <2>1. UnitAt(fs, n) = At(fs, n)
    BY <1>7 DEF UnitAt, At, UnitsAgree
  <2>2. Message(fs).units[n] = fs[Winner(fs, n)].unit
    BY <1>2, <1>7, <2>1 DEF Message, Winner
  <2> QED
    BY <1>1, <1>2, <1>4, <1>5, <1>7, <2>2 DEF At, Shows
<1> QED
  BY <1>6, <1>7

LEMMA TopicFacts ==
  ASSUME FlowInv, NEW t \in DOMAIN topic
  PROVE  /\ t \in DOMAIN origin /\ inits = {} /\ t[2] \in bus /\ origin[t].src = t[2]
         /\ origin[t].payload \in Payload
         /\ Known(registry, origin[t])
         /\ topic[t] = Message(Decoded(origin[t]))
         /\ IsDef(Lookup(registry, origin[t])) /\ UnitsAgree(Lookup(registry, origin[t]))
<1>1. /\ t \in DOMAIN origin /\ DecodedFrom(t[2], origin[t])
      /\ topic[t] = Message(Decoded(origin[t]))
  BY DEF FlowInv, TopicInv
<1>2. origin[t].src = t[2] /\ origin[t].payload \in Payload
  BY <1>1, BusSources DEF FlowInv, DecodedFrom
<1> QED
  BY <1>1, <1>2, RegistryEntries DEF FlowInv, DecodedFrom, Known, Lookup

\* A message never mixes telegrams, sources or fields.
THEOREM MessagesAreTruthful == Spec => []MessageTruthful
<1>1. FlowInv => MessageTruthful
  <2> SUFFICES ASSUME FlowInv, NEW t \in DOMAIN topic, NEW n \in DOMAIN topic[t].fields
               PROVE  LET def == Lookup(registry, origin[t])
                      IN \E i \in DOMAIN def :
                           Explains(def[i], origin[t].payload, n, topic[t].fields[n], topic[t].units)
    BY TopicFacts DEF MessageTruthful
  <2> DEFINE def == Lookup(registry, origin[t])
             fs == Decoded(origin[t])
             i == Winner(fs, n)
  <2>1. topic[t] = Message(fs) /\ IsDef(def) /\ UnitsAgree(def)
    BY TopicFacts
  <2>2. /\ Positions(DOMAIN fs) /\ UnitsAgree(fs)
        /\ DOMAIN fs = {j \in DOMAIN def : InRange(origin[t].payload, def[j])}
        /\ \A j \in DOMAIN fs : /\ fs[j].name = def[j].name
                               /\ fs[j].value = ExtractValue(origin[t].payload, def[j])
                               /\ fs[j].unit = def[j].unit
    BY <2>1, DecodedFacts
  <2>3. n \in DOMAIN Message(fs).fields
    BY <2>1
  <2>4. /\ i \in DOMAIN fs /\ fs[i].name = n
        /\ Shows(Message(fs), n, fs[i])
    <3> HIDE DEF fs
    <3> QED
      BY <2>2, <2>3, MessageFacts
  <2>5. Explains(def[i], origin[t].payload, n, Message(fs).fields[n], Message(fs).units)
    <3> HIDE DEF fs, i
    <3> QED
      BY <2>2, <2>4 DEF Explains, Shows
  <2> QED
    <3> HIDE DEF fs, i
    <3> QED
      BY <2>1, <2>2, <2>4, <2>5
<1> QED
  BY <1>1, FlowHolds, PTL

\* The config of a field names a topic of its source and the unit of a field of its
\* name in the entry and, when the name has one unit, the unit of the value on that
\* topic, whatever telegrams, changed prefixes, lost configs and reconnects lie between.
THEOREM UnitsAreAnnounced == Spec => []AnnouncedUnit
<1>1. FlowInv => AnnouncedUnit
  <2> SUFFICES ASSUME FlowInv, NEW s \in bus, BroadcastKey(s) \in DOMAIN registry,
                      NEW k \in DOMAIN EntryOf(s),
                      SensorKey(s, EntryOf(s)[k].name) \in DOMAIN configs
               PROVE  LET n == EntryOf(s)[k].name
                          config == configs[SensorKey(s, n)]
                          message == topic[config.topic]
                      IN /\ config.topic \in TopicPrefixes[bus] \X {s} /\ config.name = n
                         /\ \E j \in DOMAIN EntryOf(s) : EntryOf(s)[j].name = n /\ EntryOf(s)[j].unit = config.unit
                         /\ OneUnit(EntryOf(s), n) /\ config.topic \in DOMAIN topic /\ n \in DOMAIN message.fields =>
                              config.unit = IF n \in DOMAIN message.units THEN message.units[n] ELSE ""
    BY DEF AnnouncedUnit
  <2> DEFINE n == EntryOf(s)[k].name
             config == configs[SensorKey(s, n)]
             t == config.topic
             fs == Decoded(origin[t])
             def == EntryOf(s)
             w == Winner(fs, n)
  <2>1. AnnouncedFor(config, s, n)
    BY DEF FlowInv, ConfigInv, SensorKey
  <2>2. PICK i \in DOMAIN def : def[i].name = n /\ config.unit = def[i].unit
    BY <2>1 DEF AnnouncedFor
  <2>3. t \in TopicPrefixes[bus] \X {s} /\ t[2] = s /\ config.name = n
    BY <2>1 DEF AnnouncedFor
  <2>4. SUFFICES ASSUME OneUnit(def, n), t \in DOMAIN topic, n \in DOMAIN topic[t].fields
                 PROVE  config.unit = IF n \in DOMAIN topic[t].units THEN topic[t].units[n] ELSE ""
    BY <2>2, <2>3
  <2> HIDE DEF n
  <2>5. /\ topic[t] = Message(fs) /\ IsDef(Lookup(registry, origin[t]))
        /\ UnitsAgree(Lookup(registry, origin[t])) /\ Lookup(registry, origin[t]) = def
    <3> HIDE DEF t
    <3>1. origin[t].src = s /\ Known(registry, origin[t])
      BY <2>3, <2>4, TopicFacts
    <3>2. Lookup(registry, origin[t]) = def
      BY <3>1, LookupIsEntry DEF FlowInv
    <3> QED
      BY <2>4, <3>2, TopicFacts
  <2> HIDE DEF def, t
  <2>6. /\ Positions(DOMAIN fs) /\ UnitsAgree(fs) /\ DOMAIN fs \subseteq DOMAIN def
        /\ \A j \in DOMAIN fs : fs[j].name = def[j].name /\ fs[j].unit = def[j].unit
    BY <2>5, DecodedFacts
  <2>7. n \in DOMAIN Message(fs).fields
    BY <2>4, <2>5
  <2>8. w \in DOMAIN fs /\ fs[w].name = n /\ Shows(Message(fs), n, fs[w])
    <3> HIDE DEF fs
    <3> QED
      BY <2>6, <2>7, MessageFacts
  <2> HIDE DEF fs, w, config
  <2>9. fs[w].unit = config.unit
    BY <2>2, <2>4, <2>6, <2>8 DEF OneUnit
  <2>10. config.unit = IF n \in DOMAIN Message(fs).units THEN Message(fs).units[n] ELSE ""
    BY <2>8, <2>9 DEF Shows
  <2> QED
    BY <2>5, <2>10
<1> QED
  BY <1>1, FlowHolds, PTL

\* The marks of the cache.  A source's sent configs name the topic of the prefix they
\* are sent under, and a new client starts without marks.
LEMMA AnnouncedTopicPreserved == AnnouncedTopic /\ [Next]_vars => AnnouncedTopic'
<1> SUFFICES ASSUME AnnouncedTopic, [Next]_vars PROVE AnnouncedTopic'
  OBVIOUS
<1> USE DEF AnnouncedTopic, Topic, settings, haVars
<1>1. CASE InitCustom
  BY <1>1 DEF InitCustom
<1>2. CASE InitGenerated
  BY <1>2 DEF InitGenerated
<1>3. ASSUME NEW s \in Sources, NEW frame \in Telegrams[s], Receive(frame) PROVE AnnouncedTopic'
  BY <1>3 DEF Receive
<1>4. ASSUME NEW s \in Sources, Publish(s) PROVE AnnouncedTopic'
  <2>1. UNCHANGED <<bus, prefix, moved>>
    BY <1>4 DEF Publish
  <2>2. CASE UNCHANGED haVars
    BY <2>1, <2>2
  <2>3. CASE PublishDiscovery(s, accum[s])
    <3> DEFINE fields == accum[s]
               names == {fields[i].name : i \in DOMAIN fields}
               new == {n \in names : SensorKey(s, n) \notin discovered}
               keys(ns) == {SensorKey(s, n) : n \in ns}
    <3>1. discovered' = discovered \cup keys(new)
      BY <2>3 DEF PublishDiscovery
    <3>2. PICK lost \in Losses :
            LET sent == keys(new \ lost)
            IN /\ configs' = [k \in DOMAIN configs \cup sent |->
                                IF k \in sent
                                THEN Config(s, fields, CHOOSE n \in new \ lost : SensorKey(s, n) = k)
                                ELSE configs[k]]
               /\ failed' = (failed \ sent) \cup keys(new \cap lost)
      BY <2>3 DEF PublishDiscovery
    <3> DEFINE sent == keys(new \ lost)
    <3>3. SUFFICES ASSUME ~moved, NEW r \in bus, NEW n \in Names,
                          SensorKey(r, n) \in discovered' \ failed'
                   PROVE  SensorKey(r, n) \in DOMAIN configs' /\ configs'[SensorKey(r, n)].topic = Topic(r)
      BY <2>1
    <3>4. CASE SensorKey(r, n) \in sent
      <4>1. r = s
        BY <3>4 DEF SensorKey
      <4>2. \A m : Config(s, fields, m).topic = Topic(s)
        BY DEF Config
      <4> HIDE DEF fields, new
      <4> QED
        BY <3>2, <3>4, <4>1, <4>2
    <3>5. CASE SensorKey(r, n) \notin sent
      <4>1. SensorKey(r, n) \notin keys(new)
        BY <3>2, <3>3, <3>5
      <4>2. SensorKey(r, n) \in discovered \ failed
        BY <3>1, <3>2, <3>3, <3>5, <4>1
      <4> HIDE DEF new, fields
      <4> QED
        BY <3>2, <3>3, <3>5, <4>2
    <3> QED
      BY <3>4, <3>5
  <2> QED
    BY <1>4, <2>2, <2>3 DEF Publish
<1>5. CASE RestartLoop
  BY <1>5 DEF RestartLoop
<1>6. CASE Reconnect
  BY <1>6 DEF Reconnect
<1>7. CASE ChangePrefix
  BY <1>7 DEF ChangePrefix
<1>8. CASE NewSession
  BY <1>8 DEF NewSession
<1>9. CASE UNCHANGED vars
  BY <1>9 DEF vars
<1> QED
  BY <1>1, <1>2, <1>3, <1>4, <1>5, <1>6, <1>7, <1>8, <1>9 DEF Next

\* While the prefix is the one the client was made under, a marked field whose config
\* did not fail is announced for the topic its values are sent to.
THEOREM TopicsAreAnnounced == Spec => []AnnouncedTopic
<1>1. Init => AnnouncedTopic
  BY DEF Init, AnnouncedTopic
<1> QED
  BY <1>1, AnnouncedTopicPreserved, PTL DEF Spec

-------------------------------------------------------------------------------
(***************************************************************************)
(* What the numbers mean.                                                  *)
(***************************************************************************)

LEMMA HundredthsRead ==
  ASSUME NEW raw \in Int, NEW d \in 0..4
  PROVE  Reads(Hundredths(raw, d), raw, d)
<1>1. CASE d <= 2
  <2>1. d = 0 \/ d = 1 \/ d = 2
    BY <1>1
  <2> QED
    BY <2>1 DEF Reads, Hundredths, Pow10
<1>2. CASE d = 3
  BY <1>2 DEF Reads, Hundredths, Pow10
<1>3. CASE d = 4
  BY <1>3 DEF Reads, Hundredths, Pow10
<1> QED
  BY <1>1, <1>2, <1>3

\* The sign of a pair of bytes is the sign of the high one.
LEMMA SignOfPair ==
  ASSUME NEW lo \in Byte, NEW hi \in Byte
  PROVE  2 * (lo + Base * hi) >= Base * Base <=> 2 * hi >= Base
<1> DEFINE h == Base \div 2
<1>1. Base \in Nat /\ h \in Nat /\ Base = 2 * h /\ lo \in Nat /\ hi \in Nat /\ lo < Base
  BY BaseAssumption DEF Byte
<1> HIDE DEF h
<1>2. CASE hi >= h
  <2>1. Base * hi >= Base * h
    BY <1>1, <1>2
  <2>2. Base * Base = 2 * (Base * h)
    BY <1>1
  <2>3. Base * hi \in Nat /\ Base * h \in Nat
    BY <1>1
  <2> QED
    BY <1>1, <1>2, <2>1, <2>2, <2>3
<1>3. CASE hi < h
  <2>1. Base * (hi + 1) <= Base * h
    BY <1>1, <1>3
  <2>2. Base * Base = 2 * (Base * h) /\ Base * (hi + 1) = Base * hi + Base
    BY <1>1
  <2>3. Base * hi \in Nat /\ Base * h \in Nat
    BY <1>1
  <2> QED
    BY <1>1, <1>3, <2>1, <2>2, <2>3
<1> QED
  BY <1>1, <1>2, <1>3

\* The bytes of a field that a telegram carries.
LEMMA CarriedBytes ==
  ASSUME NEW f \in VsField, Mapped(f), WellFormed(f), NEW payload \in Payload, Carried(payload, f)
  PROVE  LET o == f.parts[1].offset
             n == Len(f.parts)
         IN /\ o \in Nat /\ o + n <= Len(payload)
            /\ \A i \in 1..n : /\ f.parts[i] \in VsPart /\ f.parts[i].offset = o + i - 1
                              /\ payload[o + i] \in Byte
<1> DEFINE o == f.parts[1].offset
           n == Len(f.parts)
<1>1. f.parts \in Seq(VsPart) /\ n \in {1, 2, 4} /\ DOMAIN f.parts = 1..n
  BY DEF VsField, WellFormed
<1>2. \A i \in 1..n : f.parts[i] \in VsPart /\ f.parts[i].offset = o + i - 1
  BY <1>1 DEF WellFormed
<1>3. o \in Nat
  BY <1>1, <1>2 DEF VsPart
<1>4. \A i \in 1..n : o + i - 1 < Len(payload)
  BY <1>1, <1>2 DEF Carried
<1>5. Len(payload) \in Nat /\ \A i \in 1..Len(payload) : payload[i] \in Byte
  BY DEF Payload
<1>6. \A i \in 1..n : o + i \in 1..Len(payload)
  BY <1>1, <1>3, <1>4, <1>5
<1>7. o + n <= Len(payload)
  BY <1>1, <1>6
<1> QED
  BY <1>2, <1>3, <1>5, <1>6, <1>7

\* The bounds check lets a field through whose bytes are there; Int16 takes two
\* bytes, also for a signed single byte.
LEMMA ReadableInRange ==
  ASSUME NEW pk \in Packets, NEW j \in DOMAIN pk.fields, Mapped(pk.fields[j]), NEW payload \in Payload
  PROVE  j \in Readable(payload, pk) <=> InRange(payload, FieldOf(pk.fields[j]))
<1> DEFINE f == pk.fields[j]
           o == f.parts[1].offset
           n == Len(f.parts)
<1>1. f \in VsField /\ WellFormed(f)
  BY PacketsAssumption DEF VsPacket
<1>2. /\ n \in {1, 2, 4} /\ DOMAIN f.parts = 1..n /\ f.parts[1] \in VsPart /\ o \in Nat
      /\ \A i \in 1..n : f.parts[i].offset = o + i - 1
  <2>1. f.parts \in Seq(VsPart) /\ n \in {1, 2, 4} /\ DOMAIN f.parts = 1..n
    BY <1>1 DEF VsField, WellFormed
  <2>2. f.parts[1] \in VsPart
    BY <2>1
  <2>3. \A i \in 1..n : f.parts[i].offset = o + i - 1
    BY <1>1 DEF WellFormed
  <2> QED
    BY <2>1, <2>2, <2>3 DEF VsPart
<1>3. Len(payload) \in Nat
  BY DEF Payload
<1>4. Carried(payload, f) <=> o + n <= Len(payload)
  <2>1. Carried(payload, f) <=> \A i \in 1..n : o + i - 1 < Len(payload)
    BY <1>2 DEF Carried
  <2>2. n \in 1..n /\ n \in Nat
    BY <1>2
  <2>3. ASSUME \A i \in 1..n : o + i - 1 < Len(payload) PROVE o + n <= Len(payload)
    <3>1. o + n - 1 < Len(payload)
      BY <2>2, <2>3
    <3> QED
      BY <1>2, <1>3, <2>2, <3>1
  <2>4. ASSUME o + n <= Len(payload), NEW i \in 1..n PROVE o + i - 1 < Len(payload)
    BY <1>2, <1>3, <2>2, <2>4
  <2> QED
    BY <2>1, <2>3, <2>4
<1>5. FieldOf(f).offset = o
  BY DEF FieldOf
<1>6. Width(FieldOf(f).type) = IF SignedByte(f) THEN 2 ELSE n
  BY <1>1, MappedTypes DEF SignedByte, Width
<1>7. j \in Readable(payload, pk) <=> Carried(payload, f) /\ (SignedByte(f) => o + 1 < Len(payload))
  BY DEF Readable
<1>8. InRange(payload, FieldOf(f)) <=> o + (IF SignedByte(f) THEN 2 ELSE n) <= Len(payload)
  BY <1>5, <1>6 DEF InRange
<1>9. SignedByte(f) => n = 1
  BY DEF SignedByte
<1> QED
  BY <1>2, <1>3, <1>4, <1>7, <1>8, <1>9

\* What extractValue makes of the bytes is what the specification says, but for the
\* two kinds of field that ReadRaw tells apart.
LEMMA RawMeansSpec ==
  ASSUME NEW f \in VsField, Mapped(f), WellFormed(f),
         NEW payload \in Payload, Carried(payload, f),
         SignedByte(f) => f.parts[1].offset + 1 < Len(payload)
  PROVE  Raw(payload, FieldOf(f)) = ReadRaw(payload, f) /\ ReadRaw(payload, f) \in Int
<1> DEFINE o == f.parts[1].offset
           fd == FieldOf(f)
<1>1. /\ o \in Nat /\ fd.offset = o
      /\ \A i \in 1..Len(f.parts) : /\ f.parts[i] \in VsPart /\ f.parts[i].offset = o + i - 1
                                   /\ payload[o + i] \in Byte
  BY CarriedBytes DEF FieldOf
<1>2. \A i \in 1..Len(f.parts) : i < Len(f.parts) => ~f.parts[i].isSigned
  BY DEF WellFormed
<1>3. Base \in Nat /\ \A i \in 1..Len(f.parts) : payload[o + i] \in Int
  BY <1>1, BaseAssumption DEF Byte
<1>4. CASE SignedByte(f)
  <2> DEFINE b1 == payload[o + 1]
             b2 == payload[o + 2]
  <2>1. Len(f.parts) = 1 /\ b1 \in Byte
    BY <1>1, <1>4 DEF SignedByte
  <2>2. b2 \in Byte
    <3>1. Len(payload) \in Nat /\ \A i \in 1..Len(payload) : payload[i] \in Byte
      BY DEF Payload
    <3>2. o + 2 \in 1..Len(payload)
      BY <1>1, <1>4, <3>1
    <3> QED
      BY <3>1, <3>2
  <2>3. fd.type = "Int16" /\ Uint16At(payload, fd.offset) = b1 + Base * b2
    BY <1>1, <1>4, <2>1, MappedTypes DEF SignedByte, Uint16At
  <2>4. Raw(payload, fd) = Int16Of(b1 + Base * b2)
    BY <2>3 DEF Raw
  <2>5. ReadRaw(payload, f) = b1 + Base * (IF 2 * b2 >= Base THEN b2 - Base ELSE b2)
    <3>1. ~NegativeLong(payload, f)
      BY <2>1 DEF NegativeLong
    <3> QED
      BY <1>4, <3>1 DEF ReadRaw
  <2>6. 2 * (b1 + Base * b2) >= Base * Base <=> 2 * b2 >= Base
    BY <2>1, <2>2, SignOfPair
  <2>7. b1 \in Int /\ b2 \in Int /\ Base \in Int
    BY <1>3, <2>1, <2>2 DEF Byte
  <2> HIDE DEF b1, b2
  <2>8. Base * (b2 - Base) = Base * b2 - Base * Base /\ Base * b2 \in Int /\ Base * Base \in Int
    BY <2>7
  <2>9. CASE 2 * b2 >= Base
    BY <2>4, <2>5, <2>6, <2>7, <2>8, <2>9 DEF Int16Of
  <2>10. CASE ~(2 * b2 >= Base)
    BY <2>4, <2>5, <2>6, <2>7, <2>8, <2>10 DEF Int16Of
  <2> QED
    BY <2>9, <2>10
<1>5. CASE Len(f.parts) = 1 /\ ~SignedByte(f)
  <2>1. fd.type = "Uint8" /\ ~f.parts[1].isSigned /\ f.parts[1].rawFactor = 1
    BY <1>5, MappedTypes DEF SignedByte, WellFormed
  <2>2. Raw(payload, fd) = payload[o + 1]
    BY <1>1, <2>1 DEF Raw
  <2>3. SpecRaw(payload, f) = payload[o + 1] * 1
    BY <1>1, <1>5, <2>1 DEF SpecRaw, PartValue
  <2>4. ReadRaw(payload, f) = SpecRaw(payload, f)
    BY <1>5 DEF ReadRaw, NegativeLong
  <2> QED
    BY <1>1, <1>3, <1>5, <2>2, <2>3, <2>4
<1>6. CASE Len(f.parts) = 2
  <2> DEFINE b1 == payload[o + 1]
             b2 == payload[o + 2]
  <2>1. /\ b1 \in Byte /\ b2 \in Byte /\ ~f.parts[1].isSigned
        /\ f.parts[1].offset + 1 = o + 1 /\ f.parts[2].offset + 1 = o + 2
    BY <1>1, <1>2, <1>6
  <2>2. /\ f.parts[1].rawFactor = 1 /\ f.parts[2].rawFactor = Base
        /\ fd.type = IF f.parts[2].isSigned THEN "Int16" ELSE "Uint16"
    BY <1>6, MappedTypes DEF Consecutive, Exp
  <2>3. PartValue(payload, f.parts[1]) = b1 * 1
    BY <2>1, <2>2 DEF PartValue
  <2>4. PartValue(payload, f.parts[2]) =
          (IF f.parts[2].isSigned /\ 2 * b2 >= Base THEN b2 - Base ELSE b2) * Base
    BY <2>1, <2>2 DEF PartValue
  <2>5. SpecRaw(payload, f) = PartValue(payload, f.parts[1]) + PartValue(payload, f.parts[2])
    BY <1>6 DEF SpecRaw
  <2>6. 2 * (b1 + Base * b2) >= Base * Base <=> 2 * b2 >= Base
    BY <2>1, SignOfPair
  <2>7. Raw(payload, fd) = IF f.parts[2].isSigned THEN Int16Of(b1 + Base * b2) ELSE b1 + Base * b2
    <3>1. Uint16At(payload, fd.offset) = b1 + Base * b2
      BY <1>1 DEF Uint16At
    <3>2. CASE f.parts[2].isSigned
      BY <2>2, <3>1, <3>2 DEF Raw
    <3>3. CASE ~f.parts[2].isSigned
      BY <2>2, <3>1, <3>3 DEF Raw
    <3> QED
      BY <3>2, <3>3
  <2>8. b1 \in Int /\ b2 \in Int /\ Base \in Int /\ b1 * 1 = b1
    BY <1>3, <1>6
  <2> HIDE DEF b1, b2
  <2>9. (b2 - Base) * Base = Base * b2 - Base * Base /\ b2 * Base = Base * b2
    BY <2>8
  <2>10. Base * b2 \in Int /\ Base * Base \in Int
    BY <2>8
  <2>11. ReadRaw(payload, f) = SpecRaw(payload, f)
    BY <1>6 DEF ReadRaw, NegativeLong, SignedByte
  <2>12. CASE f.parts[2].isSigned /\ 2 * b2 >= Base
    <3>1. Raw(payload, fd) = b1 + Base * b2 - Base * Base
      <4>1. Raw(payload, fd) = Int16Of(b1 + Base * b2)
        BY <2>7, <2>12
      <4>2. 2 * (b1 + Base * b2) >= Base * Base
        BY <2>6, <2>12
      <4>3. Int16Of(b1 + Base * b2) = b1 + Base * b2 - Base * Base
        BY <2>8, <2>10, <4>2 DEF Int16Of
      <4> QED
        BY <4>1, <4>3
    <3>2. SpecRaw(payload, f) = b1 * 1 + (b2 - Base) * Base
      BY <2>3, <2>4, <2>5, <2>12
    <3> QED
      BY <2>8, <2>9, <2>10, <2>11, <3>1, <3>2
  <2>13. CASE ~(f.parts[2].isSigned /\ 2 * b2 >= Base)
    <3>1. Raw(payload, fd) = b1 + Base * b2
      BY <2>6, <2>7, <2>13 DEF Int16Of
    <3>2. SpecRaw(payload, f) = b1 * 1 + b2 * Base
      BY <2>3, <2>4, <2>5, <2>13
    <3> QED
      BY <2>8, <2>9, <2>10, <2>11, <3>1, <3>2
  <2> QED
    BY <2>12, <2>13
<1>7. CASE Len(f.parts) = 4
  <2> DEFINE b(i) == payload[o + i]
             v(i) == PartValue(payload, f.parts[i])
             high == IF NegativeLong(payload, f) THEN b(4) - Base ELSE b(4)
  <2>1. \A i \in 1..4 : b(i) \in Byte /\ f.parts[i].offset + 1 = o + i
    BY <1>1, <1>7
  <2>2. fd.type = "Uint32" /\ \A i \in 1..4 : f.parts[i].rawFactor = Exp[i]
    BY <1>7, MappedTypes DEF Consecutive
  <2>3. 1 \in 1..4 /\ 2 \in 1..4 /\ 3 \in 1..4 /\ 4 \in 1..4
    OBVIOUS
  <2>4. NegativeLong(payload, f) <=> f.parts[4].isSigned /\ 2 * b(4) >= Base
    BY <1>7, <2>1, <2>3 DEF NegativeLong
  <2>5. \A i \in 1..3 : v(i) = b(i) * Exp[i]
    <3>1. \A i \in 1..3 : i \in 1..4 /\ ~f.parts[i].isSigned
      BY <1>2, <1>7
    <3> QED
      BY <2>1, <2>2, <3>1 DEF PartValue
  <2>6. v(4) = high * Exp[4]
    BY <2>1, <2>2, <2>3, <2>4 DEF PartValue
  <2>7. SpecRaw(payload, f) = v(1) + v(2) + v(3) + v(4)
    BY <1>7 DEF SpecRaw
  <2>8. Raw(payload, fd) = b(1) + Base * b(2) + Base * Base * (b(3) + Base * b(4))
    BY <1>1, <2>2 DEF Raw, Uint32At, Uint16At
  <2>9. ReadRaw(payload, f) =
          IF NegativeLong(payload, f) THEN SpecRaw(payload, f) + Base * Base * Base * Base
          ELSE SpecRaw(payload, f)
    BY <1>7 DEF ReadRaw, SignedByte
  <2>10. b(1) \in Int /\ b(2) \in Int /\ b(3) \in Int /\ b(4) \in Int /\ Base \in Int
    BY <1>3, <1>7
  <2>11. /\ v(1) = b(1) * 1 /\ v(2) = b(2) * Base /\ v(3) = b(3) * (Base * Base)
         /\ v(4) = high * (Base * Base * Base)
    <3>1. Exp[1] = 1 /\ Exp[2] = Base /\ Exp[3] = Base * Base /\ Exp[4] = Base * Base * Base
      BY DEF Exp
    <3>2. v(1) = b(1) * Exp[1] /\ v(2) = b(2) * Exp[2] /\ v(3) = b(3) * Exp[3]
      <4>1. 1 \in 1..3 /\ 2 \in 1..3 /\ 3 \in 1..3
        OBVIOUS
      <4> HIDE DEF b, v
      <4> QED
        BY <2>5, <4>1
    <3> QED
      BY <2>6, <3>1, <3>2
  <2> HIDE DEF b, v
  <2> DEFINE x1 == b(1)
             x2 == Base * b(2)
             x3 == b(3) * (Base * Base)
             x4 == b(4) * (Base * Base * Base)
             all == Base * Base * Base * Base
  <2>12. Raw(payload, fd) = x1 + x2 + (x3 + x4)
    BY <2>8, <2>10
  <2>13. v(1) = x1 /\ v(2) = x2 /\ v(3) = x3
    BY <2>10, <2>11
  <2>14. v(4) = IF NegativeLong(payload, f) THEN x4 - all ELSE x4
    BY <2>10, <2>11
  <2>15. x1 \in Int /\ x2 \in Int /\ x3 \in Int /\ x4 \in Int /\ all \in Int
    BY <2>10
  <2>16. ReadRaw(payload, f) = IF NegativeLong(payload, f) THEN SpecRaw(payload, f) + all
                               ELSE SpecRaw(payload, f)
    BY <2>9
  <2> HIDE DEF high, x1, x2, x3, x4, all
  <2> QED
    BY <2>7, <2>12, <2>13, <2>14, <2>15, <2>16
<1> QED
  BY <1>4, <1>5, <1>6, <1>7 DEF WellFormed
-------------------------------------------------------------------------------
(***************************************************************************)
(* The specification file and the topics.                                  *)
(***************************************************************************)

\* A telegram was decoded with the entry that generate made from its packet.
LEMMA DecodedWithPacket ==
  ASSUME FlowInv, NEW t \in DOMAIN topic, NEW pk \in PacketsOf(origin[t])
  PROVE  pk \in Packets /\ Lookup(registry, origin[t]) = FieldsOf(pk)
<1>1. pk \in Packets /\ Generated(pk) /\ KeyOf(pk) \notin DOMAIN Custom
  BY DEF PacketsOf
<1>2. KeyOf(pk) \in DOMAIN registry /\ Lookup(registry, origin[t]) = registry[KeyOf(pk)]
  BY TopicFacts DEF PacketsOf, Known, Lookup
<1>3. registry[KeyOf(pk)] = GeneratedRegistry[KeyOf(pk)]
  BY <1>1, <1>2 DEF FlowInv, RegistryInv, FromCustom, FromGenerated
<1> QED
  BY <1>1, <1>2, <1>3, GeneratedEntry

LEMMA PacketFields ==
  ASSUME NEW pk \in Packets
  PROVE  /\ \A j \in DOMAIN pk.fields :
              /\ pk.fields[j] \in VsField
              /\ Mapped(pk.fields[j]) => WellFormed(pk.fields[j])
         /\ DOMAIN FieldsOf(pk) = {j \in DOMAIN pk.fields : Mapped(pk.fields[j])}
         /\ \A j \in DOMAIN FieldsOf(pk) : FieldsOf(pk)[j] = FieldOf(pk.fields[j])
BY PacketsAssumption DEF VsPacket, FieldsOf

\* The fields of the packet that can be read from a telegram, and their names.
LEMMA PublishedNames ==
  ASSUME FlowInv, NEW t \in DOMAIN topic, NEW pk \in PacketsOf(origin[t])
  PROVE  LET fs == Decoded(origin[t])
         IN /\ topic[t] = Message(fs) /\ Positions(DOMAIN fs) /\ UnitsAgree(fs)
            /\ DOMAIN fs = Readable(origin[t].payload, pk)
            /\ \A j \in DOMAIN fs :
                 /\ fs[j].name = GoName(pk.fields[j].text)
                 /\ fs[j].value = ExtractValue(origin[t].payload, FieldOf(pk.fields[j]))
<1>1. /\ pk \in Packets /\ Lookup(registry, origin[t]) = FieldsOf(pk)
      /\ origin[t].payload \in Payload
  BY DecodedWithPacket, TopicFacts
<1>2. topic[t] = Message(Decoded(origin[t])) /\ IsDef(FieldsOf(pk)) /\ UnitsAgree(FieldsOf(pk))
  BY <1>1, TopicFacts
<1>3. \A j \in DOMAIN FieldsOf(pk) : /\ FieldsOf(pk)[j] = FieldOf(pk.fields[j])
                                    /\ FieldsOf(pk)[j].name = GoName(pk.fields[j].text)
  <2>1. \A f : FieldOf(f).name = GoName(f.text)
    BY DEF FieldOf
  <2> QED
    BY <1>1, <2>1, PacketFields
<1>4. /\ Positions(DOMAIN Decoded(origin[t])) /\ UnitsAgree(Decoded(origin[t]))
      /\ DOMAIN Decoded(origin[t]) = {j \in DOMAIN FieldsOf(pk) : InRange(origin[t].payload, FieldsOf(pk)[j])}
      /\ \A j \in DOMAIN Decoded(origin[t]) :
           /\ Decoded(origin[t])[j].name = FieldsOf(pk)[j].name
           /\ Decoded(origin[t])[j].value = ExtractValue(origin[t].payload, FieldsOf(pk)[j])
  <2>1. IsDef(Lookup(registry, origin[t])) /\ UnitsAgree(Lookup(registry, origin[t]))
    BY <1>1, <1>2
  <2> QED
    BY <1>1, <2>1, DecodedFacts
<1>5. DOMAIN Decoded(origin[t]) = Readable(origin[t].payload, pk)
  <2>1. \A j \in DOMAIN pk.fields : Mapped(pk.fields[j]) =>
          (j \in Readable(origin[t].payload, pk) <=> InRange(origin[t].payload, FieldOf(pk.fields[j])))
    BY <1>1, ReadableInRange
  <2>2. \A j \in Readable(origin[t].payload, pk) : j \in DOMAIN pk.fields /\ Mapped(pk.fields[j])
    BY DEF Readable
  <2>3. DOMAIN FieldsOf(pk) = {j \in DOMAIN pk.fields : Mapped(pk.fields[j])}
    BY <1>1, PacketFields
  <2> QED
    BY <1>3, <1>4, <2>1, <2>2, <2>3
<1> QED
  BY <1>2, <1>3, <1>4, <1>5

\* A telegram of any length is published with the names of exactly the mapped fields it
\* carries, without a signed single byte at its end.
THEOREM TelegramsAreComplete == Spec => []PublishedComplete
<1>1. FlowInv => PublishedComplete
  <2> SUFFICES ASSUME FlowInv, NEW t \in DOMAIN topic, NEW pk \in PacketsOf(origin[t])
               PROVE  DOMAIN topic[t].fields =
                        {GoName(pk.fields[j].text) : j \in Readable(origin[t].payload, pk)}
    BY DEF PublishedComplete
  <2> DEFINE fs == Decoded(origin[t])
  <2>1. /\ topic[t] = Message(fs) /\ DOMAIN fs = Readable(origin[t].payload, pk)
        /\ \A j \in DOMAIN fs : fs[j].name = GoName(pk.fields[j].text)
    BY PublishedNames
  <2> HIDE DEF fs
  <2>2. DOMAIN Message(fs).fields = {fs[j].name : j \in DOMAIN fs}
    BY DEF Message
  <2> QED
    BY <2>1, <2>2
<1> QED
  BY <1>1, FlowHolds, PTL

\* What is published under a generated name is, to the nearest hundredth, what the
\* specification says of the last readable field of that name, for every payload and
\* bytes of any even size; of a signed single byte and of a signed four-byte number
\* below zero it is what ReadRaw says instead.
THEOREM PublishedValuesMeanSpec == Spec => []PublishedMeansSpec
<1>1. FlowInv => PublishedMeansSpec
  <2> SUFFICES ASSUME FlowInv, NEW t \in DOMAIN topic, NEW pk \in PacketsOf(origin[t]),
                      NEW n \in DOMAIN topic[t].fields
               PROVE  LET payload == origin[t].payload
                          named == {j \in Readable(payload, pk) : GoName(pk.fields[j].text) = n}
                          f == pk.fields[Max(named)]
                      IN Reads(topic[t].fields[n], ReadRaw(payload, f), f.precision)
    BY DEF PublishedMeansSpec
  <2> DEFINE payload == origin[t].payload
             named == {j \in Readable(payload, pk) : GoName(pk.fields[j].text) = n}
             fs == Decoded(origin[t])
             i == Winner(fs, n)
             f == pk.fields[i]
  <2>1. pk \in Packets /\ payload \in Payload
    BY DecodedWithPacket, TopicFacts
  <2>2. /\ topic[t] = Message(fs) /\ Positions(DOMAIN fs) /\ UnitsAgree(fs)
        /\ DOMAIN fs = Readable(payload, pk)
        /\ \A j \in DOMAIN fs :
             /\ fs[j].name = GoName(pk.fields[j].text)
             /\ fs[j].value = ExtractValue(payload, FieldOf(pk.fields[j]))
    BY PublishedNames
  <2> HIDE DEF fs, payload
  <2>3. i \in DOMAIN fs /\ fs[i].name = n /\ Message(fs).fields[n] = fs[i].value
    <3>1. n \in DOMAIN Message(fs).fields
      BY <2>2
    <3>2. i \in DOMAIN fs /\ fs[i].name = n /\ Shows(Message(fs), n, fs[i])
      BY <2>2, <3>1, MessageFacts
    <3> QED
      BY <3>2 DEF Shows
  <2>4. i = Max(named)
    <3>1. At(fs, n) = named
      BY <2>2 DEF At
    <3> QED
      BY <3>1 DEF Winner
  <2> HIDE DEF i
  <2>5. /\ i \in DOMAIN pk.fields /\ Mapped(f) /\ Carried(payload, f)
        /\ SignedByte(f) => f.parts[1].offset + 1 < Len(payload)
    BY <2>2, <2>3 DEF Readable
  <2>6. f \in VsField /\ WellFormed(f)
    BY <2>1, <2>5, PacketFields
  <2>7. topic[t].fields[n] = ExtractValue(payload, FieldOf(f))
    BY <2>2, <2>3
  <2>8. Raw(payload, FieldOf(f)) = ReadRaw(payload, f) /\ ReadRaw(payload, f) \in Int
    BY <2>1, <2>5, <2>6, RawMeansSpec
  <2>9. FieldOf(f).type # "Bit" /\ FieldOf(f).decimals = f.precision /\ f.precision \in 0..4
    <3>1. FieldOf(f).type # "Bit"
      BY <2>5, MapTypeFacts
    <3> QED
      BY <2>6, <3>1 DEF FieldOf, VsField
  <2>10. topic[t].fields[n] = Hundredths(ReadRaw(payload, f), f.precision)
    BY <2>7, <2>8, <2>9 DEF ExtractValue
  <2>11. Reads(topic[t].fields[n], ReadRaw(payload, f), f.precision)
    BY <2>8, <2>9, <2>10, HundredthsRead
  <2> QED
    BY <2>4, <2>11 DEF payload
<1> QED
  BY <1>1, FlowHolds, PTL
===============================================================================
