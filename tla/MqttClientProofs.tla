--------------------------- MODULE MqttClientProofs ---------------------------
(***************************************************************************)
(* Proofs about MqttClient, for any number of sources and of fields and    *)
(* any bounds.                                                             *)
(***************************************************************************)
EXTENDS MqttClient, TLAPS

LEMMA ClientTypeInit == Init => ClientTypeOK
<1> SUFFICES ASSUME Init PROVE ClientTypeOK
  OBVIOUS
<1>1. clearing \in 0..connections /\ connections \in 0..MaxConnections /\ failures \in 0..MaxFailures
  BY ClientAssumption DEF Init
<1> QED
  BY <1>1 DEF Init, ClientTypeOK

LEMMA ClientTypePreserved == ClientTypeOK /\ [Next]_vars => ClientTypeOK'
<1> SUFFICES ASSUME ClientTypeOK, [Next]_vars PROVE ClientTypeOK'
  OBVIOUS
<1> USE ClientAssumption DEF ClientTypeOK, Pairs, linkVars, roundVars
<1>1. CASE BeginPublish
  BY <1>1 DEF BeginPublish
<1>2. CASE MarkField
  BY <1>2 DEF MarkField
<1>3. CASE SendDiscovery
  BY <1>3 DEF SendDiscovery
<1>4. CASE SendTelemetry
  BY <1>4 DEF SendTelemetry
<1>5. CASE LinkUp
  BY <1>5 DEF LinkUp
<1>6. CASE LinkLost
  BY <1>6 DEF LinkLost
<1>7. CASE OnConnect
  BY <1>7 DEF OnConnect
<1>8. CASE UNCHANGED vars
  BY <1>8 DEF vars
<1> QED
  BY <1>1, <1>2, <1>3, <1>4, <1>5, <1>6, <1>7, <1>8 DEF Next, PublishStep

\* Every reachable state of the client is well typed, and a field that was
\* marked is not looked at again in the same publishDiscovery.
THEOREM ClientTypeCorrect == Spec => []ClientTypeOK
<1> QED
  BY ClientTypeInit, ClientTypePreserved, PTL DEF Spec

\* What is marked while no OnConnect handler is outstanding was announced in
\* this connection: the handler that runs last wipes what an older connection
\* left, and every mark after it is followed by its own publish.
THEOREM CacheIsSound == Spec => []CacheSound
<1>1. Init => CacheSound
  BY DEF Init, CacheSound
<1>2. ClientTypeOK /\ CacheSound /\ [Next]_vars => CacheSound'
  <2> SUFFICES ASSUME ClientTypeOK, CacheSound, [Next]_vars PROVE CacheSound'
    OBVIOUS
  <2> USE DEF CacheSound, InFlight, linkVars, roundVars
  <2>1. CASE BeginPublish
    BY <2>1 DEF BeginPublish
  <2>2. CASE MarkField
    BY <2>2 DEF MarkField
  <2>3. CASE SendDiscovery
    BY <2>3 DEF SendDiscovery
  <2>4. CASE SendTelemetry
    BY <2>4 DEF SendTelemetry
  <2>5. CASE LinkUp
    BY <2>5 DEF LinkUp, ClientTypeOK
  <2>6. CASE LinkLost
    BY <2>6 DEF LinkLost
  <2>7. CASE OnConnect
    BY <2>7 DEF OnConnect
  <2>8. CASE UNCHANGED vars
    BY <2>8 DEF vars
  <2> QED
    BY <2>1, <2>2, <2>3, <2>4, <2>5, <2>6, <2>7, <2>8 DEF Next, PublishStep
<1> QED
  BY <1>1, <1>2, ClientTypeCorrect, PTL DEF Spec

LEMMA LookedAtMarkedPreserved ==
  ClientTypeOK /\ LookedAtMarked /\ [Next]_vars => LookedAtMarked'
<1> SUFFICES ASSUME ClientTypeOK, LookedAtMarked, [Next]_vars PROVE LookedAtMarked'
  OBVIOUS
<1> USE DEF LookedAtMarked, linkVars, roundVars
<1>1. CASE BeginPublish
  BY <1>1 DEF BeginPublish
<1>2. CASE MarkField
  BY <1>2 DEF MarkField
<1>3. CASE SendDiscovery
  BY <1>3 DEF SendDiscovery
<1>4. CASE SendTelemetry
  BY <1>4 DEF SendTelemetry
<1>5. CASE LinkUp \/ LinkLost
  BY <1>5 DEF LinkUp, LinkLost
<1>6. CASE OnConnect
  BY <1>6 DEF OnConnect
<1>7. CASE UNCHANGED vars
  BY <1>7 DEF vars
<1> QED
  BY <1>1, <1>2, <1>3, <1>4, <1>5, <1>6, <1>7 DEF Next, PublishStep

\* Whatever the connection did during and before the Publish, and however the
\* OnConnect handlers were delayed: if none of them cleared the cache while it
\* ran, and none is outstanding, the telemetry Publish sends finds its discovery
\* configs at the broker (Publish, publishDiscovery).
THEOREM DiscoveryComesFirst == Spec => []DiscoveryFirst
<1>1. Init => LookedAtMarked
  BY DEF Init, LookedAtMarked
<1>2. ClientTypeOK /\ LookedAtMarked /\ CacheSound => DiscoveryFirst
  BY DEF LookedAtMarked, CacheSound, InFlight, DiscoveryFirst
<1> QED
  BY <1>1, <1>2, LookedAtMarkedPreserved, ClientTypeCorrect, CacheIsSound, PTL DEF Spec
===============================================================================
