--------------------------- MODULE Transport_proofs ---------------------------
(***************************************************************************)
(* Transport for any number of messages, shards and losses.                *)
(***************************************************************************)
EXTENDS Transport, TLAPS

(***************************************************************************)
(* Handle takes in no more shards than were sent, holds no more than it    *)
(* took in, and a message is begun only when those before it are finished. *)
(***************************************************************************)
Counts ==
    \A m \in Messages :
        /\ received[m] <= sent[m]
        /\ shards[m] <= received[m]
        /\ sent[m] > 0 => \A e \in Before[m] : sent[e] = Total

(***************************************************************************)
(* While a message that is alone on the channel is being sent, its entry   *)
(* holds all its shards, or is decoded.                                    *)
(***************************************************************************)
AloneEntry(m) ==
    /\ delivered[m] = IF received[m] >= Required THEN 1 ELSE 0
    /\ sent[m] < Total => /\ m \in decoded <=> received[m] >= Required
                          /\ m \notin decoded => shards[m] = received[m]

Inv ==
    /\ TypeOK
    /\ Counts
    /\ DeliveryNeedsShards
    /\ \A m \in Handled : Alone(m) => AloneEntry(m)

-----------------------------------------------------------------------------
(***************************************************************************)
(* What one step does to the shard counters, for each of the three ways    *)
(* Handle treats a shard and for a loss.                                   *)
(***************************************************************************)
LEMMA SendFacts ==
    ASSUME TypeOK, Counts, NEW m \in Messages, SendMany(m)
    PROVE  /\ sent' \in [Messages -> 0..Total]
           /\ sent'[m] = sent[m] + 1
           /\ \A n \in Messages \ {m} : sent'[n] = sent[n]
           /\ \A n \in Messages : sent'[n] > 0 => \A e \in Before[n] : sent'[e] = Total
<1>1. Total \in Nat /\ \A n \in Messages : Before[n] \subseteq Messages
  BY TransportAssumption
<1>2. /\ sent' = [sent EXCEPT ![m] = @ + 1] /\ sent[m] < Total
      /\ \A e \in Before[m] : sent[e] = Total
  BY DEF SendMany
<1>3. sent \in [Messages -> 0..Total]
  BY DEF TypeOK
<1>4. sent' \in [Messages -> 0..Total] /\ sent'[m] = sent[m] + 1
  BY <1>1, <1>2, <1>3
<1>5. \A n \in Messages \ {m} : sent'[n] = sent[n]
  BY <1>2, <1>3
<1>6. ASSUME NEW n \in Messages, sent'[n] > 0, NEW e \in Before[n]
      PROVE  sent'[e] = Total
  <2>1. e \in Messages
    BY <1>1
  <2>2. sent[e] = Total
    BY <1>2, <1>5, <1>6 DEF Counts
  <2>3. e # m
    BY <1>1, <1>2, <1>3, <2>2
  <2> QED
    BY <1>5, <2>1, <2>2, <2>3
<1> QED
  BY <1>4, <1>5, <1>6

(***************************************************************************)
(* A handled shard leaves the types, the counters and the price of a       *)
(* delivery right.                                                         *)
(***************************************************************************)
LEMMA HandleStep ==
    ASSUME Inv, NEW m \in Handled, SendMany(m),
           received' = [received EXCEPT ![m] = @ + 1],
           NewBuffer(m) \/ Collect(m) \/ Supersede(m)
    PROVE  TypeOK' /\ Counts' /\ DeliveryNeedsShards'
<1> USE DEF Inv
<1>0. /\ Total \in Nat /\ Required \in Nat /\ Required >= 2 /\ Required <= Total
      /\ m \in Messages /\ Handled \subseteq Messages
  BY TransportAssumption
<1>1. /\ sent \in [Messages -> 0..Total] /\ received \in [Messages -> 0..Total]
      /\ shards \in [Messages -> 0..Total] /\ delivered \in [Messages -> Nat]
      /\ decoded \subseteq Handled /\ \A i \in decoded : shards[i] >= Required
      /\ sent[m] < Total
  BY DEF TypeOK, SendMany
<1>2. \A n \in Messages : received[n] <= sent[n] /\ shards[n] <= received[n]
  BY DEF Counts
<1>3. /\ received' \in [Messages -> 0..Total] /\ received'[m] = received[m] + 1
      /\ \A n \in Messages \ {m} : received'[n] = received[n]
  BY <1>0, <1>1, <1>2
<1>4. \A n \in Messages : received'[n] <= sent'[n]
  BY <1>0, <1>1, <1>2, <1>3, SendFacts
<1>5. \A n \in Messages :
        Required * delivered[n] + (IF n \in decoded THEN 0 ELSE shards[n]) <= received[n]
  BY DEF DeliveryNeedsShards
<1>6. /\ shards' \in [Messages -> 0..Total]
      /\ delivered' \in [Messages -> Nat]
      /\ decoded' \subseteq Handled
      /\ \A i \in decoded' : shards'[i] >= Required
      /\ \A n \in Messages : shards'[n] <= received'[n]
      /\ \A n \in Messages :
            Required * delivered'[n] + (IF n \in decoded' THEN 0 ELSE shards'[n]) <= received'[n]
  <2>1. CASE NewBuffer(m)
    <3>1. /\ shards[m] = 0 /\ decoded' = decoded /\ delivered' = delivered
          /\ shards' \in [Messages -> 0..Total] /\ shards'[m] = 1
          /\ \A n \in Messages \ {m} : shards'[n] = shards[n]
      BY <1>0, <1>1, <2>1 DEF NewBuffer
    <3>2. m \notin decoded
      BY <1>0, <1>1, <3>1
    <3>3. Required * delivered[m] + 1 <= received[m] + 1
      BY <1>0, <1>1, <1>5, <3>1, <3>2
    <3> QED
      BY <1>0, <1>1, <1>2, <1>3, <1>5, <3>1, <3>2, <3>3
  <2>2. CASE Collect(m) /\ shards[m] + 1 >= Required
    <3>1. /\ m \notin decoded /\ decoded' = decoded \cup {m}
          /\ shards' = [shards EXCEPT ![m] = @ + 1]
          /\ delivered' = [delivered EXCEPT ![m] = @ + 1]
      BY <1>0, <1>1, <2>2 DEF Collect
    <3>2. /\ shards' \in [Messages -> 0..Total] /\ shards'[m] = shards[m] + 1
          /\ \A n \in Messages \ {m} : shards'[n] = shards[n]
      BY <1>0, <1>1, <1>2, <3>1
    <3>3. /\ delivered' \in [Messages -> Nat] /\ delivered'[m] = delivered[m] + 1
          /\ \A n \in Messages \ {m} : delivered'[n] = delivered[n]
      BY <1>0, <1>1, <3>1
    <3>4. Required * (delivered[m] + 1) = Required * delivered[m] + Required
      BY <1>0, <1>1
    <3>5. Required * delivered[m] \in Nat
      BY <1>0, <1>1
    <3>6. Required * delivered'[m] <= received'[m]
      BY <1>0, <1>1, <1>3, <1>5, <2>2, <3>1, <3>3, <3>4, <3>5
    <3> QED
      BY <1>0, <1>1, <1>2, <1>3, <1>5, <2>2, <3>1, <3>2, <3>3, <3>6
  <2>3. CASE Collect(m) /\ shards[m] + 1 < Required
    <3>1. /\ m \notin decoded /\ decoded' = decoded /\ delivered' = delivered
          /\ shards' = [shards EXCEPT ![m] = @ + 1]
      BY <1>0, <1>1, <2>3 DEF Collect
    <3>2. /\ shards' \in [Messages -> 0..Total] /\ shards'[m] = shards[m] + 1
          /\ \A n \in Messages \ {m} : shards'[n] = shards[n]
      BY <1>0, <1>1, <1>2, <3>1
    <3>3. Required * delivered[m] \in Nat
      BY <1>0, <1>1
    <3>4. Required * delivered[m] + (shards[m] + 1) <= received[m] + 1
      BY <1>0, <1>1, <1>5, <3>1, <3>3
    <3> QED
      BY <1>0, <1>1, <1>2, <1>3, <1>5, <3>1, <3>2, <3>4
  <2>4. CASE Supersede(m)
    <3>1. /\ delivered' = delivered /\ decoded' \subseteq decoded
          /\ shards' \in [Messages -> 0..Total]
          /\ \A n \in Messages :
                \/ n \notin decoded' /\ shards'[n] = 0
                \/ (n \in decoded' <=> n \in decoded) /\ shards'[n] = shards[n]
      BY <1>0, <1>1, <2>4 DEF Supersede
    <3>2. \A n \in Messages : Required * delivered[n] \in Nat
      BY <1>0, <1>1
    <3>3. \A n \in Messages : received'[n] >= received[n] /\ received[n] \in Nat /\ received'[n] \in Nat
      BY <1>1, <1>3
    <3>4. ASSUME NEW n \in Messages
          PROVE  Required * delivered'[n] + (IF n \in decoded' THEN 0 ELSE shards'[n]) <= received'[n]
      <4>1. (IF n \in decoded' THEN 0 ELSE shards'[n]) <= (IF n \in decoded THEN 0 ELSE shards[n])
        BY <1>1, <3>1
      <4> QED
        BY <1>1, <1>5, <3>1, <3>2, <3>3, <4>1
    <3>5. \A i \in decoded' : shards'[i] >= Required
      BY <1>0, <1>1, <3>1
    <3>6. \A n \in Messages : shards'[n] <= received'[n]
      BY <1>1, <1>2, <3>1, <3>3
    <3> QED
      BY <1>1, <3>1, <3>4, <3>5, <3>6
  <2>5. shards[m] + 1 \in Int
    BY <1>0, <1>1
  <2> QED
    BY <1>0, <2>1, <2>2, <2>3, <2>4, <2>5
<1>7. TypeOK'
  BY <1>3, <1>6, SendFacts DEF TypeOK
<1>8. Counts'
  BY <1>0, <1>4, <1>6, SendFacts DEF Counts
<1>9. DeliveryNeedsShards'
  BY <1>6 DEF DeliveryNeedsShards
<1> QED
  BY <1>7, <1>8, <1>9

(***************************************************************************)
(* A shard of n does not disturb a message that is alone: either that      *)
(* message has not begun, and has no entry to lose, or it is finished.     *)
(***************************************************************************)
LEMMA NotInFlight ==
    ASSUME Inv, NEW m \in Handled, Alone(m), NEW n \in Handled \ {m}, SendMany(n)
    PROVE  sent[m] = 0 \/ sent[m] = Total
<1>1. m \in Messages /\ n \in Messages /\ Total \in Nat /\ sent \in [Messages -> 0..Total]
  BY TransportAssumption DEF Inv, TypeOK
<1>2. sent[n] < Total /\ \A e \in Before[n] : sent[e] = Total
  BY DEF SendMany
<1>3. CASE m \in Before[n]
  BY <1>2, <1>3
<1>4. CASE n \in Before[m]
  <2>1. sent[m] > 0 => sent[n] = Total
    BY <1>1, <1>4 DEF Inv, Counts
  <2> QED
    BY <1>1, <1>2, <2>1
<1> QED
  BY <1>3, <1>4 DEF Alone

(***************************************************************************)
(* The entry of a message that is alone, after a shard of its own.         *)
(***************************************************************************)
LEMMA OwnShard ==
    ASSUME Inv, NEW m \in Handled, Alone(m), SendMany(m),
           received' = [received EXCEPT ![m] = @ + 1],
           NewBuffer(m) \/ Collect(m) \/ Supersede(m)
    PROVE  AloneEntry(m)'
<1>0. /\ Total \in Nat /\ Required \in Nat /\ Required >= 2 /\ Required <= Total
      /\ m \in Messages
  BY TransportAssumption
<1>1. /\ received \in [Messages -> 0..Total] /\ shards \in [Messages -> 0..Total]
      /\ delivered \in [Messages -> Nat] /\ decoded \subseteq Handled
      /\ \A i \in decoded : shards[i] >= Required
      /\ shards[m] <= received[m]
  BY <1>0 DEF Inv, TypeOK, Counts
<1>2. /\ delivered[m] = IF received[m] >= Required THEN 1 ELSE 0
      /\ m \in decoded <=> received[m] >= Required
      /\ m \notin decoded => shards[m] = received[m]
  BY DEF Inv, AloneEntry, SendMany
<1>3. received'[m] = received[m] + 1
  BY <1>0, <1>1
<1>4. /\ delivered'[m] = IF received'[m] >= Required THEN 1 ELSE 0
      /\ m \in decoded' <=> received'[m] >= Required
      /\ m \notin decoded' => shards'[m] = received'[m]
  <2>1. CASE NewBuffer(m)
    <3>1. shards[m] = 0 /\ shards'[m] = 1 /\ decoded' = decoded /\ delivered' = delivered
      BY <1>0, <1>1, <2>1 DEF NewBuffer
    <3> QED
      BY <1>0, <1>1, <1>2, <1>3, <3>1
  <2>2. CASE Collect(m) /\ shards[m] + 1 >= Required
    <3>1. /\ m \notin decoded /\ m \in decoded' /\ delivered'[m] = delivered[m] + 1
      BY <1>0, <1>1, <2>2 DEF Collect
    <3> QED
      BY <1>0, <1>1, <1>2, <1>3, <2>2, <3>1
  <2>3. CASE Collect(m) /\ shards[m] + 1 < Required
    <3>1. /\ m \notin decoded /\ decoded' = decoded /\ delivered' = delivered
          /\ shards'[m] = shards[m] + 1
      BY <1>0, <1>1, <2>3 DEF Collect
    <3> QED
      BY <1>0, <1>1, <1>2, <1>3, <2>3, <3>1
  <2>4. CASE Supersede(m) /\ m \notin Superseded(m)
    <3>1. m \in decoded /\ m \in decoded' /\ delivered' = delivered
      BY <2>4 DEF Supersede
    <3> QED
      BY <1>0, <1>1, <1>2, <1>3, <3>1
  <2>5. Supersede(m) => m \notin Superseded(m)
    <3> SUFFICES ASSUME Supersede(m) PROVE m \notin Superseded(m)
      OBVIOUS
    <3>1. shards[m] < Total
      BY <1>0, <1>1 DEF Inv, Counts, TypeOK, SendMany
    <3> QED
      BY <1>0, <1>1, <3>1 DEF Superseded
  <2>6. shards[m] + 1 \in Int
    BY <1>0, <1>1
  <2> QED
    BY <1>0, <2>1, <2>2, <2>3, <2>4, <2>5, <2>6
<1> QED
  BY <1>4 DEF AloneEntry

(***************************************************************************)
(* ... and after a shard of another message.                               *)
(***************************************************************************)
LEMMA OtherShard ==
    ASSUME Inv, NEW m \in Handled, Alone(m), NEW n \in Handled \ {m}, SendMany(n),
           received' = [received EXCEPT ![n] = @ + 1],
           NewBuffer(n) \/ Collect(n) \/ Supersede(n)
    PROVE  AloneEntry(m)'
<1>0. /\ Total \in Nat /\ Required \in Nat /\ Required >= 2 /\ Required <= Total
      /\ m \in Messages /\ n \in Messages /\ n # m
  BY TransportAssumption
<1>1. /\ received \in [Messages -> 0..Total] /\ shards \in [Messages -> 0..Total]
      /\ delivered \in [Messages -> Nat] /\ sent \in [Messages -> 0..Total]
      /\ \A i \in decoded : shards[i] >= Required
      /\ shards[m] <= received[m] /\ received[m] <= sent[m]
  BY <1>0 DEF Inv, TypeOK, Counts
<1>2. sent'[m] = sent[m] /\ received'[m] = received[m]
  BY <1>0, <1>1 DEF SendMany
<1>3. delivered'[m] = delivered[m]
  BY <1>0, <1>1 DEF NewBuffer, Collect, Supersede
<1>4. AloneEntry(m)
  BY DEF Inv
<1>5. CASE sent[m] = Total
  BY <1>0, <1>2, <1>3, <1>4, <1>5 DEF AloneEntry
<1>6. CASE sent[m] = 0
  <2>1. received[m] = 0 /\ shards[m] = 0
    BY <1>0, <1>1, <1>6
  <2>2. m \notin decoded
    BY <1>0, <1>1, <2>1
  <2>3. shards'[m] = 0 /\ m \notin decoded'
    BY <1>0, <1>1, <2>1, <2>2 DEF NewBuffer, Collect, Supersede
  <2>4. delivered'[m] = 0
    BY <1>0, <1>3, <1>4, <2>1 DEF AloneEntry
  <2>5. received'[m] = 0
    BY <1>2, <2>1
  <2> QED
    BY <1>0, <2>3, <2>4, <2>5 DEF AloneEntry
<1> QED
  BY <1>5, <1>6, NotInFlight

(***************************************************************************)
(* A loss changes nothing but the number of shards sent.                   *)
(***************************************************************************)
LEMMA LoseStep ==
    ASSUME Inv, NEW m \in Messages, Lose(m)
    PROVE  Inv'
<1>1. SendMany(m) /\ UNCHANGED <<received, shards, decoded, delivered>>
  BY DEF Lose
<1>2. /\ sent' \in [Messages -> 0..Total] /\ sent'[m] = sent[m] + 1
      /\ \A n \in Messages \ {m} : sent'[n] = sent[n]
      /\ \A n \in Messages : sent'[n] > 0 => \A e \in Before[n] : sent'[e] = Total
  BY <1>1, SendFacts DEF Inv
<1>3. TypeOK'
  BY <1>1, <1>2 DEF Inv, TypeOK
<1>4. \A n \in Messages : sent[n] <= sent'[n] /\ sent[n] \in Nat /\ sent'[n] \in Nat /\ received[n] \in Nat
  BY <1>2, TransportAssumption DEF Inv, TypeOK
<1>5. Counts'
  BY <1>1, <1>2, <1>4 DEF Inv, Counts
<1>6. DeliveryNeedsShards'
  BY <1>1 DEF Inv, DeliveryNeedsShards
<1>7. \A n \in Handled : Alone(n) => AloneEntry(n)'
  <2> TAKE n \in Handled
  <2>1. n \in Messages /\ (sent'[n] < Total => sent[n] < Total)
    BY <1>4, TransportAssumption
  <2> QED
    BY <1>1, <2>1 DEF Inv, AloneEntry
<1>8. \A n \in Handled : Alone(n)' => AloneEntry(n)'
  BY <1>7 DEF Alone
<1> QED
  BY <1>3, <1>5, <1>6, <1>8 DEF Inv

(***************************************************************************)
(* A handled shard keeps the invariant.                                    *)
(***************************************************************************)
LEMMA ArriveStep ==
    ASSUME Inv, NEW m \in Messages, Arrive(m)
    PROVE  Inv'
<1>1. /\ m \in Handled /\ SendMany(m) /\ received' = [received EXCEPT ![m] = @ + 1]
      /\ NewBuffer(m) \/ Collect(m) \/ Supersede(m)
  BY DEF Arrive
<1>2. TypeOK' /\ Counts' /\ DeliveryNeedsShards'
  BY <1>1, HandleStep
<1>3. ASSUME NEW n \in Handled, Alone(n)
      PROVE  AloneEntry(n)'
  <2>1. CASE n = m
    BY <1>1, <1>3, <2>1, OwnShard
  <2>2. CASE n # m
    BY <1>1, <1>3, <2>2, OtherShard
  <2> QED
    BY <2>1, <2>2
<1>4. \A n \in Handled : Alone(n)' => AloneEntry(n)'
  BY <1>3 DEF Alone
<1> QED
  BY <1>2, <1>4 DEF Inv

-----------------------------------------------------------------------------
(***************************************************************************)
(* Handle keeps the invariant, whatever is lost and however senders        *)
(* interleave.                                                             *)
(***************************************************************************)
THEOREM TransportInvariance == Spec => []Inv
<1>1. Init => Inv
  <2> SUFFICES ASSUME Init PROVE Inv
    OBVIOUS
  <2>1. /\ Total \in Nat /\ Required \in Nat /\ Required >= 2 /\ Required <= Total
        /\ Handled \subseteq Messages
    BY TransportAssumption
  <2>2. TypeOK
    BY <2>1 DEF Init, TypeOK
  <2>3. /\ \A m \in Messages : /\ sent[m] = 0 /\ received[m] = 0
                                /\ shards[m] = 0 /\ delivered[m] = 0
        /\ decoded = {}
    BY DEF Init
  <2>4. Counts
    <3> SUFFICES ASSUME NEW m \in Messages
                 PROVE  /\ received[m] <= sent[m]
                        /\ shards[m] <= received[m]
                        /\ ~(sent[m] > 0)
      BY DEF Counts
    <3> QED
      BY <2>3
  <2>5. DeliveryNeedsShards
    <3> SUFFICES ASSUME NEW m \in Messages
                 PROVE  Required * delivered[m] + (IF m \in decoded THEN 0 ELSE shards[m])
                          <= received[m]
      BY DEF DeliveryNeedsShards
    <3>1. Required * 0 = 0
      BY <2>1
    <3> QED
      BY <2>3, <3>1
  <2>6. \A m \in Handled : AloneEntry(m)
    <3> SUFFICES ASSUME NEW m \in Handled PROVE AloneEntry(m)
      OBVIOUS
    <3>1. m \in Messages
      BY <2>1
    <3>2. ~(received[m] >= Required)
      BY <2>1, <2>3, <3>1
    <3> QED
      BY <2>1, <2>3, <3>1, <3>2 DEF AloneEntry
  <2> QED
    BY <2>2, <2>4, <2>5, <2>6 DEF Inv
<1>2. Inv /\ [Next]_vars => Inv'
  <2> SUFFICES ASSUME Inv, [Next]_vars PROVE Inv'
    OBVIOUS
  <2>1. ASSUME NEW m \in Messages, Arrive(m) PROVE Inv'
    BY <2>1, ArriveStep
  <2>2. ASSUME NEW m \in Messages, Lose(m) PROVE Inv'
    BY <2>2, LoseStep
  <2>3. CASE UNCHANGED vars
    BY <2>3 DEF vars, Inv, TypeOK, Counts, DeliveryNeedsShards, Alone, AloneEntry
  <2> QED
    BY <2>1, <2>2, <2>3 DEF Next
<1> QED
  BY <1>1, <1>2, PTL DEF Spec

(***************************************************************************)
(* The counters of shards and deliveries and the buffers Handle keeps are  *)
(* well-typed; none of the counters runs below zero or past its bound.     *)
(***************************************************************************)
THEOREM TransportTypeCorrect == Spec => []TypeOK
<1>1. Inv => TypeOK
  BY DEF Inv
<1> QED
  BY <1>1, TransportInvariance, PTL

(***************************************************************************)
(* Every call of a handler by Handle is paid for with Required shards.     *)
(***************************************************************************)
THEOREM DeliveriesPaid == Spec => []DeliveryNeedsShards
<1>1. Inv => DeliveryNeedsShards
  BY DEF Inv
<1> QED
  BY <1>1, TransportInvariance, PTL

(***************************************************************************)
(* Handle calls the handler of a message that shares the channel with no   *)
(* other exactly once if enough of its shards arrive, and else never.      *)
(***************************************************************************)
THEOREM AloneDelivered == Spec => []AloneExactlyOnce
<1>1. Inv => AloneExactlyOnce
  BY DEF Inv, AloneEntry, AloneExactlyOnce
<1> QED
  BY <1>1, TransportInvariance, PTL
=============================================================================
