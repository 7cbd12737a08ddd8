------------------------- MODULE CognitiveBusProofs -------------------------
(***************************************************************************)
(* For every set of agents, types and fingerprints and every capacity: the *)
(* bus keeps its types, delivers an event to an agent at most once, keeps  *)
(* each queue within its cap and its subscription, and implements the      *)
(* mailboxes.  Its ring holds no duplicates, salient events are bridged    *)
(* once and in order, the most urgent events are drained first and the     *)
(* least urgent are lost.                                                  *)
(***************************************************************************)
EXTENDS CognitiveBus, FiniteSetTheorems, TLAPS

\* Only ids that were handed out can have been routed.
RoutedWereIssued == \A a \in Agents : routed[a] \subseteq 1 .. eventCounter

\* The inductive invariant behind the delivery theorems.
DeliveryInv == BusTypeOK /\ AtMostOncePending /\ RoutedWereIssued
-----------------------------------------------------------------------------
\* What remains of a queue after the cut is a part of it.
LEMMA CutDownIsPart ==
    ASSUME NEW q, NEW kept \in CutDown(q)
    PROVE  kept \subseteq q
BY DEF CutDown

\* What routing does to one subscriber: some part of its queue survives, the
\* event joins it, and nothing else changes.
LEMMA OutcomeShape ==
    ASSUME NEW s \in Subscriber, NEW id \in EventIds, NEW source \in Agents,
           NEW type \in Types, NEW o \in Outcomes(s, id, source, type)
    PROVE  /\ o \in Subscriber
           /\ o.types = s.types
           /\ \E kept \in CutDown(s.queue), x \in Waiting :
                /\ o.queue = kept \cup {x}
                /\ x.id = id /\ x.source = source /\ x.type = type
<1>1. PICK p \in Priorities, spike \in BOOLEAN, kept \in CutDown(s.queue) :
        o = Enqueue(s, id, source, type, p, spike, kept)
  BY DEF Outcomes, SpikeFlags
<1> DEFINE x == [id |-> id, priority |-> p, spike |-> spike,
                 type |-> type, source |-> source]
<1>2. x \in Waiting
  BY DEF Waiting
<1>3. kept \subseteq s.queue
  BY CutDownIsPart
<1>4. s.queue \subseteq Waiting /\ kept \cup {x} \subseteq Waiting
  BY <1>2, <1>3 DEF Subscriber
<1>5. o = [s EXCEPT !.scored = @ + 1, !.queue = kept \cup {x}]
  BY <1>1 DEF Enqueue
<1>6. /\ o.types = s.types /\ o.queue = kept \cup {x} /\ o \in Subscriber
  <2> DEFINE q == kept \cup {x}
  <2>1. o = [s EXCEPT !.scored = @ + 1, !.queue = q] /\ q \in SUBSET Waiting
    BY <1>4, <1>5
  <2>2. PICK n \in Nat : n = s.scored + 1
    BY DEF Subscriber
  <2> HIDE DEF q
  <2>3. [s EXCEPT !.scored = @ + 1] = [s EXCEPT !.scored = n]
    BY <2>2
  <2>4. [s EXCEPT !.scored = n] \in Subscriber /\ [s EXCEPT !.scored = n].types = s.types
    BY DEF Subscriber
  <2>5. PICK t \in Subscriber : t = [s EXCEPT !.scored = @ + 1] /\ t.types = s.types
    BY <2>3, <2>4
  <2>6. o = [t EXCEPT !.queue = q]
    BY <2>1, <2>5
  <2>7. o.types = t.types /\ o.queue = q /\ o \in Subscriber
    BY <2>1, <2>6 DEF Subscriber
  <2> QED
    BY <2>5, <2>7 DEF q
<1> QED
  BY <1>2, <1>6

\* What a step of the bus can be, a message taken apart.
LEMMA BusCases ==
    ASSUME [BusNext]_busVars
    PROVE  \/ \E a \in Agents, types \in SUBSET Types : Subscribe(a, types)
           \/ \E a \in Agents : Unsubscribe(a)
           \/ \E a \in Agents, t \in Types, c \in Prints, isSalient \in BOOLEAN :
                 Publish(a, t, c, isSalient)
           \/ \E a \in Agents, limit \in 1 .. QueueCap : Drain(a, limit)
           \/ DrainMemoryBridge
           \/ UNCHANGED busVars
<1>1. \A m \in Messages : m[1] \in Prints /\ m[2] \in BOOLEAN
  BY BusAssumption
<1>2. ASSUME NEW a \in Agents, NEW t \in Types, NEW m \in Messages, Publish(a, t, m[1], m[2])
      PROVE  \E c \in Prints, isSalient \in BOOLEAN : Publish(a, t, c, isSalient)
  <2>1. PICK c \in Prints, isSalient \in BOOLEAN : c = m[1] /\ isSalient = m[2]
    BY <1>1
  <2> QED
    BY <1>2, <2>1
<1> QED
  BY <1>2 DEF BusNext

\* The components of a publish step that the proofs below use.
LEMMA PublishShape ==
    ASSUME BusTypeOK,
           NEW source \in Agents, NEW type \in Types, NEW c \in Prints,
           NEW isSalient \in BOOLEAN, Publish(source, type, c, isSalient)
    PROVE  /\ eventCounter' = eventCounter + 1
           /\ eventCounter' \in EventIds
           /\ DOMAIN sub' = Agents
           /\ \A a \in Agents \ Receivers(source, type) :
                sub'[a] = sub[a] /\ routed'[a] = routed[a]
           /\ \A a \in Receivers(source, type) :
                /\ a \in Agents
                /\ sub'[a] \in Outcomes(sub[a], eventCounter', source, type)
                /\ routed'[a] = routed[a] \cup {eventCounter'}
<1> DEFINE to  == Receivers(source, type)
           out == [a \in to |-> Outcomes(sub[a], eventCounter', source, type)]
<1>1. to \subseteq Agents
  BY DEF Receivers, BusTypeOK
<1>2. eventCounter' = eventCounter + 1 /\ eventCounter' \in EventIds
  BY BusAssumption DEF Publish, BusTypeOK, EventIds
<1>3. PICK new \in [to -> UNION {out[a] : a \in to}] :
        /\ \A a \in to : new[a] \in out[a]
        /\ sub' = [a \in Agents |-> IF a \in to THEN new[a] ELSE sub[a]]
  BY DEF Publish
<1>4. routed' = [a \in Agents |-> IF a \in to
                    THEN routed[a] \cup {eventCounter'} ELSE routed[a]]
  BY DEF Publish
<1> HIDE DEF to
<1>5. \A a \in to : sub'[a] \in Outcomes(sub[a], eventCounter', source, type)
  BY <1>1, <1>3
<1> QED
  BY <1>1, <1>2, <1>3, <1>4, <1>5 DEF to
-----------------------------------------------------------------------------
LEMMA TypeStep == BusTypeOK /\ [BusNext]_busVars => BusTypeOK'
<1> SUFFICES ASSUME BusTypeOK, [BusNext]_busVars
             PROVE  BusTypeOK'
  OBVIOUS
<1> USE BusAssumption
<1>0. \A types \in SUBSET Types : NewSubscriber(types) \in Subscriber
  BY DEF NewSubscriber, Subscriber
<1>1. ASSUME NEW a \in Agents, NEW types \in SUBSET Types, Subscribe(a, types)
      PROVE  BusTypeOK'
  BY <1>0, <1>1 DEF Subscribe, BusTypeOK
<1>2. ASSUME NEW a \in Agents, Unsubscribe(a)
      PROVE  BusTypeOK'
  BY <1>0, <1>2 DEF Unsubscribe, BusTypeOK
<1>3. ASSUME NEW source \in Agents, NEW type \in Types, NEW c \in Prints,
             NEW isSalient \in BOOLEAN, Publish(source, type, c, isSalient)
      PROVE  BusTypeOK'
  <2>1. /\ eventCounter' = eventCounter + 1
        /\ eventCounter' \in EventIds
        /\ \A a \in Agents \ Receivers(source, type) :
             sub'[a] = sub[a] /\ routed'[a] = routed[a]
        /\ \A a \in Receivers(source, type) :
             /\ a \in Agents
             /\ sub'[a] \in Outcomes(sub[a], eventCounter', source, type)
             /\ routed'[a] = routed[a] \cup {eventCounter'}
    BY <1>3, PublishShape
  <2>2. \A a \in Agents : sub[a] \in Subscriber
    BY DEF BusTypeOK
  <2>3. \A a \in Agents : sub'[a] \in Subscriber
    <3>1. ASSUME NEW a \in Receivers(source, type) PROVE sub'[a] \in Subscriber
      BY <2>1, <2>2, OutcomeShape
    <3> QED
      BY <2>1, <2>2, <3>1
  <2>4. sub' \in [Agents -> Subscriber]
    <3>1. sub' = [a \in Agents |-> sub'[a]]
      BY <1>3 DEF Publish
    <3> QED
      BY <2>3, <3>1
  <2>5. routed' \in [Agents -> SUBSET EventIds]
    <3>1. routed' = [a \in Agents |-> routed'[a]]
      BY <1>3 DEF Publish
    <3>2. \A a \in Agents : routed'[a] \subseteq EventIds
      BY <2>1 DEF BusTypeOK
    <3> QED
      BY <3>1, <3>2
  <2>6. recent' \in Seq(Prints)
    BY <1>3 DEF Publish, Pushed, BusTypeOK
  <2>7. /\ bridge' \in Seq(EventIds)
        /\ salient' \subseteq EventIds
    BY <1>3, <2>1 DEF Publish, BusTypeOK
  <2>8. eventCounter' \in 0 .. MaxEvents
    BY <2>1 DEF EventIds
  <2> QED
    BY <1>3, <2>4, <2>5, <2>6, <2>7, <2>8 DEF Publish, BusTypeOK
<1>4. ASSUME NEW a \in Agents, NEW limit \in 1 .. QueueCap, Drain(a, limit)
      PROVE  BusTypeOK'
  <2>1. PICK b \in SUBSET sub[a].queue :
          /\ sub' = [sub EXCEPT ![a].queue = sub[a].queue \ b]
          /\ received' = [received EXCEPT ![a] = @ \cup IdsIn(b)]
    BY <1>4 DEF Drain, TopOf
  <2>2. sub[a] \in Subscriber /\ IdsIn(b) \subseteq EventIds
    BY DEF BusTypeOK, Subscriber, Waiting, IdsIn
  <2>3. sub' \in [Agents -> Subscriber]
    BY <2>1, <2>2 DEF BusTypeOK, Subscriber
  <2>4. received' \in [Agents -> SUBSET EventIds]
    BY <2>1, <2>2 DEF BusTypeOK
  <2> QED
    BY <1>4, <2>3, <2>4 DEF Drain, BusTypeOK
<1>5. CASE DrainMemoryBridge
  BY <1>5 DEF DrainMemoryBridge, BusTypeOK
<1>6. CASE UNCHANGED busVars
  BY <1>6 DEF busVars, BusTypeOK
<1> QED
  BY <1>1, <1>2, <1>3, <1>4, <1>5, <1>6, BusCases

\* The state of the bus is well typed at every step.
THEOREM BusTypeCorrect == BusSpec => []BusTypeOK
<1>1. BusInit => BusTypeOK
  BY BusAssumption DEF BusInit, BusTypeOK, NewSubscriber, Subscriber
<1> QED
  BY <1>1, TypeStep, PTL DEF BusSpec
-----------------------------------------------------------------------------
LEMMA DeliveryStep == DeliveryInv /\ [BusNext]_busVars => DeliveryInv'
<1> SUFFICES ASSUME DeliveryInv, [BusNext]_busVars
             PROVE  AtMostOncePending' /\ RoutedWereIssued'
  BY TypeStep DEF DeliveryInv
<1> USE DEF DeliveryInv
<1>0. \A types : NewSubscriber(types).queue = {}
  BY DEF NewSubscriber
<1>1. ASSUME NEW a \in Agents, NEW types \in SUBSET Types, Subscribe(a, types)
      PROVE  AtMostOncePending' /\ RoutedWereIssued'
  BY <1>0, <1>1 DEF Subscribe, BusTypeOK, AtMostOncePending, RoutedWereIssued, IdsIn
<1>2. ASSUME NEW a \in Agents, Unsubscribe(a)
      PROVE  AtMostOncePending' /\ RoutedWereIssued'
  BY <1>0, <1>2 DEF Unsubscribe, BusTypeOK, AtMostOncePending, RoutedWereIssued, IdsIn
<1>3. ASSUME NEW source \in Agents, NEW type \in Types, NEW c \in Prints,
             NEW isSalient \in BOOLEAN, Publish(source, type, c, isSalient)
      PROVE  AtMostOncePending' /\ RoutedWereIssued'
  <2>1. /\ eventCounter' = eventCounter + 1
        /\ eventCounter' \in EventIds
        /\ \A a \in Agents \ Receivers(source, type) :
             sub'[a] = sub[a] /\ routed'[a] = routed[a]
        /\ \A a \in Receivers(source, type) :
             /\ a \in Agents
             /\ sub'[a] \in Outcomes(sub[a], eventCounter', source, type)
             /\ routed'[a] = routed[a] \cup {eventCounter'}
    BY <1>3, PublishShape
  <2>2. received' = received
    BY <1>3 DEF Publish
  <2>3. eventCounter \in Nat
    BY DEF BusTypeOK
  <2>4. \A a \in Agents : eventCounter' \notin routed[a]
    BY <2>1, <2>3 DEF RoutedWereIssued
  <2>5. RoutedWereIssued'
    BY <2>1, <2>3 DEF RoutedWereIssued
  <2>6. ASSUME NEW a \in Receivers(source, type)
        PROVE  /\ \A x, y \in sub'[a].queue : x.id = y.id => x = y
               /\ IdsIn(sub'[a].queue) \subseteq routed'[a]
               /\ received[a] \subseteq routed'[a]
               /\ IdsIn(sub'[a].queue) \cap received[a] = {}
    <3>0. a \in Agents /\ sub[a] \in Subscriber
      BY <2>1, <2>6 DEF BusTypeOK
    <3>a. /\ eventCounter' \in EventIds
          /\ sub'[a] \in Outcomes(sub[a], eventCounter', source, type)
      BY <2>1, <2>6
    <3>b. \E kept \in CutDown(sub[a].queue), x \in Waiting :
             /\ sub'[a].queue = kept \cup {x}
             /\ x.id = eventCounter' /\ x.source = source /\ x.type = type
      <4>1. PICK s \in Subscriber : s = sub[a]
        BY <3>0
      <4>2. PICK o \in Outcomes(s, eventCounter', source, type) : o = sub'[a]
        BY <3>a, <4>1
      <4>3. \E kept \in CutDown(s.queue), x \in Waiting :
               /\ o.queue = kept \cup {x}
               /\ x.id = eventCounter' /\ x.source = source /\ x.type = type
        BY <3>a, OutcomeShape
      <4> QED
        BY <4>1, <4>2, <4>3
    <3>1. PICK kept \in CutDown(sub[a].queue), x \in Waiting :
             sub'[a].queue = kept \cup {x} /\ x.id = eventCounter'
      BY <3>b
    <3>2. kept \subseteq sub[a].queue
      BY CutDownIsPart
    <3>3. /\ \A y, z \in sub[a].queue : y.id = z.id => y = z
          /\ \A y \in sub[a].queue : y.id \in routed[a] /\ y.id \notin received[a]
          /\ received[a] \subseteq routed[a]
      BY <3>0 DEF AtMostOncePending, IdsIn
    <3>4. routed'[a] = routed[a] \cup {eventCounter'} /\ eventCounter' \notin routed[a]
      BY <2>1, <2>4, <2>6
    <3>5. \A y \in kept : y.id # eventCounter'
      BY <3>2, <3>3, <3>4
    <3> QED
      BY <3>1, <3>2, <3>3, <3>4, <3>5 DEF IdsIn
  <2>7. ASSUME NEW a \in Agents \ Receivers(source, type)
        PROVE  /\ \A x, y \in sub'[a].queue : x.id = y.id => x = y
               /\ IdsIn(sub'[a].queue) \subseteq routed'[a]
               /\ received[a] \subseteq routed'[a]
               /\ IdsIn(sub'[a].queue) \cap received[a] = {}
    BY <2>1, <2>7 DEF AtMostOncePending
  <2> QED
    BY <2>2, <2>5, <2>6, <2>7 DEF AtMostOncePending
<1>4. ASSUME NEW a \in Agents, NEW limit \in 1 .. QueueCap, Drain(a, limit)
      PROVE  AtMostOncePending' /\ RoutedWereIssued'
  <2>1. PICK b \in SUBSET sub[a].queue :
          /\ sub' = [sub EXCEPT ![a].queue = sub[a].queue \ b]
          /\ received' = [received EXCEPT ![a] = @ \cup IdsIn(b)]
          /\ UNCHANGED <<routed, eventCounter>>
    BY <1>4 DEF Drain, TopOf
  <2>2. RoutedWereIssued'
    BY <2>1 DEF RoutedWereIssued
  <2>3. sub[a] \in Subscriber
    BY DEF BusTypeOK
  <2>4. sub'[a].queue = sub[a].queue \ b /\ received'[a] = received[a] \cup IdsIn(b)
    BY <2>1, <2>3 DEF BusTypeOK, Subscriber
  <2>5. \A d \in Agents \ {a} : sub'[d] = sub[d] /\ received'[d] = received[d]
    BY <2>1 DEF BusTypeOK
  <2> QED
    BY <2>1, <2>2, <2>4, <2>5 DEF AtMostOncePending, IdsIn
<1>5. CASE DrainMemoryBridge
  BY <1>5 DEF DrainMemoryBridge, AtMostOncePending, RoutedWereIssued
<1>6. CASE UNCHANGED busVars
  BY <1>6 DEF busVars, AtMostOncePending, RoutedWereIssued
<1> QED
  BY <1>1, <1>2, <1>3, <1>4, <1>5, <1>6, BusCases

LEMMA DeliveryInvariant == BusSpec => []DeliveryInv
<1>1. BusInit => BusTypeOK
  BY BusAssumption DEF BusInit, BusTypeOK, NewSubscriber, Subscriber
<1>2. BusInit => AtMostOncePending /\ RoutedWereIssued
  BY DEF BusInit, AtMostOncePending, RoutedWereIssued, NewSubscriber, IdsIn
<1> QED
  BY <1>1, <1>2, DeliveryStep, PTL DEF BusSpec, DeliveryInv

\* An event waits at most once in a queue it was routed to, and is never
\* both waiting and received (Subscriber::enqueue and drain).
THEOREM DeliversAtMostOnce == BusSpec => []AtMostOncePending
<1>1. DeliveryInv => AtMostOncePending
  BY DEF DeliveryInv
<1> QED
  BY <1>1, DeliveryInvariant, PTL
-----------------------------------------------------------------------------
\* Why the cap and the subscription hold: queues are finite, so they have a
\* cardinality to compare with the cap.
QueueInv ==
    /\ BusTypeOK
    /\ QueueMatchesSubscription
    /\ \A a \in Agents : IsFiniteSet(sub[a].queue)

\* The cut makes room for one event.
LEMMA CutDownFits ==
    ASSUME NEW q, IsFiniteSet(q), NEW kept \in CutDown(q), NEW x
    PROVE  /\ IsFiniteSet(kept \cup {x})
           /\ Cardinality(kept \cup {x}) <= QueueCap
<1>1. kept \subseteq q /\ IsFiniteSet(kept)
  BY CutDownIsPart, FS_Subset
<1>2. Cardinality(kept) \in Nat /\ Cardinality(kept) < QueueCap
  <2>1. Cardinality(kept) \in Nat
    BY <1>1, FS_CardinalityType
  <2>2. CASE Cardinality(q) < QueueCap
    BY <2>1, <2>2 DEF CutDown
  <2>3. CASE ~(Cardinality(q) < QueueCap)
    BY <2>1, <2>3, BusAssumption DEF CutDown
  <2> QED
    BY <2>2, <2>3
<1>3. IsFiniteSet(kept \cup {x}) /\ Cardinality(kept \cup {x}) <= Cardinality(kept) + 1
  BY <1>1, <1>2, FS_AddElement
<1>4. Cardinality(kept \cup {x}) \in Nat
  BY <1>3, FS_CardinalityType
<1> QED
  BY <1>2, <1>3, <1>4, BusAssumption

LEMMA QueueStep == QueueInv /\ [BusNext]_busVars => QueueInv'
<1> SUFFICES ASSUME QueueInv, [BusNext]_busVars
             PROVE  QueueInv'
  OBVIOUS
<1> USE DEF QueueInv
<1>0. BusTypeOK'
  BY TypeStep
<1> DEFINE Fits(a) == /\ IsFiniteSet(sub'[a].queue)
                      /\ Cardinality(sub'[a].queue) <= QueueCap
                      /\ a \notin registered' => sub'[a].queue = {}
                      /\ \A x \in sub'[a].queue :
                            /\ x.source # a
                            /\ sub'[a].types = {} \/ x.type \in sub'[a].types
<1>1. SUFFICES \A a \in Agents : Fits(a)
  BY <1>0, <1>1 DEF QueueMatchesSubscription, IsSubscribed
<1>2. ASSUME NEW a \in Agents, sub'[a] = sub[a], a \in registered => a \in registered'
      PROVE  Fits(a)
  BY <1>2 DEF QueueMatchesSubscription, IsSubscribed
<1>3. ASSUME NEW a \in Agents, sub'[a].queue = {}
      PROVE  Fits(a)
  BY <1>3, FS_EmptySet, BusAssumption
<1>4. ASSUME NEW b \in Agents, NEW types \in SUBSET Types, Subscribe(b, types)
      PROVE  \A a \in Agents : Fits(a)
  <2>1. sub'[b].queue = {}
    BY <1>4 DEF Subscribe, NewSubscriber, BusTypeOK
  <2>2. \A a \in Agents \ {b} : sub'[a] = sub[a] /\ registered \subseteq registered'
    BY <1>4 DEF Subscribe, BusTypeOK
  <2> HIDE DEF Fits
  <2> QED
    BY <1>2, <1>3, <2>1, <2>2
<1>5. ASSUME NEW b \in Agents, Unsubscribe(b)
      PROVE  \A a \in Agents : Fits(a)
  <2>1. sub'[b].queue = {}
    BY <1>5 DEF Unsubscribe, NewSubscriber, BusTypeOK
  <2>2. \A a \in Agents \ {b} : sub'[a] = sub[a] /\ (a \in registered => a \in registered')
    BY <1>5 DEF Unsubscribe, BusTypeOK
  <2> HIDE DEF Fits
  <2> QED
    BY <1>2, <1>3, <2>1, <2>2
<1>6. ASSUME NEW source \in Agents, NEW type \in Types, NEW c \in Prints,
             NEW isSalient \in BOOLEAN, Publish(source, type, c, isSalient)
      PROVE  \A a \in Agents : Fits(a)
  <2>1. /\ eventCounter' \in EventIds
        /\ \A a \in Agents \ Receivers(source, type) : sub'[a] = sub[a]
        /\ \A a \in Receivers(source, type) :
             sub'[a] \in Outcomes(sub[a], eventCounter', source, type)
    BY <1>6, PublishShape
  <2>2. registered' = registered
    BY <1>6 DEF Publish
  <2>3. ASSUME NEW a \in Agents, a \in Receivers(source, type)
        PROVE  Fits(a)
    <3>1. sub[a] \in Subscriber /\ a # source /\ a \in registered /\ IsSubscribed(a, type)
      BY <2>3 DEF Receivers, BusTypeOK
    <3>2. PICK e \in EventIds : e = eventCounter'
      BY <2>1
    <3>3. PICK s \in Subscriber : s = sub[a]
      BY <3>1
    <3>4. PICK o \in Outcomes(s, e, source, type) : o = sub'[a]
      BY <2>1, <2>3, <3>2, <3>3
    <3>5. PICK kept \in CutDown(s.queue), x \in Waiting :
            /\ o.types = s.types
            /\ o.queue = kept \cup {x}
            /\ x.source = source /\ x.type = type
      BY OutcomeShape
    <3>6. IsFiniteSet(s.queue) /\ kept \subseteq s.queue
      BY <3>3, CutDownIsPart
    <3>7. IsFiniteSet(o.queue) /\ Cardinality(o.queue) <= QueueCap
      <4>1. /\ IsFiniteSet(kept \cup {x})
            /\ Cardinality(kept \cup {x}) <= QueueCap
        BY <3>6, CutDownFits
      <4> QED
        BY <3>5, <4>1
    <3>8. \A y \in o.queue : y.source # a /\ (o.types = {} \/ y.type \in o.types)
      BY <3>1, <3>3, <3>5, <3>6 DEF QueueMatchesSubscription, IsSubscribed
    <3> QED
      BY <2>2, <3>1, <3>4, <3>7, <3>8
  <2> HIDE DEF Fits
  <2> QED
    BY <1>2, <2>1, <2>2, <2>3
<1>7. ASSUME NEW b \in Agents, NEW limit \in 1 .. QueueCap, Drain(b, limit)
      PROVE  \A a \in Agents : Fits(a)
  <2>1. PICK out \in SUBSET sub[b].queue :
          sub' = [sub EXCEPT ![b].queue = sub[b].queue \ out]
    BY <1>7 DEF Drain, TopOf
  <2>2. b \in registered /\ registered' = registered
    BY <1>7 DEF Drain
  <2>3. sub[b] \in Subscriber
    BY DEF BusTypeOK
  <2>4. /\ sub'[b].queue = sub[b].queue \ out
        /\ sub'[b].types = sub[b].types
        /\ \A a \in Agents \ {b} : sub'[a] = sub[a]
    BY <2>1, <2>3 DEF BusTypeOK, Subscriber
  <2>5. /\ IsFiniteSet(sub'[b].queue)
        /\ Cardinality(sub'[b].queue) <= Cardinality(sub[b].queue)
        /\ Cardinality(sub'[b].queue) \in Nat /\ Cardinality(sub[b].queue) \in Nat
    BY <2>4, FS_Subset, FS_CardinalityType
  <2>6. Cardinality(sub'[b].queue) <= QueueCap
    BY <2>5, BusAssumption DEF QueueMatchesSubscription
  <2>7. Fits(b)
    BY <2>2, <2>4, <2>5, <2>6 DEF QueueMatchesSubscription, IsSubscribed
  <2> HIDE DEF Fits
  <2> QED
    BY <1>2, <2>2, <2>4, <2>7
<1>8. ASSUME DrainMemoryBridge \/ UNCHANGED busVars
      PROVE  \A a \in Agents : Fits(a)
  <2>1. sub' = sub /\ registered' = registered
    BY <1>8 DEF DrainMemoryBridge, busVars
  <2> HIDE DEF Fits
  <2> QED
    BY <1>2, <2>1
<1> HIDE DEF Fits
<1> QED
  BY <1>4, <1>5, <1>6, <1>7, <1>8, BusCases

LEMMA QueueInvariant == BusSpec => []QueueInv
<1>1. BusInit => QueueInv
  <2> SUFFICES ASSUME BusInit PROVE QueueInv
    OBVIOUS
  <2>1. \A a \in Agents : sub[a].queue = {}
    BY DEF BusInit, NewSubscriber
  <2>2. BusTypeOK
    BY BusAssumption DEF BusInit, BusTypeOK, NewSubscriber, Subscriber
  <2>3. 0 <= QueueCap
    BY BusAssumption
  <2>4. QueueMatchesSubscription
    BY <2>1, <2>3, FS_EmptySet DEF QueueMatchesSubscription
  <2> QED
    BY <2>1, <2>2, <2>4, FS_EmptySet DEF QueueInv
<1> QED
  BY <1>1, QueueStep, PTL DEF BusSpec

\* No queue ever exceeds its cap or holds what its subscriber did not ask for
\* under the subscription in force, or published itself.
THEOREM QueuesMatchSubscriptions == BusSpec => []QueueMatchesSubscription
<1>1. QueueInv => QueueMatchesSubscription
  BY DEF QueueInv
<1> QED
  BY <1>1, QueueInvariant, PTL
-----------------------------------------------------------------------------
\* One step of the bus is one step of the mailboxes, or none.
LEMMA MailStep ==
    DeliveryInv /\ DeliveryInv' /\ [BusNext]_busVars => [Mail!MailNext]_(Mail!mailVars)
<1> SUFFICES ASSUME DeliveryInv, DeliveryInv', [BusNext]_busVars
             PROVE  [Mail!MailNext]_(Mail!mailVars)
  OBVIOUS
<1> DEFINE pend == [a \in Agents |-> IdsIn(sub[a].queue)]
           gone == [a \in Agents |-> routed[a] \ (IdsIn(sub[a].queue) \cup received[a])]
<1>a. \A a \in Agents : sub[a] \in Subscriber /\ sub'[a] \in Subscriber
  BY DEF DeliveryInv, BusTypeOK
<1>b. \A a \in Agents : /\ IdsIn(sub[a].queue) \subseteq routed[a]
                        /\ received[a] \subseteq routed[a]
                        /\ IdsIn(sub[a].queue) \cap received[a] = {}
                        /\ \A x, y \in sub[a].queue : x.id = y.id => x = y
                        /\ routed[a] \subseteq EventIds
  BY DEF DeliveryInv, AtMostOncePending, BusTypeOK
<1>0. \A types : IdsIn(NewSubscriber(types).queue) = {}
  BY DEF NewSubscriber, IdsIn
<1>1. ASSUME NEW a \in Agents,
             sub' = [sub EXCEPT ![a] = sub'[a]], IdsIn(sub'[a].queue) = {},
             UNCHANGED <<routed, received>>
      PROVE  Mail!Discard(a)
  <2>1. \A d \in Agents \ {a} : sub'[d] = sub[d]
    BY <1>1 DEF DeliveryInv, BusTypeOK
  <2>2. pend' = [pend EXCEPT ![a] = {}]
    BY <1>1, <2>1
  <2>3. gone'[a] = gone[a] \cup pend[a] /\ \A d \in Agents \ {a} : gone'[d] = gone[d]
    BY <1>1, <1>b, <2>1
  <2>4. gone' = [gone EXCEPT ![a] = @ \cup pend[a]]
    BY <2>3
  <2> QED
    BY <1>1, <2>2, <2>4 DEF Mail!Discard
<1>2. ASSUME NEW a \in Agents, NEW types \in SUBSET Types, Subscribe(a, types)
      PROVE  Mail!Discard(a)
  BY <1>0, <1>1, <1>2 DEF Subscribe, DeliveryInv, BusTypeOK
<1>3. ASSUME NEW a \in Agents, Unsubscribe(a)
      PROVE  Mail!Discard(a)
  BY <1>0, <1>1, <1>3 DEF Unsubscribe, DeliveryInv, BusTypeOK
<1>4. ASSUME NEW a \in Agents, NEW limit \in 1 .. QueueCap, Drain(a, limit)
      PROVE  \E batch \in SUBSET pend[a] : Mail!Collect(a, batch)
  <2>1. PICK b \in SUBSET sub[a].queue :
          /\ sub' = [sub EXCEPT ![a].queue = sub[a].queue \ b]
          /\ received' = [received EXCEPT ![a] = @ \cup IdsIn(b)]
          /\ UNCHANGED routed
    BY <1>4 DEF Drain, TopOf
  <2>2. sub'[a].queue = sub[a].queue \ b /\ received'[a] = received[a] \cup IdsIn(b)
    BY <1>a, <2>1 DEF DeliveryInv, BusTypeOK, Subscriber
  <2>3. \A d \in Agents \ {a} : sub'[d] = sub[d] /\ received'[d] = received[d]
    BY <2>1 DEF DeliveryInv, BusTypeOK
  <2>4. IdsIn(sub'[a].queue) = IdsIn(sub[a].queue) \ IdsIn(b)
    BY <1>b, <2>2 DEF IdsIn
  <2>5. IdsIn(b) \subseteq IdsIn(sub[a].queue)
    BY DEF IdsIn
  <2>6. pend' = [pend EXCEPT ![a] = @ \ IdsIn(b)]
    BY <2>3, <2>4
  <2>7. \A d \in Agents : gone'[d] = gone[d]
    BY <2>1, <2>2, <2>3, <2>4, <2>5
  <2>8. gone' = gone
    BY <2>7
  <2>9. Mail!Collect(a, IdsIn(b))
    BY <2>1, <2>5, <2>6, <2>8 DEF Mail!Collect
  <2> QED
    BY <2>5, <2>9
<1>5. ASSUME NEW source \in Agents, NEW type \in Types, NEW c \in Prints,
             NEW isSalient \in BOOLEAN, Publish(source, type, c, isSalient)
      PROVE  \E e \in EventIds, to \in SUBSET Agents : Mail!Route(e, to)
  <2>0. /\ eventCounter' = eventCounter + 1 /\ eventCounter' \in EventIds
        /\ Receivers(source, type) \in SUBSET Agents
    BY <1>5, PublishShape DEF DeliveryInv, BusTypeOK, Receivers
  <2>a. PICK e \in EventIds, to \in SUBSET Agents :
             e = eventCounter' /\ to = Receivers(source, type)
    BY <2>0
  <2>1. /\ e = eventCounter + 1
        /\ \A a \in Agents \ to : sub'[a] = sub[a] /\ routed'[a] = routed[a]
        /\ \A a \in to : /\ a \in Agents
                         /\ sub'[a] \in Outcomes(sub[a], e, source, type)
                         /\ routed'[a] = routed[a] \cup {e}
    BY <1>5, <2>0, <2>a, PublishShape DEF DeliveryInv
  <2>2. received' = received
    BY <1>5 DEF Publish
  <2>3. \A a \in Agents : e \notin routed[a]
    BY <2>1 DEF DeliveryInv, RoutedWereIssued, BusTypeOK
  <2>4. ASSUME NEW a \in to
        PROVE  \E kept : /\ kept \subseteq pend[a]
                         /\ pend'[a] = kept \cup {e}
    <3>a. /\ sub[a] \in Subscriber
          /\ sub'[a] \in Outcomes(sub[a], e, source, type)
      BY <1>a, <2>1, <2>4
    <3>b. PICK s \in Subscriber : s = sub[a]
      BY <3>a
    <3>c. PICK o \in Outcomes(s, e, source, type) : o = sub'[a]
      BY <3>a, <3>b
    <3>1. PICK kept \in CutDown(s.queue), x \in Waiting :
             o.queue = kept \cup {x} /\ x.id = e
      BY OutcomeShape
    <3>2. kept \subseteq sub[a].queue
      BY <3>b, CutDownIsPart
    <3>3. IdsIn(sub'[a].queue) = IdsIn(kept) \cup {e} /\ IdsIn(kept) \subseteq IdsIn(sub[a].queue)
      BY <3>c, <3>1, <3>2 DEF IdsIn
    <3>4. /\ a \in Agents
          /\ pend[a] = IdsIn(sub[a].queue) /\ pend'[a] = IdsIn(sub'[a].queue)
      BY <2>1, <2>4
    <3>5. IdsIn(kept) \subseteq pend[a] /\ pend'[a] = IdsIn(kept) \cup {e}
      BY <3>3, <3>4
    <3> DEFINE before == pend[a]
               after  == pend'[a]
               k      == IdsIn(kept)
    <3>6. k \subseteq before /\ after = k \cup {e}
      BY <3>5
    <3> HIDE DEF before, after, k
    <3>7. \E j : j \subseteq before /\ after = j \cup {e}
      BY <3>6
    <3> QED
      BY <3>7 DEF before, after
  <2> DEFINE leaving == [a \in to |-> pend[a] \ pend'[a]]
  <2>5. leaving \in [to -> SUBSET EventIds] /\ \A a \in to : leaving[a] \subseteq pend[a]
    BY <1>b, <2>1
  <2>6. \A a \in to : pend'[a] = (pend[a] \ leaving[a]) \cup {e}
    <3>1. ASSUME NEW a \in to PROVE pend'[a] = (pend[a] \ leaving[a]) \cup {e}
      <4>1. PICK kept : kept \subseteq pend[a] /\ pend'[a] = kept \cup {e}
        BY <2>4
      <4>2. e \notin pend[a]
        BY <1>b, <2>1, <2>3
      <4> QED
        BY <4>1, <4>2
    <3> QED
      BY <3>1
  <2>7. pend' = [a \in Agents |-> IF a \in to THEN (pend[a] \ leaving[a]) \cup {e}
                                              ELSE pend[a]]
    BY <2>1, <2>6
  <2>8. \A a \in to : gone'[a] = gone[a] \cup leaving[a]
    <3>1. ASSUME NEW a \in to PROVE gone'[a] = gone[a] \cup leaving[a]
      <4>1. /\ a \in Agents
            /\ routed'[a] = routed[a] \cup {e}
            /\ e \notin routed[a]
            /\ pend'[a] = (pend[a] \ leaving[a]) \cup {e}
            /\ pend[a] \subseteq routed[a] /\ received[a] \subseteq routed[a]
            /\ pend[a] \cap received[a] = {}
            /\ leaving[a] \subseteq pend[a]
        BY <1>b, <2>1, <2>3, <2>5, <2>6
      <4>2. /\ gone[a] = routed[a] \ (pend[a] \cup received[a])
            /\ gone'[a] = routed'[a] \ (pend'[a] \cup received[a])
        BY <2>2, <4>1
      <4> HIDE DEF pend, gone, leaving
      <4> QED
        BY <4>1, <4>2
    <3> QED
      BY <3>1
  <2>9. gone' = [a \in Agents |-> IF a \in to THEN gone[a] \cup leaving[a] ELSE gone[a]]
    <3>1. \A a \in Agents \ to : gone'[a] = gone[a]
      BY <2>1, <2>2
    <3> QED
      BY <2>8, <3>1
  <2>10. \A a \in to : e \notin Mail!Seen(a)
    BY <1>b, <2>1, <2>3 DEF Mail!Seen
  <2>11. Mail!Route(e, to)
    BY <2>2, <2>5, <2>7, <2>9, <2>10 DEF Mail!Route
  <2> QED
    BY <2>11
<1>6. CASE DrainMemoryBridge
  BY <1>6 DEF DrainMemoryBridge, Mail!mailVars
<1>7. CASE UNCHANGED busVars
  BY <1>7 DEF busVars, Mail!mailVars
<1> QED
  <2>2. CASE \E a \in Agents, types \in SUBSET Types : Subscribe(a, types)
    BY <1>2, <2>2 DEF Mail!MailNext
  <2>3. CASE \E a \in Agents : Unsubscribe(a)
    BY <1>3, <2>3 DEF Mail!MailNext
  <2>4. CASE \E a \in Agents, limit \in 1 .. QueueCap : Drain(a, limit)
    <3>1. PICK a \in Agents : \E batch \in SUBSET pend[a] : Mail!Collect(a, batch)
      BY <1>4, <2>4
    <3> QED
      BY <3>1 DEF Mail!MailNext
  <2>5. CASE \E a \in Agents, t \in Types, c \in Prints, s \in BOOLEAN :
               Publish(a, t, c, s)
    <3>1. \E e \in EventIds, to \in SUBSET Agents : Mail!Route(e, to)
      BY <1>5, <2>5
    <3> QED
      BY <3>1 DEF Mail!MailNext
  <2> QED
    BY <1>6, <1>7, <2>2, <2>3, <2>4, <2>5, BusCases

\* The bus implements the mailboxes: an event enters an agent's mailbox at
\* most once and is then received or lost, never both.
THEOREM BusImplementsMailboxes == BusSpec => ImplementsMailboxes
<1>1. BusInit => Mail!MailInit
  BY DEF BusInit, Mail!MailInit, NewSubscriber, IdsIn
<1> QED
  BY <1>1, DeliveryInvariant, MailStep, PTL DEF BusSpec, ImplementsMailboxes, Mail!MailSpec
-----------------------------------------------------------------------------
\* What a push leaves in the ring: the newcomer last, and before it what was
\* there, shifted by one place or not.
LEMMA PushedShape ==
    ASSUME BusTypeOK, NEW c \in Prints, Len(recent) <= RingCap
    PROVE  /\ Len(Pushed(c)) \in Nat \ {0}
           /\ Len(Pushed(c)) <= RingCap
           /\ Pushed(c)[Len(Pushed(c))] = c
           /\ \E d \in {0, 1} : \A k \in 1 .. Len(Pushed(c)) :
                 k # Len(Pushed(c)) =>
                    k + d \in 1 .. Len(recent) /\ Pushed(c)[k] = recent[k + d]
<1> USE BusAssumption DEF BusTypeOK
<1>1. CASE Len(recent) >= RingCap
  <2> DEFINE r == Append(Tail(recent), c)
  <2>1. recent # <<>> /\ Tail(recent) \in Seq(Prints) /\ Len(Tail(recent)) = Len(recent) - 1
    BY <1>1
  <2>2. Len(r) = Len(recent) /\ r[Len(r)] = c
    BY <2>1
  <2>3. \A k \in 1 .. Len(r) : k # Len(r) => k + 1 \in 1 .. Len(recent) /\ r[k] = recent[k + 1]
    <3>1. PICK t \in Seq(Prints) : t = Tail(recent) /\ Len(t) = Len(recent) - 1
      BY <2>1
    <3>2. \A k \in 1 .. Len(t) : t[k] = recent[k + 1]
      BY <2>1, <3>1
    <3>3. \A k \in 1 .. Len(t) : Append(t, c)[k] = t[k]
      BY <3>1
    <3>4. \A k \in 1 .. Len(r) : k # Len(r) => k \in 1 .. Len(t) /\ k + 1 \in 1 .. Len(recent)
      <4>1. Len(recent) \in Nat /\ Len(r) = Len(recent) /\ Len(t) = Len(recent) - 1
        BY <2>2, <3>1
      <4> HIDE DEF r
      <4> QED
        BY <4>1
    <3>5. \A k \in 1 .. Len(t) : r[k] = t[k]
      BY <3>1, <3>3
    <3> HIDE DEF r
    <3> QED
      BY <3>2, <3>4, <3>5
  <2>4. Pushed(c) = r
    BY <1>1 DEF Pushed
  <2> HIDE DEF r
  <2> QED
    BY <1>1, <2>2, <2>3, <2>4
<1>2. CASE ~(Len(recent) >= RingCap)
  <2> DEFINE r == Append(recent, c)
  <2>1. Len(r) = Len(recent) + 1 /\ r[Len(r)] = c
    OBVIOUS
  <2>2. \A k \in 1 .. Len(r) : k # Len(r) => k + 0 \in 1 .. Len(recent) /\ r[k] = recent[k + 0]
    BY <2>1
  <2>3. Pushed(c) = r
    BY <1>2 DEF Pushed
  <2> HIDE DEF r
  <2> QED
    BY <1>2, <2>1, <2>2, <2>3
<1> QED
  BY <1>1, <1>2

LEMMA RingStep ==
    BusTypeOK /\ RingHoldsNoDuplicates /\ [BusNext]_busVars => RingHoldsNoDuplicates'
<1> SUFFICES ASSUME BusTypeOK, RingHoldsNoDuplicates, [BusNext]_busVars
             PROVE  RingHoldsNoDuplicates'
  OBVIOUS
<1>1. ASSUME NEW source \in Agents, NEW type \in Types, NEW c \in Prints,
             NEW isSalient \in BOOLEAN, Publish(source, type, c, isSalient)
      PROVE  RingHoldsNoDuplicates'
  <2>1. PICK r : r = Pushed(c)
    OBVIOUS
  <2>2. recent' = r /\ ~IsDuplicate(c)
    BY <1>1, <2>1 DEF Publish
  <2>3. /\ Len(r) \in Nat \ {0} /\ Len(r) <= RingCap /\ r[Len(r)] = c
        /\ \E d \in {0, 1} : \A k \in 1 .. Len(r) :
              k # Len(r) => k + d \in 1 .. Len(recent) /\ r[k] = recent[k + d]
    BY <2>1, PushedShape DEF RingHoldsNoDuplicates
  <2>4. PICK d \in {0, 1} : \A k \in 1 .. Len(r) :
              k # Len(r) => k + d \in 1 .. Len(recent) /\ r[k] = recent[k + d]
    BY <2>3
  <2>5. \A m \in 1 .. Len(recent) : <<c, recent[m]>> \notin Near /\ <<recent[m], c>> \notin Near
    <3>1. \A m \in 1 .. Len(recent) : recent[m] \in Prints
      BY DEF BusTypeOK
    <3> QED
      BY <2>2, <3>1, BusAssumption DEF IsDuplicate
  <2>6. ASSUME NEW i \in 1 .. Len(r), NEW j \in 1 .. Len(r), i # j
        PROVE  <<r[i], r[j]>> \notin Near
    <3>1. CASE i = Len(r)
      BY <2>3, <2>4, <2>5, <2>6, <3>1
    <3>2. CASE j = Len(r)
      BY <2>3, <2>4, <2>5, <2>6, <3>2
    <3>3. CASE i # Len(r) /\ j # Len(r)
      <4>1. i + d # j + d
        BY <2>6
      <4>2. /\ i + d \in 1 .. Len(recent) /\ r[i] = recent[i + d]
            /\ j + d \in 1 .. Len(recent) /\ r[j] = recent[j + d]
        BY <2>4, <3>3
      <4> QED
        BY <4>1, <4>2 DEF RingHoldsNoDuplicates
    <3> QED
      BY <3>1, <3>2, <3>3
  <2> QED
    BY <2>2, <2>3, <2>6 DEF RingHoldsNoDuplicates
<1>2. ASSUME UNCHANGED recent
      PROVE  RingHoldsNoDuplicates'
  BY <1>2 DEF RingHoldsNoDuplicates
<1> QED
  BY <1>1, <1>2, BusCases DEF busVars, Subscribe, Unsubscribe, Drain, DrainMemoryBridge

\* However long the ring slides, no two fingerprints in it are near.
THEOREM RingStaysFree == BusSpec => []RingHoldsNoDuplicates
<1>1. BusInit => RingHoldsNoDuplicates
  BY BusAssumption DEF BusInit, RingHoldsNoDuplicates
<1> QED
  BY <1>1, BusTypeCorrect, RingStep, PTL DEF BusSpec
-----------------------------------------------------------------------------
\* All that was ever bridged, in order.
Bridged == remembered \o bridge

BridgeInv ==
    /\ BusTypeOK
    /\ BridgedExactlyOnce
    /\ \A e \in salient : e <= eventCounter

LEMMA BridgeStep == BridgeInv /\ [BusNext]_busVars => BridgeInv'
<1> SUFFICES ASSUME BridgeInv, [BusNext]_busVars
             PROVE  BridgedExactlyOnce' /\ \A e \in salient' : e <= eventCounter'
  BY TypeStep DEF BridgeInv
<1> USE DEF BridgeInv
<1>0. remembered \in Seq(EventIds) /\ bridge \in Seq(EventIds) /\ eventCounter \in Nat
      /\ salient \subseteq EventIds /\ EventIds \subseteq Nat
  BY BusAssumption DEF BusTypeOK, EventIds
<1>1. /\ Bridged \in Seq(EventIds)
      /\ {Bridged[i] : i \in 1 .. Len(Bridged)} = salient
      /\ \A i, j \in 1 .. Len(Bridged) : i < j => Bridged[i] < Bridged[j]
  BY <1>0 DEF BridgedExactlyOnce, Bridged
<1>a. \A e \in salient : e \in Nat /\ e <= eventCounter
  BY <1>0
<1>2. ASSUME Bridged' = Bridged, salient' = salient, eventCounter' = eventCounter
      PROVE  BridgedExactlyOnce' /\ \A e \in salient' : e <= eventCounter'
  BY <1>1, <1>2 DEF BridgedExactlyOnce, Bridged
<1>3. ASSUME NEW source \in Agents, NEW type \in Types, NEW c \in Prints,
             NEW isSalient \in BOOLEAN, Publish(source, type, c, isSalient)
      PROVE  BridgedExactlyOnce' /\ \A e \in salient' : e <= eventCounter'
  <2>1. PICK n \in EventIds : n = eventCounter' /\ n = eventCounter + 1
    BY <1>3, PublishShape
  <2>2. CASE ~isSalient
    <3>1. UNCHANGED <<remembered, bridge, salient>>
      BY <1>3, <2>2 DEF Publish
    <3>2. BridgedExactlyOnce'
      BY <1>1, <3>1 DEF BridgedExactlyOnce, Bridged
    <3>3. \A e \in salient' : e <= eventCounter'
      BY <1>0, <1>a, <2>1, <3>1
    <3> QED
      BY <3>2, <3>3
  <2>3. CASE isSalient
    <3> DEFINE all == Bridged
    <3>1. /\ remembered' = remembered /\ bridge' = Append(bridge, n)
          /\ salient' = salient \cup {n}
      BY <1>3, <2>1, <2>3 DEF Publish
    <3>2. PICK b : b = Bridged /\ b \in Seq(EventIds)
      BY <1>1
    <3>3. remembered \o Append(bridge, n) = Append(b, n)
      BY <1>0, <3>2 DEF Bridged
    <3>4. (remembered \o bridge)' = Append(b, n)
      BY <3>1, <3>3
    <3>5. /\ Len(Append(b, n)) = Len(b) + 1 /\ Len(b) \in Nat
          /\ Append(b, n)[Len(b) + 1] = n
          /\ \A i \in 1 .. Len(b) : Append(b, n)[i] = b[i] /\ b[i] \in salient
      BY <1>1, <3>2
    <3>6. {Append(b, n)[i] : i \in 1 .. Len(Append(b, n))} = salient \cup {n}
      <4>1. {b[i] : i \in 1 .. Len(b)} = salient
        BY <1>1, <3>2
      <4> QED
        BY <3>5, <4>1
    <3>7. \A i, j \in 1 .. Len(Append(b, n)) : i < j => Append(b, n)[i] < Append(b, n)[j]
      <4>1. \A i, j \in 1 .. Len(b) : i < j => b[i] < b[j]
        BY <1>1, <3>2
      <4>2. \A i \in 1 .. Len(b) : b[i] < n
        <5>1. \A i \in 1 .. Len(b) : b[i] \in Nat /\ b[i] <= eventCounter
          BY <1>a, <3>5
        <5> QED
          BY <1>0, <2>1, <5>1
      <4> QED
        BY <3>5, <4>1, <4>2
    <3>8. BridgedExactlyOnce'
      BY <3>1, <3>4, <3>6, <3>7 DEF BridgedExactlyOnce
    <3>9. \A e \in salient' : e <= eventCounter'
      BY <1>0, <2>1, <3>1
    <3> QED
      BY <3>8, <3>9
  <2> QED
    BY <2>2, <2>3
<1>4. CASE DrainMemoryBridge
  <2>1. remembered' = Bridged /\ bridge' = <<>> /\ UNCHANGED <<salient, eventCounter>>
    BY <1>4 DEF DrainMemoryBridge, Bridged
  <2>2. Bridged' = Bridged
    BY <1>1, <2>1 DEF Bridged
  <2> QED
    BY <1>2, <2>1, <2>2
<1>5. ASSUME UNCHANGED <<remembered, bridge, salient, eventCounter>>
      PROVE  BridgedExactlyOnce' /\ \A e \in salient' : e <= eventCounter'
  BY <1>2, <1>5 DEF Bridged
<1> QED
  BY <1>3, <1>4, <1>5, BusCases DEF busVars, Subscribe, Unsubscribe, Drain

\* Every salient event reaches the memory bridge once, in the order published.
THEOREM SalientEventsAreBridged == BusSpec => []BridgedExactlyOnce
<1>1. BusInit => BridgeInv
  BY BusTypeCorrect, BusAssumption
     DEF BusInit, BridgeInv, BridgedExactlyOnce, BusTypeOK, NewSubscriber, Subscriber
<1>2. BridgeInv => BridgedExactlyOnce
  BY DEF BridgeInv
<1> QED
  BY <1>1, <1>2, BridgeStep, PTL DEF BusSpec
-----------------------------------------------------------------------------
\* What a step hands to the agent a, and what leaves its queue without it.
Taken(a) == {x \in sub[a].queue : x.id \in received'[a]}

Gone(a) == {x \in sub[a].queue : x \notin sub'[a].queue /\ x.id \notin received'[a]}

LEMMA DrainStep ==
    ASSUME DeliveryInv, [BusNext]_busVars, NEW a \in Agents,
           NEW x \in Taken(a), NEW y \in sub'[a].queue
    PROVE  x.priority >= y.priority
<1>1. /\ x \in sub[a].queue /\ x.id \in received'[a] /\ x.id \notin received[a]
      /\ \A z \in sub[a].queue : z.id = x.id => z = x
  BY DEF Taken, DeliveryInv, AtMostOncePending, IdsIn
<1>2. PICK limit \in 1 .. QueueCap : Drain(a, limit)
  <2>1. received'[a] # received[a]
    BY <1>1
  <2>2. PICK b \in Agents, limit \in 1 .. QueueCap : Drain(b, limit)
    BY <2>1, BusCases DEF busVars, Subscribe, Unsubscribe, Publish, DrainMemoryBridge
  <2>3. b = a
    BY <2>1, <2>2 DEF Drain, DeliveryInv, BusTypeOK
  <2> QED
    BY <2>2, <2>3
<1>3. PICK b \in SUBSET sub[a].queue :
         /\ sub' = [sub EXCEPT ![a].queue = sub[a].queue \ b]
         /\ received' = [received EXCEPT ![a] = @ \cup IdsIn(b)]
         /\ \A v \in b, w \in sub[a].queue \ b : v.priority >= w.priority
  BY <1>2 DEF Drain, TopOf
<1>4. b \subseteq sub[a].queue
  OBVIOUS
<1>5. x \in b
  <2>1. received'[a] = received[a] \cup IdsIn(b)
    BY <1>3 DEF DeliveryInv, BusTypeOK
  <2> QED
    BY <1>1, <1>4, <2>1 DEF IdsIn
<1>6. sub'[a].queue = sub[a].queue \ b
  BY <1>3 DEF DeliveryInv, BusTypeOK, Subscriber
<1> QED
  BY <1>3, <1>5, <1>6

\* Among spikes, and among events that are none, what is drained is never
\* less urgent than what stays.
THEOREM MostUrgentFirst == BusSpec => DrainTakesTheTop
<1>1. DeliveryInv /\ [BusNext]_busVars =>
         [\A a \in Agents :
             LET taken == {x \in sub[a].queue : x.id \in received'[a]}
             IN  \A x \in taken, y \in sub'[a].queue :
                    x.spike = y.spike => x.priority >= y.priority]_busVars
  BY DrainStep DEF Taken
<1> QED
  BY <1>1, DeliveryInvariant, PTL DEF BusSpec, DrainTakesTheTop

LEMMA LossStep ==
    ASSUME DeliveryInv, QueueInv, [BusNext]_busVars, NEW a \in Agents,
           Gone(a) # {}, routed'[a] # routed[a]
    PROVE  /\ Cardinality(sub[a].queue) = QueueCap
           /\ Cardinality(Gone(a)) = 1
           /\ \A x \in Gone(a), y \in sub[a].queue \ Gone(a) : x.priority <= y.priority
<1>1. PICK source \in Agents, type \in Types, c \in Prints, isSalient \in BOOLEAN :
         Publish(source, type, c, isSalient)
  BY BusCases DEF busVars, Subscribe, Unsubscribe, Drain, DrainMemoryBridge
<1>2. /\ eventCounter' = eventCounter + 1 /\ eventCounter' \in EventIds
      /\ sub'[a] \in Outcomes(sub[a], eventCounter', source, type)
      /\ received' = received
  <2>1. a \in Receivers(source, type)
    BY <1>1, PublishShape DEF DeliveryInv
  <2> QED
    BY <1>1, <2>1, PublishShape DEF DeliveryInv, Publish
<1>3. PICK e \in EventIds, s \in Subscriber :
         e = eventCounter' /\ e = eventCounter + 1 /\ s = sub[a]
  BY <1>2 DEF DeliveryInv, BusTypeOK
<1>4. PICK o \in Outcomes(s, e, source, type) : o = sub'[a]
  BY <1>2, <1>3
<1>5. PICK kept \in CutDown(s.queue), new \in Waiting :
         o.queue = kept \cup {new} /\ new.id = e
  BY OutcomeShape
<1>6. new \notin s.queue
  <2>1. \A z \in s.queue : z.id \in 1 .. eventCounter /\ eventCounter \in Nat
    BY <1>3 DEF DeliveryInv, AtMostOncePending, RoutedWereIssued, BusTypeOK, IdsIn
  <2> QED
    BY <1>3, <1>5, <2>1
<1>7. kept \subseteq s.queue
  BY CutDownIsPart
<1>8. Gone(a) = s.queue \ kept
  <2>1. \A z \in s.queue : z.id \notin received'[a]
    BY <1>2, <1>3 DEF DeliveryInv, AtMostOncePending, IdsIn
  <2> QED
    BY <1>3, <1>4, <1>5, <1>6, <2>1 DEF Gone
<1>9. IsFiniteSet(s.queue) /\ Cardinality(s.queue) <= QueueCap /\ Cardinality(s.queue) \in Nat
  BY <1>3, FS_CardinalityType DEF QueueInv, QueueMatchesSubscription
<1>10. ~(Cardinality(s.queue) < QueueCap)
  BY <1>8 DEF CutDown
<1>11. /\ Cardinality(kept) = QueueCap - 1
       /\ \A x \in s.queue \ kept, y \in kept : x.priority <= y.priority
  BY <1>10 DEF CutDown
<1>12. Cardinality(s.queue) = QueueCap
  BY <1>9, <1>10, BusAssumption
<1>13. Cardinality(s.queue \ kept) = 1
  <2>1. s.queue \cap kept = kept
    BY <1>7
  <2>2. Cardinality(s.queue \ kept) = Cardinality(s.queue) - Cardinality(s.queue \cap kept)
    BY <1>9, FS_Difference
  <2>3. Cardinality(s.queue \cap kept) = QueueCap - 1
    BY <1>11, <2>1
  <2> QED
    BY <1>12, <2>2, <2>3, BusAssumption
<1>14. s.queue \ Gone(a) = kept
  BY <1>7, <1>8
<1> QED
  BY <1>3, <1>8, <1>11, <1>12, <1>13, <1>14

\* Under a standing subscription only a full queue loses events, one per
\* newcomer and a least urgent one of those that were waiting.
THEOREM LeastUrgentLost == BusSpec => LossOnlyByOverflow
<1>1. DeliveryInv /\ QueueInv /\ [BusNext]_busVars =>
         [\A a \in registered \cap registered' :
            LET gone == {x \in sub[a].queue : /\ x \notin sub'[a].queue
                                              /\ x.id \notin received'[a]}
            IN  (gone # {} /\ routed'[a] # routed[a]) =>
                   /\ Cardinality(sub[a].queue) = QueueCap
                   /\ Cardinality(gone) = 1
                   /\ \A x \in gone, y \in sub[a].queue \ gone :
                         x.priority <= y.priority]_busVars
  <2> SUFFICES ASSUME DeliveryInv, QueueInv, [BusNext]_busVars,
                      NEW a \in registered \cap registered',
                      Gone(a) # {}, routed'[a] # routed[a]
               PROVE  /\ Cardinality(sub[a].queue) = QueueCap
                      /\ Cardinality(Gone(a)) = 1
                      /\ \A x \in Gone(a), y \in sub[a].queue \ Gone(a) :
                            x.priority <= y.priority
    BY DEF Gone
  <2>1. a \in Agents
    BY DEF DeliveryInv, BusTypeOK
  <2> QED
    BY <2>1, LossStep
<1> QED
  BY <1>1, DeliveryInvariant, QueueInvariant, PTL DEF BusSpec, LossOnlyByOverflow
=============================================================================
