---------------------------- MODULE CognitiveBus ----------------------------
(***************************************************************************)
(* The inter-agent event bus of the Rust core                              *)
(* (entroly-core/src/cognitive_bus.rs).                                    *)
(*                                                                         *)
(* publish fingerprints an event, drops it when a near duplicate is still  *)
(* in the ring of recent fingerprints, copies it into the memory bridge    *)
(* when it is salient, and routes it to every other subscriber of its      *)
(* type with a priority of that subscriber's own.  A subscriber keeps a    *)
(* bounded priority queue that drain empties from the top.                 *)
(*                                                                         *)
(* The priority is the product of rate surprise, recency, novelty, task    *)
(* relevance and emotion; the model lets it be any member of Priorities.   *)
(* So the clock, the rate models, the hash history and the task context,   *)
(* which feed nothing but the priority, do not appear.  A spike is a       *)
(* priority far from the mean of the subscriber's earlier ones, above it   *)
(* or below; the accumulator calls nothing a spike before MinSamples of    *)
(* them, and after that the model leaves the flag open.                    *)
(***************************************************************************)
EXTENDS Integers, Sequences, FiniteSets

CONSTANTS
    Agents,      (* agent identifiers: publishers and subscribers          *)
    Types,       (* event types                                            *)
    Prints,      (* fingerprints of the texts that are published           *)
    Near,        (* pairs of fingerprints at Hamming distance <= 3         *)
    Priorities,  (* the priorities compute_priority can return             *)
    Messages,    (* what is published: a fingerprint, and whether the      *)
                 (* salience reaches the memory threshold                  *)
    MinSamples,  (* priorities seen before one can be a spike (3)          *)
    QueueCap,    (* MAX_QUEUE_PER_AGENT                                    *)
    RingCap,     (* length of recent_hashes                                *)
    MaxEvents    (* bound on the number of accepted events                 *)

ASSUME BusAssumption ==
    /\ Near \subseteq Prints \X Prints
    /\ \A c \in Prints : <<c, c>> \in Near
    /\ \A c, d \in Prints : <<c, d>> \in Near => <<d, c>> \in Near
    /\ Priorities \subseteq Nat
    /\ Messages \subseteq Prints \X BOOLEAN
    /\ MinSamples \in Nat
    /\ QueueCap \in Nat \ {0}
    /\ RingCap \in Nat \ {0}
    /\ MaxEvents \in Nat

VARIABLES
    registered,    (* agents that are subscribers now                      *)
    sub,           (* each agent's Subscriber record                       *)
    recent,        (* recent_hashes, oldest first                          *)
    eventCounter,  (* id of the last accepted event                        *)
    bridge,        (* memory_bridge_queue: ids of salient events           *)
    routed,        (* history: ids ever put into an agent's queue          *)
    received,      (* history: ids an agent has drained                    *)
    salient,       (* history: ids of the salient events                   *)
    remembered     (* history: ids handed to the memory bridge, in order   *)

busVars == <<registered, sub, recent, eventCounter, bridge,
             routed, received, salient, remembered>>
-----------------------------------------------------------------------------
EventIds == 1 .. MaxEvents

\* An event as it waits in a queue.
Waiting == [id : EventIds, priority : Priorities, spike : BOOLEAN,
            type : Types, source : Agents]

IdsIn(q) == {x.id : x \in q}

\* A subscriber: its types, its queue and how many priorities it has seen.
Subscriber == [types : SUBSET Types, queue : SUBSET Waiting, scored : Nat]

\* A new subscriber; no type at all means every type.
NewSubscriber(types) == [types |-> types, queue |-> {}, scored |-> 0]

IsSubscribed(a, type) == sub[a].types = {} \/ type \in sub[a].types

\* A fault: only the oldest fingerprint is compared.
IsDuplicateOfOldest(c) ==
    recent # <<>> /\ <<c, Head(recent)>> \in Near

IsDuplicate(c) == \E i \in 1 .. Len(recent) : <<c, recent[i]>> \in Near

\* The ring after a fingerprint is pushed.
Pushed(c) ==
    IF Len(recent) >= RingCap THEN Append(Tail(recent), c) ELSE Append(recent, c)

\* A fault: the queue is sorted the wrong way round before it is truncated.
CutDownHighest(q) ==
    IF Cardinality(q) < QueueCap
    THEN {q}
    ELSE {k \in SUBSET q : /\ Cardinality(k) = QueueCap - 1
                           /\ \A x \in q \ k, y \in k : x.priority >= y.priority}

(***************************************************************************)
(* The queues a queue can be cut down to before an event is pushed: as it  *)
(* is below the cap, else its QueueCap - 1 highest.  The sort leaves the   *)
(* order of equal priorities to the heap's layout.                         *)
(***************************************************************************)
CutDown(q) ==
    IF Cardinality(q) < QueueCap
    THEN {q}
    ELSE {k \in SUBSET q : /\ Cardinality(k) = QueueCap - 1
                           /\ \A x \in q \ k, y \in k : x.priority <= y.priority}

\* What check_spike can say of the next priority of s.
SpikeFlags(s) == {b \in BOOLEAN : b => s.scored >= MinSamples}

\* A fault: the event is stamped before the counter is incremented.
EnqueueOldId(s, id, source, type, p, spike, kept) ==
    [s EXCEPT !.scored = @ + 1,
              !.queue = kept \cup {[id |-> id - 1, priority |-> p, spike |-> spike,
                                    type |-> type, source |-> source]}]

\* The subscriber s once an event has been scored p and queued.
Enqueue(s, id, source, type, p, spike, kept) ==
    [s EXCEPT !.scored = @ + 1,
              !.queue = kept \cup {[id |-> id, priority |-> p, spike |-> spike,
                                    type |-> type, source |-> source]}]

Outcomes(s, id, source, type) ==
    {Enqueue(s, id, source, type, o[1], o[2], o[3]) :
        o \in Priorities \X SpikeFlags(s) \X CutDown(s.queue)}

\* Everybody the event goes to: never its source.
Receivers(source, type) ==
    {a \in registered \ {source} : IsSubscribed(a, type)}
-----------------------------------------------------------------------------
BusInit ==
    /\ registered = {}
    /\ sub = [a \in Agents |-> NewSubscriber({})]
    /\ recent = <<>>
    /\ eventCounter = 0
    /\ bridge = <<>>
    /\ routed = [a \in Agents |-> {}]
    /\ received = [a \in Agents |-> {}]
    /\ salient = {}
    /\ remembered = <<>>

\* A fault: a second subscribe updates the types of the subscriber in place.
SubscribeInPlace(a, types) ==
    /\ registered' = registered \cup {a}
    /\ sub' = [sub EXCEPT ![a].types = types]
    /\ UNCHANGED <<recent, eventCounter, bridge, routed, received, salient, remembered>>

\* A second subscribe replaces the subscriber, its queue included.
Subscribe(a, types) ==
    /\ registered' = registered \cup {a}
    /\ sub' = [sub EXCEPT ![a] = NewSubscriber(types)]
    /\ UNCHANGED <<recent, eventCounter, bridge, routed, received, salient, remembered>>

Unsubscribe(a) ==
    /\ a \in registered
    /\ registered' = registered \ {a}
    /\ sub' = [sub EXCEPT ![a] = NewSubscriber({})]
    /\ UNCHANGED <<recent, eventCounter, bridge, routed, received, salient, remembered>>

(***************************************************************************)
(* A near duplicate of a recent event changes nothing but a statistic, so  *)
(* publish is modelled for the events that pass the check.                 *)
(***************************************************************************)
Publish(source, type, c, isSalient) ==
    /\ eventCounter < MaxEvents
    /\ ~IsDuplicate(c)
    /\ recent' = Pushed(c)
    /\ eventCounter' = eventCounter + 1
    /\ bridge' = IF isSalient THEN Append(bridge, eventCounter') ELSE bridge
    /\ salient' = IF isSalient THEN salient \cup {eventCounter'} ELSE salient
    /\ LET to  == Receivers(source, type)
           out == [a \in to |-> Outcomes(sub[a], eventCounter', source, type)]
       IN  /\ \E new \in [to -> UNION {out[a] : a \in to}] :
                /\ \A a \in to : new[a] \in out[a]
                /\ sub' = [a \in Agents |-> IF a \in to THEN new[a] ELSE sub[a]]
           /\ routed' = [a \in Agents |-> IF a \in to
                           THEN routed[a] \cup {eventCounter'} ELSE routed[a]]
    /\ UNCHANGED <<registered, received, remembered>>

\* A fault: the heap is ordered by ascending priority.
BottomOf(q, k) ==
    {b \in SUBSET q : /\ Cardinality(b) = k
                      /\ \A x \in b, y \in q \ b : x.priority <= y.priority}

\* The batches of k events that popping the heap k times can produce.
TopOf(q, k) ==
    {b \in SUBSET q : /\ Cardinality(b) = k
                      /\ \A x \in b, y \in q \ b : x.priority >= y.priority}

\* A fault: events are copied to the agent and stay in its queue.
DrainByPeeking(a, limit) ==
    /\ a \in registered
    /\ LET q == sub[a].queue
           k == IF limit < Cardinality(q) THEN limit ELSE Cardinality(q)
       IN  \E b \in TopOf(q, k) :
             received' = [received EXCEPT ![a] = @ \cup IdsIn(b)]
    /\ UNCHANGED <<registered, sub, recent, eventCounter, bridge, routed, salient, remembered>>

Drain(a, limit) ==
    /\ a \in registered
    /\ LET q == sub[a].queue
           k == IF limit < Cardinality(q) THEN limit ELSE Cardinality(q)
       IN  \E b \in TopOf(q, k) :
             /\ sub' = [sub EXCEPT ![a].queue = q \ b]
             /\ received' = [received EXCEPT ![a] = @ \cup IdsIn(b)]
    /\ UNCHANGED <<registered, recent, eventCounter, bridge, routed, salient, remembered>>

\* A fault: the bridge queue is cloned, not taken.
DrainMemoryBridgeByCloning ==
    /\ bridge # <<>>
    /\ remembered' = remembered \o bridge
    /\ UNCHANGED <<registered, sub, recent, eventCounter, bridge, routed, received, salient>>

DrainMemoryBridge ==
    /\ bridge # <<>>
    /\ remembered' = remembered \o bridge
    /\ bridge' = <<>>
    /\ UNCHANGED <<registered, sub, recent, eventCounter, routed, received, salient>>

BusNext ==
    \/ \E a \in Agents, types \in SUBSET Types : Subscribe(a, types)
    \/ \E a \in Agents : Unsubscribe(a)
    \/ \E a \in Agents, t \in Types, m \in Messages : Publish(a, t, m[1], m[2])
    \/ \E a \in Agents, limit \in 1 .. QueueCap : Drain(a, limit)
    \/ DrainMemoryBridge

BusSpec == BusInit /\ [][BusNext]_busVars
-----------------------------------------------------------------------------
\* Type correctness of the bus's state and of its history.
BusTypeOK ==
    /\ registered \subseteq Agents
    /\ sub \in [Agents -> Subscriber]
    /\ recent \in Seq(Prints)
    /\ eventCounter \in 0 .. MaxEvents
    /\ bridge \in Seq(EventIds)
    /\ routed \in [Agents -> SUBSET EventIds]
    /\ received \in [Agents -> SUBSET EventIds]
    /\ salient \subseteq EventIds
    /\ remembered \in Seq(EventIds)

\* The dedup ring never holds two near-duplicate fingerprints, however long
\* it has been sliding, so an accepted event is new to the whole window.
RingHoldsNoDuplicates ==
    /\ Len(recent) <= RingCap
    /\ \A i, j \in 1 .. Len(recent) : i # j => <<recent[i], recent[j]>> \notin Near

\* Whatever waits in a queue is wanted under the subscription in force now,
\* comes from another agent, and the queue respects its cap: re-subscribing
\* with other types must not leave the events of the old subscription behind.
QueueMatchesSubscription ==
    \A a \in Agents :
        /\ Cardinality(sub[a].queue) <= QueueCap
        /\ a \notin registered => sub[a].queue = {}
        /\ \A x \in sub[a].queue : x.source # a /\ IsSubscribed(a, x.type)

\* An event waits at most once, was really routed to its queue, and is never
\* both waiting and drained: no agent acts twice on one event.
AtMostOncePending ==
    \A a \in Agents :
        /\ \A x, y \in sub[a].queue : x.id = y.id => x = y
        /\ IdsIn(sub[a].queue) \subseteq routed[a]
        /\ received[a] \subseteq routed[a]
        /\ IdsIn(sub[a].queue) \cap received[a] = {}

\* The salient events are bridged to memory exactly once each, in the order
\* in which they were published.
BridgedExactlyOnce ==
    LET all == remembered \o bridge
    IN  /\ {all[i] : i \in 1 .. Len(all)} = salient
        /\ \A i, j \in 1 .. Len(all) : i < j => all[i] < all[j]

\* Among events that are alike in being spikes or not, drain hands over the
\* most urgent ones: none that stays behind has a higher priority than one
\* that was taken.
DrainTakesTheTop ==
    [][\A a \in Agents :
          LET taken == {x \in sub[a].queue : x.id \in received'[a]}
          IN  \A x \in taken, y \in sub'[a].queue :
                 x.spike = y.spike => x.priority >= y.priority]_busVars

\* What the comment on drain says of spikes, that they are always included
\* first: no spike stays behind when an event that is none is taken.
SpikesComeFirst ==
    [][\A a \in Agents :
          LET taken == {x \in sub[a].queue : x.id \in received'[a]}
          IN  \A x \in taken, y \in sub'[a].queue : y.spike => x.spike]_busVars

\* While the subscription stands, an event leaves a queue undelivered only
\* when the queue was full, one per newcomer, and a lowest one of those that
\* were waiting; the newcomer itself is not compared with them.
LossOnlyByOverflow ==
    [][\A a \in registered \cap registered' :
          LET gone == {x \in sub[a].queue : /\ x \notin sub'[a].queue
                                            /\ x.id \notin received'[a]}
          IN  (gone # {} /\ routed'[a] # routed[a]) =>
                 /\ Cardinality(sub[a].queue) = QueueCap
                 /\ Cardinality(gone) = 1
                 /\ \A x \in gone, y \in sub[a].queue \ gone :
                       x.priority <= y.priority]_busVars

(***************************************************************************)
(* The bus implements the mailboxes: the queue of an agent is its pending  *)
(* mail; what was routed and is neither waiting nor drained is lost.       *)
(***************************************************************************)
Mail == INSTANCE Mailboxes WITH
    pending   <- [a \in Agents |-> IdsIn(sub[a].queue)],
    delivered <- received,
    lost      <- [a \in Agents |-> routed[a] \ (IdsIn(sub[a].queue) \cup received[a])]

\* The bus is an at-most-once mailbox system.
ImplementsMailboxes == Mail!MailSpec
=============================================================================
