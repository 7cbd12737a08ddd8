------------------------ MODULE DependencyGraphProofs ------------------------
(* Proofs about the dependency graph: its types, that its links are exactly  *)
(* those the order of the contents calls for, that they lead back in time,   *)
(* so that there are no cycles, and that the searches find exactly what is   *)
(* within the links they may follow.                                         *)
EXTENDS GraphSearch, FiniteSetTheorems, SequenceTheorems, WellFoundedInduction, TLAPS

\* A table has every symbol of some fragment, with the newest of these.
IsTable(table, Provide(_)) ==
    \A s \in Symbols :
        /\ s \in DOMAIN table => IsNewest(table[s], Provide(s))
        /\ s \notin DOMAIN table => Provide(s) = {}

TablesAreNewest(e) ==
    /\ IsTable(e.symbolTable, LAMBDA s : Definers(s, e))
    /\ IsTable(e.exported, LAMBDA s : Exporters(s, e))

ExactIn(e) == \A l \in Link : l \in e.links <=> CalledFor(l, e)

\* An answer holds no id that is still to be handed out.
AnswersAreOld(e) == \A a \in e.memo : \A i \in a.frags : i <= e.idCounter

EngineInv(e) ==
    /\ IsEngine(e)
    /\ TablesAreNewest(e)
    /\ ExactIn(e)
    /\ AnswersAreOld(e)

GraphInv == EngineInv(Whole) /\ \A s \in saved : EngineInv(s)
-----------------------------------------------------------------------------
\* There is one newest id of a set at most.
LEMMA NewestIsOne ==
  ASSUME NEW S \in SUBSET Ids, NEW i, NEW j, IsNewest(i, S), IsNewest(j, S)
  PROVE  i = j
<1>1. i \in Int /\ j \in Int
  BY GraphAssumption DEF IsNewest, Ids
<1>2. QED
  BY <1>1 DEF IsNewest

LEMMA LinksAreTyped ==
  ASSUME NEW n \in Ids, NEW symbols, NEW table, \A s \in DOMAIN table : table[s] \in Ids,
         NEW ffi \in BOOLEAN
  PROVE  LinksTo(n, symbols, table, ffi) \subseteq Link
<1>1. ASSUME NEW l \in LinksTo(n, symbols, table, ffi)
      PROVE  l \in Link
  <2>1. PICK s \in DOMAIN table : l = [from |-> n, to |-> table[s], ffi |-> ffi]
    BY DEF LinksTo
  <2>2. QED
    BY <2>1 DEF Link
<1>2. QED
  BY <1>1

\* The engine a process starts with.
LEMMA EmptyEngine ==
  ASSUME NEW e, e.fragments = Empty, e.linked = Empty, e.links = {}, e.symbolTable = Empty,
         e.exported = Empty, e.idCounter = 0, e.memo = {}
  PROVE  EngineInv(e)
<1>1. IsMap(Empty, Ids, Contents) /\ IsMap(Empty, Ids, Contents \cup {Stub})
      /\ IsMap(Empty, Symbols, Ids) /\ DOMAIN Empty = {}
  BY DEF IsMap, Empty
<1>2. IsEngine(e)
  BY <1>1, GraphAssumption DEF IsEngine
<1>3. TablesAreNewest(e)
  BY <1>1 DEF TablesAreNewest, IsTable, Definers, Exporters
<1>4. ExactIn(e) /\ AnswersAreOld(e)
  BY <1>1 DEF ExactIn, CalledFor, AnswersAreOld
<1>5. QED
  BY <1>2, <1>3, <1>4 DEF EngineInv

\* Where the graph stays as it was, so does what is true of it.
LEMMA GraphUntouched ==
  ASSUME NEW e, NEW d, EngineInv(e),
         d.linked = e.linked, d.links = e.links, d.symbolTable = e.symbolTable,
         d.exported = e.exported, e.idCounter <= d.idCounter, d.idCounter \in 0 .. MaxIds,
         IsMap(d.fragments, Ids, Contents \cup {Stub}),
         \A i \in DOMAIN d.fragments : i <= d.idCounter,
         d.memo \subseteq Answer, AnswersAreOld(d)
  PROVE  EngineInv(d)
<1>1. IsEngine(d)
  <2>1. \A i \in DOMAIN e.linked : i \in Int /\ i <= e.idCounter
    BY GraphAssumption DEF EngineInv, IsEngine, IsMap, Ids
  <2>2. e.idCounter \in Int /\ d.idCounter \in Int
    BY GraphAssumption DEF EngineInv, IsEngine
  <2>3. \A i \in DOMAIN e.linked : i <= d.idCounter
    BY <2>1, <2>2
  <2>4. QED
    BY <2>3 DEF EngineInv, IsEngine
<1>2. \A s : Definers(s, d) = Definers(s, e) /\ Exporters(s, d) = Exporters(s, e)
  BY DEF Definers, Exporters
<1>3. TablesAreNewest(d)
  BY <1>2 DEF EngineInv, TablesAreNewest, IsTable
<1>4. ExactIn(d)
  BY <1>2 DEF EngineInv, ExactIn, CalledFor
<1>5. QED
  BY <1>1, <1>3, <1>4 DEF EngineInv
-----------------------------------------------------------------------------
(***************************************************************************)
(* The step of Ingest, on the engine before it and after it.               *)
(***************************************************************************)
Ingested(e, d, n, c) ==
    /\ n = e.idCounter + 1 /\ d.idCounter = n /\ n \in Ids
    /\ d.linked = Bind(e.linked, {n}, c)
    /\ d.symbolTable = Bind(e.symbolTable, Defines[c] \cup Exports[c], n)
    /\ d.exported = Bind(e.exported, Exports[c], n)
    /\ d.links = e.links \cup LinksTo(n, Uses[c], e.symbolTable, FALSE)
                         \cup LinksTo(n, Uses[c], d.exported, TRUE)

\* The tables after the step, symbol by symbol.
LEMMA IngestedTables ==
  ASSUME NEW e, NEW d, NEW n, NEW c \in Contents, EngineInv(e), Ingested(e, d, n, c)
  PROVE  /\ IsMap(d.linked, Ids, Contents) /\ DOMAIN d.linked = DOMAIN e.linked \cup {n}
         /\ d.linked[n] = c /\ n \notin DOMAIN e.linked
         /\ \A i \in DOMAIN e.linked : d.linked[i] = e.linked[i] /\ i \in Int /\ i < n
         /\ IsMap(d.symbolTable, Symbols, Ids) /\ IsMap(d.exported, Symbols, Ids)
         /\ \A s \in Symbols :
              /\ Definers(s, d) = IF s \in Defines[c] \cup Exports[c]
                                  THEN Definers(s, e) \cup {n} ELSE Definers(s, e)
              /\ Exporters(s, d) = IF s \in Exports[c]
                                   THEN Exporters(s, e) \cup {n} ELSE Exporters(s, e)
         /\ TablesAreNewest(d)
<1> USE GraphAssumption
<1>1. /\ IsMap(e.linked, Ids, Contents) /\ IsMap(e.symbolTable, Symbols, Ids)
      /\ IsMap(e.exported, Symbols, Ids) /\ e.idCounter \in Int
      /\ \A i \in DOMAIN e.linked : i <= e.idCounter
  BY DEF EngineInv, IsEngine
<1>2. n \in Ids /\ n \in Int /\ n = e.idCounter + 1
  BY <1>1 DEF Ingested, Ids
<1>3. Defines[c] \subseteq Symbols /\ Exports[c] \subseteq Symbols /\ Uses[c] \subseteq Symbols
  OBVIOUS
<1>4. /\ IsMap(d.linked, Ids, Contents) /\ DOMAIN d.linked = DOMAIN e.linked \cup {n}
      /\ \A k \in DOMAIN e.linked \cup {n} : d.linked[k] = IF k \in {n} THEN c ELSE e.linked[k]
  <2>1. d.linked = Bind(e.linked, {n}, c) /\ {n} \in SUBSET Ids
    BY <1>2 DEF Ingested
  <2>2. QED
    BY <1>1, <2>1 DEF Bind, IsMap
<1>5. \A i \in DOMAIN e.linked : i \in Int /\ i < n
  BY <1>1, <1>2 DEF IsMap, Ids
<1>6. d.linked[n] = c /\ n \notin DOMAIN e.linked
  BY <1>2, <1>4, <1>5
<1>7. \A i \in DOMAIN e.linked : d.linked[i] = e.linked[i]
  BY <1>4, <1>5, <1>2
<1>8. /\ IsMap(d.symbolTable, Symbols, Ids)
      /\ DOMAIN d.symbolTable = DOMAIN e.symbolTable \cup Defines[c] \cup Exports[c]
      /\ \A s \in DOMAIN d.symbolTable :
            d.symbolTable[s] = IF s \in Defines[c] \cup Exports[c] THEN n ELSE e.symbolTable[s]
  <2>1. /\ d.symbolTable = Bind(e.symbolTable, Defines[c] \cup Exports[c], n)
        /\ Defines[c] \cup Exports[c] \in SUBSET Symbols
    BY <1>3 DEF Ingested
  <2>2. QED
    BY <1>1, <1>2, <2>1 DEF Bind, IsMap
<1>9. /\ IsMap(d.exported, Symbols, Ids)
      /\ DOMAIN d.exported = DOMAIN e.exported \cup Exports[c]
      /\ \A s \in DOMAIN d.exported :
            d.exported[s] = IF s \in Exports[c] THEN n ELSE e.exported[s]
  <2>1. d.exported = Bind(e.exported, Exports[c], n) /\ Exports[c] \in SUBSET Symbols
    BY <1>3 DEF Ingested
  <2>2. QED
    BY <1>1, <1>2, <2>1 DEF Bind, IsMap
<1>10. ASSUME NEW s \in Symbols
       PROVE  /\ Definers(s, d) = IF s \in Defines[c] \cup Exports[c]
                                  THEN Definers(s, e) \cup {n} ELSE Definers(s, e)
              /\ Exporters(s, d) = IF s \in Exports[c]
                                   THEN Exporters(s, e) \cup {n} ELSE Exporters(s, e)
  BY <1>4, <1>6, <1>7 DEF Definers, Exporters
<1>11. \A s \in Symbols : Definers(s, e) \subseteq DOMAIN e.linked
                          /\ Exporters(s, e) \subseteq DOMAIN e.linked
  BY DEF Definers, Exporters
<1>12. /\ \A s \in Symbols :
            /\ s \in DOMAIN e.symbolTable => IsNewest(e.symbolTable[s], Definers(s, e))
            /\ s \notin DOMAIN e.symbolTable => Definers(s, e) = {}
       /\ \A s \in Symbols :
            /\ s \in DOMAIN e.exported => IsNewest(e.exported[s], Exporters(s, e))
            /\ s \notin DOMAIN e.exported => Exporters(s, e) = {}
  BY DEF EngineInv, TablesAreNewest, IsTable
<1>13. \A s \in Symbols :
         /\ s \in DOMAIN d.symbolTable => IsNewest(d.symbolTable[s], Definers(s, d))
         /\ s \notin DOMAIN d.symbolTable => Definers(s, d) = {}
  <2> TAKE s \in Symbols
  <2>1. CASE s \in Defines[c] \cup Exports[c]
    <3>1. d.symbolTable[s] = n /\ s \in DOMAIN d.symbolTable
      BY <2>1, <1>8
    <3>2. Definers(s, d) = Definers(s, e) \cup {n}
      BY <2>1, <1>10
    <3>3. \A j \in Definers(s, e) \cup {n} : j <= n
      BY <1>2, <1>5, <1>11
    <3>4. QED
      BY <3>1, <3>2, <3>3 DEF IsNewest
  <2>2. CASE s \notin Defines[c] \cup Exports[c]
    BY <2>2, <1>8, <1>10, <1>12
  <2>3. QED
    BY <2>1, <2>2
<1>14. \A s \in Symbols :
         /\ s \in DOMAIN d.exported => IsNewest(d.exported[s], Exporters(s, d))
         /\ s \notin DOMAIN d.exported => Exporters(s, d) = {}
  <2> TAKE s \in Symbols
  <2>1. CASE s \in Exports[c]
    <3>1. d.exported[s] = n /\ s \in DOMAIN d.exported
      BY <2>1, <1>9
    <3>2. Exporters(s, d) = Exporters(s, e) \cup {n}
      BY <2>1, <1>10
    <3>3. \A j \in Exporters(s, e) \cup {n} : j <= n
      BY <1>2, <1>5, <1>11
    <3>4. QED
      BY <3>1, <3>2, <3>3 DEF IsNewest
  <2>2. CASE s \notin Exports[c]
    BY <2>2, <1>9, <1>10, <1>12
  <2>3. QED
    BY <2>1, <2>2
<1>15. TablesAreNewest(d)
  BY <1>13, <1>14 DEF TablesAreNewest, IsTable
<1>16. QED
  BY <1>4, <1>5, <1>6, <1>7, <1>8, <1>9, <1>10, <1>15

\* The links after the step.
LEMMA IngestedLinks ==
  ASSUME NEW e, NEW d, NEW n, NEW c \in Contents, EngineInv(e), Ingested(e, d, n, c)
  PROVE  d.links \subseteq Link /\ ExactIn(d)
<1> USE GraphAssumption
<1>1. n \in Ids /\ n \in Int /\ Uses[c] \subseteq Symbols
  BY DEF Ingested, Ids
<1>2. /\ IsMap(d.linked, Ids, Contents) /\ DOMAIN d.linked = DOMAIN e.linked \cup {n}
      /\ d.linked[n] = c /\ n \notin DOMAIN e.linked
      /\ \A i \in DOMAIN e.linked : d.linked[i] = e.linked[i] /\ i \in Int /\ i < n
      /\ IsMap(d.symbolTable, Symbols, Ids) /\ IsMap(d.exported, Symbols, Ids)
  BY IngestedTables
<1>3. \A s \in Symbols :
         /\ Definers(s, d) \in {Definers(s, e), Definers(s, e) \cup {n}}
         /\ Exporters(s, d) \in {Exporters(s, e), Exporters(s, e) \cup {n}}
  <2> TAKE s \in Symbols
  <2>1. /\ Definers(s, d) = IF s \in Defines[c] \cup Exports[c]
                            THEN Definers(s, e) \cup {n} ELSE Definers(s, e)
        /\ Exporters(s, d) = IF s \in Exports[c]
                             THEN Exporters(s, e) \cup {n} ELSE Exporters(s, e)
    BY IngestedTables
  <2>2. QED
    BY <2>1
<1>4. \A s \in Symbols : Definers(s, e) \subseteq DOMAIN e.linked
                         /\ Exporters(s, e) \subseteq DOMAIN e.linked
  BY DEF Definers, Exporters
<1>5. \A s \in Symbols :
        /\ s \in DOMAIN e.symbolTable => IsNewest(e.symbolTable[s], Definers(s, e))
        /\ s \notin DOMAIN e.symbolTable => Definers(s, e) = {}
  BY DEF EngineInv, TablesAreNewest, IsTable
<1>6. \A s \in Symbols :
        /\ s \in DOMAIN d.exported => IsNewest(d.exported[s], Exporters(s, d))
        /\ s \notin DOMAIN d.exported => Exporters(s, d) = {}
  <2>1. TablesAreNewest(d)
    BY IngestedTables
  <2>2. QED
    BY <2>1 DEF TablesAreNewest, IsTable
<1>7. e.links \subseteq Link /\ IsMap(e.symbolTable, Symbols, Ids)
  BY DEF EngineInv, IsEngine
<1>8. LinksTo(n, Uses[c], e.symbolTable, FALSE) \subseteq Link
      /\ LinksTo(n, Uses[c], d.exported, TRUE) \subseteq Link
  <2>1. /\ \A s \in DOMAIN e.symbolTable : e.symbolTable[s] \in Ids
        /\ \A s \in DOMAIN d.exported : d.exported[s] \in Ids
    BY <1>2, <1>7 DEF IsMap
  <2>2. QED
    BY <1>1, <2>1, LinksAreTyped
<1>9. d.links \subseteq Link
  BY <1>7, <1>8 DEF Ingested
<1>10. \A l \in e.links : l.from \in DOMAIN e.linked
  BY <1>7 DEF EngineInv, ExactIn, CalledFor
<1>11. ASSUME NEW l \in Link
       PROVE  l \in d.links <=> CalledFor(l, d)
  <2>1. l.from \in Int /\ l.to \in Int /\ l.ffi \in BOOLEAN
        /\ l = [from |-> l.from, to |-> l.to, ffi |-> l.ffi]
    BY DEF Link, Ids
  <2>2. CASE l.from = n /\ ~l.ffi
    <3>1. l \in d.links <=> \E s \in Uses[c] \cap DOMAIN e.symbolTable :
                               e.symbolTable[s] # n /\ e.symbolTable[s] = l.to
      <4>1. l \notin e.links /\ l \notin LinksTo(n, Uses[c], d.exported, TRUE)
        BY <1>10, <1>2, <2>2 DEF LinksTo
      <4>2. l \in d.links <=> l \in LinksTo(n, Uses[c], e.symbolTable, FALSE)
        BY <4>1 DEF Ingested
      <4>3. l = [from |-> n, to |-> l.to, ffi |-> FALSE]
        BY <2>1, <2>2
      <4>4. QED
        BY <4>2, <4>3 DEF LinksTo
    <3>2. CalledFor(l, d) <=> \E s \in Uses[c] : IsNewest(l.to, UpTo(n - 1, Definers(s, d)))
      BY <2>2, <1>2 DEF CalledFor
    <3>3. \A s \in Uses[c] : UpTo(n - 1, Definers(s, d)) = Definers(s, e)
      <4> TAKE s \in Uses[c]
      <4>1. Definers(s, d) \in {Definers(s, e), Definers(s, e) \cup {n}}
        BY <1>1, <1>3
      <4>2. \A i \in Definers(s, e) : i <= n - 1
        BY <1>1, <1>2, <1>4
      <4>3. ~(n <= n - 1)
        BY <1>1
      <4>4. QED
        BY <4>1, <4>2, <4>3 DEF UpTo
    <3>4. \A s \in Uses[c] :
             IsNewest(l.to, Definers(s, e)) <=>
               s \in DOMAIN e.symbolTable /\ e.symbolTable[s] # n /\ e.symbolTable[s] = l.to
      <4> TAKE s \in Uses[c]
      <4>1. s \in Symbols /\ Definers(s, e) \subseteq Ids
        BY <1>1, <1>4 DEF EngineInv, IsEngine, IsMap
      <4>2. CASE s \notin DOMAIN e.symbolTable
        BY <4>2, <4>1, <1>5 DEF IsNewest
      <4>3. CASE s \in DOMAIN e.symbolTable
        <5>1. IsNewest(e.symbolTable[s], Definers(s, e))
          BY <4>1, <4>3, <1>5
        <5>2. e.symbolTable[s] # n
          BY <5>1, <1>2, <1>4, <4>1 DEF IsNewest
        <5>3. IsNewest(l.to, Definers(s, e)) => e.symbolTable[s] = l.to
          BY <4>1, <5>1, NewestIsOne
        <5>4. QED
          BY <4>3, <5>1, <5>2, <5>3
      <4>4. QED
        BY <4>2, <4>3
    <3>5. QED
      BY <3>1, <3>2, <3>3, <3>4
  <2>3. CASE l.from = n /\ l.ffi
    <3>1. l \in d.links <=> \E s \in Uses[c] \cap DOMAIN d.exported :
                               d.exported[s] # n /\ d.exported[s] = l.to
      <4>1. l \notin e.links /\ l \notin LinksTo(n, Uses[c], e.symbolTable, FALSE)
        BY <1>10, <1>2, <2>3 DEF LinksTo
      <4>2. l \in d.links <=> l \in LinksTo(n, Uses[c], d.exported, TRUE)
        BY <4>1 DEF Ingested
      <4>3. l = [from |-> n, to |-> l.to, ffi |-> TRUE]
        BY <2>1, <2>3
      <4>4. QED
        BY <4>2, <4>3 DEF LinksTo
    <3>2. CalledFor(l, d) <=>
             \E s \in Uses[c] : n # l.to /\ IsNewest(l.to, UpTo(n, Exporters(s, d)))
      BY <2>3, <1>2 DEF CalledFor
    <3>3. \A s \in Uses[c] : UpTo(n, Exporters(s, d)) = Exporters(s, d)
                             /\ Exporters(s, d) \subseteq Ids
      <4> TAKE s \in Uses[c]
      <4>1. Exporters(s, d) \in {Exporters(s, e), Exporters(s, e) \cup {n}}
        BY <1>1, <1>3
      <4>2. \A i \in Exporters(s, e) \cup {n} : i <= n
        BY <1>1, <1>2, <1>4
      <4>3. Exporters(s, e) \cup {n} \subseteq Ids
        BY <1>1, <1>4 DEF EngineInv, IsEngine, IsMap
      <4>4. QED
        BY <4>1, <4>2, <4>3 DEF UpTo
    <3>4. \A s \in Uses[c] :
             n # l.to /\ IsNewest(l.to, Exporters(s, d)) <=>
               s \in DOMAIN d.exported /\ d.exported[s] # n /\ d.exported[s] = l.to
      <4> TAKE s \in Uses[c]
      <4>1. s \in Symbols
        BY <1>1
      <4>2. CASE s \notin DOMAIN d.exported
        BY <4>2, <4>1, <1>6 DEF IsNewest
      <4>3. CASE s \in DOMAIN d.exported
        <5>1. IsNewest(d.exported[s], Exporters(s, d))
          BY <4>1, <4>3, <1>6
        <5>2. IsNewest(l.to, Exporters(s, d)) => d.exported[s] = l.to
          BY <3>3, <5>1, NewestIsOne
        <5>3. QED
          BY <4>3, <5>1, <5>2
      <4>4. QED
        BY <4>2, <4>3
    <3>5. QED
      BY <3>1, <3>2, <3>3, <3>4
  <2>4. CASE l.from # n
    <3>1. l \in d.links <=> l \in e.links
      BY <2>4 DEF Ingested, LinksTo
    <3>2. CalledFor(l, d) <=> CalledFor(l, e)
      <4>1. CASE l.from \notin DOMAIN e.linked
        BY <4>1, <2>4, <1>2 DEF CalledFor
      <4>2. CASE l.from \in DOMAIN e.linked
        <5>1. d.linked[l.from] = e.linked[l.from] /\ l.from < n
          BY <4>2, <1>2
        <5>2. Uses[e.linked[l.from]] \subseteq Symbols
          BY <4>2 DEF EngineInv, IsEngine, IsMap
        <5>3. \A s \in Symbols :
                 /\ UpTo(l.from, Exporters(s, d)) = UpTo(l.from, Exporters(s, e))
                 /\ UpTo(l.from - 1, Definers(s, d)) = UpTo(l.from - 1, Definers(s, e))
          <6> TAKE s \in Symbols
          <6>1. ~(n <= l.from) /\ ~(n <= l.from - 1)
            BY <5>1, <2>1, <1>1
          <6>2. QED
            BY <6>1, <1>3 DEF UpTo
        <5>4. QED
          BY <5>1, <5>2, <5>3, <1>2, <4>2 DEF CalledFor
      <4>3. QED
        BY <4>1, <4>2
    <3>3. QED
      BY <3>1, <3>2 DEF EngineInv, ExactIn
  <2>5. QED
    BY <2>1, <2>2, <2>3, <2>4
<1>12. QED
  BY <1>9, <1>11 DEF ExactIn
-----------------------------------------------------------------------------
\* Links lead to fragments that came before.
LeadBack(edges) == \A l \in edges : l.to < l.from

LEMMA ExactLinksLeadBack ==
  ASSUME NEW e, e.links \subseteq Link, ExactIn(e)
  PROVE  LeadBack(e.links)
<1>1. ASSUME NEW l \in e.links
      PROVE  l.to < l.from
  <2>1. l \in Link /\ CalledFor(l, e)
    BY DEF ExactIn
  <2>2. l.from \in Int /\ l.to \in Int
    BY <2>1 DEF Link, Ids
  <2>3. PICK s \in Uses[e.linked[l.from]] :
           IF l.ffi
           THEN l.from # l.to /\ IsNewest(l.to, UpTo(l.from, Exporters(s, e)))
           ELSE IsNewest(l.to, UpTo(l.from - 1, Definers(s, e)))
    BY <2>1 DEF CalledFor
  <2>4. CASE l.ffi
    BY <2>2, <2>3, <2>4 DEF IsNewest, UpTo
  <2>5. CASE ~l.ffi
    BY <2>2, <2>3, <2>5 DEF IsNewest, UpTo
  <2>6. QED
    BY <2>4, <2>5
<1>2. QED
  BY <1>1 DEF LeadBack

\* Nothing leads to the newest fragment, so its closure is itself.
LEMMA ClosureOfTheNewest ==
  ASSUME NEW n \in Ids, NEW edges \in SUBSET Link, LeadBack(edges),
         \A l \in edges : l.from <= n
  PROVE  StaleClosure(n, edges) = {n}
<1>1. \A l \in edges : l.to # n
  BY GraphAssumption DEF LeadBack, Link, Ids
<1>2. WithDependents({n}, edges) = {n}
  BY <1>1 DEF WithDependents
<1>3. QED
  BY <1>2 DEF StaleClosure

\* What a step of Ingest does to the engine.
LEMMA IngestStep ==
  ASSUME GraphInv, NEW c \in Contents, Ingest(c)
  PROVE  EngineInv(Whole)'
<1> USE GraphAssumption
<1>1. PICK e : e = Whole /\ EngineInv(e)
  BY DEF GraphInv
<1>2. PICK d : d = Whole'
  OBVIOUS
<1>3. PICK n : n = idCounter'
  OBVIOUS
<1>4. /\ e.fragments = fragments /\ e.linked = linked /\ e.links = links
      /\ e.symbolTable = symbolTable /\ e.exported = exported
      /\ e.idCounter = idCounter /\ e.memo = memo
  BY <1>1 DEF Whole
<1>5. /\ d.fragments = fragments' /\ d.linked = linked' /\ d.links = links'
      /\ d.symbolTable = symbolTable' /\ d.exported = exported'
      /\ d.idCounter = idCounter' /\ d.memo = memo'
  BY <1>2 DEF Whole
<1>6. idCounter \in 0 .. MaxIds
  BY <1>1, <1>4 DEF EngineInv, IsEngine
<1>7. n = idCounter + 1 /\ n \in Ids
  BY <1>3, <1>6 DEF Ingest, NextId, Ids
<1>8. Ingested(e, d, n, c)
  <2>1. /\ linked' = Bind(linked, {n}, c)
        /\ symbolTable' = Bind(symbolTable, Defines[c] \cup Exports[c], n)
        /\ exported' = Bind(exported, Exports[c], n)
        /\ links' = links \cup LinksTo(n, Uses[c], symbolTable, FALSE)
                          \cup LinksTo(n, Uses[c], exported', TRUE)
    BY <1>3 DEF Ingest, AutoLink
  <2>2. QED
    BY <2>1, <1>3, <1>4, <1>5, <1>7 DEF Ingested
<1>9. TablesAreNewest(d) /\ IsMap(d.symbolTable, Symbols, Ids) /\ IsMap(d.exported, Symbols, Ids)
      /\ IsMap(d.linked, Ids, Contents) /\ DOMAIN d.linked = DOMAIN e.linked \cup {n}
  BY <1>1, <1>8, IngestedTables
<1>10. d.links \subseteq Link /\ ExactIn(d)
  BY <1>1, <1>8, IngestedLinks
<1>11. /\ IsMap(d.fragments, Ids, Contents \cup {Stub})
       /\ DOMAIN d.fragments = DOMAIN e.fragments \cup {n}
  <2>1. fragments' = Bind(fragments, {n}, c)
    BY <1>3 DEF Ingest
  <2>2. IsMap(fragments, Ids, Contents \cup {Stub})
    BY <1>1, <1>4 DEF EngineInv, IsEngine
  <2>3. QED
    BY <2>1, <2>2, <1>4, <1>5, <1>7 DEF Bind, IsMap
<1>12. \A i \in DOMAIN d.fragments \cup DOMAIN d.linked : i <= n
  <2>1. \A i \in DOMAIN e.fragments \cup DOMAIN e.linked : i \in Int /\ i <= idCounter
    BY <1>1, <1>4 DEF EngineInv, IsEngine, IsMap, Ids
  <2>2. QED
    BY <2>1, <1>9, <1>11, <1>7, <1>6
<1>13. /\ \A l \in d.links : l.to < l.from /\ l.from <= n
       /\ StaleClosure(n, d.links) = {n}
  <2>1. \A l \in d.links : l.from <= n
    BY <1>10, <1>12 DEF ExactIn, CalledFor
  <2>2. LeadBack(d.links)
    BY <1>10, ExactLinksLeadBack
  <2>3. QED
    BY <2>1, <2>2, <1>7, <1>10, ClosureOfTheNewest DEF LeadBack
<1>14. memo' = memo
  <2>1. memo' = {[a EXCEPT !.worn = @ \/ a.frags \cap {n} # {}] : a \in memo}
    BY <1>3, <1>5, <1>13 DEF Ingest, Wear
  <2>2. ASSUME NEW a \in memo
        PROVE  [a EXCEPT !.worn = @ \/ a.frags \cap {n} # {}] = a
    <3>1. a \in Answer /\ a.frags \cap {n} = {}
      BY <1>1, <1>4, <1>6, <1>7 DEF EngineInv, IsEngine, AnswersAreOld
    <3>2. PICK w \in BOOLEAN : w = (a.worn \/ a.frags \cap {n} # {})
      BY Zenon
    <3>3. a.worn \in BOOLEAN
      BY <3>1 DEF Answer
    <3>4. w = a.worn
      BY <3>1, <3>2, <3>3
    <3>5. [a EXCEPT !.worn = w] = a
      BY <3>1, <3>4 DEF Answer
    <3>6. QED
      BY <3>2, <3>5
  <2>3. QED
    BY <2>1, <2>2
<1>15. EngineInv(d)
  <2>1. d.idCounter \in 0 .. MaxIds
    BY <1>3, <1>5, <1>7 DEF Ids
  <2>2. d.memo \subseteq Answer /\ AnswersAreOld(d)
    <3>1. \A a \in memo : a \in Answer /\ \A i \in a.frags : i \in Int /\ i <= idCounter
      BY <1>1, <1>4 DEF EngineInv, IsEngine, AnswersAreOld, Answer, Ids
    <3>2. QED
      BY <3>1, <1>3, <1>5, <1>6, <1>7, <1>14 DEF AnswersAreOld
  <2>3. IsEngine(d)
    BY <2>1, <2>2, <1>3, <1>5, <1>9, <1>10, <1>11, <1>12 DEF IsEngine
  <2>4. QED
    BY <2>2, <2>3, <1>9, <1>10 DEF EngineInv
<1>16. QED
  BY <1>2, <1>15

\* Steps that leave the graph as it is.
LEMMA QuietStep ==
  ASSUME GraphInv, UNCHANGED <<linked, links, symbolTable, exported>>,
         idCounter' \in 0 .. MaxIds, idCounter <= idCounter',
         IsMap(fragments', Ids, Contents \cup {Stub}),
         \A i \in DOMAIN fragments' : i <= idCounter',
         \A a \in memo' : a \in Answer /\ \A i \in a.frags : i <= idCounter'
  PROVE  EngineInv(Whole)'
<1>1. PICK e : e = Whole /\ EngineInv(e)
  BY DEF GraphInv
<1>2. PICK d : d = Whole'
  OBVIOUS
<1>3. /\ d.linked = e.linked /\ d.links = e.links /\ d.symbolTable = e.symbolTable
      /\ d.exported = e.exported /\ e.idCounter = idCounter
      /\ d.idCounter = idCounter' /\ d.fragments = fragments' /\ d.memo = memo'
  BY <1>1, <1>2 DEF Whole
<1>4. d.memo \subseteq Answer /\ AnswersAreOld(d)
  BY <1>3 DEF AnswersAreOld
<1>5. EngineInv(d)
  BY <1>1, <1>3, <1>4, GraphUntouched
<1>6. QED
  BY <1>2, <1>5

\* What the invariant says of the variables.
LEMMA WhatTheInvariantSays ==
  ASSUME GraphInv
  PROVE  /\ IsMap(fragments, Ids, Contents \cup {Stub}) /\ idCounter \in 0 .. MaxIds
         /\ \A i \in DOMAIN fragments : i \in Ids /\ i <= idCounter
         /\ \A a \in memo : a \in Answer /\ \A i \in a.frags : i \in Ids /\ i <= idCounter
<1>1. PICK e : e = Whole /\ EngineInv(e)
  BY DEF GraphInv
<1>2. e.fragments = fragments /\ e.idCounter = idCounter /\ e.memo = memo
  BY <1>1 DEF Whole
<1>3. QED
  BY <1>1, <1>2 DEF EngineInv, IsEngine, IsMap, AnswersAreOld, Answer

LEMMA InvariantHolds == GraphSpec => []GraphInv
<1> USE GraphAssumption
<1>1. ASSUME GraphInit
      PROVE  GraphInv
  <2>1. PICK e : e = Whole
    OBVIOUS
  <2>2. EngineInv(e)
    BY <1>1, <2>1, EmptyEngine DEF GraphInit, Whole
  <2>3. QED
    BY <1>1, <2>1, <2>2 DEF GraphInit, GraphInv
<1>2. ASSUME GraphInv, [GraphNext]_graphVars
      PROVE  GraphInv'
  <2>1. /\ IsMap(fragments, Ids, Contents \cup {Stub}) /\ idCounter \in 0 .. MaxIds
        /\ \A i \in DOMAIN fragments : i \in Ids /\ i <= idCounter
        /\ \A a \in memo : a \in Answer /\ \A i \in a.frags : i \in Ids /\ i <= idCounter
    BY <1>2, WhatTheInvariantSays
  <2>2. NextId => /\ idCounter' = idCounter + 1 /\ idCounter' \in Ids
                  /\ idCounter' \in 0 .. MaxIds /\ idCounter <= idCounter'
                  /\ \A i \in Ids : i <= idCounter => i <= idCounter'
    BY <2>1 DEF NextId, Ids
  <2>3. \A s \in saved : EngineInv(s)
    BY <1>2 DEF GraphInv
  <2>4. CASE \E c \in Contents : Ingest(c)
    <3>1. PICK c \in Contents : Ingest(c)
      BY <2>4
    <3>2. EngineInv(Whole)'
      BY <1>2, <3>1, IngestStep
    <3>3. saved' = saved
      BY <3>1 DEF Ingest
    <3>4. QED
      BY <2>3, <3>2, <3>3 DEF GraphInv
  <2>5. CASE \E c \in Contents : IngestDuplicate(c)
    <3>1. PICK c \in Contents : IngestDuplicate(c)
      BY <2>5
    <3>2. UNCHANGED <<fragments, linked, links, symbolTable, exported, saved>> /\ NextId
          /\ memo' \subseteq memo
      BY <3>1 DEF IngestDuplicate
    <3>3. EngineInv(Whole)'
      BY <1>2, <2>1, <2>2, <3>2, QuietStep
    <3>4. QED
      BY <2>3, <3>2, <3>3 DEF GraphInv
  <2>6. CASE \E c \in Contents : \E gone \in {{}} \cup {{i} : i \in Stubs} : BatchIngest(c, gone)
    <3>1. PICK c \in Contents, gone \in {{}} \cup {{i} : i \in Stubs} : BatchIngest(c, gone)
      BY <2>6
    <3>2. /\ UNCHANGED <<linked, links, symbolTable, exported, saved>> /\ NextId /\ memo' = {}
          /\ fragments' = Bind(Restrict(fragments, DOMAIN fragments \ gone), {idCounter'}, c)
      BY <3>1 DEF BatchIngest
    <3>3. IsMap(fragments', Ids, Contents \cup {Stub})
          /\ DOMAIN fragments' \subseteq DOMAIN fragments \cup {idCounter'}
      BY <2>1, <2>2, <3>2 DEF Bind, Restrict, IsMap
    <3>4. \A i \in DOMAIN fragments' : i <= idCounter'
      <4>1. \A i \in DOMAIN fragments : i <= idCounter'
        BY <2>1, <2>2, <3>2
      <4>2. idCounter' <= idCounter'
        BY <2>2, <3>2 DEF Ids
      <4>3. QED
        BY <3>3, <4>1, <4>2
    <3>5. EngineInv(Whole)'
      BY <1>2, <2>2, <3>2, <3>3, <3>4, QuietStep
    <3>6. QED
      BY <2>3, <3>2, <3>5 DEF GraphInv
  <2>7. CASE IngestStub
    <3>1. /\ UNCHANGED <<linked, links, symbolTable, exported, memo, saved>> /\ NextId
          /\ fragments' = Bind(fragments, {idCounter'}, Stub)
      BY <2>7 DEF IngestStub
    <3>2. IsMap(fragments', Ids, Contents \cup {Stub})
          /\ DOMAIN fragments' \subseteq DOMAIN fragments \cup {idCounter'}
      BY <2>1, <2>2, <3>1 DEF Bind, IsMap
    <3>3. \A i \in DOMAIN fragments' : i <= idCounter'
      BY <2>1, <2>2, <3>1, <3>2
    <3>4. EngineInv(Whole)'
      BY <1>2, <2>1, <2>2, <3>1, <3>2, <3>3, QuietStep
    <3>5. QED
      BY <2>3, <3>1, <3>4 DEF GraphInv
  <2>8. CASE \E gone \in SUBSET DOMAIN fragments : AdvanceTurn(gone)
    <3>1. PICK gone : AdvanceTurn(gone)
      BY <2>8
    <3>2. /\ UNCHANGED <<linked, links, symbolTable, exported, idCounter, saved>>
          /\ fragments' = Restrict(fragments, DOMAIN fragments \ gone)
          /\ memo' \subseteq memo
      BY <3>1 DEF AdvanceTurn
    <3>3. IsMap(fragments', Ids, Contents \cup {Stub}) /\ DOMAIN fragments' \subseteq DOMAIN fragments
      BY <2>1, <3>2 DEF Restrict, IsMap
    <3>4. idCounter' = idCounter /\ idCounter \in Int /\ idCounter <= idCounter'
      BY <2>1, <3>2
    <3>5. /\ \A i \in DOMAIN fragments' : i <= idCounter'
          /\ \A a \in memo' : a \in Answer /\ \A i \in a.frags : i <= idCounter'
      BY <2>1, <3>2, <3>3, <3>4
    <3>6. EngineInv(Whole)'
      BY <1>2, <2>1, <3>2, <3>3, <3>4, <3>5, QuietStep
    <3>7. QED
      BY <2>3, <3>2, <3>6 DEF GraphInv
  <2>9. CASE Optimize
    <3>1. /\ UNCHANGED <<fragments, linked, links, symbolTable, exported, idCounter, saved>>
          /\ memo' = {[frags |-> DOMAIN fragments, worn |-> FALSE]}
      BY <2>9 DEF Optimize
    <3>2. \A a \in memo' : a \in Answer /\ \A i \in a.frags : i <= idCounter
      <4>1. DOMAIN fragments \in SUBSET Ids
        BY <2>1
      <4>2. PICK S \in SUBSET Ids : S = DOMAIN fragments
        BY <4>1
      <4>3. [frags |-> S, worn |-> FALSE] \in Answer
        BY DEF Answer
      <4>4. memo' = {[frags |-> S, worn |-> FALSE]}
        BY <3>1, <4>2
      <4>5. \A i \in S : i <= idCounter
        BY <2>1, <4>2
      <4>6. ASSUME NEW a \in memo'
            PROVE  a \in Answer /\ \A i \in a.frags : i <= idCounter
        <5>1. a = [frags |-> S, worn |-> FALSE]
          BY <4>4
        <5>2. a.frags = S
          BY <5>1
        <5>3. QED
          BY <4>3, <4>5, <5>1, <5>2
      <4>7. QED
        BY <4>6
    <3>3. EngineInv(Whole)'
      BY <1>2, <2>1, <3>1, <3>2, QuietStep
    <3>4. QED
      BY <2>3, <3>1, <3>3 DEF GraphInv
  <2>10. CASE ExportState
    <3>1. Whole' = Whole /\ saved' = {Whole}
      BY <2>10 DEF ExportState, Whole
    <3>2. PICK e : e = Whole /\ EngineInv(e)
      BY <1>2 DEF GraphInv
    <3>3. Whole' = e /\ saved' = {e}
      BY <3>1, <3>2
    <3>4. QED
      BY <3>2, <3>3 DEF GraphInv
  <2>11. CASE ImportState
    <3>1. PICK s \in saved :
             /\ fragments' = s.fragments /\ linked' = s.linked /\ links' = s.links
             /\ symbolTable' = s.symbolTable /\ exported' = s.exported
             /\ idCounter' = s.idCounter /\ memo' = s.memo /\ saved' = saved
      BY <2>11 DEF ImportState
    <3>2. PICK d : d = Whole'
      OBVIOUS
    <3>3. /\ d.fragments = s.fragments /\ d.linked = s.linked /\ d.links = s.links
          /\ d.symbolTable = s.symbolTable /\ d.exported = s.exported
          /\ d.idCounter = s.idCounter /\ d.memo = s.memo
      BY <3>1, <3>2 DEF Whole
    <3>4. EngineInv(s) /\ AnswersAreOld(d)
      BY <2>3, <3>3 DEF EngineInv, AnswersAreOld
    <3>5. EngineInv(d)
      <4>1. /\ s.idCounter \in 0 .. MaxIds /\ s.idCounter <= d.idCounter
            /\ d.memo \subseteq Answer /\ IsMap(d.fragments, Ids, Contents \cup {Stub})
            /\ \A i \in DOMAIN d.fragments : i <= d.idCounter
        BY <3>3, <3>4 DEF EngineInv, IsEngine
      <4>2. QED
        BY <3>3, <3>4, <4>1, GraphUntouched
    <3>6. QED
      BY <2>3, <3>1, <3>2, <3>5 DEF GraphInv
  <2>12. CASE Restart
    <3>1. PICK d : d = Whole'
      OBVIOUS
    <3>2. EngineInv(d)
      BY <2>12, <3>1, EmptyEngine DEF Restart, Whole
    <3>3. QED
      BY <2>3, <2>12, <3>1, <3>2 DEF Restart, GraphInv
  <2>13. CASE UNCHANGED graphVars
    <3>1. Whole' = Whole /\ saved' = saved
      BY <2>13 DEF graphVars, Whole
    <3>2. PICK e : e = Whole /\ EngineInv(e)
      BY <1>2 DEF GraphInv
    <3>3. QED
      BY <2>3, <3>1, <3>2 DEF GraphInv
  <2>14. QED
    BY <1>2, <2>4, <2>5, <2>6, <2>7, <2>8, <2>9, <2>10, <2>11, <2>12, <2>13 DEF GraphNext
<1>3. QED
  BY <1>1, <1>2, PTL DEF GraphSpec
-----------------------------------------------------------------------------
\* The graph keeps its types, in the engine and in what it exports, and no
\* fragment and no link has an id that is still to be handed out.
THEOREM GraphStaysTyped == GraphSpec => []GraphTypeOK
<1>1. GraphInv => GraphTypeOK
  BY DEF GraphInv, EngineInv, GraphTypeOK
<1>2. QED
  BY <1>1, InvariantHolds, PTL

\* The links are those that the order of the contents calls for, whatever is
\* evicted, exported and imported in between (auto_link).
THEOREM LinksStayExact == GraphSpec => []LinksAreExact
<1>1. ASSUME GraphInv
      PROVE  LinksAreExact
  <2>1. PICK e : e = Whole /\ EngineInv(e)
    BY <1>1 DEF GraphInv
  <2>2. e.links = links
    BY <2>1 DEF Whole
  <2>3. QED
    BY <2>1, <2>2 DEF EngineInv, ExactIn, LinksAreExact
<1>2. QED
  BY <1>1, InvariantHolds, PTL

\* Every link leads to a fragment that came before: there are no cycles, and
\* what orders fragments by their dependencies can order all of them
\* (semantic_interleave gives what is on a cycle no place of its own).
THEOREM LinksLeadBack == GraphSpec => []LeadBack(links)
<1>1. ASSUME GraphInv
      PROVE  LeadBack(links)
  <2>1. PICK e : e = Whole /\ EngineInv(e)
    BY <1>1 DEF GraphInv
  <2>2. e.links = links
    BY <2>1 DEF Whole
  <2>3. QED
    BY <2>1, <2>2, ExactLinksLeadBack DEF EngineInv, IsEngine
<1>2. QED
  BY <1>1, InvariantHolds, PTL
-----------------------------------------------------------------------------
(***************************************************************************)
(* The searches.  What a recursive function computes is proved without     *)
(* induction theorems: of the arguments at which a claim fails, if there   *)
(* are any, there is a least, and it is refuted.                           *)
(***************************************************************************)
LEMMA LeastOf ==
  ASSUME NEW T \in SUBSET Nat, T # {}
  PROVE  \E n \in T : \A m \in T : n <= m
<1>1. PICK n \in T : \A m \in T : <<m, n>> \notin OpToRel(<, Nat)
  BY NatLessThanWellFounded, WFMin
<1>2. ASSUME NEW m \in T PROVE ~(m < n)
  <2>1. m \in Nat /\ n \in Nat
    OBVIOUS
  <2> QED
    BY <1>1, <2>1 DEF OpToRel
<1>3. QED
  BY <1>2

\* The first N iterates of step from x0.
Iterates(f, X, x0, step, N) ==
    /\ f \in [0 .. N -> X]
    /\ f[0] = x0
    /\ \A n \in 1 .. N : f[n] = step[f[n - 1]]

LEMMA IterationExists ==
  ASSUME NEW X, NEW x0 \in X, NEW step \in [X -> X], NEW N \in Nat
  PROVE  \E f : Iterates(f, X, x0, step, N)
<1> DEFINE Has(m) == \E f : Iterates(f, X, x0, step, m)
           T == {m \in Nat : ~Has(m)}
<1>1. SUFFICES ASSUME T # {} PROVE FALSE
  OBVIOUS
<1>2. PICK m \in T : \A k \in T : m <= k
  <2> T \in SUBSET Nat
    OBVIOUS
  <2> HIDE DEF T
  <2> QED BY <1>1, LeastOf, SMT
<1>3. CASE m = 0
  <2> DEFINE f == [n \in 0 .. 0 |-> x0]
  <2>1. Iterates(f, X, x0, step, 0)
    BY DEF Iterates
  <2> QED
    BY <1>3, <2>1
<1>4. CASE m # 0
  <2>1. m \in Nat /\ m - 1 \in Nat /\ m - 1 \notin T
    BY <1>2, <1>4
  <2>2. PICK g : Iterates(g, X, x0, step, m - 1)
    BY <2>1
  <2> DEFINE f == [n \in 0 .. m |-> IF n = m THEN step[g[m - 1]] ELSE g[n]]
  <2>3. f \in [0 .. m -> X]
    <3>1. \A n \in 0 .. m - 1 : g[n] \in X
      BY <2>2 DEF Iterates
    <3>2. ASSUME NEW n \in 0 .. m PROVE f[n] \in X
      <4>1. CASE n = m
        <5>1. m - 1 \in 0 .. m - 1
          BY <2>1
        <5> QED
          BY <3>1, <4>1, <5>1
      <4>2. CASE n # m
        <5>1. n \in 0 .. m - 1
          BY <2>1, <4>2
        <5> QED
          BY <3>1, <4>2, <5>1
      <4> QED
        BY <4>1, <4>2
    <3> QED
      BY <3>2
  <2>4. f[0] = x0
    BY <1>4, <2>1, <2>2 DEF Iterates
  <2>5. ASSUME NEW n \in 1 .. m PROVE f[n] = step[f[n - 1]]
    <3>1. f[n - 1] = g[n - 1]
      BY <2>1
    <3>2. CASE n = m
      BY <3>1, <3>2
    <3>3. CASE n # m
      <4>1. n \in 1 .. m - 1 /\ f[n] = g[n]
        BY <2>1, <3>3
      <4> QED
        BY <2>2, <3>1, <4>1 DEF Iterates
    <3> QED
      BY <3>2, <3>3
  <2> HIDE DEF f
  <2>6. Iterates(f, X, x0, step, m)
    BY <2>3, <2>4, <2>5 DEF Iterates
  <2> QED
    BY <2>6
<1> QED
  BY <1>3, <1>4

LEMMA IterationIsOne ==
  ASSUME NEW X, NEW x0, NEW step, NEW N \in Nat, NEW f, Iterates(f, X, x0, step, N),
         NEW g, g[0] = x0,
         \A n \in 1 .. N : g[n - 1] \in X => g[n] = step[g[n - 1]]
  PROVE  \A n \in 0 .. N : g[n] = f[n]
<1> DEFINE T == {n \in 0 .. N : g[n] # f[n]}
<1>1. CASE T # {}
  <2>1. PICK n \in T : \A m \in T : n <= m
    <3> T \in SUBSET Nat
      OBVIOUS
    <3> HIDE DEF T
    <3> QED BY <1>1, LeastOf, SMT
  <2>2. n # 0
    BY DEF Iterates
  <2>3. n - 1 \in 0 .. N /\ n \in 1 .. N /\ n - 1 \notin T
    BY <2>1, <2>2
  <2>4. g[n - 1] = f[n - 1] /\ f[n - 1] \in X
    BY <2>3 DEF Iterates
  <2> QED
    BY <2>3, <2>4 DEF Iterates
<1>2. CASE T = {}
  BY <1>2
<1> QED
  BY <1>1, <1>2
-----------------------------------------------------------------------------
\* R[k] is what can be reached in k steps from S.
Reaches(R, S, leads, n) ==
    /\ R \in [0 .. n -> SUBSET Ids]
    /\ R[0] = S
    /\ \A k \in 1 .. n : R[k] = R[k - 1] \cup UNION {leads[i] : i \in R[k - 1]}

LEMMA WithinReaches ==
  ASSUME NEW S \in SUBSET Ids, NEW leads \in [Ids -> SUBSET Ids], NEW n \in Nat
  PROVE  \E R : Reaches(R, S, leads, n) /\ Within(S, n, leads) = R[n]
<1> DEFINE More(T) == T \cup UNION {leads[i] : i \in T}
           step == [T \in SUBSET Ids |-> More(T)]
<1>1. step \in [SUBSET Ids -> SUBSET Ids]
  OBVIOUS
<1>2. PICK f : Iterates(f, SUBSET Ids, S, step, n)
  <2> HIDE DEF step
  <2> QED BY <1>1, IterationExists
<1>3. f \in [0 .. n -> SUBSET Ids] /\ f[0] = S
  BY <1>2 DEF Iterates
<1>4. ASSUME NEW k \in 1 .. n PROVE f[k] = More(f[k - 1])
  <2>1. f[k - 1] \in SUBSET Ids
    <3>1. k - 1 \in 0 .. n
      OBVIOUS
    <3> QED
      BY <1>3, <3>1
  <2>2. f[k] = step[f[k - 1]]
    BY <1>2 DEF Iterates
  <2> QED
    BY <2>1, <2>2
<1>5. f = [k \in 0 .. n |-> IF k = 0 THEN S ELSE More(f[k - 1])]
  <2>1. \A k \in 0 .. n : f[k] = IF k = 0 THEN S ELSE More(f[k - 1])
    <3> TAKE k \in 0 .. n
    <3>1. CASE k = 0
      BY <1>3, <3>1
    <3>2. CASE k # 0
      <4>1. k \in 1 .. n
        BY <3>2
      <4> HIDE DEF More
      <4> QED BY <1>4, <3>2, <4>1
    <3> QED
      BY <3>1, <3>2
  <2> HIDE DEF More
  <2> QED
    BY <1>3, <2>1
<1> DEFINE g == CHOOSE h : h = [k \in 0 .. n |-> IF k = 0 THEN S ELSE More(h[k - 1])]
<1>6. g = [k \in 0 .. n |-> IF k = 0 THEN S ELSE More(g[k - 1])]
  <2> HIDE DEF More
  <2> QED BY <1>5
<1>7. Within(S, n, leads) = g[n]
  BY DEF Within
<1>8. g[n] = f[n]
  <2> HIDE DEF g
  <2>1. g[0] = S /\ \A k \in 1 .. n : g[k] = More(g[k - 1])
    <3> HIDE DEF More
    <3> QED BY <1>6
  <2>3. \A k \in 1 .. n : g[k - 1] \in SUBSET Ids => g[k] = step[g[k - 1]]
    BY <2>1
  <2> DEFINE X == SUBSET Ids
  <2>4. Iterates(f, X, S, step, n) /\ \A k \in 1 .. n : g[k - 1] \in X => g[k] = step[g[k - 1]]
    BY <1>2, <2>3
  <2>5. g[0] = S
    BY <2>1
  <2> HIDE DEF step, More, X
  <2> QED
    <3>1. \A k \in 0 .. n : g[k] = f[k]
      BY <2>4, <2>5, IterationIsOne
    <3> QED BY <3>1
<1>9. Reaches(f, S, leads, n)
  BY <1>3, <1>4 DEF Reaches
<1> HIDE DEF g
<1> QED
  BY <1>7, <1>8, <1>9
-----------------------------------------------------------------------------
(***************************************************************************)
(* The queue.                                                              *)
(***************************************************************************)
IdsOf(q) == {q[k].id : k \in DOMAIN q}

IdsAt(q, d) == {q[k].id : k \in {j \in DOMAIN q : q[j].depth = d}}

Distinct(q) == \A j, k \in DOMAIN q : j # k => q[j].id # q[k].id

LEMMA IdsAreFinite == IsFiniteSet(Ids) /\ Cardinality(Ids) = MaxIds /\ MaxIds \in Nat
<1>1. MaxIds \in Nat
  BY GraphAssumption
<1>2. QED
  BY <1>1, FS_Interval DEF Ids

\* A set made a sequence has each of its members once.
LEMMA SequenceOfSet ==
  ASSUME NEW E, IsFiniteSet(E)
  PROVE  /\ SetToSeq(E) \in Seq(E)
         /\ \A e \in E : \E k \in DOMAIN SetToSeq(E) : SetToSeq(E)[k] = e
         /\ \A j, k \in DOMAIN SetToSeq(E) : j # k => SetToSeq(E)[j] # SetToSeq(E)[k]
<1> DEFINE n == Cardinality(E)
           D == 1 .. n
           s == SetToSeq(E)
<1>1. n \in Nat
  BY FS_CardinalityType
<1>2. PICK g \in [D -> E] : IsInjective(g)
  <2>4. PICK g : g \in Bijection(D, E)
    <3>1. ExistsBijection(D, E)
      BY FS_CardinalityType
    <3> HIDE DEF D, n
    <3> QED BY <3>1 DEF ExistsBijection
  <2>5. g \in [D -> E] /\ \A x, y \in D : g[x] = g[y] => x = y
    <3> HIDE DEF D, n
    <3> QED BY <2>4 DEF Bijection, Injection, IsInjective
  <2>6. IsInjective(g)
    <3> HIDE DEF D, n
    <3> QED BY <2>5 DEF IsInjective
  <2> QED
    BY <2>5, <2>6
<1>3. s \in [D -> E] /\ IsInjective(s)
  <2>1. s = CHOOSE f \in [D -> E] : IsInjective(f)
    BY DEF SetToSeq
  <2> HIDE DEF D, n, s
  <2> QED BY <1>2, <2>1
<1>4. DOMAIN s = D /\ \A j, k \in D : j # k => s[j] # s[k]
  <2> HIDE DEF D, n, s
  <2> QED BY <1>3 DEF IsInjective
<1>5. s \in Seq(E)
  <2> HIDE DEF s
  <2> QED BY <1>1, <1>3
<1>6. ASSUME NEW e \in E, \A k \in D : s[k] # e PROVE FALSE
  <2>1. IsFiniteSet(E \ {e}) /\ Cardinality(E \ {e}) = n - 1
    BY FS_RemoveElement
  <2>2. IsFiniteSet(D) /\ Cardinality(D) = n
    BY <1>1, FS_Interval
  <2> HIDE DEF D, n, s
  <2>3. s \in [D -> E \ {e}]
    BY <1>3, <1>6
  <2> QED
    BY <1>1, <1>4, <2>1, <2>2, <2>3, FS_PigeonHole
<1> HIDE DEF D, n, s
<1>7. \A e \in E : \E k \in DOMAIN s : s[k] = e
  BY <1>4, <1>6
<1>8. QED
  BY <1>4, <1>5, <1>7 DEF s

LEMMA QueuedOnce ==
  ASSUME NEW S \in SUBSET Ids, NEW d \in Nat, NEW r, r = Queued(S, d)
  PROVE  /\ r \in Seq(Node)
         /\ IdsOf(r) = S
         /\ \A k \in DOMAIN r : r[k].depth = d
         /\ Distinct(r)
<1> DEFINE node(i) == [id |-> i, depth |-> d]
           E == {node(i) : i \in S}
<1>1. IsFiniteSet(E)
  <2>1. IsFiniteSet(S)
    BY IdsAreFinite, FS_Subset
  <2> DEFINE f == [i \in S |-> node(i)]
  <2>2. f \in Surjection(S, E)
    BY DEF Surjection
  <2> HIDE DEF f, E
  <2> QED BY <2>1, <2>2, FS_Surjection
<1>2. r = SetToSeq(E)
  BY DEF Queued
<1>3. E \subseteq Node /\ \A e \in E : e.id \in S /\ e.depth = d /\ e = node(e.id)
  BY DEF Node
<1>4. \A i \in S : \E e \in E : e.id = i
  <2> TAKE i \in S
  <2> WITNESS node(i) \in E
  <2> QED OBVIOUS
<1> HIDE DEF E
<1>5. /\ r \in Seq(E)
      /\ \A e \in E : \E k \in DOMAIN r : r[k] = e
      /\ \A j, k \in DOMAIN r : j # k => r[j] # r[k]
  BY <1>1, <1>2, SequenceOfSet
<1>6. \A k \in DOMAIN r : r[k] \in E
  BY <1>5
<1>7. r \in Seq(Node)
  BY <1>3, <1>5
<1>8. IdsOf(r) = S
  <2>1. IdsOf(r) \subseteq S
    BY <1>3, <1>6 DEF IdsOf
  <2>2. ASSUME NEW i \in S PROVE i \in IdsOf(r)
    <3>1. PICK e \in E : e.id = i
      BY <1>4
    <3>2. PICK k \in DOMAIN r : r[k] = e
      BY <1>5
    <3> QED
      BY <3>1, <3>2 DEF IdsOf
  <2> QED
    BY <2>1, <2>2
<1>9. Distinct(r)
  <2> SUFFICES ASSUME NEW j \in DOMAIN r, NEW k \in DOMAIN r, r[j].id = r[k].id PROVE j = k
    BY DEF Distinct
  <2>1. r[j] = node(r[j].id) /\ r[k] = node(r[k].id)
    BY <1>3, <1>6
  <2>2. r[j] = r[k]
    BY <2>1
  <2> QED
    BY <1>5, <2>2
<1> QED
  BY <1>3, <1>6, <1>7, <1>8, <1>9

\* The queue without its head, and with what enters.
LEMMA QueueAfter ==
  ASSUME NEW q \in Seq(Node), q # <<>>, NEW r \in Seq(Node), NEW t, t = Tail(q) \o r
  PROVE  /\ t \in Seq(Node)
         /\ DOMAIN t = 1 .. (Len(q) - 1) + Len(r)
         /\ \A k \in DOMAIN t :
               \/ k < Len(q) /\ k + 1 \in DOMAIN q /\ t[k] = q[k + 1]
               \/ k >= Len(q) /\ k - (Len(q) - 1) \in DOMAIN r /\ t[k] = r[k - (Len(q) - 1)]
         /\ \A k \in DOMAIN q : k # 1 => k - 1 \in DOMAIN t /\ t[k - 1] = q[k]
         /\ \A k \in DOMAIN r : (Len(q) - 1) + k \in DOMAIN t /\ t[(Len(q) - 1) + k] = r[k]
         /\ 1 \in DOMAIN q /\ Head(q) = q[1]
<1>1. /\ Tail(q) \in Seq(Node) /\ Len(Tail(q)) = Len(q) - 1
      /\ \A i \in 1 .. Len(Tail(q)) : Tail(q)[i] = q[i + 1]
  BY HeadTailProperties
<1>2. Len(q) \in Nat \ {0} /\ DOMAIN q = 1 .. Len(q) /\ Len(r) \in Nat /\ DOMAIN r = 1 .. Len(r)
  BY EmptySeq, LenProperties
<1> DEFINE u == Tail(q)
<1>3. u \in Seq(Node)
  BY <1>1
<1> HIDE DEF u
<1>4. /\ u \o r \in Seq(Node) /\ Len(u \o r) = Len(u) + Len(r)
      /\ \A i \in 1 .. Len(u) + Len(r) : (u \o r)[i] = IF i <= Len(u) THEN u[i] ELSE r[i - Len(u)]
  BY <1>3, ConcatProperties
<1>5. t = u \o r /\ Len(u) = Len(q) - 1 /\ \A i \in 1 .. Len(q) - 1 : u[i] = q[i + 1]
  BY <1>1 DEF u
<1>6. DOMAIN t = 1 .. (Len(q) - 1) + Len(r)
      /\ \A i \in DOMAIN t : t[i] = IF i <= Len(q) - 1 THEN u[i] ELSE r[i - (Len(q) - 1)]
  BY <1>2, <1>4, <1>5, LenProperties
<1>7. t \in Seq(Node) /\ Head(q) = q[1]
  BY <1>4, <1>5
<1>8. ASSUME NEW k \in DOMAIN t
      PROVE  \/ k < Len(q) /\ k + 1 \in DOMAIN q /\ t[k] = q[k + 1]
             \/ k >= Len(q) /\ k - (Len(q) - 1) \in DOMAIN r /\ t[k] = r[k - (Len(q) - 1)]
  BY <1>2, <1>5, <1>6
<1>9. ASSUME NEW k \in DOMAIN q, k # 1 PROVE k - 1 \in DOMAIN t /\ t[k - 1] = q[k]
  BY <1>2, <1>5, <1>6, <1>9
<1>10. ASSUME NEW k \in DOMAIN r PROVE (Len(q) - 1) + k \in DOMAIN t /\ t[(Len(q) - 1) + k] = r[k]
  BY <1>2, <1>5, <1>6
<1>11. 1 \in DOMAIN q
  BY <1>2
<1> QED
  BY <1>6, <1>7, <1>8, <1>9, <1>10, <1>11
-----------------------------------------------------------------------------
(***************************************************************************)
(* The loop.  While the nodes at distance d leave the queue: what was      *)
(* found and what waits at that distance is what d steps reach, and what   *)
(* was visited, all that was found leads to besides.  A node never comes   *)
(* twice, so that the number of those found tells how often the loop ran.  *)
(***************************************************************************)
Walk == [queue : Seq(Node), visited : SUBSET Ids, found : SUBSET Ids]

LeadsOf(S, leads) == UNION {leads[i] : i \in S}

\* The queue holds nodes at d and then at d + 1, what was found and what waits at d
\* is all there is at d, and whatever was found has been followed up to the limit.
AtDepth(w, d, R, limit, leads) ==
    /\ \A k \in DOMAIN w.queue : w.queue[k].depth \in {d, d + 1} /\ w.queue[k].depth <= limit
    /\ \A j, k \in DOMAIN w.queue : j < k => w.queue[j].depth <= w.queue[k].depth
    /\ R[d] = w.found \cup IdsAt(w.queue, d)
    /\ w.visited = w.found \cup IdsOf(w.queue)
    /\ w.visited = IF d < limit THEN R[d] \cup LeadsOf(w.found, leads) ELSE R[d]

\* No node waits twice, or again.
NeverTwice(w) == Distinct(w.queue) /\ w.found \cap IdsOf(w.queue) = {}

\* The search after n turns: as many nodes were found unless it has ended.
WalkInv(w, n, R, limit, leads) ==
    /\ w \in Walk
    /\ \E d \in 0 .. limit : AtDepth(w, d, R, limit, leads)
    /\ NeverTwice(w)
    /\ w.queue # <<>> => Cardinality(w.found) = n

LEMMA OneStepFurther ==
  ASSUME NEW S, NEW leads, NEW n \in Nat, NEW R, Reaches(R, S, leads, n),
         NEW k \in 0 .. n, k < n
  PROVE  k + 1 \in 0 .. n /\ R[k + 1] = R[k] \cup LeadsOf(R[k], leads)
<1>1. k + 1 \in 1 .. n /\ (k + 1) - 1 = k
  OBVIOUS
<1>2. R[k + 1] = R[(k + 1) - 1] \cup UNION {leads[i] : i \in R[(k + 1) - 1]}
  BY <1>1 DEF Reaches
<1> QED
  BY <1>1, <1>2 DEF LeadsOf

LEMMA StartOfWalk ==
  ASSUME NEW S \in SUBSET Ids, NEW leads, NEW limit \in Nat, NEW R, Reaches(R, S, leads, limit),
         NEW w, w = [queue |-> Queued(S, 0), visited |-> S, found |-> {}]
  PROVE  WalkInv(w, 0, R, limit, leads)
<1>1. PICK q : q = Queued(S, 0)
  OBVIOUS
<1>2. w.queue = q /\ w.visited = S /\ w.found = {} /\ w = [queue |-> q, visited |-> S, found |-> {}]
  BY <1>1
<1>3. q \in Seq(Node) /\ IdsOf(q) = S /\ (\A k \in DOMAIN q : q[k].depth = 0) /\ Distinct(q)
  BY <1>1, QueuedOnce
<1>4. w \in Walk
  BY <1>2, <1>3 DEF Walk
<1>5. IdsAt(q, 0) = S
  BY <1>3 DEF IdsAt, IdsOf
<1>6. R[0] = S
  BY DEF Reaches
<1>7. LeadsOf({}, leads) = {}
  BY DEF LeadsOf
<1>8. AtDepth(w, 0, R, limit, leads)
  BY <1>2, <1>3, <1>5, <1>6, <1>7 DEF AtDepth
<1>9. NeverTwice(w) /\ Cardinality(w.found) = 0
  BY <1>2, <1>3, FS_EmptySet DEF NeverTwice
<1>10. 0 \in 0 .. limit
  OBVIOUS
<1> QED
  BY <1>4, <1>8, <1>9, <1>10 DEF WalkInv

\* When no node of a distance is left, those of the next one are all there.
LEMMA NextDepth ==
  ASSUME NEW S, NEW leads, NEW limit \in Nat, NEW R, Reaches(R, S, leads, limit),
         NEW w \in Walk, NEW d \in 0 .. limit, AtDepth(w, d, R, limit, leads),
         w.queue # <<>>, w.queue[1].depth # d
  PROVE  d + 1 \in 0 .. limit /\ AtDepth(w, d + 1, R, limit, leads) /\ w.queue[1].depth = d + 1
<1> DEFINE q == w.queue
<1>1. q \in Seq(Node) /\ 1 \in DOMAIN q /\ \A k \in DOMAIN q : k \in Nat /\ k >= 1 /\ q[k].depth \in Nat
  <2>1. q \in Seq(Node)
    BY DEF Walk
  <2> HIDE DEF q
  <2>2. q # <<>>
    BY DEF q
  <2>3. Len(q) \in Nat \ {0} /\ DOMAIN q = 1 .. Len(q) /\ \A k \in DOMAIN q : q[k] \in Node
    BY <2>1, <2>2, EmptySeq, LenProperties
  <2> QED
    BY <2>1, <2>3 DEF Node
<1>2. q[1].depth = d + 1 /\ d + 1 <= limit
  BY <1>1 DEF AtDepth
<1>3. \A k \in DOMAIN q : q[k].depth = d + 1
  <2> TAKE k \in DOMAIN q
  <2>1. k = 1 \/ q[1].depth <= q[k].depth
    BY <1>1 DEF AtDepth
  <2>2. q[k].depth \in {d, d + 1}
    BY DEF AtDepth
  <2> QED
    BY <1>1, <1>2, <2>1, <2>2
<1>4. IdsAt(q, d) = {} /\ IdsAt(q, d + 1) = IdsOf(q)
  BY <1>3 DEF IdsAt, IdsOf
<1>5. R[d] = w.found
  BY <1>4 DEF AtDepth
<1>6. d < limit /\ d + 1 \in 0 .. limit /\ R[d + 1] = R[d] \cup LeadsOf(R[d], leads)
  <2>1. d < limit
    BY <1>2
  <2>2. Reaches(R, S, leads, limit)
    OBVIOUS
  <2>3. d + 1 \in 0 .. limit /\ R[d + 1] = R[d] \cup LeadsOf(R[d], leads)
    BY <2>1, <2>2, OneStepFurther
  <2> QED
    BY <2>1, <2>3
<1>7. w.visited = R[d + 1]
  BY <1>5, <1>6 DEF AtDepth
<1>8. AtDepth(w, d + 1, R, limit, leads)
  <2>1. R[d + 1] = w.found \cup IdsAt(q, d + 1)
    BY <1>4, <1>7 DEF AtDepth
  <2>2. w.visited = IF d + 1 < limit THEN R[d + 1] \cup LeadsOf(w.found, leads) ELSE R[d + 1]
    BY <1>5, <1>6, <1>7
  <2>3. \A k \in DOMAIN q : q[k].depth \in {d + 1, d + 1 + 1} /\ q[k].depth <= limit
    BY <1>2, <1>3
  <2> HIDE DEF q
  <2>4. q = w.queue
    BY DEF q
  <2> QED
    BY <2>1, <2>2, <2>3, <2>4 DEF AtDepth
<1> QED
  BY <1>2, <1>6, <1>8

LEMMA PopStep ==
  ASSUME NEW S, NEW leads \in [Ids -> SUBSET Ids], NEW limit \in Nat, NEW R,
         Reaches(R, S, leads, limit), NEW n \in Nat, NEW w, WalkInv(w, n, R, limit, leads),
         NEW v, v = Pop(w, limit, leads)
  PROVE  WalkInv(v, n + 1, R, limit, leads)
<1>1. CASE w.queue = <<>>
  BY <1>1 DEF Pop, WalkInv
<1>2. CASE w.queue # <<>>
  <2>1. w \in Walk /\ NeverTwice(w) /\ Cardinality(w.found) = n
    BY <1>2 DEF WalkInv
  <2>2. PICK d \in 0 .. limit : AtDepth(w, d, R, limit, leads) /\ w.queue[1].depth = d
    <3>1. PICK d \in 0 .. limit : AtDepth(w, d, R, limit, leads)
      BY DEF WalkInv
    <3>2. CASE w.queue[1].depth = d
      BY <3>1, <3>2
    <3>3. CASE w.queue[1].depth # d
      <4>1. d + 1 \in 0 .. limit /\ AtDepth(w, d + 1, R, limit, leads) /\ w.queue[1].depth = d + 1
        <5>1. w \in Walk /\ w.queue # <<>>
          BY <1>2, <2>1
        <5> QED
          BY <3>1, <3>3, <5>1, NextDepth
      <4> QED
        BY <4>1
    <3> QED
      BY <3>2, <3>3
  <2>3. PICK q : q = w.queue
    OBVIOUS
  <2>4. q \in Seq(Node) /\ q # <<>> /\ 1 \in DOMAIN q
    BY <1>2, <2>1, <2>3, EmptySeq, LenProperties DEF Walk
  <2> DEFINE at == q[1]
             new == NewFrom(at, w.visited, limit, leads)
             r == Queued(new, d + 1)
  <2>5. at \in Node /\ at.depth = d /\ at.id \in Ids /\ leads[at.id] \in SUBSET Ids
    <3>1. at \in Node /\ at.depth = d
      BY <2>2, <2>3, <2>4
    <3> HIDE DEF at
    <3> QED BY <3>1 DEF Node
  <2>6. new = IF d < limit THEN leads[at.id] \ w.visited ELSE {}
    BY <2>5 DEF NewFrom
  <2>7. new \in SUBSET Ids /\ new \cap w.visited = {} /\ (new # {} => d < limit)
    BY <2>5, <2>6
  <2> HIDE DEF new
  <2>8. r \in Seq(Node) /\ IdsOf(r) = new /\ (\A k \in DOMAIN r : r[k].depth = d + 1) /\ Distinct(r)
    <3>1. new \in SUBSET Ids /\ d + 1 \in Nat
      BY <2>7
    <3> HIDE DEF at
    <3> QED
      BY <3>1, QueuedOnce
  <2>9. Head(q) = at
    BY <2>4, QueueAfter, EmptySeq
  <2>10. v = [queue |-> Tail(q) \o r, visited |-> w.visited \cup new, found |-> w.found \cup {at.id}]
    <3>1. Pop(w, limit, leads) =
             [queue   |-> Tail(q) \o Queued(NewFrom(Head(q), w.visited, limit, leads), Head(q).depth + 1),
              visited |-> w.visited \cup NewFrom(Head(q), w.visited, limit, leads),
              found   |-> w.found \cup {Head(q).id}]
      BY <1>2, <2>3 DEF Pop
    <3> HIDE DEF at
    <3>2. new = NewFrom(at, w.visited, limit, leads)
      BY DEF new
    <3>3. Head(q) = at /\ Head(q).depth + 1 = d + 1
      BY <2>5, <2>9
    <3> QED
      BY <3>1, <3>2, <3>3
  <2> HIDE DEF r, at
  <2>11. PICK t : t = Tail(q) \o r
    OBVIOUS
  <2>12. v.queue = t /\ v.visited = w.visited \cup new /\ v.found = w.found \cup {at.id}
         /\ v = [queue |-> t, visited |-> w.visited \cup new, found |-> w.found \cup {at.id}]
    BY <2>10, <2>11
  <2>13. /\ t \in Seq(Node)
         /\ DOMAIN t = 1 .. (Len(q) - 1) + Len(r)
         /\ \A k \in DOMAIN t :
               \/ k < Len(q) /\ k + 1 \in DOMAIN q /\ t[k] = q[k + 1]
               \/ k >= Len(q) /\ k - (Len(q) - 1) \in DOMAIN r /\ t[k] = r[k - (Len(q) - 1)]
         /\ \A k \in DOMAIN q : k # 1 => k - 1 \in DOMAIN t /\ t[k - 1] = q[k]
         /\ \A k \in DOMAIN r : (Len(q) - 1) + k \in DOMAIN t /\ t[(Len(q) - 1) + k] = r[k]
    BY <2>4, <2>8, <2>11, QueueAfter
  <2>14. Len(q) \in Nat /\ DOMAIN q = 1 .. Len(q) /\ DOMAIN r = 1 .. Len(r) /\ Len(r) \in Nat
    BY <2>4, <2>8, LenProperties
  <2>15. v \in Walk
    BY <2>1, <2>5, <2>7, <2>12, <2>13 DEF Walk
  \* Whatever is in the queue was there before or is new, and nothing else is.
  <2>16. IdsOf(q) = {at.id} \cup {q[k].id : k \in DOMAIN q \ {1}}
    BY <2>4 DEF IdsOf, at
  <2>17. IdsOf(t) = {q[k].id : k \in DOMAIN q \ {1}} \cup new
    <3>1. ASSUME NEW k \in DOMAIN t PROVE t[k].id \in {q[j].id : j \in DOMAIN q \ {1}} \cup IdsOf(r)
      <4>1. CASE k < Len(q) /\ k + 1 \in DOMAIN q /\ t[k] = q[k + 1]
        <5>1. k + 1 \in DOMAIN q \ {1}
          BY <2>13, <2>14, <4>1
        <5> QED
          BY <4>1, <5>1
      <4>2. CASE k - (Len(q) - 1) \in DOMAIN r /\ t[k] = r[k - (Len(q) - 1)]
        BY <4>2 DEF IdsOf
      <4> QED
        BY <2>13, <4>1, <4>2
    <3>2. \A k \in DOMAIN q \ {1} : q[k].id \in IdsOf(t)
      BY <2>13 DEF IdsOf
    <3>3. \A k \in DOMAIN r : r[k].id \in IdsOf(t)
      BY <2>13 DEF IdsOf
    <3>4. IdsOf(t) \subseteq {q[j].id : j \in DOMAIN q \ {1}} \cup IdsOf(r)
      BY <3>1 DEF IdsOf
    <3>5. IdsOf(r) \subseteq IdsOf(t)
      BY <3>3 DEF IdsOf
    <3> QED
      BY <2>8, <3>2, <3>4, <3>5
  <2>18. IdsAt(q, d) = {at.id} \cup IdsAt(t, d)
    <3>1. ASSUME NEW k \in DOMAIN t, t[k].depth = d PROVE t[k].id \in IdsAt(q, d)
      <4>1. k + 1 \in DOMAIN q /\ t[k] = q[k + 1]
        BY <2>8, <2>13, <3>1
      <4> QED
        BY <3>1, <4>1 DEF IdsAt
    <3>2. ASSUME NEW k \in DOMAIN q, q[k].depth = d PROVE q[k].id \in {at.id} \cup IdsAt(t, d)
      <4>1. CASE k = 1
        BY <4>1 DEF at
      <4>2. CASE k # 1
        <5>1. k - 1 \in DOMAIN t /\ t[k - 1] = q[k]
          BY <2>13, <4>2
        <5> QED
          BY <3>2, <5>1 DEF IdsAt
      <4> QED
        BY <4>1, <4>2
    <3>3. at.id \in IdsAt(q, d)
      BY <2>4, <2>5 DEF IdsAt, at
    <3>4. IdsAt(t, d) \subseteq IdsAt(q, d)
      BY <3>1 DEF IdsAt
    <3>5. IdsAt(q, d) \subseteq {at.id} \cup IdsAt(t, d)
      BY <3>2 DEF IdsAt
    <3> QED
      BY <3>3, <3>4, <3>5
  <2>19. at.id \notin IdsOf(t) /\ at.id \notin w.found /\ at.id \in w.visited
    <3>1. \A k \in DOMAIN q \ {1} : q[k].id # at.id
      BY <2>1, <2>3, <2>4 DEF NeverTwice, Distinct, at
    <3>2. at.id \in IdsOf(q)
      BY <2>16
    <3>3. at.id \in w.visited /\ at.id \notin w.found
      BY <2>1, <2>2, <2>3, <3>2 DEF AtDepth, NeverTwice
    <3>4. at.id \notin new
      BY <2>7, <3>3
    <3> QED
      BY <2>17, <3>1, <3>3, <3>4
  <2>20. AtDepth(v, d, R, limit, leads)
    <3>1. ASSUME NEW k \in DOMAIN t PROVE t[k].depth \in {d, d + 1} /\ t[k].depth <= limit
      <4>1. CASE k + 1 \in DOMAIN q /\ t[k] = q[k + 1]
        BY <2>2, <2>3, <4>1 DEF AtDepth
      <4>2. CASE k - (Len(q) - 1) \in DOMAIN r /\ t[k] = r[k - (Len(q) - 1)]
        <5>1. t[k].depth = d + 1
          BY <2>8, <4>2
        <5>2. new # {}
          BY <2>8, <4>2 DEF IdsOf
        <5> QED
          BY <2>7, <5>1, <5>2
      <4> QED
        BY <2>13, <4>1, <4>2
    <3>2. ASSUME NEW j \in DOMAIN t, NEW k \in DOMAIN t, j < k PROVE t[j].depth <= t[k].depth
      <4>1. CASE k < Len(q) /\ k + 1 \in DOMAIN q /\ t[k] = q[k + 1]
        <5>1. j < Len(q) /\ j + 1 \in DOMAIN q /\ t[j] = q[j + 1] /\ j + 1 < k + 1
          BY <2>13, <2>14, <3>2, <4>1
        <5> QED
          BY <2>2, <2>3, <4>1, <5>1 DEF AtDepth
      <4>2. CASE k - (Len(q) - 1) \in DOMAIN r /\ t[k] = r[k - (Len(q) - 1)]
        <5>1. t[k].depth = d + 1
          BY <2>8, <4>2
        <5> QED
          BY <3>1, <5>1
      <4> QED
        BY <2>13, <4>1, <4>2
    <3>3. R[d] = v.found \cup IdsAt(t, d)
      BY <2>2, <2>3, <2>12, <2>18 DEF AtDepth
    <3>4. w.visited = w.found \cup IdsOf(q)
      BY <2>2, <2>3 DEF AtDepth
    <3>5. v.visited = v.found \cup IdsOf(t)
      BY <2>12, <2>16, <2>17, <3>4
    <3>6. v.visited = IF d < limit THEN R[d] \cup LeadsOf(v.found, leads) ELSE R[d]
      <4>1. LeadsOf(v.found, leads) = LeadsOf(w.found, leads) \cup leads[at.id]
        BY <2>12 DEF LeadsOf
      <4>2. w.visited = IF d < limit THEN R[d] \cup LeadsOf(w.found, leads) ELSE R[d]
        BY <2>2 DEF AtDepth
      <4>3. v.visited = IF d < limit THEN w.visited \cup leads[at.id] ELSE w.visited
        BY <2>6, <2>12
      <4> QED
        BY <4>1, <4>2, <4>3
    <3> QED
      BY <2>12, <3>1, <3>2, <3>3, <3>5, <3>6 DEF AtDepth
  <2>21. NeverTwice(v)
    <3>1. w.visited = w.found \cup IdsOf(q) /\ w.found \cap IdsOf(q) = {}
      BY <2>1, <2>2, <2>3 DEF AtDepth, NeverTwice
    <3>2. v.found \cap IdsOf(t) = {}
      BY <2>7, <2>12, <2>16, <2>17, <2>19, <3>1
    <3>3. ASSUME NEW j \in DOMAIN t, NEW k \in DOMAIN t, j < k PROVE t[j].id # t[k].id
      <4>1. CASE k < Len(q) /\ k + 1 \in DOMAIN q /\ t[k] = q[k + 1]
        <5>1. j + 1 \in DOMAIN q /\ t[j] = q[j + 1] /\ j + 1 # k + 1
          BY <2>13, <2>14, <3>3, <4>1
        <5> QED
          BY <2>1, <2>3, <4>1, <5>1 DEF NeverTwice, Distinct
      <4>2. CASE k >= Len(q) /\ k - (Len(q) - 1) \in DOMAIN r /\ t[k] = r[k - (Len(q) - 1)]
        <5>1. CASE j < Len(q) /\ j + 1 \in DOMAIN q /\ t[j] = q[j + 1]
          <6>1. t[j].id \in IdsOf(q) /\ t[k].id \in IdsOf(r)
            BY <4>2, <5>1 DEF IdsOf
          <6> QED
            BY <2>7, <2>8, <3>1, <6>1
        <5>2. CASE j >= Len(q) /\ j - (Len(q) - 1) \in DOMAIN r /\ t[j] = r[j - (Len(q) - 1)]
          <6>1. j - (Len(q) - 1) # k - (Len(q) - 1)
            BY <2>13, <2>14, <3>3
          <6> QED
            BY <2>8, <4>2, <5>2, <6>1 DEF Distinct
        <5> QED
          BY <2>13, <5>1, <5>2
      <4> QED
        BY <2>13, <4>1, <4>2
    <3>4. Distinct(t)
      <4> SUFFICES ASSUME NEW j \in DOMAIN t, NEW k \in DOMAIN t, j # k PROVE t[j].id # t[k].id
        BY DEF Distinct
      <4>1. j < k \/ k < j
        BY <2>13
      <4> QED
        BY <3>3, <4>1
    <3> QED
      BY <2>12, <3>2, <3>4 DEF NeverTwice
  <2>22. Cardinality(v.found) = n + 1
    <3>1. IsFiniteSet(w.found)
      BY <2>1, IdsAreFinite, FS_Subset DEF Walk
    <3> QED
      BY <2>1, <2>12, <2>19, <3>1, FS_AddElement
  <2> QED
    BY <2>15, <2>20, <2>21, <2>22 DEF WalkInv
<1> QED
  BY <1>1, <1>2
-----------------------------------------------------------------------------
(***************************************************************************)
(* The searches are exact.                                                 *)
(***************************************************************************)
\* A graph that has no more to give at some distance has no more at any other.
LEMMA NoFurther ==
  ASSUME NEW S, NEW leads, NEW n \in Nat, NEW R, Reaches(R, S, leads, n),
         NEW d \in 0 .. n, d < n, R[d + 1] = R[d]
  PROVE  R[n] = R[d]
<1> DEFINE T == {k \in 0 .. n : d <= k /\ R[k] # R[d]}
<1>1. SUFFICES ASSUME T # {} PROVE FALSE
  <2>1. n \in 0 .. n /\ d <= n
    OBVIOUS
  <2> QED
    BY <2>1
<1>2. PICK k \in T : \A m \in T : k <= m
  <2> T \in SUBSET Nat
    OBVIOUS
  <2> HIDE DEF T
  <2> QED BY <1>1, LeastOf, SMT
<1>3. k # d /\ k # d + 1
  OBVIOUS
<1>4. PICK j \in 0 .. n : j + 1 = k /\ j < n /\ d <= j /\ j \notin T
  <2>1. k - 1 \in 0 .. n /\ (k - 1) + 1 = k /\ k - 1 < n /\ d <= k - 1
    BY <1>3
  <2>2. k - 1 \notin T
    BY <1>2, <2>1
  <2> QED
    BY <2>1, <2>2
<1>5. R[j] = R[d]
  BY <1>4
<1>6. Reaches(R, S, leads, n)
  OBVIOUS
<1>7. R[j + 1] = R[j] \cup LeadsOf(R[j], leads) /\ R[d + 1] = R[d] \cup LeadsOf(R[d], leads)
  BY <1>4, <1>6, OneStepFurther
<1>8. R[k] = R[d]
  BY <1>4, <1>5, <1>7
<1> QED
  BY <1>8

\* Once the queue is empty.
LEMMA EndOfWalk ==
  ASSUME NEW S, NEW leads, NEW limit \in Nat, NEW R, Reaches(R, S, leads, limit),
         NEW w, WalkInv(w, MaxIds, R, limit, leads)
  PROVE  w.queue = <<>> /\ w.found = R[limit]
<1>1. PICK d \in 0 .. limit : AtDepth(w, d, R, limit, leads)
  BY DEF WalkInv
<1>2. w.queue = <<>>
  <2> SUFFICES ASSUME w.queue # <<>> PROVE FALSE
    OBVIOUS
  <2> DEFINE q == w.queue
             i == q[1].id
  <2>1. w \in Walk /\ NeverTwice(w) /\ Cardinality(w.found) = MaxIds
    BY DEF WalkInv
  <2>2. q[1] \in Node /\ 1 \in DOMAIN q
    <3>1. q \in Seq(Node) /\ q # <<>>
      BY <2>1 DEF Walk
    <3> HIDE DEF q
    <3>2. Len(q) \in Nat \ {0} /\ DOMAIN q = 1 .. Len(q) /\ \A k \in DOMAIN q : q[k] \in Node
      BY <3>1, EmptySeq, LenProperties
    <3> QED
      BY <3>2
  <2>3. i \in Ids /\ i \in IdsOf(q)
    BY <2>2 DEF Node, IdsOf
  <2>4. i \notin w.found /\ w.found \subseteq Ids
    BY <2>1, <2>3 DEF NeverTwice, Walk
  <2> HIDE DEF i, q
  <2>5. IsFiniteSet(w.found)
    BY <2>4, IdsAreFinite, FS_Subset
  <2>6. Cardinality(w.found \cup {i}) = MaxIds + 1
    BY <2>1, <2>4, <2>5, FS_AddElement
  <2>7. w.found \cup {i} \subseteq Ids
    BY <2>3, <2>4
  <2>8. Cardinality(w.found \cup {i}) <= MaxIds
    BY <2>7, IdsAreFinite, FS_Subset
  <2> QED
    BY <2>6, <2>8, IdsAreFinite
<1>3. IdsAt(w.queue, d) = {} /\ IdsOf(w.queue) = {}
  BY <1>2 DEF IdsAt, IdsOf
<1>4. R[d] = w.found /\ w.visited = w.found
  BY <1>1, <1>3 DEF AtDepth
<1>5. CASE d = limit
  BY <1>2, <1>4, <1>5
<1>6. CASE d # limit
  <2>1. d < limit
    BY <1>6
  <2>2. Reaches(R, S, leads, limit)
    OBVIOUS
  <2>3. R[d + 1] = R[d] \cup LeadsOf(R[d], leads)
    BY <2>1, <2>2, OneStepFurther
  <2>4. w.visited = R[d] \cup LeadsOf(w.found, leads)
    BY <1>1, <2>1 DEF AtDepth
  <2>5. R[d + 1] = R[d]
    BY <1>4, <2>3, <2>4
  <2>6. R[limit] = R[d]
    BY <2>1, <2>2, <2>5, NoFurther
  <2> QED
    BY <1>2, <1>4, <2>6
<1> QED
  BY <1>5, <1>6

LEMMA WalkedIsExact ==
  ASSUME NEW S \in SUBSET Ids, NEW leads \in [Ids -> SUBSET Ids], NEW limit \in Nat,
         NEW R, Reaches(R, S, leads, limit)
  PROVE  Walked(S, limit, leads).queue = <<>> /\ Walked(S, limit, leads).found = R[limit]
<1> DEFINE Next(w) == Pop(w, limit, leads)
           start == [queue |-> Queued(S, 0), visited |-> S, found |-> {}]
           g == CHOOSE h : h = [n \in 0 .. MaxIds |-> IF n = 0 THEN start ELSE Next(h[n - 1])]
           Good(w, n) == WalkInv(w, n, R, limit, leads)
<1>0. MaxIds \in Nat
  BY IdsAreFinite
<1>1. Walked(S, limit, leads) = g[MaxIds]
  BY DEF Walked
<1>2. Reaches(R, S, leads, limit)
  OBVIOUS
<1>3. Good(start, 0)
  BY <1>2, StartOfWalk
<1>4. ASSUME NEW n \in Nat, NEW w, Good(w, n) PROVE Good(Next(w), n + 1)
  BY <1>2, <1>4, PopStep
<1>5. \E h : h = [n \in 0 .. MaxIds |-> IF n = 0 THEN start ELSE Next(h[n - 1])]
  <2> DEFINE Some == {w \in Walk : \E n \in Nat : Good(w, n)}
             step == [w \in Some |-> Next(w)]
  <2>1. start \in Some
    BY <1>3 DEF WalkInv
  <2>2. step \in [Some -> Some]
    <3> SUFFICES ASSUME NEW w \in Some PROVE Next(w) \in Some
      OBVIOUS
    <3>1. PICK n \in Nat : Good(w, n)
      OBVIOUS
    <3>2. n + 1 \in Nat /\ Good(Next(w), n + 1)
      BY <1>4, <3>1
    <3> DEFINE v == Next(w)
    <3> HIDE DEF Next
    <3>3. v \in Walk
      <4>1. WalkInv(v, n + 1, R, limit, leads)
        BY <3>2
      <4> HIDE DEF v
      <4> QED
        BY <4>1 DEF WalkInv
    <3> HIDE DEF Good
    <3> QED
      BY <3>2, <3>3
  <2> HIDE DEF Some, Good, Next, start
  <2>3. PICK f : Iterates(f, Some, start, step, MaxIds)
    <3> HIDE DEF step
    <3> QED BY <1>0, <2>1, <2>2, IterationExists
  <2>4. \A n \in 0 .. MaxIds : f[n] = IF n = 0 THEN start ELSE Next(f[n - 1])
    <3> TAKE n \in 0 .. MaxIds
    <3>1. CASE n = 0
      BY <2>3, <3>1 DEF Iterates
    <3>2. CASE n # 0
      <4>1. n \in 1 .. MaxIds /\ n - 1 \in 0 .. MaxIds
        BY <1>0, <3>2
      <4>2. f[n - 1] \in Some /\ f[n] = step[f[n - 1]]
        BY <2>3, <4>1 DEF Iterates
      <4> QED
        BY <3>2, <4>2
    <3> QED
      BY <3>1, <3>2
  <2>5. f = [n \in 0 .. MaxIds |-> f[n]]
    BY <2>3 DEF Iterates
  <2> HIDE DEF step
  <2>6. f = [n \in 0 .. MaxIds |-> IF n = 0 THEN start ELSE Next(f[n - 1])]
    BY <2>4, <2>5
  <2> QED
    BY <2>6
<1> HIDE DEF Next, start, Good
<1>6. g = [n \in 0 .. MaxIds |-> IF n = 0 THEN start ELSE Next(g[n - 1])]
  BY <1>5
<1> HIDE DEF g
<1>7. g[0] = start /\ \A n \in 1 .. MaxIds : g[n] = Next(g[n - 1])
  BY <1>0, <1>6
<1>8. \A n \in 0 .. MaxIds : Good(g[n], n)
  <2> DEFINE T == {n \in 0 .. MaxIds : ~Good(g[n], n)}
  <2> SUFFICES ASSUME T # {} PROVE FALSE
    OBVIOUS
  <2>1. PICK n \in T : \A m \in T : n <= m
    <3> T \in SUBSET Nat
      OBVIOUS
    <3> HIDE DEF T
    <3> QED BY LeastOf, SMT
  <2>2. n \in 0 .. MaxIds /\ ~Good(g[n], n)
    OBVIOUS
  <2>3. n # 0
    <3> SUFFICES ASSUME n = 0 PROVE FALSE
      OBVIOUS
    <3>1. g[n] = start /\ Good(start, n)
      BY <1>3, <1>7
    <3> QED
      BY <2>2, <3>1
  <2>4. n \in 1 .. MaxIds /\ n - 1 \in 0 .. MaxIds /\ n - 1 \in Nat
        /\ (n - 1) + 1 = n /\ ~(n <= n - 1)
    BY <1>0, <2>3, <2>2
  <2>5. n - 1 \notin T
    <3> HIDE DEF T
    <3> QED BY <2>1, <2>4
  <2>6. Good(g[n - 1], n - 1)
    BY <2>4, <2>5
  <2>7. Good(Next(g[n - 1]), (n - 1) + 1)
    BY <1>4, <2>4, <2>6
  <2> QED
    BY <1>7, <2>4, <2>7
<1>9. Good(g[MaxIds], MaxIds)
  BY <1>0, <1>8
<1> QED
  <2>1. WalkInv(g[MaxIds], MaxIds, R, limit, leads)
    BY <1>9 DEF Good
  <2> QED
    BY <1>1, <1>2, <2>1, EndOfWalk

\* Two searches whose seeds lead to the same.
LEMMA SameReach ==
  ASSUME NEW S, NEW leads, NEW n \in Nat, NEW R, Reaches(R, S, leads, n),
         NEW other, \A T \in SUBSET Ids : T \cup LeadsOf(T, leads) = T \cup LeadsOf(T, other)
  PROVE  Reaches(R, S, other, n)
<1>1. Reaches(R, S, leads, n)
  OBVIOUS
<1>2. ASSUME NEW k \in 1 .. n PROVE R[k] = R[k - 1] \cup LeadsOf(R[k - 1], other)
  <2>1. R[k] = R[k - 1] \cup LeadsOf(R[k - 1], leads)
    BY <1>1 DEF Reaches, LeadsOf
  <2>2. k - 1 \in 0 .. n
    OBVIOUS
  <2>3. R[k - 1] \in SUBSET Ids
    BY <1>1, <2>2 DEF Reaches
  <2> QED
    BY <2>1, <2>3
<1> QED
  BY <1>1, <1>2 DEF Reaches, LeadsOf

LEMMA LinksLeadToIds ==
  ASSUME links \subseteq Link
  PROVE  /\ Targets \in [Ids -> SUBSET Ids]
         /\ Dependents \in [Ids -> SUBSET Ids]
         /\ BothWays \in [Ids -> SUBSET Ids]
<1>1. \A l \in links : l.from \in Ids /\ l.to \in Ids
  BY DEF Link
<1>2. Targets \in [Ids -> SUBSET Ids] /\ Dependents \in [Ids -> SUBSET Ids]
  BY <1>1 DEF Targets, Dependents
<1> QED
  BY <1>2 DEF BothWays

LEMMA TransitiveDepsAreExact ==
  ASSUME links \subseteq Link, NEW i \in Ids, NEW n \in Nat
  PROVE  TransitiveDeps(i, n) = Within({i}, n, Targets) \ {i}
<1>1. {i} \in SUBSET Ids /\ Targets \in [Ids -> SUBSET Ids]
  BY LinksLeadToIds
<1>2. PICK R : Reaches(R, {i}, Targets, n) /\ Within({i}, n, Targets) = R[n]
  BY <1>1, WithinReaches
<1>3. Walked({i}, n, Targets).found = R[n]
  BY <1>1, <1>2, WalkedIsExact
<1> QED
  BY <1>2, <1>3 DEF TransitiveDeps

\* What identify_cluster takes a step to is one link away.
LEMMA NeighboursAreLinked ==
  ASSUME links \subseteq Link
  PROVE  /\ Neighbours \in [Ids -> SUBSET Ids]
         /\ \A i \in Ids : {i} \cup Neighbours[i] = {i} \cup BothWays[i]
<1>1. Targets \in [Ids -> SUBSET Ids] /\ Dependents \in [Ids -> SUBSET Ids]
  BY LinksLeadToIds
<1>2. ASSUME NEW i \in Ids PROVE TransitiveDeps(i, 1) = Targets[i] \ {i}
  <2>1. {i} \in SUBSET Ids
    OBVIOUS
  <2>2. PICK R : Reaches(R, {i}, Targets, 1) /\ Within({i}, 1, Targets) = R[1]
    BY <1>1, <2>1, WithinReaches
  <2>3. R[0] = {i} /\ R[1] = R[0] \cup LeadsOf(R[0], Targets)
    <3>1. 1 \in 1 .. 1 /\ 1 - 1 = 0
      OBVIOUS
    <3> QED
      BY <2>2, <3>1 DEF Reaches, LeadsOf
  <2>4. LeadsOf({i}, Targets) = Targets[i]
    BY DEF LeadsOf
  <2> QED
    BY <2>2, <2>3, <2>4, TransitiveDepsAreExact
<1>3. \A i \in Ids : Neighbours[i] = (Targets[i] \ {i}) \cup Dependents[i]
  BY <1>2 DEF Neighbours
<1>4. Neighbours = [i \in Ids |-> Neighbours[i]]
  BY DEF Neighbours
<1>5. Neighbours \in [Ids -> SUBSET Ids]
  BY <1>1, <1>3, <1>4
<1>6. \A i \in Ids : BothWays[i] = Targets[i] \cup Dependents[i]
  BY DEF BothWays
<1> QED
  BY <1>3, <1>5, <1>6

LEMMA ClustersAreExact ==
  ASSUME links \subseteq Link, NEW S \in SUBSET Ids, NEW n \in Nat
  PROVE  IdentifyCluster(S, n) = Within(S, n, BothWays)
<1>1. BothWays \in [Ids -> SUBSET Ids] /\ Neighbours \in [Ids -> SUBSET Ids]
  BY LinksLeadToIds, NeighboursAreLinked
<1>2. PICK R : Reaches(R, S, BothWays, n) /\ Within(S, n, BothWays) = R[n]
  BY <1>1, WithinReaches
<1>3. ASSUME NEW T \in SUBSET Ids
      PROVE  T \cup LeadsOf(T, BothWays) = T \cup LeadsOf(T, Neighbours)
  <2>1. \A i \in T : {i} \cup Neighbours[i] = {i} \cup BothWays[i]
    BY NeighboursAreLinked
  <2>2. ASSUME NEW x, NEW i \in T, x \in BothWays[i] PROVE x \in T \cup LeadsOf(T, Neighbours)
    BY <2>1, <2>2 DEF LeadsOf
  <2>3. ASSUME NEW x, NEW i \in T, x \in Neighbours[i] PROVE x \in T \cup LeadsOf(T, BothWays)
    BY <2>1, <2>3 DEF LeadsOf
  <2> QED
    BY <2>2, <2>3 DEF LeadsOf
<1>4. Reaches(R, S, Neighbours, n)
  BY <1>2, <1>3, SameReach
<1>5. Walked(S, n, Neighbours).found = R[n]
  BY <1>1, <1>4, WalkedIsExact
<1> QED
  BY <1>2, <1>5 DEF IdentifyCluster
-----------------------------------------------------------------------------
\* Whatever the graph: transitive_deps and identify_cluster return exactly the
\* fragments within as many links as they are told, although a node keeps the
\* depth at which it was first seen.
THEOREM SearchesStayExact == GraphSpec => []SearchesAreExact
<1>1. ASSUME GraphInv
      PROVE  SearchesAreExact
  <2>1. PICK e : e = Whole /\ EngineInv(e)
    BY <1>1 DEF GraphInv
  <2>2. links \subseteq Link
    BY <2>1 DEF EngineInv, IsEngine, Whole
  <2>3. \A n \in 0 .. MaxDepth : n \in Nat
    BY SearchAssumption
  <2>4. QED
    BY <2>2, <2>3, TransitiveDepsAreExact, ClustersAreExact DEF SearchesAreExact
<1>2. QED
  BY <1>1, InvariantHolds, PTL
=============================================================================
