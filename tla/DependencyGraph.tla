--------------------------- MODULE DependencyGraph ---------------------------
(***************************************************************************)
(* The dependency graph of the engine (DepGraph, entroly-core/src/         *)
(* depgraph.rs) and its use by ingest (entroly-core/src/lib.rs): which     *)
(* fragments a new content is linked to, what becomes of the links when    *)
(* fragments are evicted, and which memoized answers a new content wears   *)
(* out.                                                                    *)
(*                                                                         *)
(* A content is known by the symbols it uses, defines and exports to other *)
(* languages.  Text extraction decides these sets and nothing else.  Links *)
(* are a set: using a symbol twice links twice, which no search can tell.  *)
(*                                                                         *)
(* A store at its cap turns contents away before it uses an id up, which   *)
(* changes nothing here.                                                   *)
(***************************************************************************)
EXTENDS Integers, FiniteSets, Functions

CONSTANTS
    Contents,   (* texts of files                                          *)
    Stub,       (* the text of a stub, which has no symbols                *)
    Symbols,    (* identifiers                                             *)
    Uses,       (* identifiers that occur in a content                     *)
    Defines,    (* symbols that a content defines                          *)
    Exports,    (* symbols that a content exports to other languages       *)
    MaxIds,     (* bound on id_counter                                     *)
    SavedIds    (* bound on id_counter when the state is exported          *)

Ids == 1 .. MaxIds

ASSUME GraphAssumption ==
    /\ Stub \notin Contents
    /\ {Uses, Defines, Exports} \subseteq [Contents -> SUBSET Symbols]
    /\ {MaxIds, SavedIds} \subseteq Nat

VARIABLES
    fragments,    (* id -> content                                         *)
    linked,       (* id -> content, of every fragment that was auto-linked *)
    links,        (* outgoing, and incoming, which holds the same links    *)
    symbolTable,  (* symbol -> the id that defines it                      *)
    exported,     (* cross_lang_exports: symbol -> the id that exports it  *)
    idCounter,    (* id_counter                                            *)
    memo,         (* a memoized answer, as a set of at most one            *)
    saved         (* the last exported state, as a set of at most one      *)

graphVars == <<fragments, linked, links, symbolTable, exported, idCounter, memo, saved>>
-----------------------------------------------------------------------------
Link == [from : Ids, to : Ids, ffi : BOOLEAN]

\* An answer is worn out by fragments of the store it was computed from.
Answer == [frags : SUBSET Ids, worn : BOOLEAN]

IsMap(m, S, T) == DOMAIN m \subseteq S /\ m \in [DOMAIN m -> T]

Empty == <<>>

\* Map inserts: a symbol has the last of its definitions.
Bind(m, K, v) == [k \in DOMAIN m \cup K |-> IF k \in K THEN v ELSE m[k]]

\* The links of an id to what a table says of symbols, itself left out.
LinksTo(id, symbols, table, ffi) ==
    {[from |-> id, to |-> table[s], ffi |-> ffi] :
        s \in {r \in symbols \cap DOMAIN table : table[r] # id}}

GraphInit ==
    /\ fragments = Empty
    /\ linked = Empty
    /\ links = {}
    /\ symbolTable = Empty
    /\ exported = Empty
    /\ idCounter = 0
    /\ memo = {}
    /\ saved = {}
-----------------------------------------------------------------------------
\* A fault: a content's own definitions are registered before it is linked.
AutoLinkLate(id, c) ==
    /\ symbolTable' = Bind(symbolTable, Defines[c] \cup Exports[c], id)
    /\ exported' = Bind(exported, Exports[c], id)
    /\ links' = links \cup LinksTo(id, Uses[c], symbolTable', FALSE)
                      \cup LinksTo(id, Uses[c], exported', TRUE)

(***************************************************************************)
(* auto_link: links to the definers there are, then registers, then links  *)
(* to the exporters there are now.                                         *)
(***************************************************************************)
AutoLink(id, c) ==
    /\ symbolTable' = Bind(symbolTable, Defines[c] \cup Exports[c], id)
    /\ exported' = Bind(exported, Exports[c], id)
    /\ links' = links \cup LinksTo(id, Uses[c], symbolTable, FALSE)
                      \cup LinksTo(id, Uses[c], exported', TRUE)

\* reverse_deps of every member, and the members.
WithDependents(S, edges) == S \cup {l.from : l \in {k \in edges : k.to \in S}}

\* The search of ingest goes three links up.
StaleClosure(id, edges) ==
    WithDependents(WithDependents(WithDependents({id}, edges), edges), edges)

NextId == idCounter < MaxIds /\ idCounter' = idCounter + 1

\* invalidate_weighted wears out what holds a stale fragment.
Wear(stale) == memo' = {[a EXCEPT !.worn = @ \/ a.frags \cap stale # {}] : a \in memo}

Ingest(c) ==
    /\ NextId
    /\ c \notin Range(fragments)
    /\ AutoLink(idCounter', c)
    /\ fragments' = Bind(fragments, {idCounter'}, c)
    /\ linked' = Bind(linked, {idCounter'}, c)
    /\ Wear(StaleClosure(idCounter', links'))
    /\ UNCHANGED saved

\* A duplicate, by itself or in a batch, uses an id up.
IngestDuplicate(c) ==
    /\ NextId
    /\ c \in Range(fragments)
    /\ memo' \in {memo, {}}
    /\ UNCHANGED <<fragments, linked, links, symbolTable, exported, saved>>

\* One item of a batch: the stub of its source goes, nothing is linked, and
\* the cache is cleared.
BatchIngest(c, gone) ==
    /\ NextId
    /\ c \notin Range(fragments)
    /\ fragments' = Bind(Restrict(fragments, DOMAIN fragments \ gone), {idCounter'}, c)
    /\ memo' = {}
    /\ UNCHANGED <<linked, links, symbolTable, exported, saved>>

IngestStub ==
    /\ NextId
    /\ fragments' = Bind(fragments, {idCounter'}, Stub)
    /\ UNCHANGED <<linked, links, symbolTable, exported, memo, saved>>

\* Decay and consolidation take fragments out of the store, and out of
\* nothing else; gc drops answers that are worn out.
AdvanceTurn(gone) ==
    /\ fragments' = Restrict(fragments, DOMAIN fragments \ gone)
    /\ memo' \in {memo, {a \in memo : ~a.worn}}
    /\ UNCHANGED <<linked, links, symbolTable, exported, idCounter, saved>>

\* optimize computes an answer from the whole store and memoizes it.
Optimize ==
    /\ fragments # Empty
    /\ memo' = {[frags |-> DOMAIN fragments, worn |-> FALSE]}
    /\ UNCHANGED <<fragments, linked, links, symbolTable, exported, idCounter, saved>>

Whole == [fragments |-> fragments, linked |-> linked, links |-> links,
          symbolTable |-> symbolTable, exported |-> exported,
          idCounter |-> idCounter, memo |-> memo]

ExportState ==
    /\ idCounter <= SavedIds
    /\ saved' = {Whole}
    /\ UNCHANGED <<fragments, linked, links, symbolTable, exported, idCounter, memo>>

\* A fault: the counter goes on from where this process is.
ImportStateKeepingCounter ==
    \E s \in saved :
        /\ fragments' = s.fragments
        /\ linked' = s.linked
        /\ links' = s.links
        /\ symbolTable' = s.symbolTable
        /\ exported' = s.exported
        /\ memo' = s.memo
        /\ UNCHANGED <<idCounter, saved>>

\* import_state replaces all of it, in this process or the next.
ImportState ==
    \E s \in saved :
        /\ fragments' = s.fragments
        /\ linked' = s.linked
        /\ links' = s.links
        /\ symbolTable' = s.symbolTable
        /\ exported' = s.exported
        /\ idCounter' = s.idCounter
        /\ memo' = s.memo
        /\ UNCHANGED saved

\* A new process has nothing until it imports.
Restart ==
    /\ fragments' = Empty
    /\ linked' = Empty
    /\ links' = {}
    /\ symbolTable' = Empty
    /\ exported' = Empty
    /\ idCounter' = 0
    /\ memo' = {}
    /\ UNCHANGED saved

Stubs == {i \in DOMAIN fragments : fragments[i] = Stub}

GraphNext ==
    \/ \E c \in Contents : Ingest(c) \/ IngestDuplicate(c)
    \/ \E c \in Contents : \E gone \in {{}} \cup {{i} : i \in Stubs} : BatchIngest(c, gone)
    \/ IngestStub
    \/ \E gone \in SUBSET DOMAIN fragments : AdvanceTurn(gone)
    \/ Optimize
    \/ ExportState
    \/ ImportState
    \/ Restart

GraphSpec == GraphInit /\ [][GraphNext]_graphVars
-----------------------------------------------------------------------------
\* What one engine holds, now or in an exported state.
IsEngine(e) ==
    /\ IsMap(e.fragments, Ids, Contents \cup {Stub})
    /\ IsMap(e.linked, Ids, Contents)
    /\ e.links \subseteq Link
    /\ IsMap(e.symbolTable, Symbols, Ids)
    /\ IsMap(e.exported, Symbols, Ids)
    /\ e.idCounter \in 0 .. MaxIds
    /\ e.memo \subseteq Answer
    /\ \A i \in DOMAIN e.fragments \cup DOMAIN e.linked : i <= e.idCounter

\* The types of the variables, and no id beyond the counter: of the engine as
\* it is and of the state it exported (depgraph.rs and export_state).
GraphTypeOK == IsEngine(Whole) /\ \A s \in saved : IsEngine(s)

\* An id is the last of a set of them.
IsNewest(i, S) == i \in S /\ \A j \in S : j <= i

Definers(s, e) == {i \in DOMAIN e.linked : s \in Defines[e.linked[i]] \cup Exports[e.linked[i]]}

Exporters(s, e) == {i \in DOMAIN e.linked : s \in Exports[e.linked[i]]}

UpTo(i, S) == {j \in S : j <= i}

\* The link of i to j that what was ingested up to i calls for.
CalledFor(l, e) ==
    /\ l.from \in DOMAIN e.linked
    /\ \E s \in Uses[e.linked[l.from]] :
         IF l.ffi
         THEN l.from # l.to /\ IsNewest(l.to, UpTo(l.from, Exporters(s, e)))
         ELSE IsNewest(l.to, UpTo(l.from - 1, Definers(s, e)))

\* The links are exactly those that the order of the contents calls for: of a
\* content to the definition of each symbol it uses that was the newest when
\* it came, and to another fragment that was the newest to export it.  Later
\* definitions, evictions, consolidations and imports add no link and take
\* none (auto_link, advance_turn, import_state): a fragment stays linked to a
\* version of a file that is long gone, and is never linked to the next one.
LinksAreExact == \A l \in Link : l \in links <=> CalledFor(l, Whole)

\* The fragments of the store that use what a content defines or exports.
UsersOf(c) ==
    {i \in DOMAIN fragments \cap DOMAIN linked :
        Uses[linked[i]] \cap (Defines[c] \cup Exports[c]) # {}}

\* What the comment in ingest says of the answers in the cache: when a content
\* comes that defines what older fragments use, an answer that holds one of
\* these dependents is weakened, or gone.
IngestWeakensDependents ==
    [][\A c \in Contents : Ingest(c) =>
         \A a \in memo : a.frags \cap UsersOf(c) # {} =>
            a.worn \/ a \notin memo']_graphVars
=============================================================================
