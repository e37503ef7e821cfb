------------------------------ MODULE Plugins ------------------------------
(* src/core/plugins/registry.ts with the auto() of src/index.ts, and what each    *)
(* init() of the Lucid plugin attaches to the database (src/db/lucid.ts).         *)
(* A plugin object is <<name, version>>: registering a name anew makes the next   *)
(* version. A loop is a running initRegisteredPlugins(), one per auto() call.     *)
EXTENDS Integers, Sequences, FiniteSets

CONSTANTS Names,        \* plugin names; their order is that of sortPlugins()
          Lucid,        \* the name of the Lucid plugin
          Loops,        \* calls of initRegisteredPlugins()
          MaxVersions,  \* bound: registrations of a name
          MaxPending,   \* MAX_PENDING_LUCID_QUERIES, 1000 in the source
          MaxQueries    \* bound: queries begun

ASSUME PluginsAssumption == /\ Names \subseteq Nat /\ Lucid \in Names
                            /\ MaxPending \in Nat \ {0} /\ MaxQueries \in Nat

VARIABLES version,    \* the version registered of each name, 0 for none
          inited,     \* the Set inited, of names
          begun,      \* the loops that have begun
          loops,      \* what each loop has left of its snapshot, to be taken in the
                      \* order of the names: the first is awaited
          calls,      \* history: init() calls of each plugin object
          overlapped, \* history: two loops ran at once
          raced,      \* history: a name registered anew while a loop was running
          pending,    \* each attached Lucid listener's Map of queries, numbered in
                      \* the order in which they begin and are inserted
          queries     \* [attached, later, spans, ended] of each query

registryVars == <<version, inited, begun, loops, calls, overlapped, raced>>
pluginVars == <<registryVars, pending, queries>>

Current(name) == <<name, version[name]>>
Running == {l \in Loops : loops[l] # {}}
Calls(p) == IF p \in DOMAIN calls THEN calls[p] ELSE 0

\* register(): a second one replaces the first, and is initialised again.
RegisterKeepsInited(name) == inited
RegisterForgets(name) == inited \ {name}

Register(name) ==
  /\ version[name] < MaxVersions
  /\ version' = [version EXCEPT ![name] = @ + 1]
  /\ inited' = RegisterForgets(name)
  /\ raced' = IF Running = {} THEN raced ELSE raced \cup {name}
  /\ UNCHANGED <<begun, loops, calls, overlapped, pending, queries>>

\* The loop goes on to the first plugin whose name is not initialised, calls its
\* init() and awaits it: an init() of Lucid has attached its listeners by then.
First(list) == CHOOSE p \in list : \A o \in list : p[1] <= o[1]

SkipNone(list, done) == list
SkipInited(list, done) ==
  LET left == {p \in list : p[1] \notin done}
  IN {p \in list : left # {} /\ p[1] >= First(left)[1]}

GoOn(l, list) ==
  LET next == SkipInited(list, inited')
  IN /\ loops' = [loops EXCEPT ![l] = next]
     /\ calls' = IF next = {} THEN calls
                 ELSE [p \in DOMAIN calls \cup {First(next)} |->
                         Calls(p) + (IF p = First(next) THEN 1 ELSE 0)]
     /\ pending' = IF next # {} /\ First(next)[1] = Lucid THEN Append(pending, {}) ELSE pending

\* initRegisteredPlugins(): a snapshot, to be taken in order.
Snapshot == {Current(n) : n \in {m \in Names : version[m] > 0}}

InitRegisteredPlugins(l) ==
  /\ l \notin begun /\ begun' = begun \cup {l} /\ UNCHANGED inited
  /\ GoOn(l, Snapshot)
  /\ overlapped' = (overlapped \/ Running # {})
  /\ UNCHANGED <<version, raced, queries>>

\* The awaited init() resolves; or it throws and is skipped with a warning.
PluginInitialised(l) ==
  /\ loops[l] # {} /\ inited' = inited \cup {First(loops[l])[1]}
  /\ GoOn(l, loops[l] \ {First(loops[l])})
  /\ UNCHANGED <<version, begun, overlapped, raced, queries>>
PluginFails(l) ==
  /\ loops[l] # {} /\ First(loops[l])[1] # Lucid /\ UNCHANGED inited
  /\ GoOn(l, loops[l] \ {First(loops[l])})
  /\ UNCHANGED <<version, begun, overlapped, raced, queries>>

-----------------------------------------------------------------------------
\* Each listener keeps the query until it completes; past the cap the oldest goes.
TrackUnbounded(map, q) == map \cup {q}
Oldest(map) == CHOOSE q \in map : \A o \in map : q <= o
Track(map, q) == LET grown == map \cup {q}
                 IN IF Cardinality(grown) > MaxPending THEN grown \ {Oldest(grown)} ELSE grown

QueryStarts ==
  /\ Len(queries) < MaxQueries
  /\ LET q == Len(queries) + 1
     IN /\ pending' = [i \in DOMAIN pending |-> Track(pending[i], q)]
        /\ queries' = Append([i \in DOMAIN queries |->
                                IF queries[i].ended THEN queries[i]
                                ELSE [queries[i] EXCEPT !.later = @ + 1]],
                             [attached |-> Len(pending), later |-> 0, spans |-> 0, ended |-> FALSE])
  /\ UNCHANGED registryVars

\* 'query-response' or 'query-error'; a stream may emit neither, ever.
QueryEnds(q) ==
  /\ ~queries[q].ended
  /\ pending' = [i \in DOMAIN pending |-> pending[i] \ {q}]
  /\ queries' = [queries EXCEPT ![q].ended = TRUE,
                   ![q].spans = Cardinality({i \in DOMAIN pending : q \in pending[i]})]
  /\ UNCHANGED registryVars

-----------------------------------------------------------------------------
PluginsInit == /\ version = [n \in Names |-> 0] /\ inited = {} /\ begun = {} /\ calls = <<>>
               /\ loops = [l \in Loops |-> {}] /\ overlapped = FALSE /\ raced = {}
               /\ pending = <<>> /\ queries = <<>>

PluginsNext == \/ \E n \in Names : Register(n)
               \/ \E l \in Loops : InitRegisteredPlugins(l) \/ PluginInitialised(l) \/ PluginFails(l)
               \/ QueryStarts
               \/ \E q \in DOMAIN queries : QueryEnds(q)

-----------------------------------------------------------------------------
\* "Runs `init` once per plugin name (after register)": one that never fails is
\* initialised once per registration, unless two auto() calls await their plugins
\* at once, or one awaits while the plugin is registered anew and then initialises
\* the object of its snapshot again. And however the calls overlap, fail and meet new
\* registrations, no object is initialised more often than auto() was called.
InitOnce ==
  \A p \in DOMAIN calls :
    /\ p[1] = Lucid /\ ~overlapped /\ Lucid \notin raced => calls[p] = 1
    /\ calls[p] <= Cardinality(begun)

\* A name that counts as initialised is: the object registered last had its
\* init() called, unless it was registered while a loop awaited its predecessor.
InitedIsCurrent ==
  \A n \in inited : n \notin raced => Calls(Current(n)) > 0

\* Every query that completes has one span for each time Lucid was initialised
\* before it began, unless as many queries began after it as a Map holds; and no
\* Map outgrows its cap, however many queries never complete.
QueriesHaveSpans ==
  /\ \A q \in DOMAIN queries :
       LET query == queries[q]
       IN query.ended /\ query.later < MaxPending => query.spans = query.attached
  /\ \A i \in DOMAIN pending : Cardinality(pending[i]) <= MaxPending
=============================================================================
