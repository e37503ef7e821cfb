----------------------- MODULE InstrumentationProofs -----------------------
(***************************************************************************)
(* For every number of plugins, auto() calls, queries, patches and calls:  *)
(* Plugins initialises as it promises and gives each query its spans, and  *)
(* OutboundHttp gives each call its spans without being noticed.           *)
(***************************************************************************)
EXTENDS Plugins, OutboundHttp, FiniteSetTheorems, SequenceTheorems,
        WellFoundedInduction, TLAPS

PluginsSpec == PluginsInit /\ [][PluginsNext]_pluginVars
OutboundSpec == OutboundInit /\ [][OutboundNext]_outboundVars

-----------------------------------------------------------------------------
(* Plugins, the registry. *)

Objects == Names \X (Nat \ {0})

RegistryType ==
  /\ version \in [Names -> Nat]
  /\ inited \subseteq Names
  /\ loops \in [Loops -> SUBSET Objects]
  /\ DOMAIN calls \subseteq Objects
  /\ calls \in [DOMAIN calls -> Nat \ {0}]
  /\ overlapped \in BOOLEAN /\ raced \subseteq Names

(* A loop holds the objects registered last, but for the names registered  *)
(* anew meanwhile; it has called the init() it awaits; and it is the only  *)
(* one, unless two overlapped.                                             *)
LoopsInv ==
  /\ \A l \in Loops : \A p \in loops[l] :
       p[2] <= version[p[1]] /\ (p[1] \notin raced => p = Current(p[1]))
  /\ \A l \in Running : First(loops[l]) \in DOMAIN calls
  /\ ~overlapped => \A l, m \in Running : l = m

(* Lucid, whose init() never fails, was called at most once per object; an *)
(* object whose init() has been called is done, awaited or replaced.       *)
LucidInv ==
  /\ \A p \in DOMAIN calls : p[2] <= version[p[1]]
  /\ ~overlapped /\ Lucid \notin raced /\ Current(Lucid) \in DOMAIN calls =>
       Lucid \in inited \/ \E l \in Running : First(loops[l]) = Current(Lucid)

LucidOnce ==
  \A p \in DOMAIN calls :
    p[1] = Lucid /\ ~overlapped /\ Lucid \notin raced => calls[p] = 1

RegistryInv ==
  /\ RegistryType /\ LoopsInv /\ LucidInv /\ LucidOnce /\ InitedIsCurrent

LEMMA LeastNatural ==
  ASSUME NEW T \in SUBSET Nat, T # {}
  PROVE  \E n \in T : \A m \in T : n <= m
<1>1. \E n \in T : \A m \in T : <<m, n>> \notin OpToRel(<, Nat)
  BY NatLessThanWellFounded, WFMin
<1>2. ASSUME NEW m \in Nat, NEW n \in Nat, <<m, n>> \notin OpToRel(<, Nat)
      PROVE  n <= m
  <2>1. ~(m < n)
    BY <1>2 DEF OpToRel
  <2> QED BY <2>1
<1> QED BY <1>1, <1>2

(* The plugin that a loop awaits is one that it has left. *)
LEMMA FirstIsLeast ==
  ASSUME NEW list \in SUBSET Objects, list # {}
  PROVE  First(list) \in list /\ \A o \in list : First(list)[1] <= o[1]
<1> DEFINE T == {p[1] : p \in list}
<1>1. T \subseteq Nat /\ T # {}
  BY PluginsAssumption DEF Objects
<1>2. \E n \in T : \A m \in T : n <= m
  BY <1>1, LeastNatural
<1>3. \E p \in list : \A o \in list : p[1] <= o[1]
  BY <1>2
<1> QED BY <1>3 DEF First

(* What is skipped has been initialised; what is next has not. *)
LEMMA SkipsInited ==
  ASSUME NEW list \in SUBSET Objects, NEW done
  PROVE  LET next == SkipInited(list, done) IN
         /\ next \subseteq list
         /\ next # {} => First(next) \in next /\ First(next)[1] \notin done
<1> DEFINE next == SkipInited(list, done)
           left == {p \in list : p[1] \notin done}
<1>1. next = {p \in list : left # {} /\ p[1] >= First(left)[1]}
  BY DEF SkipInited
<1>2. next \subseteq list
  BY <1>1
<1>3. ASSUME next # {} PROVE First(next) \in next /\ First(next)[1] \notin done
  <2>1. left # {} /\ left \in SUBSET Objects /\ next \in SUBSET Objects
    BY <1>1, <1>3
  <2> HIDE DEF left, next
  <2>2. First(left) \in left /\ First(next) \in next
        /\ \A o \in next : First(next)[1] <= o[1]
    BY <2>1, <1>3, FirstIsLeast
  <2>3. First(left) \in next
    <3>1. First(left) \in list /\ First(left)[1] \in Nat
      BY <2>1, <2>2, PluginsAssumption DEF left, Objects
    <3> QED BY <1>1, <2>1, <3>1
  <2>4. First(next)[1] <= First(left)[1]
    BY <2>2, <2>3
  <2>5. First(next)[1] >= First(left)[1]
    BY <1>1, <2>2
  <2>6. First(next)[1] = First(left)[1]
    <3>1. First(next)[1] \in Nat /\ First(left)[1] \in Nat
      BY <2>1, <2>2, PluginsAssumption DEF Objects
    <3> QED BY <2>4, <2>5, <3>1
  <2> QED BY <2>2, <2>6 DEF left
<1> QED BY <1>2, <1>3

LEMMA RegistryStarts == PluginsInit => RegistryInv
<1> SUFFICES ASSUME PluginsInit PROVE RegistryInv
  OBVIOUS
<1> USE DEF PluginsInit
<1>1. DOMAIN calls = {} /\ calls \in [DOMAIN calls -> Nat \ {0}]
  <2>1. DOMAIN <<>> = {}
    OBVIOUS
  <2> QED BY <2>1
<1>2. RegistryType
  BY <1>1 DEF RegistryType
<1>3. Running = {}
  BY DEF Running
<1>4. LoopsInv
  BY <1>3 DEF LoopsInv
<1>5. LucidInv /\ LucidOnce /\ InitedIsCurrent
  BY <1>1 DEF LucidInv, LucidOnce, InitedIsCurrent
<1> QED BY <1>2, <1>4, <1>5 DEF RegistryInv

(* A registration while no loop runs is a fresh start for its name; any    *)
(* other name keeps what it has.                                           *)
LEMMA RegisterStep ==
  ASSUME RegistryInv, NEW name \in Names, Register(name) PROVE RegistryInv'
<1> USE DEF RegistryInv, RegistryType
<1>1. /\ version' = [version EXCEPT ![name] = @ + 1]
      /\ inited' = inited \ {name}
      /\ raced' = IF Running = {} THEN raced ELSE raced \cup {name}
      /\ loops' = loops /\ calls' = calls /\ overlapped' = overlapped
      /\ Running' = Running
  BY DEF Register, RegisterForgets, Running
<1>2. RegistryType'
  BY <1>1
<1>3. \A n \in Names : /\ version[n] \in Nat /\ version'[n] \in Nat
                       /\ version[n] <= version'[n]
                       /\ n # name => Current(n)' = Current(n)
  BY <1>1 DEF Current
<1>4. \A p \in Objects : p[1] \in Names /\ p[2] \in Nat /\ p = <<p[1], p[2]>>
  BY DEF Objects
<1>5. LoopsInv'
  <2>1. ASSUME NEW l \in Loops, NEW p \in loops[l]
        PROVE  p[2] <= version'[p[1]] /\ (p[1] \notin raced' => p = Current(p[1])')
    <3>1. p \in Objects /\ p[2] <= version[p[1]] /\ l \in Running
          /\ (p[1] \notin raced => p = Current(p[1]))
      BY DEF LoopsInv, Running
    <3>2. p[2] <= version'[p[1]]
      BY <1>3, <1>4, <3>1
    <3>3. p[1] \notin raced' => p[1] \notin raced /\ p[1] # name
      BY <1>1, <3>1
    <3>4. p[1] # name => Current(p[1])' = Current(p[1])
      BY <1>3, <1>4, <3>1
    <3> QED BY <3>1, <3>2, <3>3, <3>4
  <2> QED BY <1>1, <2>1 DEF LoopsInv
<1>6. \A p \in DOMAIN calls : p[2] <= version[p[1]] /\ p \in Objects
  BY DEF LucidInv
<1>7. LucidInv'
  <2>1. \A p \in DOMAIN calls' : p[2] <= version'[p[1]]
    BY <1>1, <1>3, <1>4, <1>6
  <2>2. CASE name = Lucid
    <3>1. Current(Lucid)' \notin DOMAIN calls
      <4>1. Current(Lucid)'[2] = version[Lucid] + 1 /\ Current(Lucid)'[1] = Lucid
        BY <1>1, <2>2 DEF Current
      <4> QED BY <4>1, <1>3, <1>6, <2>2
    <3> QED BY <2>1, <3>1, <1>1 DEF LucidInv
  <2>3. CASE name # Lucid
    <3>1. Current(Lucid)' = Current(Lucid) /\ (Lucid \in inited => Lucid \in inited')
          /\ (Lucid \notin raced' => Lucid \notin raced)
      BY <1>1, <1>3, <2>3, PluginsAssumption
    <3> QED BY <1>1, <2>1, <3>1 DEF LucidInv
  <2> QED BY <2>2, <2>3
<1>8. LucidOnce'
  BY <1>1 DEF LucidOnce
<1>9. InitedIsCurrent'
  <2> SUFFICES ASSUME NEW n \in inited', n \notin raced'
               PROVE  Calls(Current(n))' > 0
    BY DEF InitedIsCurrent
  <2>1. n # name /\ n \in inited /\ n \notin raced /\ n \in Names
    BY <1>1
  <2>2. Calls(Current(n)) > 0 /\ Current(n)' = Current(n)
    BY <2>1, <1>3 DEF InitedIsCurrent
  <2> QED BY <2>2, <1>1 DEF Calls
<1> QED BY <1>2, <1>5, <1>7, <1>8, <1>9

(* goOn(): loop l continues with what is in its list. *)
LEMMA GoOnStep ==
  ASSUME RegistryInv, NEW l \in Loops, NEW list \in SUBSET Objects, GoOn(l, list),
         version' = version, raced' = raced,
         inited' \subseteq Names,
         overlapped' \in BOOLEAN, overlapped => overlapped',
         \A p \in list :
           p[2] <= version[p[1]] /\ (p[1] \notin raced => p = Current(p[1])),
         \A n \in inited' : n \notin raced => Calls(Current(n)) > 0,
         ~overlapped' => \A m \in Running : m = l,
         /\ ~overlapped' /\ Lucid \notin raced /\ Current(Lucid) \in DOMAIN calls
         => Lucid \in inited'
  PROVE  RegistryInv'
<1> USE DEF RegistryInv, RegistryType
<1> DEFINE next == SkipInited(list, inited')
<1>1. /\ loops' = [loops EXCEPT ![l] = next]
      /\ calls' = IF next = {} THEN calls
                  ELSE [p \in DOMAIN calls \cup {First(next)} |->
                          Calls(p) + (IF p = First(next) THEN 1 ELSE 0)]
  BY DEF GoOn
<1>2. /\ next \subseteq list /\ next \subseteq Objects
      /\ next # {} => First(next) \in next /\ First(next)[1] \notin inited'
  BY SkipsInited
<1> HIDE DEF next
<1>3. \A p : Calls(p) \in Nat /\ (p \in DOMAIN calls => Calls(p) = calls[p])
            /\ (p \notin DOMAIN calls => Calls(p) = 0)
  BY DEF Calls
<1>4. /\ DOMAIN calls' = DOMAIN calls \cup (IF next = {} THEN {} ELSE {First(next)})
      /\ DOMAIN calls' \subseteq Objects
  BY <1>1, <1>2
<1>5. \A p \in DOMAIN calls' : calls'[p] =
         Calls(p) + (IF next # {} /\ p = First(next) THEN 1 ELSE 0)
  BY <1>1, <1>3, <1>4
<1>6. calls' \in [DOMAIN calls' -> Nat \ {0}]
  <2>1. \A p \in DOMAIN calls' : calls'[p] \in Nat \ {0}
    BY <1>3, <1>4, <1>5
  <2>2. calls' = [p \in DOMAIN calls' |-> calls'[p]]
    BY <1>1
  <2> QED BY <2>1, <2>2
<1>7. RegistryType'
  BY <1>1, <1>2, <1>4, <1>6
<1>8. \A n : Current(n)' = Current(n)
  BY DEF Current
<1>9. \A m \in Loops : loops'[m] = IF m = l THEN next ELSE loops[m]
  BY <1>1
<1>10. \A m \in Loops : m # l => (m \in Running' <=> m \in Running)
  BY <1>9 DEF Running
<1>11. LoopsInv'
  <2>1. ASSUME NEW m \in Loops, NEW p \in loops'[m]
        PROVE  p[2] <= version'[p[1]] /\ (p[1] \notin raced' => p = Current(p[1])')
    BY <1>2, <1>8, <1>9 DEF LoopsInv
  <2>2. ASSUME NEW m \in Running' PROVE First(loops'[m]) \in DOMAIN calls'
    <3>1. CASE m = l
      BY <3>1, <1>4, <1>9 DEF Running
    <3>2. CASE m # l
      BY <3>2, <1>4, <1>9, <1>10 DEF LoopsInv, Running
    <3> QED BY <3>1, <3>2
  <2>3. ~overlapped' => \A m, k \in Running' : m = k
    BY <1>10 DEF Running
  <2> QED BY <2>1, <2>2, <2>3 DEF LoopsInv
<1>12. LucidInv'
  <2>1. \A p \in DOMAIN calls' : p[2] <= version'[p[1]]
    BY <1>2, <1>4 DEF LucidInv
  <2>2. ASSUME ~overlapped', Lucid \notin raced', Current(Lucid)' \in DOMAIN calls'
        PROVE  Lucid \in inited' \/ \E m \in Running' : First(loops'[m]) = Current(Lucid)'
    <3>1. CASE Current(Lucid) \in DOMAIN calls
      BY <3>1, <2>2
    <3>2. CASE next # {} /\ Current(Lucid) = First(next)
      BY <3>2, <1>8, <1>9 DEF Running
    <3> QED BY <3>1, <3>2, <2>2, <1>4, <1>8
  <2> QED BY <2>1, <2>2 DEF LucidInv
<1>13. LucidOnce'
  <2> SUFFICES ASSUME NEW p \in DOMAIN calls', p[1] = Lucid, ~overlapped',
                      Lucid \notin raced'
               PROVE  calls'[p] = 1
    BY DEF LucidOnce
  <2>1. CASE next # {} /\ p = First(next)
    <3>1. p \in list /\ Lucid \notin inited'
      BY <2>1, <1>2
    <3>2. p = Current(Lucid)
      BY <3>1
    <3>3. p \notin DOMAIN calls
      BY <3>1, <3>2
    <3> QED BY <2>1, <3>3, <1>3, <1>5
  <2>2. CASE ~(next # {} /\ p = First(next))
    <3>1. p \in DOMAIN calls /\ calls'[p] = calls[p]
      BY <2>2, <1>3, <1>4, <1>5
    <3> QED BY <3>1 DEF LucidOnce
  <2> QED BY <2>1, <2>2
<1>14. InitedIsCurrent'
  <2>1. \A p : Calls(p) > 0 => Calls(p)' > 0
    <3> TAKE p
    <3>1. Calls(p) > 0 => p \in DOMAIN calls'
      BY <1>3, <1>4
    <3>2. p \in DOMAIN calls' => Calls(p)' = calls'[p] /\ calls'[p] > 0
      BY <1>6 DEF Calls
    <3> QED BY <3>1, <3>2
  <2> SUFFICES ASSUME NEW n \in inited', n \notin raced'
               PROVE  Calls(Current(n))' > 0
    BY DEF InitedIsCurrent
  <2>2. Calls(Current(n)) > 0 /\ Current(n)' = Current(n)
    BY <1>8
  <2> QED BY <2>1, <2>2 DEF Calls
<1> QED BY <1>7, <1>11, <1>12, <1>13, <1>14

LEMMA RegistryStep == RegistryInv /\ [PluginsNext]_pluginVars => RegistryInv'
<1> SUFFICES ASSUME RegistryInv, [PluginsNext]_pluginVars PROVE RegistryInv'
  OBVIOUS
<1>0. RegistryType /\ LoopsInv /\ LucidInv /\ LucidOnce /\ InitedIsCurrent
  BY DEF RegistryInv
<1>1. ASSUME NEW n \in Names, Register(n) PROVE RegistryInv'
  BY <1>1, RegisterStep
<1>2. ASSUME NEW l \in Loops, InitRegisteredPlugins(l) PROVE RegistryInv'
  <2>1. /\ GoOn(l, Snapshot) /\ version' = version /\ raced' = raced
        /\ inited' = inited /\ overlapped' = (overlapped \/ Running # {})
    BY <1>2 DEF InitRegisteredPlugins
  <2>2. Snapshot \in SUBSET Objects
    BY <1>0 DEF Snapshot, Current, Objects, RegistryType
  <2>3. \A p \in Snapshot :
          p[2] <= version[p[1]] /\ (p[1] \notin raced => p = Current(p[1]))
    BY <1>0 DEF Snapshot, Current, RegistryType
  <2>4. inited' \subseteq Names /\ overlapped' \in BOOLEAN
    BY <1>0, <2>1 DEF RegistryType
  <2>5. \A n \in inited' : n \notin raced => Calls(Current(n)) > 0
    BY <1>0, <2>1 DEF InitedIsCurrent
  <2>6. ~overlapped' => \A m \in Running : m = l
    BY <2>1
  <2>7. /\ ~overlapped' /\ Lucid \notin raced /\ Current(Lucid) \in DOMAIN calls
        => Lucid \in inited'
    BY <1>0, <2>1 DEF LucidInv
  <2> QED BY <2>1, <2>2, <2>3, <2>4, <2>5, <2>6, <2>7, GoOnStep
<1>3. ASSUME NEW l \in Loops, loops[l] # {}, GoOn(l, loops[l] \ {First(loops[l])}),
             UNCHANGED <<version, overlapped, raced>>,
             \/ inited' = inited \cup {First(loops[l])[1]}
             \/ inited' = inited /\ First(loops[l])[1] # Lucid
      PROVE  RegistryInv'
  <2> DEFINE list == loops[l] \ {First(loops[l])}
  <2>1. l \in Running /\ loops[l] \in SUBSET Objects
    BY <1>0, <1>3 DEF Running, RegistryType
  <2>2. First(loops[l]) \in loops[l] /\ First(loops[l])[1] \in Names
    BY <1>3, <2>1, FirstIsLeast DEF Objects
  <2>3. list \in SUBSET Objects
    BY <2>1
  <2>4. \A p \in loops[l] :
          p[2] <= version[p[1]] /\ (p[1] \notin raced => p = Current(p[1]))
    BY <1>0 DEF LoopsInv
  <2>5. inited' \subseteq Names /\ overlapped' \in BOOLEAN
    BY <1>0, <1>3, <2>2 DEF RegistryType
  <2>6. \A n \in inited' : n \notin raced => Calls(Current(n)) > 0
    <3> SUFFICES ASSUME NEW n \in inited', n \notin raced
                 PROVE  Calls(Current(n)) > 0
      OBVIOUS
    <3>1. CASE n \in inited
      BY <3>1, <1>0 DEF InitedIsCurrent
    <3>2. CASE n = First(loops[l])[1]
      <4>1. First(loops[l]) = Current(n)
        BY <3>2, <2>2, <2>4
      <4>2. Current(n) \in DOMAIN calls
        BY <4>1, <2>1, <1>0 DEF LoopsInv
      <4> QED BY <4>2, <1>0 DEF Calls, RegistryType
    <3> QED BY <3>1, <3>2, <1>3
  <2>7. ~overlapped' => \A m \in Running : m = l
    BY <1>0, <1>3, <2>1 DEF LoopsInv
  <2>8. ASSUME ~overlapped', Lucid \notin raced, Current(Lucid) \in DOMAIN calls
        PROVE  Lucid \in inited'
    <3>1. Lucid \in inited \/ First(loops[l]) = Current(Lucid)
      BY <1>0, <1>3, <2>7, <2>8 DEF LucidInv
    <3>2. Current(Lucid)[1] = Lucid
      BY DEF Current
    <3> QED BY <1>3, <3>1, <3>2
  <2> HIDE DEF list
  <2>9. \A p \in list :
          p[2] <= version[p[1]] /\ (p[1] \notin raced => p = Current(p[1]))
    BY <2>4 DEF list
  <2>10. GoOn(l, list)
    BY <1>3 DEF list
  <2> QED BY <1>3, <2>3, <2>5, <2>6, <2>7, <2>8, <2>9, <2>10, GoOnStep
<1>4. ASSUME NEW l \in Loops, PluginInitialised(l) PROVE RegistryInv'
  BY <1>3, <1>4 DEF PluginInitialised
<1>5. ASSUME NEW l \in Loops, PluginFails(l) PROVE RegistryInv'
  BY <1>3, <1>5 DEF PluginFails
<1>6. CASE UNCHANGED registryVars
  BY <1>0, <1>6 DEF registryVars, RegistryInv, RegistryType, LoopsInv, LucidInv,
     LucidOnce, InitedIsCurrent, Running, Current, Calls
<1>7. CASE QueryStarts \/ (\E q \in DOMAIN queries : QueryEnds(q)) \/ UNCHANGED pluginVars
  BY <1>6, <1>7 DEF QueryStarts, QueryEnds, pluginVars
<1> QED BY <1>1, <1>2, <1>4, <1>5, <1>7 DEF PluginsNext

LEMMA RegistryAlways == PluginsSpec => []RegistryInv
BY RegistryStarts, RegistryStep, PTL DEF PluginsSpec

-----------------------------------------------------------------------------
(* Plugins, the loops that have come to an object. *)

TakenBy(p) == {l \in begun : p \notin loops[l] \/ p = First(loops[l])}

(* A loop calls the init() of an object at most once: when it comes to it. *)
TakenInv ==
  /\ IsFiniteSet(begun) /\ \A l \in Loops \ begun : loops[l] = {}
  /\ \A p \in DOMAIN calls : calls[p] <= Cardinality(TakenBy(p))

LEMMA TakenStarts == PluginsInit => TakenInv
<1>1. ASSUME PluginsInit PROVE DOMAIN calls = {} /\ begun = {} /\ \A l \in Loops : loops[l] = {}
  BY <1>1 DEF PluginsInit
<1> QED BY <1>1, FS_EmptySet DEF TakenInv

LEMMA GoOnTakes ==
  ASSUME RegistryInv, TakenInv, NEW l \in Loops, NEW list \in SUBSET Objects,
         GoOn(l, list), begun' = begun \cup {l},
         l \in begun => list \subseteq loops[l] \ {First(loops[l])}
  PROVE  TakenInv'
<1> DEFINE next == SkipInited(list, inited')
           first == First(next)
<1>1. /\ loops' = [loops EXCEPT ![l] = next]
      /\ calls' = IF next = {} THEN calls
                  ELSE [p \in DOMAIN calls \cup {first} |->
                          Calls(p) + (IF p = first THEN 1 ELSE 0)]
  BY DEF GoOn
<1>2. next \subseteq list /\ (next # {} => first \in next)
  BY SkipsInited
<1> HIDE DEF next, first
<1>3. \A m \in Loops : loops'[m] = IF m = l THEN next ELSE loops[m]
  BY <1>1 DEF RegistryInv, RegistryType
<1>4. IsFiniteSet(begun) /\ IsFiniteSet(begun') /\ begun' = begun \cup {l}
  BY FS_AddElement DEF TakenInv
<1>5. \A m \in Loops \ begun' : loops'[m] = {}
  BY <1>3, <1>4 DEF TakenInv
<1>6. next # {} => loops'[l] = next /\ first = First(loops'[l])
  BY <1>3 DEF first
<1>7. ASSUME NEW p \in DOMAIN calls' PROVE calls'[p] <= Cardinality(TakenBy(p)')
  <2> DEFINE T == TakenBy(p)
             U == TakenBy(p)'
             new == next # {} /\ p = first
  <2>1. T \subseteq begun /\ U = {m \in begun' : p \notin loops'[m] \/ p = First(loops'[m])}
    BY DEF TakenBy
  <2>2. IsFiniteSet(T) /\ IsFiniteSet(U)
    BY <1>4, <2>1, FS_Subset
  <2>3. T \subseteq U
    <3> SUFFICES ASSUME NEW m \in T PROVE m \in U
      OBVIOUS
    <3>1. m \in begun /\ (p \notin loops[m] \/ p = First(loops[m]))
      BY DEF TakenBy
    <3>2. CASE m = l
      BY <3>1, <3>2, <1>2, <1>3, <1>4, <2>1
    <3>3. CASE m # l
      <4>1. loops'[m] = loops[m]
        BY <3>3, <1>1 DEF RegistryInv, RegistryType
      <4> QED BY <3>1, <4>1, <1>4, <2>1
    <3> QED BY <3>2, <3>3
  <2>4. new => l \in U /\ l \notin T
    <3>1. new => l \in U
      BY <1>4, <1>6, <2>1
    <3>2. new => l \notin T
      BY <1>2 DEF TakenBy
    <3> QED BY <3>1, <3>2
  <2> HIDE DEF T, U
  <2>5. /\ Cardinality(T) \in Nat /\ Cardinality(U) \in Nat
        /\ Cardinality(T) + (IF new THEN 1 ELSE 0) <= Cardinality(U)
    <3>1. Cardinality(T) \in Nat /\ Cardinality(U) \in Nat
      BY <2>2, FS_CardinalityType
    <3>2. CASE new
      <4>1. T \cup {l} \subseteq U
        BY <2>3, <2>4, <3>2
      <4>2. Cardinality(T \cup {l}) = Cardinality(T) + 1
        BY <2>2, <2>4, <3>2, FS_AddElement
      <4>3. Cardinality(T \cup {l}) <= Cardinality(U)
        BY <4>1, <2>2, FS_Subset
      <4> QED BY <3>1, <3>2, <4>2, <4>3
    <3>3. CASE ~new
      <4>1. Cardinality(T) <= Cardinality(U)
        BY <2>2, <2>3, FS_Subset
      <4> QED BY <3>1, <3>3, <4>1
    <3> QED BY <3>1, <3>2, <3>3
  <2>6. Calls(p) \in Nat /\ Calls(p) <= Cardinality(T)
    <3>1. CASE p \in DOMAIN calls
      <4>1. calls[p] \in Nat /\ calls[p] <= Cardinality(T)
        BY <3>1 DEF T, TakenInv, RegistryInv, RegistryType
      <4> QED BY <3>1, <4>1 DEF Calls
    <3>2. CASE p \notin DOMAIN calls
      BY <3>2, <2>5 DEF Calls
    <3> QED BY <3>1, <3>2
  <2>7. calls'[p] = Calls(p) + (IF new THEN 1 ELSE 0)
    <3>1. CASE next = {}
      BY <3>1, <1>1, <2>6 DEF Calls
    <3>2. CASE next # {}
      BY <3>2, <1>1, <2>6
    <3> QED BY <3>1, <3>2
  <2> HIDE DEF new
  <2> QED BY <2>5, <2>6, <2>7 DEF U
<1> QED BY <1>4, <1>5, <1>7 DEF TakenInv

LEMMA TakenStep == RegistryInv /\ TakenInv /\ [PluginsNext]_pluginVars => TakenInv'
<1> SUFFICES ASSUME RegistryInv, TakenInv, [PluginsNext]_pluginVars PROVE TakenInv'
  OBVIOUS
<1>1. ASSUME NEW l \in Loops, InitRegisteredPlugins(l) PROVE TakenInv'
  <2>1. GoOn(l, Snapshot) /\ begun' = begun \cup {l} /\ l \notin begun
    BY <1>1 DEF InitRegisteredPlugins
  <2>2. Snapshot \in SUBSET Objects
    BY DEF Snapshot, Current, Objects, RegistryInv, RegistryType
  <2> QED BY <2>1, <2>2, GoOnTakes
<1>2. ASSUME NEW l \in Loops, loops[l] # {}, begun' = begun,
             GoOn(l, loops[l] \ {First(loops[l])})
      PROVE  TakenInv'
  <2> DEFINE list == loops[l] \ {First(loops[l])}
  <2>1. list \in SUBSET Objects
    BY DEF RegistryInv, RegistryType
  <2>2. begun' = begun \cup {l}
    BY <1>2 DEF TakenInv
  <2>3. GoOn(l, list)
    BY <1>2
  <2>4. list \subseteq loops[l] \ {First(loops[l])}
    OBVIOUS
  <2> HIDE DEF list
  <2> QED BY <2>1, <2>2, <2>3, <2>4, GoOnTakes
<1>3. ASSUME NEW l \in Loops, PluginInitialised(l) \/ PluginFails(l) PROVE TakenInv'
  BY <1>2, <1>3 DEF PluginInitialised, PluginFails
<1>4. CASE UNCHANGED <<begun, loops, calls>>
  BY <1>4 DEF TakenInv, TakenBy
<1>5. CASE \/ \E n \in Names : Register(n)
           \/ QueryStarts \/ (\E q \in DOMAIN queries : QueryEnds(q)) \/ UNCHANGED pluginVars
  BY <1>4, <1>5 DEF Register, QueryStarts, QueryEnds, pluginVars, registryVars
<1> QED BY <1>1, <1>3, <1>5 DEF PluginsNext

-----------------------------------------------------------------------------
(* Plugins, the queries of Lucid. *)

QueryType == [attached : Nat, later : Nat, spans : Nat, ended : BOOLEAN]

(* A Map holds only queries that began after its listener was attached and *)
(* have not completed; it lacks one of those only if as many began after   *)
(* it as a Map holds.                                                      *)
MapsInv ==
  /\ queries \in Seq(QueryType)
  /\ pending \in Seq(SUBSET (1 .. Len(queries)))
  /\ \A q \in 1 .. Len(queries) : ~queries[q].ended =>
       /\ queries[q].later = Len(queries) - q
       /\ queries[q].attached <= Len(pending)
       /\ queries[q].later < MaxPending =>
            \A i \in 1 .. queries[q].attached : q \in pending[i]
  /\ \A i \in 1 .. Len(pending) : \A q \in pending[i] :
       ~queries[q].ended /\ i <= queries[q].attached

QueriesInv == MapsInv /\ QueriesHaveSpans

LEMMA CountAbove ==
  ASSUME NEW m \in Int, NEW n \in Int, m <= n
  PROVE  IsFiniteSet(m + 1 .. n) /\ Cardinality(m + 1 .. n) = n - m
<1>1. m + 1 \in Int
  OBVIOUS
<1>2. IsFiniteSet(m + 1 .. n)
      /\ Cardinality(m + 1 .. n) = IF m + 1 > n THEN 0 ELSE n - (m + 1) + 1
  BY <1>1, FS_Interval
<1> QED BY <1>2

LEMMA TrackKeeps ==
  ASSUME NEW n \in Nat, NEW map \in SUBSET (1 .. n), Cardinality(map) <= MaxPending
  PROVE  LET t == Track(map, n + 1) IN
         /\ t \subseteq map \cup {n + 1} /\ n + 1 \in t
         /\ Cardinality(t) <= MaxPending
         /\ \A m \in map : m \notin t => n + 1 - m >= MaxPending
<1> USE PluginsAssumption
<1> DEFINE grown == map \cup {n + 1}
<1>1. IsFiniteSet(map) /\ Cardinality(map) \in Nat /\ n + 1 \notin map
  <2>1. IsFiniteSet(1 .. n)
    BY FS_Interval
  <2>2. IsFiniteSet(map)
    BY <2>1, FS_Subset
  <2>3. n + 1 \notin map
    OBVIOUS
  <2> QED BY <2>2, <2>3, FS_CardinalityType
<1>2. IsFiniteSet(grown) /\ Cardinality(grown) = Cardinality(map) + 1
  BY <1>1, FS_AddElement
<1>3. CASE ~(Cardinality(grown) > MaxPending)
  <2>1. Track(map, n + 1) = grown
    BY <1>3 DEF Track
  <2> QED BY <2>1, <1>1, <1>2, <1>3
<1>4. CASE Cardinality(grown) > MaxPending
  <2> DEFINE m == Oldest(grown)
             t == grown \ {m}
  <2>1. grown \in SUBSET Nat /\ grown # {}
    OBVIOUS
  <2>2. m \in grown /\ \A o \in grown : m <= o
    BY <2>1, LeastNatural DEF Oldest
  <2>3. Track(map, n + 1) = t
    BY <1>4 DEF Track
  <2> HIDE DEF m
  <2>4. IsFiniteSet(t) /\ Cardinality(t) = Cardinality(map)
    <3>1. IsFiniteSet(t) /\ Cardinality(t) = Cardinality(grown) - 1
      <4> HIDE DEF grown
      <4> QED BY <1>2, <2>2, FS_RemoveElement
    <3> HIDE DEF t, grown
    <3> QED BY <3>1, <1>1, <1>2
  <2>5. t \subseteq m + 1 .. n + 1
    BY <2>2
  <2>6. IsFiniteSet(m + 1 .. n + 1) /\ Cardinality(m + 1 .. n + 1) = n + 1 - m
    <3>1. m \in Int /\ n + 1 \in Int /\ m <= n + 1
      BY <2>2
    <3> QED BY <3>1, CountAbove
  <2>7. Cardinality(map) <= n + 1 - m
    <3>1. Cardinality(t) <= Cardinality(m + 1 .. n + 1)
      BY <2>5, <2>6, FS_Subset
    <3> QED BY <3>1, <2>4, <2>6
  <2>8. Cardinality(map) = MaxPending
    BY <1>1, <1>2, <1>4
  <2>9. m # n + 1
    <3>1. m \in 1 .. n + 1
      BY <2>2
    <3> QED BY <2>7, <2>8, <3>1
  <2>10. \A o \in map : o \notin t => o = m
    OBVIOUS
  <2>11. t \subseteq map \cup {n + 1} /\ n + 1 \in t
    BY <2>9
  <2> HIDE DEF t
  <2> QED BY <2>3, <2>4, <2>7, <2>8, <2>10, <2>11
<1> HIDE DEF grown
<1> QED BY <1>3, <1>4

LEMMA QueriesStart == PluginsInit => QueriesInv
<1> SUFFICES ASSUME PluginsInit PROVE QueriesInv
  OBVIOUS
<1>1. queries = <<>> /\ pending = <<>> /\ Len(<<>>) = 0 /\ DOMAIN <<>> = {}
  BY EmptySeq DEF PluginsInit
<1>2. queries \in Seq(QueryType) /\ pending \in Seq(SUBSET (1 .. Len(queries)))
  BY <1>1, EmptySeq
<1> QED BY <1>1, <1>2 DEF QueriesInv, MapsInv, QueriesHaveSpans

(* Another listener has nothing to do with the queries begun before. *)
LEMMA ListenerAttached ==
  ASSUME QueriesInv, queries' = queries,
         pending' = pending \/ pending' = Append(pending, {})
  PROVE  QueriesInv'
<1> USE DEF QueriesInv, MapsInv
<1>1. CASE pending' = pending
  BY <1>1 DEF QueriesHaveSpans
<1>2. CASE pending' = Append(pending, {})
  <2>1. /\ Len(pending) \in Nat /\ Len(pending') = Len(pending) + 1
        /\ pending' \in Seq(SUBSET (1 .. Len(queries)))
        /\ \A i \in 1 .. Len(pending) : pending'[i] = pending[i]
        /\ pending'[Len(pending')] = {}
        /\ DOMAIN pending' = 1 .. Len(pending') /\ DOMAIN pending = 1 .. Len(pending)
    BY <1>2, LenProperties
  <2>2. \A i \in 1 .. Len(pending') : i \in 1 .. Len(pending) \/ pending'[i] = {}
    BY <2>1
  <2>3. \A q \in 1 .. Len(queries) : queries[q].attached \in Nat
    <3> TAKE q \in 1 .. Len(queries)
    <3>1. queries[q] \in QueryType
      BY ElementOfSeq
    <3> QED BY <3>1 DEF QueryType
  <2>4. ASSUME NEW q \in 1 .. Len(queries), ~queries[q].ended
        PROVE  /\ queries[q].later = Len(queries) - q
               /\ queries[q].attached <= Len(pending')
               /\ queries[q].later < MaxPending =>
                    \A i \in 1 .. queries[q].attached : q \in pending'[i]
    <3>1. /\ queries[q].later = Len(queries) - q
          /\ queries[q].attached <= Len(pending)
          /\ queries[q].later < MaxPending =>
               \A i \in 1 .. queries[q].attached : q \in pending[i]
      BY <2>4
    <3>2. queries[q].attached \in Nat
      BY <2>3
    <3>3. \A i \in 1 .. queries[q].attached : i \in 1 .. Len(pending)
      BY <2>1, <3>1, <3>2
    <3>4. queries[q].attached <= Len(pending')
      BY <2>1, <3>1, <3>2
    <3> QED BY <2>1, <3>1, <3>3, <3>4
  <2>5. \A i \in 1 .. Len(pending') : \A q \in pending'[i] :
          ~queries[q].ended /\ i <= queries[q].attached
    BY <2>1, <2>2
  <2>6. MapsInv'
    BY <2>1, <2>4, <2>5
  <2>7. \A i \in DOMAIN pending' : Cardinality(pending'[i]) <= MaxPending
    <3>1. \A i \in 1 .. Len(pending) : Cardinality(pending'[i]) <= MaxPending
      BY <2>1 DEF QueriesHaveSpans
    <3>2. Cardinality({}) <= MaxPending
      BY FS_EmptySet, PluginsAssumption
    <3> QED BY <2>1, <2>2, <3>1, <3>2
  <2>8. QueriesHaveSpans'
    BY <2>7 DEF QueriesHaveSpans
  <2> QED BY <2>6, <2>8
<1> QED BY <1>1, <1>2

LEMMA QueryStartsStep == QueriesInv /\ QueryStarts => QueriesInv'
<1> SUFFICES ASSUME QueriesInv, QueryStarts PROVE QueriesInv'
  OBVIOUS
<1> DEFINE n == Len(queries)
           older == [i \in DOMAIN queries |->
                      IF queries[i].ended THEN queries[i]
                      ELSE [queries[i] EXCEPT !.later = @ + 1]]
           new == [attached |-> Len(pending), later |-> 0, spans |-> 0, ended |-> FALSE]
<1>1. /\ pending' = [i \in DOMAIN pending |-> Track(pending[i], n + 1)]
      /\ queries' = Append(older, new)
  BY DEF QueryStarts
<1>2. /\ queries \in Seq(QueryType) /\ n \in Nat /\ DOMAIN queries = 1 .. n
      /\ \A q \in 1 .. n : queries[q] \in QueryType
  BY LenProperties, ElementOfSeq DEF QueriesInv, MapsInv
<1>3. /\ pending \in Seq(SUBSET (1 .. n)) /\ Len(pending) \in Nat
      /\ DOMAIN pending = 1 .. Len(pending)
      /\ \A i \in 1 .. Len(pending) : pending[i] \in SUBSET (1 .. n)
  BY LenProperties, ElementOfSeq DEF QueriesInv, MapsInv
<1>4. older \in Seq(QueryType) /\ Len(older) = n
  <2>1. older \in [1 .. n -> QueryType]
    <3>1. \A i \in 1 .. n : [queries[i] EXCEPT !.later = @ + 1] \in QueryType
      <4> TAKE i \in 1 .. n
      <4>1. queries[i] \in QueryType
        BY <1>2
      <4> QED BY <4>1 DEF QueryType
    <3> QED BY <3>1, <1>2
  <2> QED BY <2>1, <1>2
<1>5. new \in QueryType
  BY <1>3 DEF QueryType
<1>6. /\ queries' \in Seq(QueryType) /\ Len(queries') = n + 1
      /\ DOMAIN queries' = 1 .. n + 1
      /\ queries'[n + 1] = new
      /\ \A q \in 1 .. n : queries'[q] = older[q]
  <2> HIDE DEF older, new
  <2> QED BY <1>1, <1>4, <1>5
<1>7. \A q \in 1 .. n :
        /\ queries'[q].ended = queries[q].ended
        /\ queries'[q].attached = queries[q].attached
        /\ queries'[q].spans = queries[q].spans
        /\ queries'[q].later = IF queries[q].ended THEN queries[q].later
                               ELSE queries[q].later + 1
        /\ queries[q].attached \in Nat /\ queries[q].later \in Nat
  BY <1>2, <1>6 DEF QueryType
<1>8. /\ queries'[n + 1].attached = Len(pending) /\ queries'[n + 1].later = 0
      /\ queries'[n + 1].ended = FALSE
  BY <1>6
<1> HIDE DEF older, new
<1>9. \A i \in 1 .. Len(pending) :
        /\ Track(pending[i], n + 1) \subseteq pending[i] \cup {n + 1}
        /\ n + 1 \in Track(pending[i], n + 1)
        /\ Cardinality(Track(pending[i], n + 1)) <= MaxPending
        /\ \A m \in pending[i] :
             m \notin Track(pending[i], n + 1) => n + 1 - m >= MaxPending
  <2> TAKE i \in 1 .. Len(pending)
  <2>1. Cardinality(pending[i]) <= MaxPending
    BY <1>3 DEF QueriesInv, QueriesHaveSpans
  <2> QED BY <2>1, <1>2, <1>3, TrackKeeps
<1>10. /\ pending' \in Seq(SUBSET (1 .. n + 1)) /\ Len(pending') = Len(pending)
       /\ \A i \in 1 .. Len(pending) : pending'[i] = Track(pending[i], n + 1)
       /\ DOMAIN pending' = 1 .. Len(pending)
  <2>1. \A i \in 1 .. Len(pending) : Track(pending[i], n + 1) \in SUBSET (1 .. n + 1)
    BY <1>2, <1>3, <1>9
  <2>2. pending' \in [1 .. Len(pending) -> SUBSET (1 .. n + 1)]
    BY <1>1, <1>3, <2>1
  <2> QED BY <1>1, <1>3, <2>2
<1>11. ASSUME NEW q \in 1 .. n + 1, ~queries'[q].ended
       PROVE  /\ queries'[q].later = n + 1 - q
              /\ queries'[q].attached <= Len(pending)
              /\ queries'[q].later < MaxPending =>
                   \A i \in 1 .. queries'[q].attached : q \in pending'[i]
  <2>1. CASE q = n + 1
    BY <2>1, <1>2, <1>3, <1>8, <1>9, <1>10
  <2>2. CASE q \in 1 .. n
    <3>1. /\ queries'[q].later = queries[q].later + 1 /\ ~queries[q].ended
          /\ queries[q].later = n - q
          /\ queries'[q].attached = queries[q].attached
          /\ queries[q].attached <= Len(pending) /\ queries[q].attached \in Nat
      BY <2>2, <1>7, <1>11 DEF QueriesInv, MapsInv
    <3>2. queries'[q].later = n + 1 - q
      BY <2>2, <3>1, <1>2
    <3>3. ASSUME n + 1 - q < MaxPending, NEW i \in 1 .. queries[q].attached
          PROVE  q \in pending'[i]
      <4>1. i \in 1 .. Len(pending)
        BY <3>1, <1>3
      <4>2. queries[q].later < MaxPending
        BY <3>1, <3>3, <2>2, <1>2, PluginsAssumption
      <4>3. q \in pending[i]
        BY <4>2, <2>2, <3>1 DEF QueriesInv, MapsInv
      <4>4. ~(n + 1 - q >= MaxPending)
        BY <3>3, <2>2, <1>2, PluginsAssumption
      <4> QED BY <4>1, <4>3, <4>4, <1>9, <1>10
    <3> QED BY <3>1, <3>2, <3>3
  <2> QED BY <2>1, <2>2, <1>2
<1>12. ASSUME NEW i \in 1 .. Len(pending), NEW q \in pending'[i]
       PROVE  ~queries'[q].ended /\ i <= queries'[q].attached
  <2>1. CASE q = n + 1
    BY <2>1, <1>3, <1>8
  <2>2. CASE q \in pending[i]
    <3>1. q \in 1 .. n /\ ~queries[q].ended /\ i <= queries[q].attached
      BY <2>2, <1>3 DEF QueriesInv, MapsInv
    <3> QED BY <3>1, <1>7
  <2> QED BY <2>1, <2>2, <1>9, <1>10
<1>13. MapsInv'
  BY <1>6, <1>10, <1>11, <1>12 DEF MapsInv
<1>14. QueriesHaveSpans'
  <2>1. ASSUME NEW q \in 1 .. n + 1, queries'[q].ended, queries'[q].later < MaxPending
        PROVE  queries'[q].spans = queries'[q].attached
    <3>1. q \in 1 .. n
      BY <2>1, <1>2, <1>8
    <3> QED BY <3>1, <2>1, <1>2, <1>7 DEF QueriesInv, QueriesHaveSpans
  <2>2. \A i \in DOMAIN pending' : Cardinality(pending'[i]) <= MaxPending
    BY <1>9, <1>10
  <2> QED BY <2>1, <2>2, <1>6 DEF QueriesHaveSpans
<1> QED BY <1>13, <1>14 DEF QueriesInv

LEMMA QueryEndsStep ==
  ASSUME QueriesInv, NEW q \in DOMAIN queries, QueryEnds(q) PROVE QueriesInv'
<1> DEFINE n == Len(queries)
           holding == {i \in DOMAIN pending : q \in pending[i]}
<1>1. /\ pending' = [i \in DOMAIN pending |-> pending[i] \ {q}]
      /\ queries' = [queries EXCEPT ![q].ended = TRUE,
                                    ![q].spans = Cardinality(holding)]
      /\ ~queries[q].ended
  BY DEF QueryEnds
<1>2. /\ queries \in Seq(QueryType) /\ n \in Nat /\ DOMAIN queries = 1 .. n
      /\ \A p \in 1 .. n : queries[p] \in QueryType
  BY LenProperties, ElementOfSeq DEF QueriesInv, MapsInv
<1>3. /\ pending \in Seq(SUBSET (1 .. n)) /\ Len(pending) \in Nat
      /\ DOMAIN pending = 1 .. Len(pending)
      /\ \A i \in 1 .. Len(pending) : pending[i] \in SUBSET (1 .. n)
  BY LenProperties, ElementOfSeq DEF QueriesInv, MapsInv
<1>4. Cardinality(holding) \in Nat
  <2>1. IsFiniteSet(1 .. Len(pending)) /\ holding \in SUBSET (1 .. Len(pending))
    BY <1>3, FS_Interval
  <2> QED BY <2>1, FS_Subset, FS_CardinalityType
<1>5. queries[q].later < MaxPending => Cardinality(holding) = queries[q].attached
  <2> SUFFICES ASSUME queries[q].later < MaxPending
               PROVE  Cardinality(holding) = queries[q].attached
    OBVIOUS
  <2>1. /\ queries[q].attached <= Len(pending) /\ queries[q].attached \in Nat
        /\ \A i \in 1 .. queries[q].attached : q \in pending[i]
    BY <1>1, <1>2 DEF QueriesInv, MapsInv, QueryType
  <2>2. \A i \in 1 .. Len(pending) : q \in pending[i] => i <= queries[q].attached
    BY DEF QueriesInv, MapsInv
  <2>3. holding = 1 .. queries[q].attached
    BY <2>1, <2>2, <1>3
  <2> HIDE DEF holding
  <2> QED BY <2>1, <2>3, FS_Interval
<1> HIDE DEF holding
<1>6. /\ queries' \in Seq(QueryType) /\ Len(queries') = n
      /\ DOMAIN queries' = 1 .. n
      /\ \A p \in 1 .. n : p # q => queries'[p] = queries[p]
      /\ queries'[q].ended = TRUE /\ queries'[q].spans = Cardinality(holding)
      /\ queries'[q].attached = queries[q].attached
      /\ queries'[q].later = queries[q].later
  <2> DEFINE r == [queries[q] EXCEPT !.ended = TRUE, !.spans = Cardinality(holding)]
  <2>1. queries' = [queries EXCEPT ![q] = r]
    BY <1>1, <1>2
  <2>2. /\ r \in QueryType /\ r.ended = TRUE /\ r.spans = Cardinality(holding)
        /\ r.attached = queries[q].attached /\ r.later = queries[q].later
    BY <1>2, <1>4 DEF QueryType
  <2> HIDE DEF r
  <2>3. /\ queries' \in Seq(QueryType) /\ Len(queries') = n
        /\ \A p \in 1 .. n : queries'[p] = IF p = q THEN r ELSE queries[p]
    BY <2>1, <2>2, <1>2, ExceptSeq
  <2>4. DOMAIN queries' = 1 .. n
    BY <2>3, LenProperties
  <2> QED BY <2>2, <2>3, <2>4, <1>2
<1>7. /\ pending' \in Seq(SUBSET (1 .. n)) /\ Len(pending') = Len(pending)
      /\ \A i \in 1 .. Len(pending) : pending'[i] = pending[i] \ {q}
      /\ DOMAIN pending' = 1 .. Len(pending)
  <2>1. pending' \in [1 .. Len(pending) -> SUBSET (1 .. n)]
    BY <1>1, <1>3
  <2> QED BY <1>1, <1>3, <2>1
<1>8. ASSUME NEW p \in 1 .. n, ~queries'[p].ended
      PROVE  /\ queries'[p].later = n - p
             /\ queries'[p].attached <= Len(pending)
             /\ queries'[p].later < MaxPending =>
                  \A i \in 1 .. queries'[p].attached : p \in pending'[i]
  <2>1. p # q /\ queries'[p] = queries[p] /\ ~queries[p].ended
    BY <1>6, <1>8
  <2>2. /\ queries[p].later = n - p
        /\ queries[p].attached <= Len(pending) /\ queries[p].attached \in Nat
        /\ queries[p].later < MaxPending =>
             \A i \in 1 .. queries[p].attached : p \in pending[i]
    BY <2>1, <1>2 DEF QueriesInv, MapsInv, QueryType
  <2>3. \A i \in 1 .. queries[p].attached : i \in 1 .. Len(pending)
    BY <2>2, <1>3
  <2> QED BY <2>1, <2>2, <2>3, <1>7
<1>9. ASSUME NEW i \in 1 .. Len(pending), NEW p \in pending'[i]
      PROVE  ~queries'[p].ended /\ i <= queries'[p].attached
  <2>1. p \in pending[i] /\ p # q /\ p \in 1 .. n
    BY <1>3, <1>7
  <2> QED BY <2>1, <1>6 DEF QueriesInv, MapsInv
<1>10. MapsInv'
  BY <1>6, <1>7, <1>8, <1>9 DEF MapsInv
<1>11. QueriesHaveSpans'
  <2>1. ASSUME NEW p \in 1 .. n, queries'[p].ended, queries'[p].later < MaxPending
        PROVE  queries'[p].spans = queries'[p].attached
    BY <2>1, <1>2, <1>5, <1>6 DEF QueriesInv, QueriesHaveSpans
  <2>2. \A i \in 1 .. Len(pending) : Cardinality(pending'[i]) <= MaxPending
    <3> TAKE i \in 1 .. Len(pending)
    <3>1. IsFiniteSet(1 .. n) /\ pending[i] \in SUBSET (1 .. n)
      BY <1>2, <1>3, FS_Interval
    <3>2. IsFiniteSet(pending[i]) /\ Cardinality(pending[i]) \in Nat
      BY <3>1, FS_Subset, FS_CardinalityType
    <3>3. pending'[i] \in SUBSET pending[i]
      BY <1>7
    <3>4. Cardinality(pending'[i]) <= Cardinality(pending[i])
          /\ IsFiniteSet(pending'[i])
      BY <3>2, <3>3, FS_Subset
    <3>5. Cardinality(pending'[i]) \in Nat
      BY <3>4, FS_CardinalityType
    <3>6. Cardinality(pending[i]) <= MaxPending
      BY <1>3 DEF QueriesInv, QueriesHaveSpans
    <3> QED BY <3>2, <3>4, <3>5, <3>6, PluginsAssumption
  <2> QED BY <2>1, <2>2, <1>6, <1>7 DEF QueriesHaveSpans
<1> QED BY <1>10, <1>11 DEF QueriesInv

LEMMA QueriesStep == QueriesInv /\ [PluginsNext]_pluginVars => QueriesInv'
<1> SUFFICES ASSUME QueriesInv, [PluginsNext]_pluginVars PROVE QueriesInv'
  OBVIOUS
<1>1. ASSUME NEW q \in DOMAIN queries, QueryEnds(q) PROVE QueriesInv'
  BY <1>1, QueryEndsStep
<1>2. CASE QueryStarts
  BY <1>2, QueryStartsStep
<1>3. ASSUME queries' = queries,
             pending' = pending \/ pending' = Append(pending, {})
      PROVE  QueriesInv'
  BY <1>3, ListenerAttached
<1>4. ASSUME NEW n \in Names, Register(n) PROVE QueriesInv'
  BY <1>3, <1>4 DEF Register
<1>5. ASSUME NEW l \in Loops,
             InitRegisteredPlugins(l) \/ PluginInitialised(l) \/ PluginFails(l)
      PROVE  QueriesInv'
  BY <1>3, <1>5 DEF InitRegisteredPlugins, PluginInitialised, PluginFails, GoOn
<1>6. CASE UNCHANGED pluginVars
  BY <1>3, <1>6 DEF pluginVars
<1> QED BY <1>1, <1>2, <1>4, <1>5, <1>6 DEF PluginsNext

(* However the calls of auto() and register() fall: one that overlaps no   *)
(* other auto(), and no registration of Lucid, has called the init() of    *)
(* every Lucid plugin at most once; and any that overlap have together     *)
(* called that of no object more often than there are of them              *)
(* (registry.ts:66-82).                                                    *)
THEOREM PluginsInitOnce == PluginsSpec => []InitOnce
<1>1. PluginsSpec => []TakenInv
  BY RegistryAlways, TakenStarts, TakenStep, PTL DEF PluginsSpec
<1>2. RegistryInv /\ TakenInv => InitOnce
  <2> SUFFICES ASSUME RegistryInv, TakenInv, NEW p \in DOMAIN calls
               PROVE  calls[p] <= Cardinality(begun)
    BY DEF RegistryInv, LucidOnce, InitOnce
  <2>1. TakenBy(p) \subseteq begun
    BY DEF TakenBy
  <2>2. /\ Cardinality(TakenBy(p)) <= Cardinality(begun)
        /\ Cardinality(TakenBy(p)) \in Nat /\ Cardinality(begun) \in Nat
    BY <2>1, FS_Subset, FS_CardinalityType DEF TakenInv
  <2>3. calls[p] \in Nat /\ calls[p] <= Cardinality(TakenBy(p))
    BY DEF RegistryInv, RegistryType, TakenInv
  <2> QED BY <2>2, <2>3
<1> QED BY <1>1, <1>2, RegistryAlways, PTL

(* A name in `inited` stands for the plugin registered last, unless it was *)
(* registered anew while a loop was awaiting (registry.ts:20-34).          *)
THEOREM InitedPluginsAreCurrent == PluginsSpec => []InitedIsCurrent
BY RegistryAlways, PTL DEF RegistryInv

(* For every cap and any number of listeners and queries: one span per     *)
(* listener for a query that completes before as many others began as a    *)
(* Map holds, and no Map outgrows its cap (lucid.ts:101-155).              *)
THEOREM CompletedQueriesHaveSpans == PluginsSpec => []QueriesHaveSpans
<1>1. PluginsSpec => []QueriesInv
  BY QueriesStart, QueriesStep, PTL DEF PluginsSpec
<1> QED BY <1>1, PTL DEF QueriesInv

-----------------------------------------------------------------------------
(* OutboundHttp, the wrappers. *)

Targets == {"fetch", "http"}
Wrappers == {"sdk", "other"} \X Nat
Chains == Seq(Wrappers)
Handle == [target : Targets, wrapped : Chains, original : Chains]

Wraps(chain, inner) ==
  /\ Len(chain) = Len(inner) + 1
  /\ \A j \in 1 .. Len(inner) : chain[j + 1] = inner[j]

NoSdk(chain) == \A j \in 1 .. Len(chain) : chain[j][1] # "sdk"

(* Two wrappers of ours around fetch have one of another library between   *)
(* them; node:http, marked or not, never has two.                          *)
ChainsInv ==
  /\ fn \in [Targets -> Chains] /\ marked \in BOOLEAN
  /\ handles \in Seq(Handle)
  /\ \A i \in 1 .. Len(handles) :
       /\ Wraps(handles[i].wrapped, handles[i].original)
       /\ handles[i].wrapped[1][1] = "sdk"
       /\ handles[i].target = "http" => NoSdk(handles[i].original)
  /\ (\A j \in 1 .. Len(fn["fetch"]) : fn["fetch"][j][1] = "sdk")
       => Len(fn["fetch"]) <= 1
  /\ ~marked => NoSdk(fn["http"])
  /\ \A j, k \in 1 .. Len(fn["http"]) :
       fn["http"][j][1] = "sdk" /\ fn["http"][k][1] = "sdk" => j = k

OthersOnFetch(chain) == {n \in Nat : \E j \in 1 .. Len(chain) : chain[j] = <<"other", n>>}

LEMMA WrapProperties ==
  ASSUME NEW w \in Wrappers, NEW inner \in Chains
  PROVE  LET chain == <<w>> \o inner IN
         /\ chain \in Chains /\ Wraps(chain, inner) /\ chain[1] = w
         /\ Len(inner) \in Nat
<1>1. <<w>> \in Seq(Wrappers) /\ Len(<<w>>) = 1 /\ <<w>>[1] = w
  OBVIOUS
<1>2. /\ <<w>> \o inner \in Seq(Wrappers)
      /\ Len(<<w>> \o inner) = 1 + Len(inner)
      /\ \A i \in 1 .. 1 + Len(inner) :
           (<<w>> \o inner)[i] = IF i <= 1 THEN <<w>>[i] ELSE inner[i - 1]
  BY <1>1, ConcatProperties DEF Chains
<1>3. Len(inner) \in Nat
  BY DEF Chains
<1> DEFINE chain == <<w>> \o inner
<1> HIDE DEF chain
<1>4. /\ chain \in Seq(Wrappers) /\ Len(chain) = 1 + Len(inner)
      /\ \A i \in 1 .. 1 + Len(inner) :
           chain[i] = IF i <= 1 THEN <<w>>[i] ELSE inner[i - 1]
  BY <1>2 DEF chain
<1>5. chain[1] = w
  BY <1>1, <1>3, <1>4
<1>6. \A j \in 1 .. Len(inner) : chain[j + 1] = inner[j]
  <2> TAKE j \in 1 .. Len(inner)
  <2>1. j + 1 \in 1 .. 1 + Len(inner) /\ ~(j + 1 <= 1) /\ (j + 1) - 1 = j
    BY <1>3
  <2> QED BY <2>1, <1>4
<1> QED BY <1>3, <1>4, <1>5, <1>6 DEF Wraps, Chains, chain

(* What another library put around fetch is still there under one more wrapper. *)
LEMMA OthersWrapped ==
  ASSUME NEW chain, NEW inner,
         \A j \in 1 .. Len(inner) : j + 1 \in 1 .. Len(chain) /\ chain[j + 1] = inner[j]
  PROVE  OthersOnFetch(inner) \subseteq OthersOnFetch(chain)
BY DEF OthersOnFetch

(* What is in a chain is its outermost wrapper or in what that one wraps. *)
LEMMA WrapCases ==
  ASSUME NEW chain \in Chains, NEW inner \in Chains, Wraps(chain, inner)
  PROVE  /\ Len(inner) \in Nat /\ Len(chain) = Len(inner) + 1
         /\ \A j \in 1 .. Len(chain) :
              j = 1 \/ (j - 1 \in 1 .. Len(inner) /\ chain[j] = inner[j - 1])
         /\ \A j \in 1 .. Len(inner) :
              j + 1 \in 1 .. Len(chain) /\ chain[j + 1] = inner[j]
<1>1. Len(inner) \in Nat /\ Len(chain) = Len(inner) + 1
  BY DEF Wraps, Chains
<1>2. \A j \in 1 .. Len(inner) :
        j + 1 \in 1 .. Len(chain) /\ chain[j + 1] = inner[j]
  BY <1>1 DEF Wraps
<1>3. ASSUME NEW j \in 1 .. Len(chain), j # 1
      PROVE  j - 1 \in 1 .. Len(inner) /\ chain[j] = inner[j - 1]
  <2>1. j - 1 \in 1 .. Len(inner) /\ (j - 1) + 1 = j
    BY <1>1, <1>3
  <2>2. chain[(j - 1) + 1] = inner[j - 1]
    BY <1>2, <2>1
  <2> QED BY <2>1, <2>2
<1> QED BY <1>1, <1>2, <1>3

LEMMA InstrumentStep ==
  ASSUME ChainsInv, NEW target \in Targets, Instrument(target)
  PROVE  ChainsInv' /\ OthersOnFetch(fn["fetch"]) \subseteq OthersOnFetch(fn'["fetch"])
<1> DEFINE w == <<"sdk", Len(handles)>>
           wrapped == <<w>> \o fn[target]
           h == [target |-> target, wrapped |-> wrapped, original |-> fn[target]]
<1>1. /\ fn' = [fn EXCEPT ![target] = wrapped] /\ handles' = Append(handles, h)
      /\ marked' = (marked \/ target = "http") /\ ~Already(target)
  BY DEF Instrument
<1>2. /\ fn \in [Targets -> Chains] /\ handles \in Seq(Handle)
      /\ marked \in BOOLEAN /\ Len(handles) \in Nat
      /\ fn[target] \in Chains /\ fn["fetch"] \in Chains /\ fn["http"] \in Chains
  BY LenProperties DEF ChainsInv, Targets
<1>3. w \in Wrappers /\ w[1] = "sdk"
  BY <1>2 DEF Wrappers
<1>4. wrapped \in Chains /\ Wraps(wrapped, fn[target]) /\ wrapped[1] = w
  BY <1>2, <1>3, WrapProperties
<1> HIDE DEF w, wrapped
<1>5. /\ h \in Handle /\ h.wrapped = wrapped /\ h.original = fn[target]
      /\ h.target = target
  BY <1>2, <1>4 DEF Handle
<1> HIDE DEF h
<1>6. /\ handles' \in Seq(Handle) /\ Len(handles') = Len(handles) + 1
      /\ handles'[Len(handles) + 1] = h
      /\ \A i \in 1 .. Len(handles) : handles'[i] = handles[i]
  BY <1>1, <1>2, <1>5
<1>7. /\ Len(fn[target]) \in Nat /\ Len(wrapped) = Len(fn[target]) + 1
      /\ \A j \in 1 .. Len(wrapped) :
           j = 1 \/ (j - 1 \in 1 .. Len(fn[target]) /\ wrapped[j] = fn[target][j - 1])
      /\ \A j \in 1 .. Len(fn[target]) :
           j + 1 \in 1 .. Len(wrapped) /\ wrapped[j + 1] = fn[target][j]
  BY <1>2, <1>4, WrapCases
<1>8. /\ fn' \in [Targets -> Chains] /\ fn'[target] = wrapped
      /\ \A t \in Targets : t # target => fn'[t] = fn[t]
  BY <1>1, <1>2, <1>4
<1>9. target = "http" => NoSdk(fn["http"])
  BY <1>1, <1>2 DEF Already, ChainsInv
<1>10. ASSUME NEW i \in 1 .. Len(handles')
       PROVE  /\ Wraps(handles'[i].wrapped, handles'[i].original)
              /\ handles'[i].wrapped[1][1] = "sdk"
              /\ handles'[i].target = "http" => NoSdk(handles'[i].original)
  <2>1. CASE i \in 1 .. Len(handles)
    BY <2>1, <1>6 DEF ChainsInv
  <2>2. CASE i = Len(handles) + 1
    BY <2>2, <1>3, <1>4, <1>5, <1>6, <1>9
  <2> QED BY <2>1, <2>2, <1>2, <1>6
<1>11. (\A j \in 1 .. Len(fn'["fetch"]) : fn'["fetch"][j][1] = "sdk")
         => Len(fn'["fetch"]) <= 1
  <2>1. CASE target = "fetch"
    <3> SUFFICES ASSUME \A j \in 1 .. Len(wrapped) : wrapped[j][1] = "sdk"
                 PROVE  Len(wrapped) <= 1
      BY <2>1, <1>8
    <3>1. \A j \in 1 .. Len(fn["fetch"]) : fn["fetch"][j][1] = "sdk"
      BY <2>1, <1>7
    <3>2. fn["fetch"] = <<>>
      <4>1. fn["fetch"] # <<>> => Len(fn["fetch"]) \in Nat \ {0}
        BY <1>2, EmptySeq DEF Chains
      <4>2. fn["fetch"] # <<>> => fn["fetch"][1][1] = "sdk"
        BY <3>1, <4>1
      <4> QED BY <4>2, <2>1, <1>1 DEF Already
    <3>3. Len(fn["fetch"]) = 0
      BY <3>2
    <3> QED BY <2>1, <3>3, <1>7
  <2>2. CASE target # "fetch"
    BY <2>2, <1>8 DEF ChainsInv, Targets
  <2> QED BY <2>1, <2>2
<1>12. ~marked' => NoSdk(fn'["http"])
  BY <1>1, <1>8 DEF ChainsInv, Targets
<1>13. \A j, k \in 1 .. Len(fn'["http"]) :
         fn'["http"][j][1] = "sdk" /\ fn'["http"][k][1] = "sdk" => j = k
  <2>1. CASE target = "http"
    <3>1. \A j \in 1 .. Len(wrapped) : wrapped[j][1] = "sdk" => j = 1
      BY <2>1, <1>7, <1>9 DEF NoSdk
    <3> QED BY <2>1, <3>1, <1>8
  <2>2. CASE target # "http"
    BY <2>2, <1>8 DEF ChainsInv, Targets
  <2> QED BY <2>1, <2>2
<1>14. OthersOnFetch(fn["fetch"]) \subseteq OthersOnFetch(fn'["fetch"])
  <2>1. CASE target = "fetch"
    BY <2>1, <1>7, <1>8, OthersWrapped
  <2>2. CASE target # "fetch"
    BY <2>2, <1>8 DEF Targets
  <2> QED BY <2>1, <2>2
<1>15. marked' \in BOOLEAN
  BY <1>1, <1>2
<1> QED BY <1>6, <1>8, <1>10, <1>11, <1>12, <1>13, <1>14, <1>15 DEF ChainsInv

LEMMA OtherWrapsStep ==
  ASSUME ChainsInv, NEW target \in Targets, OtherWraps(target)
  PROVE  ChainsInv' /\ OthersOnFetch(fn["fetch"]) \subseteq OthersOnFetch(fn'["fetch"])
<1> DEFINE w == <<"other", Len(handles)>>
           chain == <<w>> \o fn[target]
<1>1. fn' = [fn EXCEPT ![target] = chain] /\ UNCHANGED <<marked, handles>>
  BY DEF OtherWraps, ChainsInv
<1>2. /\ fn \in [Targets -> Chains] /\ Len(handles) \in Nat
      /\ fn[target] \in Chains /\ fn["fetch"] \in Chains /\ fn["http"] \in Chains
  BY LenProperties DEF ChainsInv, Targets
<1>3. w \in Wrappers /\ w[1] = "other"
  BY <1>2 DEF Wrappers
<1>4. chain \in Chains /\ Wraps(chain, fn[target]) /\ chain[1] = w
  BY <1>2, <1>3, WrapProperties
<1> HIDE DEF w, chain
<1>5. /\ Len(fn[target]) \in Nat /\ Len(chain) = Len(fn[target]) + 1
      /\ \A j \in 1 .. Len(chain) :
           j = 1 \/ (j - 1 \in 1 .. Len(fn[target]) /\ chain[j] = fn[target][j - 1])
      /\ \A j \in 1 .. Len(fn[target]) :
           j + 1 \in 1 .. Len(chain) /\ chain[j + 1] = fn[target][j]
  BY <1>2, <1>4, WrapCases
<1>6. /\ fn' \in [Targets -> Chains] /\ fn'[target] = chain
      /\ \A t \in Targets : t # target => fn'[t] = fn[t]
  BY <1>1, <1>2, <1>4
<1>7. 1 \in 1 .. Len(chain) /\ chain[1][1] # "sdk"
  BY <1>3, <1>4, <1>5
<1>8. (\A j \in 1 .. Len(fn'["fetch"]) : fn'["fetch"][j][1] = "sdk")
         => Len(fn'["fetch"]) <= 1
  BY <1>6, <1>7 DEF ChainsInv, Targets
<1>9. ~marked' => NoSdk(fn'["http"])
  <2>1. CASE target = "http"
    <3>1. NoSdk(fn["http"]) => NoSdk(chain)
      BY <2>1, <1>5, <1>7 DEF NoSdk
    <3> QED BY <2>1, <3>1, <1>1, <1>6 DEF ChainsInv
  <2>2. CASE target # "http"
    BY <2>2, <1>1, <1>6 DEF ChainsInv, Targets
  <2> QED BY <2>1, <2>2
<1>10. \A j, k \in 1 .. Len(fn'["http"]) :
         fn'["http"][j][1] = "sdk" /\ fn'["http"][k][1] = "sdk" => j = k
  <2>1. CASE target = "http"
    <3> SUFFICES ASSUME NEW j \in 1 .. Len(chain), NEW k \in 1 .. Len(chain),
                        chain[j][1] = "sdk", chain[k][1] = "sdk"
                 PROVE  j = k
      BY <2>1, <1>6
    <3>1. /\ j - 1 \in 1 .. Len(fn["http"]) /\ fn["http"][j - 1][1] = "sdk"
          /\ k - 1 \in 1 .. Len(fn["http"]) /\ fn["http"][k - 1][1] = "sdk"
      BY <2>1, <1>5, <1>7
    <3>2. j - 1 = k - 1
      BY <3>1 DEF ChainsInv
    <3> QED BY <3>2
  <2>2. CASE target # "http"
    BY <2>2, <1>6 DEF ChainsInv, Targets
  <2> QED BY <2>1, <2>2
<1>11. OthersOnFetch(fn["fetch"]) \subseteq OthersOnFetch(fn'["fetch"])
  <2>1. CASE target = "fetch"
    BY <2>1, <1>5, <1>6, OthersWrapped
  <2>2. CASE target # "fetch"
    BY <2>2, <1>6 DEF Targets
  <2> QED BY <2>1, <2>2
<1> QED BY <1>1, <1>6, <1>8, <1>9, <1>10, <1>11 DEF ChainsInv

LEMMA RestoreStep ==
  ASSUME ChainsInv, NEW i \in DOMAIN handles, Restore(i)
  PROVE  ChainsInv' /\ OthersOnFetch(fn["fetch"]) \subseteq OthersOnFetch(fn'["fetch"])
<1> DEFINE h == handles[i]
<1>1. /\ fn' = IF Restored(h) THEN [fn EXCEPT ![h.target] = h.original] ELSE fn
      /\ marked' = (marked /\ h.target # "http")
      /\ handles' = handles
  BY DEF Restore
<1>2. /\ fn \in [Targets -> Chains] /\ handles \in Seq(Handle)
      /\ h \in Handle /\ i \in 1 .. Len(handles) /\ marked \in BOOLEAN
      /\ fn["fetch"] \in Chains /\ fn["http"] \in Chains
  BY LenProperties, ElementOfSeq DEF ChainsInv, Targets
<1>3. h.target \in Targets /\ h.original \in Chains /\ h.wrapped \in Chains
  BY <1>2 DEF Handle
<1>4. /\ Wraps(h.wrapped, h.original) /\ h.wrapped[1][1] = "sdk"
      /\ h.target = "http" => NoSdk(h.original)
  BY <1>2 DEF ChainsInv
<1>5. /\ Len(h.original) \in Nat /\ Len(h.wrapped) = Len(h.original) + 1
      /\ \A j \in 1 .. Len(h.wrapped) :
           j = 1 \/ (j - 1 \in 1 .. Len(h.original) /\ h.wrapped[j] = h.original[j - 1])
      /\ \A j \in 1 .. Len(h.original) :
           j + 1 \in 1 .. Len(h.wrapped) /\ h.wrapped[j + 1] = h.original[j]
  BY <1>3, <1>4, WrapCases
<1> HIDE DEF h
<1>6. fn' \in [Targets -> Chains] /\ marked' \in BOOLEAN
  BY <1>1, <1>2, <1>3
<1>7. CASE h.target = "http"
  <2>1. fn'["http"] = h.original /\ fn'["fetch"] = fn["fetch"] /\ NoSdk(h.original)
    BY <1>1, <1>2, <1>4, <1>7 DEF Restored, Targets
  <2>2. \A j, k \in 1 .. Len(fn'["http"]) :
          fn'["http"][j][1] = "sdk" /\ fn'["http"][k][1] = "sdk" => j = k
    BY <2>1 DEF NoSdk
  <2> QED BY <1>1, <1>6, <2>1, <2>2 DEF ChainsInv
<1>8. CASE h.target = "fetch" /\ fn["fetch"] = h.wrapped
  <2>1. fn'["fetch"] = h.original /\ fn'["http"] = fn["http"] /\ marked' = marked
    BY <1>1, <1>2, <1>8 DEF Restored, Targets
  <2>2. (\A j \in 1 .. Len(h.original) : h.original[j][1] = "sdk")
          => Len(h.original) <= 1
    <3> SUFFICES ASSUME \A j \in 1 .. Len(h.original) : h.original[j][1] = "sdk"
                 PROVE  Len(h.original) <= 1
      OBVIOUS
    <3>1. ASSUME NEW j \in 1 .. Len(h.wrapped) PROVE h.wrapped[j][1] = "sdk"
      <4>1. CASE j = 1
        BY <1>4, <4>1
      <4>2. CASE j # 1
        BY <1>5, <4>2
      <4> QED BY <4>1, <4>2
    <3>2. Len(h.wrapped) <= 1
      BY <3>1, <1>8 DEF ChainsInv
    <3> QED BY <3>2, <1>5
  <2>3. OthersOnFetch(h.wrapped) \subseteq OthersOnFetch(h.original)
    <3> SUFFICES ASSUME NEW n \in Nat, NEW j \in 1 .. Len(h.wrapped),
                        h.wrapped[j] = <<"other", n>>
                 PROVE  \E k \in 1 .. Len(h.original) : h.original[k] = <<"other", n>>
      BY DEF OthersOnFetch
    <3>1. j # 1
      BY <1>4
    <3> QED BY <3>1, <1>5
  <2> QED BY <1>1, <1>6, <1>8, <2>1, <2>2, <2>3 DEF ChainsInv
<1>9. CASE h.target = "fetch" /\ fn["fetch"] # h.wrapped
  <2>1. fn' = fn /\ marked' = marked /\ handles' = handles
    BY <1>1, <1>2, <1>9 DEF Restored
  <2>2. ChainsInv'
    BY ONLY ChainsInv, <2>1 DEF ChainsInv, NoSdk
  <2>3. fn'["fetch"] = fn["fetch"]
    BY <2>1
  <2> QED BY <2>2, <2>3
<1> QED BY <1>3, <1>7, <1>8, <1>9 DEF Targets

-----------------------------------------------------------------------------
(* OutboundHttp, the calls. *)

Outcomes == {"ok", "error", "network", "timeout", "none"}

CallType ==
  [target : Targets, layers : Nat, listens : {"none", "once", "on"},
   state : {"open", "timed out", "answered", "failed", "closed"},
   finished : BOOLEAN, spans : Seq(Outcomes), discarded : BOOLEAN, thrown : BOOLEAN]

Settled(c) ==
  /\ Len(c.spans) = IF c.finished THEN c.layers ELSE 0
  /\ c.discarded \/ c.thrown => c.listens = "none"

(* finish() has run by the time a call is closed, and has ended the spans  *)
(* of all of its wrappers, once; it has two only if a stranger is between. *)
CallsInv ==
  /\ outbound \in Seq(CallType)
  /\ \A i \in 1 .. Len(outbound) :
       /\ Settled(outbound[i])
       /\ outbound[i].state = "closed" =>
            outbound[i].finished \/ outbound[i].layers = 0
       /\ outbound[i].layers > 1 =>
            outbound[i].target = "fetch" /\ OthersOnFetch(fn["fetch"]) # {}

OutboundInv == ChainsInv /\ CallsInv

LEMMA FinishSettles ==
  ASSUME NEW c \in CallType, Settled(c), NEW outcome \in Outcomes
  PROVE  LET f == Finish(c, outcome) IN
         /\ f \in CallType /\ Settled(f) /\ (f.finished \/ f.layers = 0)
         /\ f.layers = c.layers /\ f.target = c.target /\ f.listens = c.listens
<1>1. CASE c.finished \/ c.layers = 0
  BY <1>1 DEF Finish
<1>2. CASE ~(c.finished \/ c.layers = 0)
  <2> DEFINE more == [i \in 1..c.layers |-> outcome]
             spans == c.spans \o more
             f == [c EXCEPT !.finished = TRUE, !.spans = spans]
  <2>1. Finish(c, outcome) = f
    BY <1>2 DEF Finish
  <2>2. c.spans \in Seq(Outcomes) /\ c.layers \in Nat /\ Len(c.spans) = 0
    BY <1>2 DEF CallType, Settled
  <2>3. more \in Seq(Outcomes) /\ Len(more) = c.layers
    BY <2>2
  <2>4. spans \in Seq(Outcomes) /\ Len(spans) = c.layers
    <3> HIDE DEF more
    <3>1. c.spans \o more \in Seq(Outcomes)
          /\ Len(c.spans \o more) = Len(c.spans) + Len(more)
      BY <2>2, <2>3, ConcatProperties
    <3> QED BY <2>2, <2>3, <3>1
  <2> HIDE DEF spans
  <2>5. /\ f \in CallType /\ f.finished /\ f.spans = spans /\ f.layers = c.layers
        /\ f.target = c.target /\ f.listens = c.listens
        /\ f.discarded = c.discarded /\ f.thrown = c.thrown
    BY <2>4 DEF CallType
  <2> HIDE DEF f
  <2> QED BY <2>1, <2>4, <2>5 DEF Settled
<1> QED BY <1>1, <1>2

(* Two wrappers of ours: on fetch, with a stranger between them. *)
LEMMA TwoLayers ==
  ASSUME ChainsInv, NEW target \in Targets
  PROVE  /\ Cardinality(Sdk(fn[target])) \in Nat
         /\ Cardinality(Sdk(fn[target])) > 1 =>
              target = "fetch" /\ OthersOnFetch(fn["fetch"]) # {}
<1> DEFINE chain == fn[target]
           sdk == Sdk(chain)
<1>1. chain \in Seq(Wrappers) /\ Len(chain) \in Nat /\ DOMAIN chain = 1 .. Len(chain)
  BY LenProperties DEF ChainsInv, Chains
<1>2. sdk \in SUBSET (1 .. Len(chain))
  BY <1>1 DEF Sdk
<1>3. IsFiniteSet(1 .. Len(chain)) /\ Cardinality(1 .. Len(chain)) = Len(chain)
  BY <1>1, FS_Interval
<1>4. /\ IsFiniteSet(sdk) /\ Cardinality(sdk) \in Nat
      /\ Cardinality(sdk) <= Len(chain)
  BY <1>2, <1>3, FS_Subset, FS_CardinalityType
<1>5. CASE target = "http"
  <2>1. \A j, k \in sdk : j = k
    BY <1>1, <1>5 DEF Sdk, ChainsInv
  <2>2. CASE sdk = {}
    BY <2>2, <1>4, FS_EmptySet
  <2>3. CASE sdk # {}
    <3>1. PICK j : j \in sdk
      BY <2>3
    <3>2. sdk = {j}
      BY <2>1, <3>1
    <3>3. Cardinality(sdk) = 1
      BY <3>2, FS_Singleton
    <3> QED BY <1>4, <3>3
  <2> QED BY <2>2, <2>3
<1>6. CASE target = "fetch"
  <2> SUFFICES ASSUME Cardinality(sdk) > 1 PROVE OthersOnFetch(fn["fetch"]) # {}
    BY <1>4, <1>6
  <2>1. ~(Len(chain) <= 1)
    BY <1>1, <1>4
  <2>2. PICK j \in 1 .. Len(chain) : chain[j][1] # "sdk"
    BY <1>6, <2>1 DEF ChainsInv
  <2>3. chain[j] \in {"sdk", "other"} \X Nat
    BY <1>1, ElementOfSeq DEF Wrappers
  <2>4. chain[j] = <<"other", chain[j][2]>> /\ chain[j][2] \in Nat
    BY <2>2, <2>3
  <2> QED BY <1>6, <2>4 DEF OthersOnFetch
<1> QED BY <1>5, <1>6 DEF Targets

(* A step that only puts wrappers on or takes ours off. *)
LEMMA CallsUntouched ==
  ASSUME OutboundInv, ChainsInv', outbound' = outbound,
         OthersOnFetch(fn["fetch"]) \subseteq OthersOnFetch(fn'["fetch"])
  PROVE  OutboundInv'
<1>1. OthersOnFetch(fn["fetch"]) # {} => OthersOnFetch(fn'["fetch"]) # {}
  OBVIOUS
<1> QED BY <1>1 DEF OutboundInv, CallsInv

(* A step of one call. *)
LEMMA BecomesStep ==
  ASSUME OutboundInv, NEW i \in DOMAIN outbound, NEW c \in CallType, Becomes(i, c),
         Settled(c), c.state = "closed" => c.finished \/ c.layers = 0,
         c.layers = outbound[i].layers, c.target = outbound[i].target
  PROVE  OutboundInv'
<1>1. /\ outbound' = [outbound EXCEPT ![i] = c]
      /\ fn' = fn /\ marked' = marked /\ handles' = handles
  BY DEF Becomes
<1>2. outbound \in Seq(CallType) /\ i \in 1 .. Len(outbound)
  BY LenProperties DEF OutboundInv, CallsInv
<1>3. /\ outbound' \in Seq(CallType) /\ Len(outbound') = Len(outbound)
      /\ \A j \in 1 .. Len(outbound) :
           outbound'[j] = IF j = i THEN c ELSE outbound[j]
  BY <1>1, <1>2, ExceptSeq
<1>4. ChainsInv'
  BY <1>1 DEF OutboundInv, ChainsInv
<1>5. ASSUME NEW j \in 1 .. Len(outbound)
      PROVE  /\ Settled(outbound'[j])
             /\ outbound'[j].state = "closed" =>
                  outbound'[j].finished \/ outbound'[j].layers = 0
             /\ outbound'[j].layers > 1 =>
                  outbound'[j].target = "fetch" /\ OthersOnFetch(fn'["fetch"]) # {}
  <2>1. CASE j = i
    BY <2>1, <1>1, <1>2, <1>3 DEF OutboundInv, CallsInv
  <2>2. CASE j # i
    BY <2>2, <1>1, <1>3 DEF OutboundInv, CallsInv
  <2> QED BY <2>1, <2>2
<1> QED BY <1>3, <1>4, <1>5 DEF OutboundInv, CallsInv

LEMMA OutboundStart == ASSUME OutboundInit PROVE OutboundInv
<1>1. fn["fetch"] = <<>> /\ fn["http"] = <<>> /\ fn \in [Targets -> Chains]
  BY EmptySeq DEF OutboundInit, Targets, Chains
<1>2. Len(fn["fetch"]) = 0 /\ Len(fn["http"]) = 0
  BY <1>1
<1>3. handles \in Seq(Handle) /\ Len(handles) = 0
  BY EmptySeq DEF OutboundInit
<1>4. outbound \in Seq(CallType) /\ Len(outbound) = 0
  BY EmptySeq DEF OutboundInit
<1>5. ChainsInv
  <2>1. NoSdk(fn["http"])
    BY <1>2 DEF NoSdk
  <2>2. \A j, k \in 1 .. Len(fn["http"]) : j = k
    BY <1>2
  <2>3. marked \in BOOLEAN
    BY DEF OutboundInit
  <2> QED BY ONLY <1>1, <1>2, <1>3, <2>1, <2>2, <2>3 DEF ChainsInv
<1>6. CallsInv
  BY <1>4 DEF CallsInv
<1> QED BY <1>5, <1>6 DEF OutboundInv

LEMMA CallStep ==
  ASSUME OutboundInv, NEW target \in Targets, NEW listens \in {"none", "once", "on"},
         Call(target, listens)
  PROVE  OutboundInv'
<1> DEFINE layers == Cardinality(Sdk(fn[target]))
           c == [target |-> target, layers |-> layers,
                 listens |-> listens, state |-> "open", finished |-> FALSE,
                 spans |-> <<>>, discarded |-> FALSE, thrown |-> FALSE]
<1>1. /\ outbound' = Append(outbound, c)
      /\ fn' = fn /\ marked' = marked /\ handles' = handles
  BY DEF Call
<1>2. /\ layers \in Nat
      /\ layers > 1 => target = "fetch" /\ OthersOnFetch(fn["fetch"]) # {}
  BY TwoLayers DEF OutboundInv
<1> HIDE DEF layers
<1>3. /\ c \in CallType /\ Settled(c) /\ c.state # "closed"
      /\ c.layers = layers /\ c.target = target
  BY <1>2, EmptySeq DEF CallType, Settled, Targets
<1> HIDE DEF c
<1>4. outbound \in Seq(CallType) /\ Len(outbound) \in Nat
  BY LenProperties DEF OutboundInv, CallsInv
<1>5. /\ outbound' \in Seq(CallType) /\ Len(outbound') = Len(outbound) + 1
      /\ outbound'[Len(outbound) + 1] = c
      /\ \A j \in 1 .. Len(outbound) : outbound'[j] = outbound[j]
  BY <1>1, <1>3, <1>4
<1>6. ChainsInv'
  BY ONLY OutboundInv, <1>1 DEF OutboundInv, ChainsInv, NoSdk
<1>7. ASSUME NEW j \in 1 .. Len(outbound')
      PROVE  /\ Settled(outbound'[j])
             /\ outbound'[j].state = "closed" =>
                  outbound'[j].finished \/ outbound'[j].layers = 0
             /\ outbound'[j].layers > 1 =>
                  outbound'[j].target = "fetch" /\ OthersOnFetch(fn'["fetch"]) # {}
  <2>1. CASE j = Len(outbound) + 1
    BY <2>1, <1>1, <1>2, <1>3, <1>5
  <2>2. CASE j \in 1 .. Len(outbound)
    BY <2>2, <1>1, <1>5 DEF OutboundInv, CallsInv
  <2> QED BY <2>1, <2>2, <1>4, <1>5
<1> QED BY <1>5, <1>6, <1>7 DEF OutboundInv, CallsInv

(* Every callback of a call: finish(), then what is said of the call; a    *)
(* body is discarded or an error thrown only for who does not listen.      *)
LEMMA CallbackStep ==
  ASSUME OutboundInv, NEW i \in DOMAIN outbound, NEW outcome \in Outcomes,
         NEW c \in CallType, Becomes(i, c),
         LET f == Finish(outbound[i], outcome) IN
           /\ c.finished = f.finished /\ c.spans = f.spans
           /\ c.layers = f.layers /\ c.target = f.target,
         c.discarded \/ c.thrown => c.listens = "none"
  PROVE  OutboundInv'
<1> DEFINE f == Finish(outbound[i], outcome)
<1>1. outbound[i] \in CallType /\ Settled(outbound[i])
  <2>1. i \in 1 .. Len(outbound)
    BY LenProperties DEF OutboundInv, CallsInv
  <2> QED BY <2>1, ElementOfSeq DEF OutboundInv, CallsInv
<1>2. /\ Settled(f) /\ (f.finished \/ f.layers = 0)
      /\ f.layers = outbound[i].layers /\ f.target = outbound[i].target
  BY <1>1, FinishSettles
<1>3. /\ c.finished = f.finished /\ c.spans = f.spans
      /\ c.layers = f.layers /\ c.target = f.target
  OBVIOUS
<1> HIDE DEF f
<1>4. Settled(c) /\ (c.finished \/ c.layers = 0)
  BY <1>2, <1>3 DEF Settled
<1> QED BY <1>2, <1>3, <1>4, BecomesStep

(* What each callback finds. *)
LEMMA CallSettled ==
  ASSUME OutboundInv, NEW i \in DOMAIN outbound, NEW outcome \in Outcomes
  PROVE  LET c == outbound[i] f == Finish(c, outcome) IN
         /\ c \in CallType /\ f \in CallType /\ f.listens = c.listens
         /\ f.discarded \/ f.thrown => f.listens = "none"
         /\ Alone(c) => c.listens = "none"
<1>1. outbound[i] \in CallType /\ Settled(outbound[i])
  <2>1. i \in 1 .. Len(outbound)
    BY LenProperties DEF OutboundInv, CallsInv
  <2> QED BY <2>1, ElementOfSeq DEF OutboundInv, CallsInv
<1>2. LET f == Finish(outbound[i], outcome) IN
      f \in CallType /\ Settled(f) /\ f.listens = outbound[i].listens
  BY <1>1, FinishSettles
<1>3. Alone(outbound[i]) => outbound[i].listens = "none"
  BY DEF Alone, Count
<1> QED BY <1>1, <1>2, <1>3 DEF Settled

LEMMA CallbacksStep ==
  ASSUME OutboundInv, NEW i \in DOMAIN outbound,
         \/ \E status \in {"ok", "error"} : Answered(i, status)
         \/ NetworkFails(i) \/ TimesOut(i) \/ Closes(i)
  PROVE  OutboundInv' /\ fn' = fn
<1> DEFINE c == outbound[i]
<1>1. ASSUME NEW status \in {"ok", "error"}, Answered(i, status) PROVE OutboundInv'
  <2> DEFINE f == Finish(c, status)
             discarded == Alone(c) \/ (c.layers = 0 /\ c.listens = "none")
             state == IF c.target = "fetch" THEN "closed" ELSE "answered"
             d == [f EXCEPT !.state = state, !.discarded = discarded]
  <2>1. /\ c \in CallType /\ f \in CallType /\ f.listens = c.listens
        /\ f.discarded \/ f.thrown => f.listens = "none"
        /\ Alone(c) => c.listens = "none"
    <3>1. status \in Outcomes
      BY DEF Outcomes
    <3> QED BY <3>1, CallSettled
  <2>2. Becomes(i, d)
    BY <1>1 DEF Answered
  <2>3. discarded \in BOOLEAN /\ (discarded => c.listens = "none")
    BY <2>1 DEF Alone
  <2>4. state \in {"closed", "answered"} /\ status \in Outcomes
    <3>1. status \in Outcomes
      BY DEF Outcomes
    <3> QED BY <3>1
  <2> HIDE DEF f, discarded, state
  <2>5. /\ d \in CallType /\ d.finished = f.finished /\ d.spans = f.spans
        /\ d.layers = f.layers /\ d.target = f.target /\ d.listens = f.listens
        /\ d.discarded = discarded /\ d.thrown = f.thrown
    BY <2>1, <2>3, <2>4 DEF CallType
  <2> HIDE DEF d
  <2> QED BY <2>1, <2>2, <2>3, <2>4, <2>5, CallbackStep DEF f
<1>2. ASSUME NetworkFails(i) PROVE OutboundInv'
  <2> DEFINE f == Finish(c, "network")
             thrown == Alone(c) \/ (c.layers = 0 /\ c.listens = "none")
             state == IF c.target = "fetch" THEN "closed" ELSE "failed"
             d == [f EXCEPT !.state = state, !.thrown = thrown]
  <2>1. /\ c \in CallType /\ f \in CallType /\ f.listens = c.listens
        /\ f.discarded \/ f.thrown => f.listens = "none"
        /\ Alone(c) => c.listens = "none"
    <3>1. "network" \in Outcomes
      BY DEF Outcomes
    <3> QED BY <3>1, CallSettled
  <2>2. Becomes(i, d)
    BY <1>2 DEF NetworkFails
  <2>3. thrown \in BOOLEAN /\ (thrown => c.listens = "none")
    BY <2>1 DEF Alone
  <2>4. state \in {"closed", "failed"}
    OBVIOUS
  <2> HIDE DEF f, thrown, state
  <2>5. /\ d \in CallType /\ d.finished = f.finished /\ d.spans = f.spans
        /\ d.layers = f.layers /\ d.target = f.target /\ d.listens = f.listens
        /\ d.discarded = f.discarded /\ d.thrown = thrown
    BY <2>1, <2>3, <2>4 DEF CallType
  <2> HIDE DEF d
  <2>6. "network" \in Outcomes
    BY DEF Outcomes
  <2>7. d.discarded \/ d.thrown => d.listens = "none"
    BY <2>1, <2>3, <2>5
  <2>8. LET g == Finish(outbound[i], "network") IN
          /\ d.finished = g.finished /\ d.spans = g.spans
          /\ d.layers = g.layers /\ d.target = g.target
    BY <2>5 DEF f
  <2>9. d \in CallType
    BY <2>5
  <2> QED BY ONLY OutboundInv, i \in DOMAIN outbound, <2>2, <2>6, <2>7, <2>8, <2>9, CallbackStep
<1>3. ASSUME TimesOut(i) PROVE OutboundInv'
  <2> DEFINE f == Finish(c, "timeout")
             state == IF f.state = "open" THEN "timed out" ELSE f.state
             d == [f EXCEPT !.state = state]
  <2>1. /\ f \in CallType
        /\ f.discarded \/ f.thrown => f.listens = "none"
    <3>1. "timeout" \in Outcomes
      BY DEF Outcomes
    <3> QED BY <3>1, CallSettled
  <2>2. Becomes(i, d)
    BY <1>3 DEF TimesOut
  <2> HIDE DEF f
  <2>5. /\ d \in CallType /\ d.finished = f.finished /\ d.spans = f.spans
        /\ d.layers = f.layers /\ d.target = f.target /\ d.listens = f.listens
        /\ d.discarded = f.discarded /\ d.thrown = f.thrown
    BY <2>1 DEF CallType
  <2> HIDE DEF d
  <2>6. "timeout" \in Outcomes
    BY DEF Outcomes
  <2>7. d.discarded \/ d.thrown => d.listens = "none"
    BY <2>1, <2>5
  <2>8. LET g == Finish(outbound[i], "timeout") IN
          /\ d.finished = g.finished /\ d.spans = g.spans
          /\ d.layers = g.layers /\ d.target = g.target
    BY <2>5 DEF f
  <2>9. d \in CallType
    BY <2>5
  <2> QED BY ONLY OutboundInv, i \in DOMAIN outbound, <2>2, <2>6, <2>7, <2>8, <2>9, CallbackStep
<1>4. ASSUME Closes(i) PROVE OutboundInv'
  <2> DEFINE f == Finish(c, "none")
             d == [f EXCEPT !.state = "closed"]
  <2>1. /\ f \in CallType
        /\ f.discarded \/ f.thrown => f.listens = "none"
    <3>1. "none" \in Outcomes
      BY DEF Outcomes
    <3> QED BY <3>1, CallSettled
  <2>2. Becomes(i, d)
    BY <1>4 DEF Closes
  <2> HIDE DEF f
  <2>5. /\ d \in CallType /\ d.finished = f.finished /\ d.spans = f.spans
        /\ d.layers = f.layers /\ d.target = f.target /\ d.listens = f.listens
        /\ d.discarded = f.discarded /\ d.thrown = f.thrown
    BY <2>1 DEF CallType
  <2> HIDE DEF d
  <2>6. "none" \in Outcomes
    BY DEF Outcomes
  <2>7. d.discarded \/ d.thrown => d.listens = "none"
    BY <2>1, <2>5
  <2>8. LET g == Finish(outbound[i], "none") IN
          /\ d.finished = g.finished /\ d.spans = g.spans
          /\ d.layers = g.layers /\ d.target = g.target
    BY <2>5 DEF f
  <2>9. d \in CallType
    BY <2>5
  <2> QED BY ONLY OutboundInv, i \in DOMAIN outbound, <2>2, <2>6, <2>7, <2>8, <2>9, CallbackStep
<1>5. fn' = fn
  BY DEF Answered, NetworkFails, TimesOut, Closes, Becomes
<1> QED BY <1>1, <1>2, <1>3, <1>4, <1>5

LEMMA OutboundStep ==
  ASSUME OutboundInv, [OutboundNext]_outboundVars
  PROVE  OutboundInv' /\ OthersOnFetch(fn["fetch"]) \subseteq OthersOnFetch(fn'["fetch"])
<1>1. ASSUME NEW target \in Targets, Instrument(target)
      PROVE  OutboundInv' /\ OthersOnFetch(fn["fetch"]) \subseteq OthersOnFetch(fn'["fetch"])
  <2>1. outbound' = outbound
    BY <1>1 DEF Instrument
  <2> QED BY <1>1, <2>1, InstrumentStep, CallsUntouched DEF OutboundInv
<1>2. ASSUME NEW target \in Targets, OtherWraps(target)
      PROVE  OutboundInv' /\ OthersOnFetch(fn["fetch"]) \subseteq OthersOnFetch(fn'["fetch"])
  <2>1. outbound' = outbound
    BY <1>2 DEF OtherWraps
  <2> QED BY <1>2, <2>1, OtherWrapsStep, CallsUntouched DEF OutboundInv
<1>3. ASSUME NEW i \in DOMAIN handles, Restore(i)
      PROVE  OutboundInv' /\ OthersOnFetch(fn["fetch"]) \subseteq OthersOnFetch(fn'["fetch"])
  <2>1. outbound' = outbound
    BY <1>3 DEF Restore
  <2> QED BY <1>3, <2>1, RestoreStep, CallsUntouched DEF OutboundInv
<1>4. ASSUME NEW target \in Targets, NEW listens \in {"none", "once", "on"},
             Call(target, listens)
      PROVE  OutboundInv' /\ fn' = fn
  <2>1. fn' = fn
    BY <1>4 DEF Call
  <2> QED BY <1>4, <2>1, CallStep
<1>5. ASSUME NEW i \in DOMAIN outbound,
             \/ \E status \in {"ok", "error"} : Answered(i, status)
             \/ NetworkFails(i) \/ TimesOut(i) \/ Closes(i)
      PROVE  OutboundInv' /\ fn' = fn
  BY <1>5, CallbacksStep
<1>6. CASE UNCHANGED outboundVars
  <2>1. fn' = fn /\ marked' = marked /\ handles' = handles /\ outbound' = outbound
    BY <1>6 DEF outboundVars
  <2>2. ChainsInv'
    BY ONLY OutboundInv, <2>1 DEF OutboundInv, ChainsInv, NoSdk
  <2> QED BY <2>1, <2>2, CallsUntouched
<1>7. CASE OutboundNext
  BY <1>1, <1>2, <1>3, <1>4, <1>5, <1>7 DEF OutboundNext, Targets
<1> QED BY <1>6, <1>7

LEMMA OutboundAlways == OutboundSpec => []OutboundInv
<1>1. OutboundInit => OutboundInv
  BY OutboundStart
<1>2. OutboundInv /\ [OutboundNext]_outboundVars => OutboundInv'
  BY OutboundStep
<1> QED BY <1>1, <1>2, PTL DEF OutboundSpec

(* For any number of patches and calls: a call that has ended has the one  *)
(* span of each wrapper of ours that it went through, and it goes through  *)
(* a second one only if another library wrapped fetch over the first       *)
(* (fetch.ts:112-146, node-http.ts:104-142).                              *)
THEOREM CallsHaveOneSpan == OutboundSpec => []OneSpanPerCall
<1>1. OutboundInv => OneSpanPerCall
  <2> SUFFICES ASSUME OutboundInv, NEW i \in DOMAIN outbound
               PROVE  LET c == outbound[i] IN
                      /\ c.state = "closed" => Len(c.spans) = c.layers
                      /\ Len(c.spans) <= c.layers
                      /\ c.layers > 1 => c.target = "fetch"
                           /\ \E j \in DOMAIN fn["fetch"] : fn["fetch"][j][1] = "other"
    BY DEF OneSpanPerCall
  <2>1. /\ i \in 1 .. Len(outbound) /\ outbound[i] \in CallType
        /\ DOMAIN fn["fetch"] = 1 .. Len(fn["fetch"])
    BY LenProperties, ElementOfSeq DEF OutboundInv, CallsInv, ChainsInv, Targets, Chains
  <2>2. /\ Settled(outbound[i]) /\ outbound[i].layers \in Nat
        /\ outbound[i].state = "closed" =>
             outbound[i].finished \/ outbound[i].layers = 0
        /\ outbound[i].layers > 1 =>
             outbound[i].target = "fetch" /\ OthersOnFetch(fn["fetch"]) # {}
    BY <2>1 DEF OutboundInv, CallsInv, CallType
  <2>3. OthersOnFetch(fn["fetch"]) # {} =>
          \E j \in 1 .. Len(fn["fetch"]) : fn["fetch"][j][1] = "other"
    BY DEF OthersOnFetch
  <2> QED BY <2>1, <2>2, <2>3 DEF Settled
<1> QED BY <1>1, OutboundAlways, PTL

(* ... and whatever the callbacks and their order, a body is discarded and *)
(* an error thrown only for an application that listens for neither        *)
(* (node-http.ts:123-135).                                                 *)
THEOREM ApplicationUndisturbed == OutboundSpec => []Transparent
<1>1. OutboundInv => Transparent
  <2>1. ASSUME OutboundInv, NEW i \in DOMAIN outbound PROVE Settled(outbound[i])
    <3>1. i \in 1 .. Len(outbound)
      BY <2>1, LenProperties DEF OutboundInv, CallsInv
    <3> QED BY <2>1, <3>1 DEF OutboundInv, CallsInv
  <2> QED BY <2>1 DEF Transparent, Settled
<1> QED BY <1>1, OutboundAlways, PTL

(* No step of ours, a restored patch least of all, takes the wrapper of    *)
(* another library off fetch (fetch.ts:151-155).                           *)
THEOREM OthersKeepTheirWrapper == OutboundSpec => OthersStay
<1>1. ASSUME OutboundInv, OutboundInv', [OutboundNext]_outboundVars
      PROVE  [\A n \in 0..MaxPatches :
                <<"other", n>> \in ToSet(fn.fetch) => <<"other", n>> \in ToSet(fn'.fetch)]_fn
  <2> SUFFICES ASSUME NEW n \in 0..MaxPatches, <<"other", n>> \in ToSet(fn.fetch)
               PROVE  <<"other", n>> \in ToSet(fn'.fetch)
    OBVIOUS
  <2>1. /\ DOMAIN fn["fetch"] = 1 .. Len(fn["fetch"])
        /\ DOMAIN fn'["fetch"] = 1 .. Len(fn'["fetch"])
    BY <1>1, LenProperties DEF OutboundInv, ChainsInv, Targets, Chains
  <2>2. n \in Nat
    BY OutboundAssumption
  <2>3. n \in OthersOnFetch(fn["fetch"])
    BY <2>1, <2>2 DEF ToSet, OthersOnFetch
  <2>4. n \in OthersOnFetch(fn'["fetch"])
    BY <1>1, <2>3, OutboundStep
  <2> QED BY <2>1, <2>4 DEF ToSet, OthersOnFetch
<1> QED BY <1>1, OutboundAlways, PTL DEF OthersStay, OutboundSpec
=============================================================================
